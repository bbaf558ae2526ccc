# A TLA+ model of gb28181_client

gb28181_client is a C++ program that plays virtual GB28181 cameras. An HTTP
server creates, starts, stops, changes and deletes devices, which are kept in an
SQLite table. A started device registers with a SIP server. When the server
calls, the device streams an mp4 file over RTP until the server hangs up, the
file ends (playback only), sending fails or the device is stopped.

This directory holds TLA+ specifications of the parts where order and
concurrency matter, the TLC configurations that check them, and proofs checked
by TLAPS. In this text line numbers are those of the files in `src/src/`.

## Inventory

| part | state | operations | interacts with |
|---|---|---|---|
| `main.cpp` | none | boot, serve, end | calls `initFromDB`, then `HttpSession::run` |
| `HttpSession` | the httplib server with its pool of worker threads | one route per operation, upload, video reader | calls `DeviceManager` on a worker |
| `DeviceManager` | `device_map_` (copy-on-write, `map_lock_`) | create, delete, update, start, stop, list, `initFromDB` | `SQLiteUtils`, `GB28181Device`, files |
| `SQLiteUtils` | the table `device_info.db`, `db_mutex_` | one statement per call; an exception is `false` | |
| `GB28181Device` | configuration, `SipClient`, `rtp_client_map_` with `map_lock_` | init, start, close, start and stop of a stream, two notifications that detach a thread | called by HTTP workers, the SIP loop and streaming threads |
| `SipClient` | eXosip context, registration, `caller_param_`, loop thread, detached heartbeat thread | start, close, event loop, `sendBye` | eXosip; calls the device back |
| `RtpClient` | one thread, `is_runing_`, a file, a muxer | start, close, `process` | `NetConnect`; notifies the device |
| `NetConnect` | one descriptor | port search, connect, send, close | sockets |
| `mov-file-buffer.c` | a cache of 800 bytes over a `FILE`, with a position of its own | read, seek (skip), tell; the write path has no caller | `mov_reader` of the vendored libmov |
| `common/TaskQueue` | timed tasks, one thread | start, task, stop | nobody: it is unused |
| the rest | | error texts, logging, singletons, signal handler, web pages, scripts, a test program | |

Threads: the main thread (boots, then accepts connections), HTTP workers, for
each started device a SIP loop and a heartbeat thread, one streaming thread for
each call, and one detached clean-up thread for each stream that ends by itself.

What is hard here, and the property that makes each part correct:

* **RtpClient and GB28181Device.** Three kinds of thread stop streams: the SIP
  loop (the server hung up), a worker in `close()`, and clean-up threads. A
  client must be joined once, by one of them, and never dropped while its
  thread can run; no stream may outlive `close()`; every stop must return.
* **SipClient.** All calls share one `caller_param_`; `close()` takes the
  context away from threads that use it; start, stop and start again meet a
  heartbeat thread that never ends.
* **DeviceManager.** Three copies of the truth (table, map, running threads) are
  changed one after the other, by several workers and with crashes in between;
  they must agree when nothing is in progress, and after a restart.
* **NetConnect.** A descriptor's number is used again by the process as soon as it
  is closed, while an object still keeps it; a port is probed long before it is
  bound; nothing may leak on the many error paths.
* **File cache.** Three positions (the `FILE`'s, the buffer's, `tell`) decide whether
  a seek may be skipped; the reader must not see that there is a cache.

The `hazards` of `PROJECT.json` list these line by line.

## Modules

| module | what it is |
|---|---|
| `PushStreams` | the streams of one device: `GB28181Device`, `RtpClient`, the call events of `SipClient`'s loop, `sendBye`, `close` |
| `StreamLifecycle` | the abstract specification of a client's life that `PushStreams` implements |
| `PushStreamsProofs` | the inductive invariant of `PushStreams`, its consequences and the refinement, proved |
| `MCPushStreams` | instance for TLC (symmetry of clients) |
| `DeviceManager` | the registry: boot, requests on worker threads, the table, crashes and restarts |
| `DeviceRegistry` | the abstract specification of the registry that `DeviceManager` implements |
| `DeviceManagerProofs` | types, use of objects, and agreement of map, table and running clients, proved |
| `DeviceRegistryProofs` | the refinement of `DeviceRegistry`, proved |
| `MCDeviceManager` | instance for TLC (symmetry of workers, devices, objects and ports) |
| `SipClient` | one client's life: start, close, registration, keepalives, and every use of `sip_context_` |
| `SipRegistration` | the abstract specification of a client's registration that `SipClient` implements |
| `SipClientProofs` | its safety properties and the refinement, proved |
| `NetConnect` | descriptors and ports of the media connections over the kernel's table of descriptors |
| `NetConnectProofs` | its safety properties and the action property, proved |
| `MCNetConnect` | instance for TLC (symmetry of calls) |
| `PlainFile` | the abstract specification of a clip's file without a cache, as `mov_reader` uses it |
| `MovFileCache` | `mov-file-buffer.c`, which implements `PlainFile` but for one stated step |
| `MovFileCacheProofs` | its invariants and the refinement, proved |

The modules overlap where components meet: each one takes the others' part as few
steps. `PushStreams` has the call events of the SIP loop and takes connect as one
step that may fail; `NetConnect` has connect step by step and takes the stream as one;
`SipClient` has start and close step by step, which `DeviceManager` takes as one, and
of a call event only that it uses the context and may block.

### PushStreams

`proc[r]` is where `RtpClient::process` is; one action stands for the code
between two points where another thread can make a difference (`Connect`,
`Begin`, `OpenFile`, `LoopTest`, `ReadPacket`, `ReadEnd`, `ReadFail`, `Leave`).
`Begin` is an action of its own because `is_runing_ = true` (rtp_client.cpp:235)
is stored long after the thread was started. `pc[a]` is where a thread that
starts or stops clients is: the SIP loop, the worker in `close()`, and the
clean-up thread of each client. `SetStop` and `Join` are `RtpClient::close`,
used by all three. Each critical section of `map_lock_` is one action;
`onStartPushStream` has two, `Ack` and `Insert`, with the start of the thread
before the second.

`caller_param_` is the INVITE whose parameters are current, `dialogId` the
member of each `CallerParam`. Calls come from the server in any order, and the
ACK of a retransmitted 200 is delivered again (up to `MaxAcks`). How eXosip
reports calls is taken from the events `SipClient` handles.

Each client has the number of its socket (`sock_fd_`), and `owner` says whose socket is
open under a number. A connect that fails closes the socket and keeps the number
(net_connect.cpp:118, 130), and `CloseNumber`, `NetConnect::close`, closes whatever is open
under the number it has, which may be another client's stream by then. So the code does
break what `OpenWhileStreaming` says, and the property states when: once a client whose
connect failed has been closed (`ClosedTwice`). Until then it promises that no close, by
any thread, takes a descriptor from a stream.

Two things in the code may last for ever, and do in the model: a send on TCP to a peer that
reads no more (net_connect.cpp:163 has no timeout; the thread is "blocked"), and the search for a
port while none can be bound (net_connect.cpp:68; the loop is at "search"). Nobody who joins
such a thread goes on.

Left out: RTP packing and muxing (a packet is a count), the contents of SIP
messages, and `close()` being called twice or together with `start()`.

### DeviceManager

The table and the files survive the program; all else is reset by `ProgramEnds`,
which is a crash at any moment, or std::terminate where the code destroys a
`SipClient` whose loop thread was not joined. Every call of `SQLiteUtils` is one
step (it holds `db_mutex_`), so is each look at the map. `insertDevice` and
`deleteDevice` are two steps, `CopyMap` under `map_lock_` and the replacement of
the map, so that the lock is what makes them atomic. An object lives as long as
the map or some worker's snapshot of the map (`held`) refers to it: deleting a
running device ends the program when the last snapshot is dropped, not before.
`sip` is "broken" after a second `start()` of a running client: the bind fails on
its own port, `sip_context_` is null and the thread goes on. The old context is
never released; when the client is closed all the same, the port stays `leaked`.

Any worker may take any request for any device, whatever the others handle, and every
statement may fail. The code does not survive all of that: requests for one device that
overlap leave table, map and client in disagreement (no lock spans the steps of a request), a
query that fails at boot looks like an empty table, and nobody looks at the result of
`modifyDeviceStatus`. Two history variables name these cases and nothing else. `tainted` has the
ids of which two requests were handled at once since the program was started, those whose
rows a boot did not read, and those that have two rows at boot; `stale` has the ids whose last
`modifyDeviceStatus` failed, or which the boot could not start. The properties are stated for
all other ids, whatever happens to these.

A `SipClient`'s start and close are one step each here: their steps are `SipClient`'s
subject, and that `close()` may not return is `PushStreams`'. `DELETE` is stated by
what it does: the rows that stay keep their order (`DeleteRows`). Passwords are kept because
`queryAllDevice` mixes them up; other fields that nothing depends on are left out. `SqlFaults`
names the statements that may fail.

`DeviceRegistry` is what the users of the HTTP interface may rely on: for each id at most one
entry (port and file) on record, the ids recorded as started, what is served, what runs, and
the request of each worker. It has no rows, objects, snapshots or locks. A request takes effect
at most once (`TakesEffect`: the statement that changes the table, or a start that fails), what
is served follows the record (`Apply`, `Publish`), a device runs only after a start or
when the boot finds it recorded as started, a start or stop of a device that is served is
answered only after it was made and recorded, or the recording failed (`Answer`, `Mark`,
`MarkFails`), and the program serves again only when everything
recorded is served (`Serve`). `muddled` and `unsure` are the ids of which this is not promised:
an id gets muddled when a second request comes before the first is answered (`Overlap`) or the
record is not read (`ServeUnread`), and nothing is seen of it until the program is started
again; an unsure one may be recorded as started or not. The mapping is in `DeviceManager`: the
record of an id is the set of entries of its rows (`recordBar`), what is served that of the map
(`servedBar`), and a worker is `done` from its statement on (`doneBar`). So the fifteen places of
a worker become two, and a duplicate row, a row without entry, a lost update of the map, a status
of another device's row, or a boot that skips a row is a step the registry does not have.

### SipClient

Three kinds of thread share `is_running_`, `is_register_` and `sip_context_`: the
caller of `start` and `close` (`pc`), the loop thread that `close` joins (`loop`), and
threads that nobody joins: a heartbeat for each successful start (`hb`), and the
clean-up threads in `sendBye` (`bye`). Every read of `sip_context_` that reaches an
eXosip function is a step of its own; the context of each start is a session
whose life is `ctx`. eXosip's lock is held over several steps by `sendBye` only, so
`holds` says which context's lock a clean-up thread has and `LockFree` guards all
other critical sections. `start` fails before or after the bind (`StartFail`, then
`Quit` and `Clear` as in `close`). `close` sets both flags, joins, unregisters, quits
and clears. `Destroy` is what deleting or updating a closed device does to its client,
whose destructor is empty; detached threads that go on after it stop in the model.

Calls of `start` and `close` come in any order, one at a time. Nothing in `start` looks whether
the client runs: `StartBegin` then overwrites `sip_context_`, the old context is `lost` with
its registration, its port stays bound for ever, so this start and all later ones fail, and
`Clear` nulls the pointer under the loop thread. `SomeLost` names that state. A call event
(`CallEvent`) runs in the device, without eXosip's lock, and may never return.

External are eXosip and the registrar: of eXosip the last transaction of the
registration (`tr`), its retries of a challenged REGISTER (`retry`), the automatic
refresh and the queue of events; of the registrar whether it has a binding (`bound`),
and that it may accept, challenge or refuse a REGISTER, or leave it unanswered. The
401 is where the loop gives eXosip the credentials (`creds`), so the order of events in
the queue and of automatic actions matters. Queries stand for all MESSAGE requests.

Exceptions are stated in the properties because the code has them: a start that found
the client running (`JoinedUseLive` for the loop thread, `RegistersUnlessClosed`), `close()` of a
client that was never started and reads an uninitialised pointer (`JoinedUseLive`), a
REGISTER still unanswered when `close()` comes, which may leave a binding
(`UnregisteredBeforeQuit`), and a call event that blocks the loop for ever (`CloseReturns`).

`SipRegistration` is the same client seen from the registrar: no threads, events, locks or
credentials, only the life of each start's context, whether the client is closed, starting,
failing, open or closing, what the registrar was last asked, and its binding. `clientBar` and
`askedBar` map the caller's place, the flag and eXosip's last transaction to these. Its steps
say what no single property of `SipClient` does: a context is forgotten only by a start of an
open client (`Overwrite`) and no start succeeds after it (`Open`), a start that fails has asked
for nothing (`EndFailed`), no context is released before the last word was taken back or found to
be unanswered (`TakeBack`, `End`), and nothing is asked after that.

### NetConnect

`table` and `bound` are the kernel's: who opened each descriptor, and the port its
socket is bound to. `socket`, `open` and `accept` give the lowest free number.
`sock_fd_` is the number an object keeps, also after `connect()` has failed and closed
it (`GiveUp`); the `Close` that follows closes the number again, which may by then be
another's. `recycled` is a history variable that says this has happened; `HoldersOwn`
holds until then. The rest of the program (HTTP connections, files, eXosip) opens and
closes descriptors as it likes.

The SIP loop finds a port with a TCP probe, step by step: it opens a socket
(`ProbeOpens`), binds it (`ProbeBinds`) or closes it and draws again (`ProbeFails`), and closes it
when the port was free (`allocSocketPort`). Meanwhile the probe holds a descriptor and a port, so it
can fail the bind of another call. The port is bound later by the streaming thread, by TCP or
UDP. Any other program may take a port at any moment and give it back (`PortTaken`, `PortFreed`), and
a TCP connection that this side closes may keep its port for a while (`Lingers`: TIME_WAIT, and
nobody sets SO_REUSEADDR). `outrun` has the calls whose port was taken after their probe. So two
calls can be given one port, and a UDP call one that is in use. That the search ends is
not promised: without a free descriptor it does not, and the loop that searches may be
the thread whose next event would free one.

### MovFileCache

The byte at position p is p, so what a read delivers shows where it came from.
`Read` is `mov_file_cache_read` with its three cases: from the buffer, a direct read of
a large rest, or a fill. `Seek` is skipped when the target is `tell`. The caller is
`mov_reader`: it parses, reading and skipping until the first error, then seeks to a
sample and reads it, again and again, until one cannot be read; its `mov_ioutil_t` keeps an
error until the next seek. That order matters: after a failed direct read the file
is at its end and `tell` is not, so the next seek to that place is skipped although it should
not be. `PlainFile` is the uncached file, which loses no seek. `MovFileCache`
implements it under `pos <- fpos - (len - off)`, except in one step of its own, `SeekIsLost`:
a seek to `tell` after a failed direct read with the file at its end. `IsPlainFile` says that each
step is one of `PlainFile` or that one.

## What is checked

| run | result | shows |
|---|---|---|
| `streams_safety` | passes | `SingleOwner`, `NoOrphanThread`, `OpenWhileStreaming` (up to the second close of a number), `NoStreamOutlivesClose`, `CleanerStopsItsOwn`, the inductive invariant, and that every step is a step of `StreamLifecycle` |
| `streams_live` | passes | a stop that finds the stream in its loop is obeyed, a playback can be joined, `close()` returns when no stream is live, each unless a send or the search for a port blocks a thread for ever; clean-up threads end |
| `stop_lost` | violated | `RtpClient::close` does not always return |
| `bye_wrong` | violated | BYE can go to another call's dialog |
| `manager` | passes | `MapMatchesTable`, `RunningRecorded`, `DuplicatesExplained`, `MapUpdatesKept`, and that every step is a step of `DeviceRegistry`, for any requests of any worker and failures of any statement, of ids that are not tainted |
| `update_running` | violated | a running device can be updated |
| `same_id_twice` | violated | one id can have two rows |
| `login_lost` | violated | a restart changes user name and password |
| `sip_client` | passes | the joined threads use live contexts and none is forgotten but by a start of a running client, `close()` tells the registrar and returns under endless events unless a call event blocks, a client registers through challenges and lost answers, keepalives go on, and every step is a step of `SipRegistration` |
| `context_lost` | violated | a detached thread outlives its client, or gives eXosip a released context |
| `net_connect` | passes | no descriptor leaks, holders of a number hold what they opened (up to the second close of one), a TCP bind fails only for want of a descriptor, for a port taken after its probe, or for another socket of the program |
| `mov_file_cache` | passes | the buffer is the file, `tell` is the position but after a failed direct read, each call does what the uncached file does but for `SeekIsLost` |

The six violated runs are the `findings` of `PROJECT.json`.

**Bounds.** `streams_safety` has a live call and a playback, two clients, files
of one packet and two ACKs per call. Two clients are enough for two calls at
once, for a second client of one call after the first has ended, and for a
clean-up thread that meets a newer client; two ACKs for the duplicate. Two descriptor
numbers are enough for one to be closed under the client that got it after a failed connect.
A longer file adds more turns of the same loop. The proofs have no bounds. `streams_live`
has one client (of either call), without symmetry as liveness needs: what could
keep a stream or a `close()` from ending is in that client's own thread, the
loop and the clean-up thread; `close()` joins one client after the other.

`manager` has two workers, two devices, one port so that devices can disagree about it, one
file, two rows and three objects (two in the map, one in its creation or only in a snapshot).
Any worker may ask for any device, one after the other or at once with the other worker's
request for another device. `Racy` bounds which requests may overlap for one device, or come for a
tainted one: creates and deletes, the requests that change which devices there are. That
two starts and stops overlap taints an id in the same way, so nothing is lost for the properties
but the effect that such ids have on others; the proofs have no such bound. All
statements may fail. Ids, workers, objects and ports are symmetric: they are only compared for equality.

`sip_client` has two starts, so that the second may meet the running client of the first, its
context or its heartbeat, one heartbeat thread (the second start's would do the same),
one clean-up thread, and one automatic retry instead of eXosip's three: what
matters is whether retries are left when the 401 is handled. The queue holds two events
and keeps a place for the registrar's answer, so that queries can come before a 401 and
an answer is never lost for want of space. `net_connect` has two calls, two ports
and three descriptors, of which the rest of the program may take one: with two calls and the
probe they run out. `mov_file_cache` has a file of two fills and a byte, every length of read, and
boxes that lead three bytes behind the end.

**Fairness.** `streams_live` and `stop_lost`: weak fairness of each
streaming thread, each clean-up thread, the SIP loop's own steps and the worker
in `close()`. These are threads of the operating system which nobody suspends; a
join is a step that stays disabled until the thread it waits for has ended. Nothing is
assumed of the server's events, of the network or of the user: a send may block its thread for
ever ("blocked" is a place without a step), and so may the search for a port. `sip_client`: weak
fairness of the caller's steps, the loop, each heartbeat and each `sendBye`, for the
same reason, and of the registrar, which answers all but `MaxLost` requests; strong
fairness of `Refresh`, because a registration's age only grows while the loop looks at it
again and again. Nothing is assumed of queries, of the handlers of call events and of the user.
The safety runs and `net_connect` assume no fairness.

**Stops of the system.** `Finished` is the step of a device whose `close()` has
returned and whose threads have ended, or where somebody is blocked for ever, `Rest` that of a
client that was destroyed or whose loop is blocked; any
other state without a successor is reported as a deadlock. The other modules can
always go on.

## What is proved

### Streams of a device

`PushStreamsProofs` proves for any number of calls, clients, packets and ACKs,
from the assumptions `NamesDistinct` and `BoundsNat` alone:

* `Invariance`: `IInv` is an invariant, and with it `TypeCorrect`, `OneOwner`,
  `NoneOrphaned`, `DescriptorOpen`, `OwnClientOnly` and `CloseStopsAll`, the
  safety properties of `streams_safety`;
* `Refinement`: `PushStreams` implements `StreamLifecycle`.

The properties are not inductive. The argument goes in four steps. First,
`HandIff` and `HeldIffActive` tie the places that can hold a client (map, a
thread's local variable, `close()`'s copy) to the threads' counters and to the
client's own thread: a client is held exactly from its start to its join, so
`SingleOwner` survives every hand-over. Second, `InsertFree` and `ClosePhases`
order the three kinds of thread: only the loop fills entries, and it has ended
when `close()` takes the map. Third, `OneUnsearched` says that, while a call is up,
a client whose clean-up thread has not searched yet is the one its call's entry
holds or will hold. That is why a clean-up thread, which knows only a Call-ID,
never stops a newer client, although the entry may be inserted after the search. Fourth,
`OwnNumber`: a client whose connect did not fail owns its number until it is joined, because
only a `close()` of a client whose connect failed can close a number that is not its own.
The proof has one lemma per group of actions and per conjunct they disturb.

### The registry

`DeviceManagerProofs` has two invariants. `Base` needs no assumption but `Pools` and
`NamesDistinct`, which say that the model's special values are special: types, where
each worker can be (`InPlace`), that `map_lock_` is held from the copy to the
replacement and the copy is the map (`Locked`), what is left outside the serving phase
(`Quiet`), that what map and snapshots refer to is alive and each object is in the map
under its own id (`Alive`), and that a worker's snapshot keeps its target alive
(`TargetHeld`). It gives `TypeCorrect` and, whoever asks for what:

* `TargetsStayAlive`: a worker of `deviceStart`, `deviceStop` or `deviceUpdate` has a
  live object under its request's id until it answers, although another worker may delete
  the device or create it anew meanwhile (the snapshot of `getDeviceMap`);
* `NoLostUpdate`: no step of the serving program changes two entries of the map, so
  `insertDevice` and `deleteDevice` undo nothing of each other (`WorkerWritesOwn`: a
  worker writes the entry of its own id, because its copy is still the map).

`Agreement` is the argument for `MapMatches`, `RecordsKept` and
`DuplicatesOnlyByOverlap`. None of these is inductive: during a request table and map differ.
`SoleUser` says that two requests at once name different ids unless these are tainted.
`Stage` says for each place of a request how far they have come (for a create after
its `INSERT`: no object yet, and the rows of the id are those asked for; for a stop
before its `UPDATE`: the client is idle); `ServedAgree`
says that they agree on every id that no request names; `BootAgree` says the same of the
rows that the boot has come to; `Singles` that an id which is not tainted has one row at most.
All of this is about ids that are not tainted, so the proof needs that a step, also one of a
request for a tainted id, touches the rows and the
object of its own id only (`SameRows`, `SameObject`), one frame lemma for `Agree` and
one for `Stage`, then one lemma for each action; `DownAgree` carries the tainted ids from a boot
that read no rows over the next end of the program. The theorems have no assumption on
who asks for what, on failing statements or on the moment at which the program ends;
ids, workers, objects and rows are any.

`DeviceRegistryProofs` proves `RegistryKept`, that `DeviceManager` implements
`DeviceRegistry`, for any requests and failures. It needs both invariants: `Base` for
the objects (a new one is not yet in the map, a reply spares what others refer to) and
`Agreement` for the steps whose guard in the registry speaks of the record (`Answer` requires
that what is served is what a crash would bring back, `Mark` that the device does what is
recorded), and of the
history: an overlap or an unread table makes an id muddled in the registry too. There is one lemma for what each statement does to the record of every id
(`INSERT`, `DELETE` and the two `UPDATE`s), and one for each action.

### A SIP client

`SipClientProofs` proves `TypeCorrect`, `JoinedThreadsUseLive`, `ContextsReleased`,
`BindingIsDropped` and `RegistrationKept` from `BoundsNat` and `PointersDistinct`, for calls of
`start` and `close` in any order. The invariant adds what the
caller's place says of the context (`ContextByPhase`), that the loop thread is there only
with a live context and while the caller is in no call or joins it, as long as no start overwrote
one (`LoopInside`), that after such a start there is no registration and no start succeeds
(`LostByPhase`), and what the caller's place says of the registration (`RegistrationByPhase`):
whenever `close()` comes to the unregistration there is a registration to remove, answered or not.
The refinement of `SipRegistration` needs two parts more: contexts of later starts do not
exist yet (`LaterUnused`), and the flag tells a failed start from a `close()` when either comes
to `eXosip_quit` (`FlagByPhase`). With these each action maps to a step of the registration,
and heartbeats, clean-up threads, queries and call events to stutters (`SilentRegistration`).

### Media connections

`NetConnectProofs` proves `TypeCorrect`, `NothingLeaks`, `OwnDescriptors` and
`BindsFailOnlyIfOutrun`. The invariant adds that the loop has a socket and a port while it
probes and probes for one call (`LoopProbes`, `LoopSearches`), that the port found was bound by
the probe's socket (`ProbeBound`), that a port which is taken when its call comes to the bind was
taken since the probe (`PortFound`), that what is bound is the probe's socket or that of a
call past its bind (`BoundByHolder`), one socket for each TCP port (`OneSocket`), and that a call
which has not come to its socket has no number left from an earlier one (`NoNumberYet`). The lowest
free number exists because the order of Nat is well-founded.

### The file cache

`MovFileCacheProofs` proves `TypeCorrect`, `BufferHoldsFile`, `TellIsPosition` and
`Refinement` for any size of file and cache. The invariant adds the order of the three
positions (`Order`), what each byte left in the buffer is (`Contents`), and where the
positions may disagree: with an empty buffer, at the file's end, after a failed direct
read (`Disagreement`). With these each read, skip and seek maps to one of `PlainFile`, but for
the seek `SeekIsLost`.

### Only model-checked

All liveness (fairness and ENABLED are outside TLAPS). Every safety property
and every refinement that a passing run checks is proved. The other way round, `TargetsAlive`
is proved and not checked by a run: it is about a delete that overlaps another request for the
same device, which `Racy` leaves out of `manager` for requests other than creates and deletes.

## Plan

Finished parts are marked.

1. `PushStreams` with `StreamLifecycle`, runs and proofs. *Done.*
2. `DeviceManager`, run and proofs. *Done,* with the abstract registry.
3. `SipClient`: threads, registration, the use of `sip_context_`, runs and proofs. *Done,*
   with the abstract registration that it implements.
4. `NetConnect` with reusable numbers, run and proofs. *Done.*
5. `MovFileCache` and `PlainFile`, run and proofs. *Done.*
6. Composition of `DeviceManager`, `PushStreams` and `SipClient`: the lifetime of a
   device against threads that keep a raw `this`. *Partly:* `SipClient` has it for its
   own detached threads (`Destroy`, `DetachedUseLive`).
7. Left of the proofs: nothing that is checked. `MapMatches`, `RecordsKept`, `DuplicatesOnlyByOverlap`
   and `RegistryKept` hold for any requests of any worker, for the ids whose requests do not overlap.
8. What becomes of a tainted id: the table and map of two overlapping creates, or of a start
   that overlaps a stop, up to the next restart (`same_id_twice` shows the first).

## Not modelled

* `TaskQueue` has no user in the program.
* Sending: `sendPacket` changes no state of the program; that it may fail or block is in
  `PushStreams`, short sends and the framing of packets are data.
* The cache's write path, which no caller reaches, and the boxes of an mp4 file.
* A second `close()` of one `SipClient` at the same time, and `close()` together with `start()`: two
  overlapping requests of one device. `DeviceManager` has them as single steps.
* Requests that only read (`deviceList`, the video reader), paging, option and ini files,
  parsing (JSON, XML, SDP), logging, error texts, singletons, the web pages.
* The supervisor scripts: a restart is `Boot`.
* The vendored libraries (SQLite, eXosip, httplib, pugixml, spdlog, libmov, libmpeg), which
  are most of the repository's lines: of eXosip and libmov, what the program relies on
  is modelled as external steps.
