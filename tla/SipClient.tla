---- MODULE SipClient ----
(***************************************************************************)
(* SipClient: registration, keepalives, and who uses sip_context_ when.    *)
(* The model covers the object's whole life: starts that fail, running,    *)
(* closing, and starting again.                                            *)
(*                                                                         *)
(* Threads.  The caller is the HTTP worker (or main) that executes start   *)
(* and close, one call at a time and in any order: a start may find the    *)
(* client running (what calls of two workers do to each other is           *)
(* DeviceManager's subject).  The loop thread is joined by close.  A       *)
(* heartbeat thread for each successful start and the clean-up threads     *)
(* that call sendBye are detached: nobody joins them, and nobody keeps the *)
(* object while they run.                                                  *)
(*                                                                         *)
(* eXosip and the registrar are external: of eXosip, the registration's    *)
(* last transaction, the queue of events and the automatic action are      *)
(* modelled, for the context that sip_context_ points to; a context that a *)
(* start overwrote keeps its port, and nobody reads its events.  Of a call *)
(* event the model has that its handler uses sip_context_ and may block    *)
(* for ever; what it does is PushStreams' subject.  Every read of          *)
(* sip_context_ that reaches an eXosip function is a step of its own (what *)
(* follows from a context that is not live is not modelled: the thread     *)
(* goes on as if the function had failed).                                 *)
(***************************************************************************)
EXTENDS Naturals, Sequences

CONSTANTS
    MaxStarts,  \* calls of start() (a bound)
    Beaters,    \* heartbeat threads; the starts after these have none (a bound)
    Byers,      \* clean-up threads, each used once (a bound)
    MaxEvents,  \* events in eXosip's queue (a bound)
    MaxLost,    \* REGISTERs that stay unanswered or are refused (a bound)
    MaxRetries, \* times eXosip tries a challenged REGISTER again by itself (3)
    Null,       \* a null sip_context_
    Wild        \* a sip_context_ that was never initialised and is not null

Sessions == 1 .. MaxStarts

ASSUME BoundsNat == MaxStarts \in Nat /\ MaxEvents \in Nat \ {0} /\ MaxLost \in Nat /\ MaxRetries \in Nat
ASSUME PointersDistinct == Null \notin Sessions /\ Wild \notin Sessions /\ Null # Wild

VARIABLES
    \* SipClient
    is_running_, is_register_,
    alive,        \* the object exists
    sip_context_, \* the session whose context it points to, Null or Wild
    ctx,          \* the eXosip context of each session: "none", "live", "quit", or
                  \* "lost": not released, and no pointer to it is left
    started,      \* the last session
    pc,           \* the caller
    loop,         \* loop_th_; "none" if not joinable
    evt,          \* the event the loop thread has in hand
    hb,           \* the heartbeat threads
    bye,          \* the clean-up threads, in sendBye
    holds,        \* the context whose lock a clean-up thread holds
    \* eXosip and the registrar
    events,       \* the queue read by eXosip_event_wait
    tr,           \* the registration's last transaction
    creds,        \* the authentication info was added
    retry,        \* r_retry of the registration
    bound,        \* the registrar has a binding for the device
    stray,        \* a REGISTER of a lost context is unanswered
    lost          \* REGISTERs unanswered or refused, answers to challenges not built

clientVars == <<is_running_, is_register_, alive>>
ctxVars    == <<sip_context_, ctx, started>>
loopVars   == <<loop, evt>>
threadVars == <<hb, bye, holds>>
regVars    == <<tr, creds, retry, bound, stray, lost>>
vars == <<clientVars, ctxVars, pc, loopVars, threadVars, events, regVars>>

\* The constructor leaves sip_context_ uninitialised.
Init ==
    /\ is_running_ = FALSE
    /\ is_register_ = FALSE
    /\ alive = TRUE
    /\ sip_context_ \in {Null, Wild}
    /\ ctx = [s \in Sessions |-> "none"]
    /\ started = 0
    /\ pc = "idle"
    /\ loop = "none"
    /\ evt = "none"
    /\ hb = [h \in Beaters |-> "none"]
    /\ bye = [b \in Byers |-> "none"]
    /\ holds = [b \in Byers |-> Null]
    /\ events = <<>>
    /\ tr = "none"
    /\ creds = FALSE
    /\ retry = 0
    /\ bound = FALSE
    /\ stray = FALSE
    /\ lost = 0

----
(***************************************************************************)
(* The context and its lock.                                               *)
(***************************************************************************)
Live(c) == c \in Sessions /\ ctx[c] = "live"

SomeLost == \E s \in Sessions : ctx[s] = "lost"

\* eXosip_lock does not wait.  Only sendBye does other things while it holds
\* the lock; the other critical sections are one step each.
LockFree == \A b \in Byers : Live(sip_context_) => holds[b] # sip_context_

----
(***************************************************************************)
(* start and close, on the caller's thread.                                *)
(***************************************************************************)
Unanswered == tr \in {"asked", "proved"}

\* eXosip_malloc.  Nothing looks whether the client runs: its context is then
\* overwritten, with its queue and its registration.
StartBegin ==
    /\ alive
    /\ pc = "idle"
    /\ started < MaxStarts
    /\ started' = started + 1
    /\ is_running_' = TRUE
    /\ sip_context_' = started'
    /\ ctx' = [s \in Sessions |-> IF s = started' THEN "live"
                                  ELSE IF s = sip_context_ /\ Live(s) THEN "lost" ELSE ctx[s]]
    /\ events' = <<>>
    /\ tr' = "none"
    /\ creds' = FALSE
    /\ retry' = 0
    /\ stray' = (stray \/ Unanswered)
    /\ pc' = "start"
    /\ UNCHANGED <<is_register_, alive, loopVars, threadVars, bound, lost>>

\* A failing start that forgets the context instead of releasing it.
StartFailWithoutQuit ==
    /\ pc = "start"
    /\ pc' = "clear"
    /\ UNCHANGED <<clientVars, ctxVars, loopVars, threadVars, events, regVars>>

\* A start that fails after its REGISTER was sent.
StartFailRegistered ==
    /\ pc = "start"
    /\ tr' = "asked"
    /\ pc' = "quit"
    /\ UNCHANGED <<clientVars, ctxVars, loopVars, threadVars, events, creds, retry, bound, stray, lost>>

\* eXosip_init, the bind or the first REGISTER's construction failed.
StartFail ==
    /\ pc = "start"
    /\ pc' = "quit"
    /\ UNCHANGED <<clientVars, ctxVars, loopVars, threadVars, events, regVars>>

NewHeartbeat ==
    \/ \E h \in Beaters : hb[h] = "none" /\ hb' = [hb EXCEPT ![h] = "look"]
    \/ (\A h \in Beaters : hb[h] # "none") /\ UNCHANGED hb

\* The authentication info is cleared, the first REGISTER sent, both threads
\* are started.  A lost context has the local port for ever, which eXosip binds
\* without SO_REUSEADDR: the start of a client that runs fails.
StartRegister ==
    /\ pc = "start"
    /\ ~ SomeLost
    /\ creds' = FALSE
    /\ tr' = "asked"
    /\ retry' = 0
    /\ loop' = "test"
    /\ NewHeartbeat
    /\ pc' = "idle"
    /\ UNCHANGED <<clientVars, ctxVars, evt, bye, holds, events, bound, stray, lost>>

CloseBegin ==
    /\ alive
    /\ pc = "idle"
    /\ is_register_' = FALSE
    /\ is_running_' = FALSE
    /\ pc' = "join"
    /\ UNCHANGED <<alive, ctxVars, loopVars, threadVars, events, regVars>>

AfterJoin == IF sip_context_ = Null THEN "idle" ELSE "unregister"

\* close() without the join.
CloseWithoutJoin ==
    /\ pc = "join"
    /\ pc' = AfterJoin
    /\ UNCHANGED <<clientVars, ctxVars, loopVars, threadVars, events, regVars>>

\* if (loop_th_.joinable()) loop_th_.join();
CloseJoin ==
    /\ pc = "join"
    /\ loop \in {"none", "exit"}
    /\ loop' = "none"
    /\ pc' = AfterJoin
    /\ UNCHANGED <<clientVars, ctxVars, evt, threadVars, events, regVars>>

\* eXosip refuses to build and to send a REGISTER while another is unanswered.
AfterRemove ==
    CASE tr \in {"ok", "401", "failed"} -> "bye"
      [] Unanswered -> "left"
      [] OTHER -> tr

\* A close() that unregisters only if it believes to be registered.
UnregisterIfRegistered ==
    /\ pc = "unregister"
    /\ LockFree
    /\ tr' = IF is_register_ THEN AfterRemove ELSE tr
    /\ pc' = "quit"
    /\ UNCHANGED <<clientVars, ctxVars, loopVars, threadVars, events>>
    /\ UNCHANGED <<creds, retry, bound, stray, lost>>

\* Under the lock: the unregistration, whose failure is only logged; then the
\* registration is removed, and a REGISTER under way with it.
Unregister ==
    /\ pc = "unregister"
    /\ LockFree
    /\ tr' = AfterRemove
    /\ pc' = "quit"
    /\ UNCHANGED <<clientVars, ctxVars, loopVars, threadVars, events>>
    /\ UNCHANGED <<creds, retry, bound, stray, lost>>

\* eXosip_quit, in close() and in a failed start: the events, the credentials and
\* the registration go with the context; a request under way may reach the
\* registrar or may not.
Quit ==
    /\ pc = "quit"
    /\ ctx' = [s \in Sessions |-> IF s = sip_context_ THEN "quit" ELSE ctx[s]]
    /\ events' = <<>>
    /\ tr' = "none"
    /\ creds' = FALSE
    /\ retry' = 0
    /\ bound' \in {bound} \cup (IF tr = "left" THEN {TRUE} ELSE {})
                          \cup (IF tr = "bye" THEN {FALSE} ELSE {})
    /\ pc' = "clear"
    /\ UNCHANGED <<clientVars, sip_context_, started, loopVars, threadVars>>
    /\ UNCHANGED <<stray, lost>>

\* sip_context_ = nullptr
Clear ==
    /\ pc = "clear"
    /\ sip_context_' = Null
    /\ pc' = "idle"
    /\ UNCHANGED <<clientVars, ctx, started, loopVars, threadVars, events, regVars>>

\* A request deletes or replaces a device that does not run, and with it the client,
\* whose destructor is empty.  What its detached threads do next is undefined: here
\* they stop.
Destroy ==
    /\ alive
    /\ pc = "idle"
    /\ loop = "none"
    /\ alive' = FALSE
    /\ UNCHANGED <<is_running_, is_register_, ctxVars, pc, loopVars, threadVars>>
    /\ UNCHANGED <<events, regVars>>

CallerStep == StartFail \/ StartRegister \/ CloseJoin \/ Unregister \/ Quit \/ Clear

----
(***************************************************************************)
(* processRequest, on the loop thread.                                     *)
(***************************************************************************)
\* eXosip_event_wait: the oldest event, or none after 100 ms.
EventWait ==
    IF events = <<>>
    THEN evt' = "none" /\ UNCHANGED events
    ELSE evt' = Head(events) /\ events' = Tail(events)

\* A loop that takes all events before it looks at the flag.
LoopWhileEvents ==
    /\ loop = "test"
    /\ \/ /\ is_running_ \/ events # <<>>
          /\ EventWait
          /\ loop' = "auto"
       \/ /\ ~ is_running_ /\ events = <<>>
          /\ loop' = "exit"
          /\ UNCHANGED <<evt, events>>
    /\ UNCHANGED <<clientVars, ctxVars, pc, threadVars, regVars>>

\* while (is_running_), and the wait for an event
LoopTest ==
    /\ loop = "test"
    /\ \/ /\ is_running_
          /\ EventWait
          /\ loop' = "auto"
       \/ /\ ~ is_running_
          /\ loop' = "exit"
          /\ UNCHANGED <<evt, events>>
    /\ UNCHANGED <<clientVars, ctxVars, pc, threadVars, regVars>>

\* eXosip_automatic_action has three outcomes, under the lock.  The answer to a
\* challenge needs the credentials; without them the REGISTER goes out as it was.
Resend == tr' = IF tr = "401" /\ creds THEN "proved" ELSE "asked"

AfterAction == IF evt = "none" THEN "test" ELSE "handle"

Automatic ==
    /\ loop = "auto"
    /\ LockFree
    /\ loop' = AfterAction
    /\ UNCHANGED <<clientVars, ctxVars, pc, evt, threadVars, events, creds, bound, stray, lost>>

\* A registration is refreshed when it is old: two minutes after a failure, a
\* quarter of an hour after a success.
Refresh ==
    /\ Automatic
    /\ tr \in {"ok", "401", "failed"}
    /\ Resend
    /\ UNCHANGED retry

\* A registration that is tried again for ever.
RetryForever ==
    /\ Automatic
    /\ tr = "401"
    /\ Resend
    /\ retry' = retry + 1

\* A challenged registration is tried again, MaxRetries times.
Retry ==
    /\ Automatic
    /\ tr = "401"
    /\ retry < MaxRetries
    /\ Resend
    /\ retry' = retry + 1

NothingToDo ==
    /\ Automatic
    /\ ~ (tr = "401" /\ retry < MaxRetries)
    /\ UNCHANGED <<tr, retry>>

AutomaticAction == Refresh \/ Retry \/ NothingToDo

\* A 401 that is only logged.
RegistrationFailureLogged ==
    /\ evt \in {"401", "failed"}
    /\ UNCHANGED <<is_register_, creds, lost>>

\* is_register_ = true
RegistrationSuccess ==
    /\ evt = "ok"
    /\ is_register_' = TRUE
    /\ UNCHANGED <<creds, lost>>

\* A 401 makes the credentials known, unless eXosip_add_authentication_info
\* fails; that and any other failure is only logged, and is_register_ stays as
\* it is.
RegistrationFailure ==
    /\ evt \in {"401", "failed"}
    /\ \/ creds' = (creds \/ evt = "401") /\ UNCHANGED lost
       \/ evt = "401" /\ lost < MaxLost /\ lost' = lost + 1 /\ UNCHANGED creds
    /\ UNCHANGED is_register_

\* The 200 and the response to a query, both through sip_context_.
MessageNew ==
    /\ evt = "query"
    /\ LockFree
    /\ UNCHANGED <<is_register_, creds, lost>>

HandleEvent ==
    /\ loop = "handle"
    /\ RegistrationSuccess \/ RegistrationFailure \/ MessageNew
    /\ evt' = "none"
    /\ loop' = "test"
    /\ UNCHANGED <<is_running_, alive, ctxVars, pc, threadVars, events, tr, retry, bound, stray>>

\* CALL_INVITE, CALL_ACK or CALL_CLOSED: without the lock, and into the device,
\* where an INVITE may look for a port for ever and a CLOSED waits for a stream.
\* The handler returns, or it never does.
CallEvent ==
    /\ loop = "handle"
    /\ evt = "call"
    /\ evt' = "none"
    /\ loop' \in {"test", "blocked"}
    /\ UNCHANGED <<clientVars, ctxVars, pc, threadVars, events, regVars>>

processRequest == LoopTest \/ AutomaticAction \/ HandleEvent \/ CallEvent

----
(***************************************************************************)
(* heartbeatTask, on a thread h that a start detached.                     *)
(***************************************************************************)
\* A heartbeat that ends when it finds the client not registered.
HeartbeatLookOnce(h) ==
    /\ hb[h] = "look"
    /\ hb' = [hb EXCEPT ![h] = IF is_register_ THEN "build" ELSE "none"]
    /\ UNCHANGED <<clientVars, ctxVars, pc, loopVars, bye, holds, events, regVars>>

\* while (true): is_register_ is looked at every 60 s.
HeartbeatLook(h) ==
    /\ hb[h] = "look"
    /\ is_register_
    /\ hb' = [hb EXCEPT ![h] = "build"]
    /\ UNCHANGED <<clientVars, ctxVars, pc, loopVars, bye, holds, events, regVars>>

\* createMsg, without the lock
HeartbeatBuild(h) ==
    /\ hb[h] = "build"
    /\ hb' = [hb EXCEPT ![h] = IF Live(sip_context_) THEN "send" ELSE "look"]
    /\ UNCHANGED <<clientVars, ctxVars, pc, loopVars, bye, holds, events, regVars>>

\* sendRequest, then sleep_for(60 s)
HeartbeatSend(h) ==
    /\ hb[h] = "send"
    /\ LockFree
    /\ hb' = [hb EXCEPT ![h] = "look"]
    /\ UNCHANGED <<clientVars, ctxVars, pc, loopVars, bye, holds, events, regVars>>

heartbeatTask(h) == alive /\ (HeartbeatLook(h) \/ HeartbeatBuild(h) \/ HeartbeatSend(h))

----
(***************************************************************************)
(* sendBye, on a detached clean-up thread b.                               *)
(***************************************************************************)
\* if (!sip_context_) return;  The clean-up thread of a playback gets here at any
\* time after a start that succeeded.
ByeCheck(b) ==
    /\ bye[b] = "none"
    /\ \E h \in Beaters : hb[h] # "none"
    /\ bye' = [bye EXCEPT ![b] = IF sip_context_ = Null THEN "done" ELSE "lock"]
    /\ UNCHANGED <<clientVars, ctxVars, pc, loopVars, hb, holds, events, regVars>>

ByeLock(b) ==
    /\ bye[b] = "lock"
    /\ LockFree
    /\ holds' = [holds EXCEPT ![b] = IF Live(sip_context_) THEN sip_context_ ELSE Null]
    /\ bye' = [bye EXCEPT ![b] = "send"]
    /\ UNCHANGED <<clientVars, ctxVars, pc, loopVars, hb, events, regVars>>

\* The request is built and sent, and the lock released.
ByeSend(b) ==
    /\ bye[b] = "send"
    /\ holds' = [holds EXCEPT ![b] = Null]
    /\ bye' = [bye EXCEPT ![b] = "done"]
    /\ UNCHANGED <<clientVars, ctxVars, pc, loopVars, hb, events, regVars>>

sendBye(b) == alive /\ (ByeLock(b) \/ ByeSend(b))

----
(***************************************************************************)
(* eXosip's own thread and the registrar.                                  *)
(***************************************************************************)
Report(e) == events' = Append(events, e)

Accept ==
    /\ Unanswered
    /\ tr' = "ok"
    /\ bound' = TRUE
    /\ retry' = 0
    /\ Report("ok")
    /\ UNCHANGED lost

Challenge ==
    /\ tr = "asked"
    /\ tr' = "401"
    /\ Report("401")
    /\ UNCHANGED <<bound, retry, lost>>

\* No answer in time, or a refusal; the binding may have been made.
NoAnswer ==
    /\ Unanswered
    /\ lost < MaxLost
    /\ lost' = lost + 1
    /\ tr' = "failed"
    /\ bound' \in {bound, TRUE}
    /\ Report("failed")
    /\ UNCHANGED retry

\* The unregistration arrives, or the REGISTER that close() left behind.
Arrive ==
    /\ \/ tr = "bye" /\ tr' = "over" /\ bound' = FALSE
       \/ tr = "left" /\ ~ bound /\ bound' = TRUE /\ UNCHANGED tr
    /\ UNCHANGED <<events, retry, lost>>

Registrar ==
    /\ Len(events) < MaxEvents
    /\ Accept \/ Challenge \/ NoAnswer \/ Arrive
    /\ UNCHANGED <<clientVars, ctxVars, pc, loopVars, threadVars, creds, stray>>

\* The server sends a MESSAGE to a device it knows, or something of a call.  It
\* comes to the context that has the port.  The bound of the queue keeps a place
\* for the registrar's answer, which eXosip's queue would never refuse.
Query ==
    /\ bound
    /\ Live(sip_context_)
    /\ ~ SomeLost
    /\ Len(events) + 1 < MaxEvents
    /\ Report("query") \/ Report("call")
    /\ UNCHANGED <<clientVars, ctxVars, pc, loopVars, threadVars, regVars>>

\* The REGISTER of a context that was overwritten reaches the registrar, or not.
StrayAnswered ==
    /\ stray
    /\ stray' = FALSE
    /\ bound' \in {bound, TRUE}
    /\ UNCHANGED <<clientVars, ctxVars, pc, loopVars, threadVars, events, tr, creds, retry, lost>>

\* Nothing happens to a client that was destroyed, or whose loop is blocked.
Rest == (~ alive \/ loop = "blocked") /\ UNCHANGED vars

Next ==
    \/ StartBegin \/ CloseBegin \/ Destroy \/ CallerStep
    \/ processRequest
    \/ \E h \in Beaters : heartbeatTask(h)
    \/ \E b \in Byers : (alive /\ ByeCheck(b)) \/ sendBye(b)
    \/ Registrar \/ StrayAnswered \/ Query \/ Rest

Spec == Init /\ [][Next]_vars

\* Threads that can run do, a registration grows old in the end (SF: the loop
\* looks again and again), and the registrar answers all but MaxLost requests.
\* Nothing is assumed of the server's queries and calls and of the user.
Fairness ==
    /\ WF_vars(CallerStep)
    /\ WF_vars(processRequest)
    /\ \A h \in Beaters : WF_vars(heartbeatTask(h))
    /\ \A b \in Byers : WF_vars(sendBye(b))
    /\ WF_vars(Registrar)
    /\ SF_vars(Refresh)

FairSpec == Spec /\ Fairness

----
(***************************************************************************)
(* Properties.                                                             *)
(***************************************************************************)
TypeOK ==
    /\ is_running_ \in BOOLEAN
    /\ is_register_ \in BOOLEAN
    /\ alive \in BOOLEAN
    /\ sip_context_ \in Sessions \cup {Null, Wild}
    /\ ctx \in [Sessions -> {"none", "live", "quit", "lost"}]
    /\ started \in 0 .. MaxStarts
    /\ pc \in {"idle", "start", "join", "unregister", "quit", "clear"}
    /\ loop \in {"none", "test", "auto", "handle", "blocked", "exit"}
    /\ evt \in {"none", "ok", "401", "failed", "query", "call"}
    /\ hb \in [Beaters -> {"none", "look", "build", "send"}]
    /\ bye \in [Byers -> {"none", "lock", "send", "done"}]
    /\ holds \in [Byers -> Sessions \cup {Null}]
    /\ events \in Seq({"ok", "401", "failed", "query", "call"})
    /\ Len(events) <= MaxEvents
    /\ tr \in {"none", "asked", "proved", "ok", "401", "failed", "bye", "left", "over"}
    /\ creds \in BOOLEAN
    /\ retry \in 0 .. MaxRetries
    /\ bound \in BOOLEAN
    /\ stray \in BOOLEAN
    /\ lost \in 0 .. MaxLost

\* As long as no start found the client running, the loop thread never hands
\* eXosip a context that is null or was released: close() joins it before it
\* quits, whatever event the loop is at, a call's included.  (A start that found
\* it running failed, or will, and nulls the pointer under the loop.)  The caller
\* never does either, but for close() of a client that was never started, whose
\* sip_context_ is uninitialised.
JoinedUseLive ==
    /\ (loop = "test" /\ is_running_) \/ loop \in {"auto", "handle", "blocked"} =>
          Live(sip_context_) \/ SomeLost
    /\ pc \in {"start", "unregister", "quit"} => Live(sip_context_) \/ started = 0

\* No failing start and no close forgets a context, and with it the bound port:
\* but for those that a start of a running client overwrote, a context is the one
\* that sip_context_ points to, and between calls it has a loop thread.
NoContextLeak ==
    \A s \in Sessions : ctx[s] = "live" =>
        /\ sip_context_ = s
        /\ pc = "idle" => loop # "none"

\* When close() is about to release the context, a registrar that has a binding
\* for the device is being told to drop it, whatever close() did to is_register_
\* before.  The exception is a REGISTER still unanswered when close() comes: then
\* eXosip refuses the unregistration, and the binding may stay.  (A client whose
\* context a start overwrote does not come here: its close() finds a null pointer.)
UnregisteredBeforeQuit ==
    pc = "quit" /\ ~ is_running_ /\ bound => tr \in {"bye", "left"}

\* close() returns, however many events the server keeps sending and whoever
\* holds the context's lock, unless the handler of a call event blocks the loop
\* thread, which it joins, for ever.
CloseReturns == (pc = "join") ~> (pc = "idle" \/ loop = "blocked")

\* A started client registers, though challenged, though queries use up eXosip's
\* retries before the loop comes to the challenge, unless it is closed first, its
\* context is overwritten by another start, or a call event blocks the loop.
RegistersUnlessClosed ==
    (loop = "test" /\ is_running_) ~>
        (is_register_ \/ ~ is_running_ \/ SomeLost \/ loop = "blocked")

\* A client that stays registered and is not closed keeps sending keepalives.
KeepalivesGoOn ==
    <>[](is_register_ /\ Live(sip_context_)) => []<>(\E h \in Beaters : hb[h] = "send")

----
(***************************************************************************)
(* The refinement: the client keeps the promises of SipRegistration.       *)
(***************************************************************************)
\* What the client does with the context that sip_context_ points to.
phaseBar ==
    CASE pc = "start" -> "starting"
      [] pc # "start" /\ ~ is_running_ -> "closing"
      [] pc = "quit" /\ is_running_ -> "failing"
      [] OTHER -> "open"

clientBar == IF Live(sip_context_) THEN phaseBar ELSE "closed"

askedBar ==
    CASE tr = "none" -> "nothing"
      [] Unanswered -> "pending"
      [] tr \in {"ok", "401", "failed"} -> "answered"
      [] tr = "bye" -> "drop"
      [] tr = "left" -> "left"
      [] tr = "over" -> "dropped"

Registration == INSTANCE SipRegistration WITH life <- ctx, client <- clientBar, asked <- askedBar

\* Whatever the threads, the queue and the retries do, each step is one of one
\* registration: only a start of an open client forgets a context, and after it no
\* start succeeds; a failed start asks for nothing; close() takes the last word
\* back before eXosip_quit.
KeepsRegistration == Registration!Spec

----
(***************************************************************************)
(* What sip_client.cpp's log texts and checks say, and the code breaks.    *)
(***************************************************************************)
\* The threads that nobody joins find the object they keep a pointer to, and hand
\* eXosip live contexts only.
DetachedUseLive ==
    /\ ~ alive => (\A h \in Beaters : hb[h] = "none") /\ (\A b \in Byers : bye[b] \in {"none", "done"})
    /\ \A h \in Beaters : hb[h] \in {"build", "send"} => Live(sip_context_)
    /\ \A b \in Byers : bye[b] \in {"lock", "send"} => Live(sip_context_)
====
