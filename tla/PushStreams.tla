---- MODULE PushStreams ----
(***************************************************************************)
(* The media side of one started device: GB28181Device (the map of         *)
(* RtpClients and the detached clean-up threads), RtpClient (one streaming *)
(* thread each) and the part of the SIP loop that starts and stops them    *)
(* (SipClient::processRequest, the INVITE, ACK and CLOSED events, and      *)
(* sendBye).  The model covers one session, from a device that runs to     *)
(* GB28181Device::close having returned.                                   *)
(*                                                                         *)
(* Threads.  Loop is the SIP event loop, Http the worker that executes     *)
(* close, every client r in Clients has a streaming thread (proc) and at   *)
(* most one detached clean-up thread, which is named r as well: a          *)
(* streaming thread starts it in its last iteration.                       *)
(*                                                                         *)
(* A call c stands for one INVITE: its Call-ID, its eXosip dialog and the  *)
(* CallerParam object built for it (a re-INVITE is another event, which    *)
(* the loop ignores).  Clients is the pool of RtpClient objects, each used *)
(* once.                                                                   *)
(***************************************************************************)
EXTENDS Naturals

CONSTANTS
    Calls,       \* Call-IDs
    Playback,    \* the calls whose INVITE says s=Playback; the others are live
    Clients,     \* RtpClient objects that may be allocated (a bound)
    NoCall,      \* no CallerParam, or a dialogId of -1
    NoClient,    \* a null shared_ptr<RtpClient>
    Fds, NoFd,   \* descriptor numbers that sockets may get (a bound), and -1
    Loop, Http,  \* the SIP loop thread and the thread inside close()
    FilePackets, \* packets in the video file (a bound)
    MaxAcks      \* CALL_ACK events per call: the ACK of a retransmitted 200 is
                 \* an event of its own (a bound)

ASSUME NamesDistinct ==
    /\ Playback \subseteq Calls
    /\ NoCall \notin Calls
    /\ NoClient \notin Clients
    /\ NoFd \notin Fds
    /\ Loop \notin Clients
    /\ Http \notin Clients
    /\ Loop # Http

ASSUME BoundsNat ==
    /\ FilePackets \in Nat \ {0}
    /\ MaxAcks \in Nat

VARIABLES
    \* SipClient
    is_running_,    \* the loop's flag
    sip_context_,   \* TRUE while the eXosip context exists
    caller_param_,  \* the CallerParam of the last INVITE, shared by all calls
    dialogId,       \* CallerParam::dialogId of each INVITE, by the call it names
    \* the peers of the loop: the server's calls, as eXosip reports them
    dialog,         \* "new", "answered" (200 sent) or "over"
    acks,           \* CALL_ACK events delivered
    \* GB28181Device
    rtp_client_map_,
    \* RtpClient
    call_id_, rtp_param_, is_runing_,
    proc,           \* where process() is; "joined" after process_th_.join()
    left,           \* packets up to the end of the file
    sock_fd_,       \* NetConnect's descriptor number
    owner,          \* the client whose socket is open under each number
    failed,         \* the clients whose connect failed (a history variable)
    \* the threads that start and stop clients
    pc,             \* their program counters
    hand,           \* the RtpClient in a thread's local variable
    drain,          \* close(): the part of its copy of the map still to be closed
    byeTo,          \* the dialogId captured by a clean-up thread
    byes            \* BYE requests sent

sipVars    == <<is_running_, sip_context_>>
callVars   == <<caller_param_, dialogId, dialog, acks>>
clientVars == <<call_id_, rtp_param_>>
sockVars   == <<sock_fd_, owner, failed>>
procVars   == <<is_runing_, proc, left, sockVars>>
deviceVars == <<rtp_client_map_, hand, drain>>
byeVars    == <<byeTo, byes>>
vars == <<sipVars, callVars, clientVars, procVars, deviceVars, byeVars, pc>>

Actors == Clients \cup {Loop, Http}

\* Where process() may be.  "begin" is between connect and is_runing_ = true,
\* "blocked" in a send() on TCP whose peer reads no more.
ProcStates == {"unborn", "connect", "begin", "open", "loop", "read", "blocked", "leave", "exit", "joined"}
ConnectedStates == {"begin", "open", "loop", "read", "blocked", "leave"}

\* "search" is an allocSocketPort that finds no port.
LoopStates    == {"check", "wait", "search", "insert", "flag", "join", "exit"}
HttpStates    == {"idle", "joinloop", "take", "drain", "flag", "join", "done"}
CleanerStates == {"none", "find", "flag", "join", "bye", "done"}
PcStates(a) == IF a = Loop THEN LoopStates ELSE IF a = Http THEN HttpStates ELSE CleanerStates

Init ==
    /\ is_running_ = TRUE
    /\ sip_context_ = TRUE
    /\ caller_param_ = NoCall
    /\ dialogId = [c \in Calls |-> NoCall]
    /\ dialog = [c \in Calls |-> "new"]
    /\ acks = [c \in Calls |-> 0]
    /\ rtp_client_map_ = [c \in Calls |-> NoClient]
    /\ call_id_ = [r \in Clients |-> NoCall]
    /\ rtp_param_ = [r \in Clients |-> NoCall]
    /\ is_runing_ = [r \in Clients |-> FALSE]
    /\ proc = [r \in Clients |-> "unborn"]
    /\ left = [r \in Clients |-> 0]
    /\ sock_fd_ = [r \in Clients |-> NoFd]
    /\ owner = [f \in Fds |-> NoClient]
    /\ failed = {}
    /\ pc = [a \in Actors |-> IF a = Loop THEN "check" ELSE IF a = Http THEN "idle" ELSE "none"]
    /\ hand = [a \in Actors |-> NoClient]
    /\ drain = {}
    /\ byeTo = [r \in Clients |-> NoCall]
    /\ byes = {}

Goto(a, to) == pc' = [pc EXCEPT ![a] = to]
ProcGoto(r, to) == proc' = [proc EXCEPT ![r] = to]

----
(***************************************************************************)
(* RtpClient::process, the streaming thread.                               *)
(***************************************************************************)

\* socket(): a number that is free.
FreeFd(f) == f \in Fds /\ owner[f] = NoClient

\* net_connect_->connect.  A failure ends the thread without telling anybody; the
\* socket is closed again, but sock_fd_ keeps its number (-1 if socket() failed).
Connect(r) ==
    /\ proc[r] = "connect"
    /\ \/ /\ \E f \in Fds : /\ FreeFd(f)
                           /\ sock_fd_' = [sock_fd_ EXCEPT ![r] = f]
                           /\ owner' = [owner EXCEPT ![f] = r]
          /\ ProcGoto(r, "begin")
          /\ UNCHANGED failed
       \/ /\ \E f \in Fds \cup {NoFd} : /\ f = NoFd \/ FreeFd(f)
                                      /\ sock_fd_' = [sock_fd_ EXCEPT ![r] = f]
          /\ failed' = failed \cup {r}
          /\ ProcGoto(r, "exit")
          /\ UNCHANGED owner
    /\ UNCHANGED <<sipVars, callVars, clientVars, is_runing_, left, deviceVars, byeVars, pc>>

\* is_runing_ = true: it is stored after connect, whatever close() stored before.
Begin(r) ==
    /\ proc[r] = "begin"
    /\ is_runing_' = [is_runing_ EXCEPT ![r] = TRUE]
    /\ ProcGoto(r, "open")
    /\ UNCHANGED <<sipVars, callVars, clientVars, left, sockVars, deviceVars, byeVars, pc>>

\* fopen and mov_reader_create.
OpenFile(r) ==
    /\ proc[r] = "open"
    /\ \/ /\ left' = [left EXCEPT ![r] = FilePackets]
          /\ ProcGoto(r, "loop")
       \/ /\ ProcGoto(r, "exit")
          /\ UNCHANGED left
    /\ UNCHANGED <<sipVars, callVars, clientVars, is_runing_, sockVars, deviceVars, byeVars, pc>>

\* A loop that looks at the flag only at the start would be this one.
LoopTestIgnoringStop(r) ==
    /\ proc[r] = "loop"
    /\ ProcGoto(r, "read")
    /\ UNCHANGED <<sipVars, callVars, clientVars, is_runing_, left, sockVars, deviceVars, byeVars, pc>>

\* while (is_runing_)
LoopTest(r) ==
    /\ proc[r] = "loop"
    /\ ProcGoto(r, IF is_runing_[r] THEN "read" ELSE "leave")
    /\ UNCHANGED <<sipVars, callVars, clientVars, is_runing_, left, sockVars, deviceVars, byeVars, pc>>

\* onNetConnectError and onPlaybackComplete: a detached thread for call_id_;
\* only the latter has a dialog to send BYE to.
Notify(r, did) ==
    /\ Goto(r, "find")
    /\ byeTo' = [byeTo EXCEPT ![r] = did]

\* A read that goes on at the end of the file.
ReadPacketPastEnd(r) ==
    /\ proc[r] = "read"
    /\ left' = [left EXCEPT ![r] = @ - 1]
    /\ ProcGoto(r, "loop")
    /\ UNCHANGED <<sipVars, callVars, clientVars, is_runing_, sockVars, deviceVars, byeVars, pc>>

\* A frame was read; it is muxed, packed and sent, or the send fails, or it never
\* returns: a TCP peer that reads no more blocks it, for there is no timeout.
ReadPacket(r) ==
    /\ proc[r] = "read"
    /\ left[r] > 0
    /\ left' = [left EXCEPT ![r] = @ - 1]
    /\ \/ /\ ProcGoto(r, "loop")
          /\ UNCHANGED <<pc, byeTo>>
       \/ /\ Notify(r, NoCall)
          /\ ProcGoto(r, "leave")
       \/ /\ ProcGoto(r, "blocked")
          /\ UNCHANGED <<pc, byeTo>>
    /\ UNCHANGED <<sipVars, callVars, clientVars, is_runing_, sockVars, deviceVars, byes>>

\* A playback that starts over like a live stream instead of ending.
ReadEndLooping(r) ==
    /\ proc[r] = "read"
    /\ left[r] = 0
    /\ left' = [left EXCEPT ![r] = FilePackets]
    /\ ProcGoto(r, "loop")
    /\ UNCHANGED <<sipVars, callVars, clientVars, is_runing_, sockVars, deviceVars, byeVars, pc>>

\* End of the file: a playback completes, a live stream seeks back to 0.
ReadEnd(r) ==
    /\ proc[r] = "read"
    /\ left[r] = 0
    /\ \/ /\ rtp_param_[r] \in Playback
          /\ Notify(r, dialogId[rtp_param_[r]])
          /\ ProcGoto(r, "leave")
          /\ UNCHANGED left
       \/ /\ rtp_param_[r] \notin Playback
          /\ left' = [left EXCEPT ![r] = FilePackets]
          /\ ProcGoto(r, "loop")
          /\ UNCHANGED <<pc, byeTo>>
    /\ UNCHANGED <<sipVars, callVars, clientVars, is_runing_, sockVars, deviceVars, byes>>

\* mov_reader_read2 < 0: the loop is left, nobody is told.
ReadFail(r) ==
    /\ proc[r] = "read"
    /\ ProcGoto(r, "leave")
    /\ UNCHANGED <<sipVars, callVars, clientVars, is_runing_, left, sockVars, deviceVars, byeVars, pc>>

\* After the loop: the reader, the muxer, the encoder and the file are released.
Leave(r) ==
    /\ proc[r] = "leave"
    /\ ProcGoto(r, "exit")
    /\ left' = [left EXCEPT ![r] = 0]
    /\ UNCHANGED <<sipVars, callVars, clientVars, is_runing_, sockVars, deviceVars, byeVars, pc>>

process(r) ==
    \/ Connect(r) \/ Begin(r) \/ OpenFile(r) \/ LoopTest(r)
    \/ ReadPacket(r) \/ ReadEnd(r) \/ ReadFail(r) \/ Leave(r)

----
(***************************************************************************)
(* RtpClient::close on the client in the hand of thread a, and what the    *)
(* caller goes on with.                                                    *)
(***************************************************************************)
AfterClose(a) ==
    CASE a = Loop -> "check"
      [] a = Http -> "drain"
      [] OTHER    -> IF byeTo[a] = NoCall THEN "done" ELSE "bye"

\* is_runing_ = false
SetStop(a) ==
    /\ pc[a] = "flag"
    /\ is_runing_' = [is_runing_ EXCEPT ![hand[a]] = FALSE]
    /\ Goto(a, "join")
    /\ UNCHANGED <<sipVars, callVars, clientVars, proc, left, sockVars, deviceVars, byeVars>>

\* NetConnect::close: it closes whatever is open under the number it has.
CloseNumber(r) ==
    /\ owner' = [f \in Fds |-> IF f = sock_fd_[r] THEN NoClient ELSE owner[f]]
    /\ sock_fd_' = [sock_fd_ EXCEPT ![r] = NoFd]
    /\ UNCHANGED failed

\* The descriptor closed under the streaming thread, then the join.
JoinAfterShut(a) ==
    /\ pc[a] = "join"
    /\ \/ /\ sock_fd_[hand[a]] # NoFd
          /\ CloseNumber(hand[a])
          /\ UNCHANGED <<proc, hand, pc>>
       \/ /\ sock_fd_[hand[a]] = NoFd
          /\ proc[hand[a]] = "exit"
          /\ proc' = [proc EXCEPT ![hand[a]] = "joined"]
          /\ hand' = [hand EXCEPT ![a] = NoClient]
          /\ Goto(a, AfterClose(a))
          /\ UNCHANGED sockVars
    /\ UNCHANGED <<sipVars, callVars, clientVars, is_runing_, left, rtp_client_map_, drain, byeVars>>

\* process_th_.join(), then net_connect_->close()
Join(a) ==
    /\ pc[a] = "join"
    /\ proc[hand[a]] = "exit"
    /\ proc' = [proc EXCEPT ![hand[a]] = "joined"]
    /\ CloseNumber(hand[a])
    /\ hand' = [hand EXCEPT ![a] = NoClient]
    /\ Goto(a, AfterClose(a))
    /\ UNCHANGED <<sipVars, callVars, clientVars, is_runing_, left, rtp_client_map_, drain, byeVars>>

\* onStopPushStream that looks the client up and leaves it in the map.
StopWithoutErase(a, c) ==
    LET r == rtp_client_map_[c] IN
    /\ \/ /\ r # NoClient
          /\ hand' = [hand EXCEPT ![a] = r]
          /\ Goto(a, "flag")
       \/ /\ r = NoClient
          /\ Goto(a, AfterClose(a))
          /\ UNCHANGED hand
    /\ UNCHANGED <<rtp_client_map_, drain>>

\* GB28181Device::onStopPushStream executed by thread a, up to RtpClient::close.
onStopPushStream(a, c) ==
    LET r == rtp_client_map_[c] IN
    /\ \/ /\ r # NoClient
          /\ rtp_client_map_' = [rtp_client_map_ EXCEPT ![c] = NoClient]
          /\ hand' = [hand EXCEPT ![a] = r]
          /\ Goto(a, "flag")
       \/ /\ r = NoClient
          /\ Goto(a, AfterClose(a))
          /\ UNCHANGED <<rtp_client_map_, hand>>
    /\ UNCHANGED drain

----
(***************************************************************************)
(* The detached clean-up thread of client r.                               *)
(***************************************************************************)
\* A clean-up thread that tries again until it finds its client.
CleanFindRetrying(r) ==
    /\ pc[r] = "find"
    /\ \/ /\ rtp_client_map_[call_id_[r]] # NoClient
          /\ onStopPushStream(r, call_id_[r])
          /\ UNCHANGED <<sipVars, callVars, clientVars, procVars, byeVars>>
       \/ /\ rtp_client_map_[call_id_[r]] = NoClient
          /\ UNCHANGED vars

CleanFind(r) ==
    /\ pc[r] = "find"
    /\ onStopPushStream(r, call_id_[r])
    /\ UNCHANGED <<sipVars, callVars, clientVars, procVars, byeVars>>

\* sendBye: dropped without a context, or when eXosip knows no such dialog.  The
\* thread and what it captured end with it.
sendBye(r) ==
    /\ pc[r] = "bye"
    /\ byes' = IF sip_context_ /\ dialog[byeTo[r]] = "answered"
               THEN byes \cup {[client |-> r, did |-> byeTo[r]]}
               ELSE byes
    /\ byeTo' = [byeTo EXCEPT ![r] = NoCall]
    /\ Goto(r, "done")
    /\ UNCHANGED <<sipVars, callVars, clientVars, procVars, deviceVars>>

----
(***************************************************************************)
(* SipClient::processRequest: the loop and its call events.                *)
(***************************************************************************)
\* while (is_running_)
LoopCheck ==
    /\ pc[Loop] = "check"
    /\ Goto(Loop, IF is_running_ THEN "wait" ELSE "exit")
    /\ UNCHANGED <<sipVars, callVars, clientVars, procVars, deviceVars, byeVars>>

\* eXosip_event_wait timed out, or the event starts and stops no stream (a
\* message, an answer, a registration result, an INVITE refused for its SDP).
NoEvent ==
    /\ pc[Loop] = "wait"
    /\ Goto(Loop, "check")
    /\ UNCHANGED <<sipVars, callVars, clientVars, procVars, deviceVars, byeVars>>

\* CALL_INVITE: caller_param_ is replaced, then the call is answered; building
\* the answer fails when the transaction is gone, and then no ACK will come.
Invite(c) ==
    /\ pc[Loop] = "wait"
    /\ dialog[c] = "new"
    /\ caller_param_' = c
    /\ \E d \in {"answered", "over"} : dialog' = [dialog EXCEPT ![c] = d]
    /\ Goto(Loop, "check")
    /\ UNCHANGED <<sipVars, dialogId, acks, clientVars, procVars, deviceVars, byeVars>>

\* CALL_INVITE: allocSocketPort looks for a port before anything else, and does not
\* end as long as it finds none.  (A search that ends is a part of Invite.)
InviteSearch(c) ==
    /\ pc[Loop] = "wait"
    /\ dialog[c] = "new"
    /\ Goto(Loop, "search")
    /\ UNCHANGED <<sipVars, callVars, clientVars, procVars, deviceVars, byeVars>>

\* onStartPushStream up to the started thread: client r for call c.
StartPushStream(r, c) ==
    /\ proc[r] = "unborn"
    /\ ProcGoto(r, "connect")
    /\ call_id_' = [call_id_ EXCEPT ![r] = c]
    /\ rtp_param_' = [rtp_param_ EXCEPT ![r] = caller_param_]
    /\ hand' = [hand EXCEPT ![Loop] = r]
    /\ Goto(Loop, "insert")
    /\ UNCHANGED <<rtp_client_map_, drain, is_runing_, left, sockVars>>

\* CALL_ACK without the test for a call that already streams.
AckUnchecked(c) ==
    /\ pc[Loop] = "wait"
    /\ dialog[c] = "answered"
    /\ acks[c] < MaxAcks
    /\ acks' = [acks EXCEPT ![c] = @ + 1]
    /\ dialogId' = [dialogId EXCEPT ![caller_param_] = c]
    /\ \E r \in Clients : StartPushStream(r, c)
    /\ UNCHANGED <<sipVars, caller_param_, dialog, byeVars>>

\* CALL_ACK for call c: the dialog id goes into the shared caller_param_, and a
\* call that is not in the map starts streaming with that caller_param_.
Ack(c) ==
    /\ pc[Loop] = "wait"
    /\ dialog[c] = "answered"
    /\ acks[c] < MaxAcks
    /\ acks' = [acks EXCEPT ![c] = @ + 1]
    /\ dialogId' = [dialogId EXCEPT ![caller_param_] = c]
    /\ \/ /\ rtp_client_map_[c] = NoClient
          /\ \E r \in Clients : StartPushStream(r, c)
       \/ /\ rtp_client_map_[c] # NoClient
          /\ Goto(Loop, "check")
          /\ UNCHANGED <<clientVars, procVars, deviceVars>>
    /\ UNCHANGED <<sipVars, caller_param_, dialog, byeVars>>

\* The second critical section of onStartPushStream.
Insert ==
    /\ pc[Loop] = "insert"
    /\ rtp_client_map_' = [rtp_client_map_ EXCEPT ![call_id_[hand[Loop]]] = hand[Loop]]
    /\ hand' = [hand EXCEPT ![Loop] = NoClient]
    /\ Goto(Loop, "check")
    /\ UNCHANGED <<sipVars, callVars, clientVars, procVars, drain, byeVars>>

\* CALL_CLOSED: the server's BYE ends the dialog and the stream.  (The CLOSED
\* event of a call whose ACK never came carries no request and hence no Call-ID;
\* such a call has no stream.)
Closed(c) ==
    /\ pc[Loop] = "wait"
    /\ dialog[c] = "answered"
    /\ dialog' = [dialog EXCEPT ![c] = "over"]
    /\ onStopPushStream(Loop, c)
    /\ UNCHANGED <<sipVars, caller_param_, dialogId, acks, clientVars, procVars, byeVars>>

CallEvent == \E c \in Calls : Invite(c) \/ InviteSearch(c) \/ Ack(c) \/ Closed(c)

\* What the loop does of itself: it never waits for the server.
LoopStep == LoopCheck \/ NoEvent \/ Insert \/ SetStop(Loop) \/ Join(Loop)

----
(***************************************************************************)
(* GB28181Device::close on an HTTP worker (with SipClient::close).         *)
(***************************************************************************)
CloseBegin ==
    /\ pc[Http] = "idle"
    /\ is_running_' = FALSE
    /\ Goto(Http, "joinloop")
    /\ UNCHANGED <<sip_context_, callVars, clientVars, procVars, deviceVars, byeVars>>

\* The context released without waiting for the loop thread.
CloseSipWithoutJoin ==
    /\ pc[Http] = "joinloop"
    /\ sip_context_' = FALSE
    /\ Goto(Http, "take")
    /\ UNCHANGED <<is_running_, callVars, clientVars, procVars, deviceVars, byeVars>>

\* loop_th_.join(), the unregistration, eXosip_quit, sip_context_ = nullptr
CloseSip ==
    /\ pc[Http] = "joinloop"
    /\ pc[Loop] = "exit"
    /\ sip_context_' = FALSE
    /\ Goto(Http, "take")
    /\ UNCHANGED <<is_running_, callVars, clientVars, procVars, deviceVars, byeVars>>

\* The map copied but not cleared.
TakeMapWithoutClear ==
    /\ pc[Http] = "take"
    /\ drain' = {rtp_client_map_[c] : c \in Calls} \ {NoClient}
    /\ Goto(Http, "drain")
    /\ UNCHANGED <<sipVars, callVars, clientVars, procVars, rtp_client_map_, hand, byeVars>>

\* Under map_lock_: the map is copied and cleared.
TakeMap ==
    /\ pc[Http] = "take"
    /\ drain' = {rtp_client_map_[c] : c \in Calls} \ {NoClient}
    /\ rtp_client_map_' = [c \in Calls |-> NoClient]
    /\ Goto(Http, "drain")
    /\ UNCHANGED <<sipVars, callVars, clientVars, procVars, hand, byeVars>>

\* for (auto[key, value] : *mapPtr) value->close();
DrainNext ==
    /\ pc[Http] = "drain"
    /\ \/ \E r \in drain :
             /\ drain' = drain \ {r}
             /\ hand' = [hand EXCEPT ![Http] = r]
             /\ Goto(Http, "flag")
       \/ /\ drain = {}
          /\ Goto(Http, "done")
          /\ UNCHANGED <<drain, hand>>
    /\ UNCHANGED <<sipVars, callVars, clientVars, procVars, rtp_client_map_, byeVars>>

close == CloseSip \/ TakeMap \/ DrainNext \/ SetStop(Http) \/ Join(Http)

cleaner(r) == CleanFind(r) \/ SetStop(r) \/ Join(r) \/ sendBye(r)

BlockedIn(R) == \E r \in R : proc[r] = "blocked"

\* Nothing is left to do once close has returned and the detached threads ended,
\* or where everybody waits for a thread that is blocked for ever.
Finished ==
    /\ \/ pc[Http] = "done" /\ \A r \in Clients : pc[r] \in {"none", "done"}
       \/ BlockedIn(Clients) \/ pc[Loop] = "search"
    /\ UNCHANGED vars

Next ==
    \/ \E r \in Clients : process(r) \/ cleaner(r)
    \/ LoopStep
    \/ CallEvent
    \/ CloseBegin
    \/ close
    \/ Finished

Spec == Init /\ [][Next]_vars

\* The scheduler runs every thread that can run.  Nothing is assumed of the
\* server's events, of the user's request to close, and of the network: a send on
\* TCP or the search for a port may block its thread for ever.
Fairness ==
    /\ \A r \in Clients : WF_vars(process(r)) /\ WF_vars(cleaner(r))
    /\ WF_vars(LoopStep)
    /\ WF_vars(close)

FairSpec == Spec /\ Fairness

----
(***************************************************************************)
(* Properties.                                                             *)
(***************************************************************************)
TypeOK ==
    /\ is_running_ \in BOOLEAN
    /\ sip_context_ \in BOOLEAN
    /\ caller_param_ \in Calls \cup {NoCall}
    /\ dialogId \in [Calls -> Calls \cup {NoCall}]
    /\ dialog \in [Calls -> {"new", "answered", "over"}]
    /\ acks \in [Calls -> 0 .. MaxAcks]
    /\ rtp_client_map_ \in [Calls -> Clients \cup {NoClient}]
    /\ call_id_ \in [Clients -> Calls \cup {NoCall}]
    /\ rtp_param_ \in [Clients -> Calls \cup {NoCall}]
    /\ is_runing_ \in [Clients -> BOOLEAN]
    /\ proc \in [Clients -> ProcStates]
    /\ left \in [Clients -> 0 .. FilePackets]
    /\ sock_fd_ \in [Clients -> Fds \cup {NoFd}]
    /\ owner \in [Fds -> Clients \cup {NoClient}]
    /\ failed \in SUBSET Clients
    /\ pc \in [Actors -> LoopStates \cup HttpStates \cup CleanerStates]
    /\ \A a \in Actors : pc[a] \in PcStates(a)
    /\ hand \in [Actors -> Clients \cup {NoClient}]
    /\ drain \in SUBSET Clients
    /\ byeTo \in [Clients -> Calls \cup {NoCall}]
    /\ byes \in SUBSET [client : Clients, did : Calls]

InMap(r)   == \E c \in Calls : rtp_client_map_[c] = r
InHand(r)  == \E a \in Actors : hand[a] = r
InDrain(r) == r \in drain

\* A client is in at most one place: one entry of the map, one thread's local
\* variable, or the list close() still has to work off.  So RtpClient::close,
\* which joins a std::thread and closes a descriptor, is never entered twice
\* for one client, by whichever of the three threads that stop clients.
SingleOwner ==
    /\ \A c, d \in Calls :
          rtp_client_map_[c] # NoClient /\ rtp_client_map_[c] = rtp_client_map_[d] => c = d
    /\ \A a, b \in Actors : hand[a] # NoClient /\ hand[a] = hand[b] => a = b
    /\ \A r \in Clients :
          /\ ~ (InMap(r) /\ InHand(r))
          /\ ~ (InMap(r) /\ InDrain(r))
          /\ ~ (InHand(r) /\ InDrain(r))

\* A client whose thread was started and not joined is held somewhere: were its
\* last shared_ptr dropped, ~RtpClient would destroy a joinable std::thread,
\* which terminates the program.  An entry of the map that is overwritten, or a
\* client that is in no copy of the map, would do that.
NoOrphanThread ==
    \A r \in Clients :
        proc[r] \notin {"unborn", "joined"} => InMap(r) \/ InHand(r) \/ InDrain(r)

Owns(r) == sock_fd_[r] \in Fds /\ owner[sock_fd_[r]] = r

\* The second close of a number: a client was closed whose connect had failed.
ClosedTwice == \E q \in failed : proc[q] = "joined"

\* The descriptor is open, and its own, as long as the streaming thread may send on
\* it: no client's close, whichever thread executes it, takes another's away.  The
\* exception is the code's: RtpClient::close of a client whose connect failed closes
\* the number it kept a second time, which may be another's by then (and so may be
\* the number of a client that lost its own in this way).
OpenWhileStreaming ==
    \A r \in Clients : proc[r] \in ConnectedStates => Owns(r) \/ ClosedTwice

\* Once close() has returned, no client is left in the map and no thread of the
\* device streams; a clean-up thread may still be joining one that has left its
\* loop.
NoStreamOutlivesClose ==
    pc[Http] = "done" =>
        /\ \A c \in Calls : rtp_client_map_[c] = NoClient
        /\ \A r \in Clients : proc[r] \in {"unborn", "leave", "exit", "joined"}

\* A clean-up thread that stops a client stops the one it was started for, not
\* a later client of the same call.
CleanerStopsItsOwn ==
    \A r \in Clients : hand[r] \in {r, NoClient}

----
(***************************************************************************)
(* The inductive invariant: what makes the properties above hold.          *)
(***************************************************************************)
Started(r) == proc[r] # "unborn"
Active(r)  == proc[r] \notin {"unborn", "joined"}

\* A thread has a client in its hand exactly while it starts or stops one.
HandIff == \A a \in Actors : hand[a] # NoClient <=> pc[a] \in {"insert", "flag", "join"}

\* The clients held somewhere are those with a thread that must be joined.
HeldIffActive == \A r \in Clients : InMap(r) \/ InHand(r) \/ InDrain(r) <=> Active(r)

\* A client stands under its own call, and knows it and its INVITE.
Keyed ==
    /\ \A c \in Calls : rtp_client_map_[c] # NoClient => call_id_[rtp_client_map_[c]] = c
    /\ \A r \in Clients : Started(r) => call_id_[r] \in Calls /\ rtp_param_[r] \in Calls

\* Until the first second close, a client that is connected and not closed has its
\* number for itself; one whose connect failed is at its end.
OwnNumber ==
    /\ \A r \in Clients : proc[r] \in ConnectedStates \cup {"exit"} /\ r \notin failed => Owns(r) \/ ClosedTwice
    /\ \A r \in failed : proc[r] \in {"exit", "joined"}

\* An INVITE comes before its ACK.
Invited == \A c \in Calls : dialog[c] = "answered" => caller_param_ # NoCall

\* The entry that onStartPushStream will fill stays free, from its first critical
\* section to its second: only the loop thread fills entries.
InsertFree ==
    pc[Loop] = "insert" => rtp_client_map_[call_id_[hand[Loop]]] = NoClient

\* The phases of close().
ClosePhases ==
    /\ pc[Http] \in {"take", "drain", "flag", "join", "done"} => pc[Loop] = "exit"
    /\ pc[Http] \in {"drain", "flag", "join", "done"} =>
          \A c \in Calls : rtp_client_map_[c] = NoClient
    /\ drain # {} => pc[Http] \in {"drain", "flag", "join"}

\* A clean-up thread exists only for a stream that has left its loop.
CleanerAfterLoop ==
    \A r \in Clients : pc[r] # "none" => proc[r] \in {"leave", "exit", "joined"}

\* BYE is sent for a playback only, whose completion captured a dialog.
ByeHasDialog == \A r \in Clients : pc[r] = "bye" => byeTo[r] # NoCall

\* A client whose clean-up thread has not searched the map yet.
Unsearched(r) == Started(r) /\ pc[r] \in {"none", "find"}

\* While a call is up, such a client is in the map or about to be put there; it
\* is the only one of its call that the clean-up thread could find.
OneUnsearched ==
    \A r \in Clients : Unsearched(r) =>
        /\ dialog[call_id_[r]] # "new"
        /\ rtp_client_map_[call_id_[r]] \in {r, NoClient}
        /\ dialog[call_id_[r]] = "answered" /\ pc[Loop] # "exit" =>
              rtp_client_map_[call_id_[r]] = r \/ (pc[Loop] = "insert" /\ hand[Loop] = r)
        /\ pc[Loop] = "insert" /\ call_id_[r] = call_id_[hand[Loop]] => hand[Loop] = r

IInv ==
    /\ TypeOK
    /\ HandIff /\ HeldIffActive /\ Keyed /\ Invited /\ InsertFree /\ SingleOwner
    /\ OpenWhileStreaming /\ OwnNumber
    /\ ClosePhases
    /\ ByeHasDialog
    /\ CleanerAfterLoop /\ OneUnsearched /\ CleanerStopsItsOwn

----
(***************************************************************************)
(* The refinement: this device keeps the promises of StreamLifecycle.      *)
(***************************************************************************)
InStop(r) == \E a \in Actors : hand[a] = r /\ pc[a] \in {"flag", "join"}

lifeBar ==
    [r \in Clients |->
        CASE proc[r] = "unborn" -> "new"
          [] proc[r] = "joined" -> "closed"
          [] OTHER -> IF InStop(r) THEN "stopping" ELSE "owned"]

deviceBar == IF pc[Http] = "done" THEN "shut" ELSE "open"

Lifecycle == INSTANCE StreamLifecycle WITH life <- lifeBar, device <- deviceBar

\* Every step of the threads is one step of a client's life, or none.
KeepsLifecycle == Lifecycle!Spec

----
(***************************************************************************)
(* Statements of the source's comments and logs that the code breaks, and  *)
(* the liveness properties.                                                *)
(***************************************************************************)
\* Every BYE ends the dialog of the call whose playback completed.
ByeMatchesCall ==
    \A b \in byes : b.did = call_id_[b.client]

\* onPlaybackComplete: first the client is closed and removed, then BYE is sent.
ByeAfterRemoval ==
    \A b \in byes : proc[b.client] = "joined" /\ ~ InMap(b.client)

\* A stop that reaches a stream in its loop is obeyed, although the clip of a
\* live stream never ends and the loop sleeps and sends between two looks at
\* the flag, unless a send on TCP blocks the thread for ever.
StopObeyedInLoop ==
    \A r \in Clients :
        (proc[r] \in {"loop", "read"} /\ ~ is_runing_[r]) ~> (proc[r] \in {"exit", "joined", "blocked"})

BeingJoined(r) == \E a \in Actors : pc[a] = "join" /\ hand[a] = r

\* RtpClient::close on a playback returns, whoever calls it and whenever: the
\* clip ends even if the stop came too early to be seen, unless a send on TCP blocks
\* the thread for ever.
PlaybackStopReturns ==
    \A r \in Clients :
        (BeingJoined(r) /\ rtp_param_[r] \in Playback) ~> (proc[r] \in {"joined", "blocked"})

\* A clean-up thread comes to its end: it never waits for the thread that
\* started it, nor for the thread inside GB28181Device::close.
CleanerFinishes ==
    \A r \in Clients : (pc[r] = "find") ~> (pc[r] = "done")

LiveStreams == {r \in Clients : rtp_param_[r] \in Calls \ Playback}

\* GB28181Device::close returns, if no stream is live: the SIP loop thread ends,
\* also when it is in the middle of stopping a stream, and so does every stream,
\* unless a send on TCP, or the search for a port, blocks one of them for ever.
CloseReturnsWithoutLive ==
    [](LiveStreams = {}) =>
        ((pc[Http] = "joinloop") ~> (pc[Http] = "done" \/ BlockedIn(Clients) \/ pc[Loop] = "search"))

\* RtpClient::close returns, whoever calls it, unless a send blocks the thread.
StopReturns ==
    \A r \in Clients : BeingJoined(r) ~> (proc[r] \in {"joined", "blocked"})
====
