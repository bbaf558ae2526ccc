---- MODULE SipClientProofs ----
(***************************************************************************)
(* Proofs about SipClient for any number of starts, of clean-up and        *)
(* heartbeat threads, of events, lost REGISTERs and retries.               *)
(***************************************************************************)
EXTENDS SipClient, TLAPS, SequenceTheorems

----
(***************************************************************************)
(* The inductive invariant.                                                *)
(***************************************************************************)
Active == {"asked", "proved", "ok", "401", "failed"}

\* Until a start overwrites the context, the loop thread has a live one until it is
\* joined, and is there only while the caller is in no call or waits for it in close().
LoopInside == loop # "none" /\ ~ SomeLost => Live(sip_context_) /\ pc \in {"idle", "join"}

\* Once a context is lost, no start succeeds any more and there is no registration.
LostByPhase ==
    /\ SomeLost => tr = "none" /\ (Live(sip_context_) => pc \in {"start", "quit"})
    /\ stray => SomeLost

\* sip_context_ points to a live context, or is null, or was never set; the exception
\* is the moment between eXosip_quit and the assignment of null.
ContextByPhase ==
    /\ pc # "clear" => sip_context_ = Null \/ Live(sip_context_) \/ started = 0
    /\ pc = "start" => Live(sip_context_) /\ is_running_
    /\ pc \in {"unregister", "quit"} => sip_context_ # Null
    /\ pc = "clear" => \A s \in Sessions : ctx[s] # "live"

\* There is a registration exactly while the context lives and the loop was started.
RegistrationByPhase ==
    /\ pc \in {"start", "clear"} \/ ~ Live(sip_context_) => tr = "none"
    /\ pc \in {"idle", "join", "unregister"} /\ Live(sip_context_) => tr \in Active
    /\ pc = "quit" => tr \in {"bye", "left", "over", "none"}

NeverStarted == started = 0 => ~ bound /\ sip_context_ \notin Sessions

\* The contexts of starts to come do not exist yet.
LaterUnused == \A s \in Sessions : s > started => ctx[s] = "none"

\* A close() has lowered the flag until it comes to eXosip_quit, where a failed start
\* may come to as well: with the flag up and nothing asked.  Between calls a client
\* with a context runs.
FlagByPhase ==
    /\ pc \in {"join", "unregister"} => ~ is_running_
    /\ pc = "quit" => (is_running_ <=> tr = "none" /\ Live(sip_context_))
    /\ pc = "idle" /\ Live(sip_context_) => is_running_

IInv ==
    /\ TypeOK
    /\ NoContextLeak
    /\ LoopInside
    /\ LostByPhase
    /\ ContextByPhase
    /\ RegistrationByPhase
    /\ NeverStarted
    /\ FlagByPhase
    /\ LaterUnused
    /\ UnregisteredBeforeQuit

----
\* TypeOK in parts: flags, which need a prover for Booleans, places, threads, queue.
Flags ==
    /\ is_running_ \in BOOLEAN
    /\ is_register_ \in BOOLEAN
    /\ alive \in BOOLEAN
    /\ creds \in BOOLEAN
    /\ bound \in BOOLEAN
    /\ stray \in BOOLEAN

Places ==
    /\ sip_context_ \in Sessions \cup {Null, Wild}
    /\ ctx \in [Sessions -> {"none", "live", "quit", "lost"}]
    /\ started \in 0 .. MaxStarts
    /\ pc \in {"idle", "start", "join", "unregister", "quit", "clear"}
    /\ loop \in {"none", "test", "auto", "handle", "blocked", "exit"}
    /\ evt \in {"none", "ok", "401", "failed", "query", "call"}
    /\ tr \in {"none", "asked", "proved", "ok", "401", "failed", "bye", "left", "over"}
    /\ retry \in 0 .. MaxRetries
    /\ lost \in 0 .. MaxLost

Threads ==
    /\ hb \in [Beaters -> {"none", "look", "build", "send"}]
    /\ bye \in [Byers -> {"none", "lock", "send", "done"}]
    /\ holds \in [Byers -> Sessions \cup {Null}]

Queued == {"ok", "401", "failed", "query", "call"}

Queue == events \in Seq(Queued) /\ Len(events) <= MaxEvents

LEMMA TypeParts == TypeOK <=> Flags /\ Places /\ Threads /\ Queue
  BY Zenon DEF TypeOK, Flags, Places, Threads, Queue, Queued

LEMMA TypePartsNext == TypeOK' <=> Flags' /\ Places' /\ Threads' /\ Queue'
  BY TypeParts, PTL

LEMMA InitInv == Init => IInv
<1> SUFFICES ASSUME Init PROVE IInv
  OBVIOUS
<1> USE BoundsNat, PointersDistinct, EmptySeq DEF Init, Live, Sessions
<1>1. TypeOK
  <2>1. Flags
    BY Zenon DEF Flags
  <2>2. Places
    BY DEF Places
  <2>3. Threads
    BY DEF Threads
  <2>4. Queue
    BY DEF Queue
  <2>. QED BY <2>1, <2>2, <2>3, <2>4, TypeParts
<1>2. NoContextLeak /\ LoopInside /\ LostByPhase /\ ContextByPhase /\ NeverStarted /\ FlagByPhase /\ LaterUnused
  BY DEF NoContextLeak, LoopInside, LostByPhase, SomeLost, ContextByPhase, NeverStarted, FlagByPhase, LaterUnused
<1>3. RegistrationByPhase /\ UnregisteredBeforeQuit
  BY DEF RegistrationByPhase, UnregisteredBeforeQuit
<1>. QED BY <1>1, <1>2, <1>3 DEF IInv

\* The steps of the threads that nobody joins, and of the server's queries, change
\* nothing of what the invariant but for TypeOK is about.
Silent == UNCHANGED <<ctxVars, pc, is_running_, loop, tr, bound, stray>>

LEMMA NextCases ==
    ASSUME [Next]_vars, NEW ACTION P,
           StartBegin => P,
           CloseBegin => P,
           StartFail => P,
           StartRegister => P,
           CloseJoin => P,
           Unregister => P,
           Quit => P,
           Clear => P,
           LoopTest => P,
           AutomaticAction => P,
           HandleEvent => P,
           CallEvent => P,
           Registrar => P,
           StrayAnswered => P,
           Destroy => P,
           \A h \in Beaters : heartbeatTask(h) => P,
           \A b \in Byers : ByeCheck(b) \/ sendBye(b) => P,
           Query => P,
           UNCHANGED vars => P
    PROVE  P
  BY DEF Next, CallerStep, processRequest, Rest

----
(***************************************************************************)
(* Types.                                                                  *)
(***************************************************************************)
\* One event more, or one less, is a queue of events.
LEMMA ReportType ==
    ASSUME events \in Seq(Queued), Len(events) < MaxEvents, NEW e \in Queued
    PROVE  Append(events, e) \in Seq(Queued) /\ Len(Append(events, e)) <= MaxEvents
<1>1. Len(events) \in Nat /\ MaxEvents \in Nat
  BY LenProperties, BoundsNat
<1>2. Append(events, e) \in Seq(Queued) /\ Len(Append(events, e)) = Len(events) + 1
  BY AppendProperties
<1>. QED BY <1>1, <1>2

LEMMA WaitType ==
    ASSUME events \in Seq(Queued), Len(events) <= MaxEvents, EventWait
    PROVE  /\ evt' \in Queued \cup {"none"}
           /\ events' \in Seq(Queued)
           /\ Len(events') <= MaxEvents
<1>1. CASE events = <<>>
  BY <1>1 DEF EventWait
<1>2. CASE events # <<>>
  <2>1. /\ Head(events) \in Queued /\ Tail(events) \in Seq(Queued)
        /\ Len(Tail(events)) = Len(events) - 1 /\ Len(events) \in Nat
    BY <1>2, HeadTailProperties, LenProperties
  <2>. QED BY <1>2, <2>1, BoundsNat DEF EventWait
<1>. QED BY <1>1, <1>2

LEMMA FlagsStep ==
    ASSUME TypeOK, [Next]_vars
    PROVE  Flags'
<1>0. Flags
  BY TypeParts
<1> USE <1>0 DEF Flags, clientVars, ctxVars, loopVars, threadVars, regVars
<1>1. CASE StartBegin
  BY <1>1, Zenon DEF StartBegin, Unanswered
<1>2. CASE CloseBegin
  BY <1>2, Zenon DEF CloseBegin
<1>3. CASE StartFail
  BY <1>3, Zenon DEF StartFail
<1>4. CASE StartRegister
  BY <1>4, Zenon DEF StartRegister, NewHeartbeat
<1>5. CASE CloseJoin
  BY <1>5, Zenon DEF CloseJoin, AfterJoin
<1>6. CASE Unregister
  BY <1>6, Zenon DEF Unregister, AfterRemove, Unanswered
<1>7. CASE Quit
  BY <1>7, Zenon DEF Quit
<1>8. CASE Clear
  BY <1>8, Zenon DEF Clear
<1>9. CASE LoopTest
  BY <1>9, Zenon DEF LoopTest
<1>10. CASE AutomaticAction
  BY <1>10, Zenon DEF AutomaticAction, Refresh, Retry, NothingToDo, Automatic, AfterAction, Resend
<1>11. CASE HandleEvent
  BY <1>11, Zenon DEF HandleEvent, RegistrationSuccess, RegistrationFailure, MessageNew
<1>12. CASE Registrar
  BY <1>12, Zenon DEF Registrar, Accept, Challenge, NoAnswer, Arrive, Unanswered
<1>13. CASE Destroy
  BY <1>13, Zenon DEF Destroy
<1>14. ASSUME NEW h \in Beaters, heartbeatTask(h) PROVE Flags'
  BY <1>14, Zenon DEF heartbeatTask, HeartbeatLook, HeartbeatBuild, HeartbeatSend
<1>15. ASSUME NEW b \in Byers, ByeCheck(b) \/ sendBye(b) PROVE Flags'
  BY <1>15, Zenon DEF sendBye, ByeCheck, ByeLock, ByeSend, Live
<1>16. CASE Query
  BY <1>16, Zenon DEF Query
<1>17. CASE UNCHANGED vars
  BY <1>17, Zenon DEF vars
<1>18. CASE CallEvent
  BY <1>18, Zenon DEF CallEvent
<1>19. CASE StrayAnswered
  BY <1>19, Zenon DEF StrayAnswered
<1>. QED BY <1>1, <1>2, <1>3, <1>4, <1>5, <1>6, <1>7, <1>8, <1>9, <1>10, <1>11, <1>12, <1>13, <1>14, <1>15, <1>16, <1>17, <1>18, <1>19, NextCases

LEMMA PlacesStep ==
    ASSUME TypeOK, [Next]_vars
    PROVE  Places'
<1>0. Places
  BY TypeParts
<1> USE <1>0, BoundsNat, PointersDistinct DEF Places, clientVars, ctxVars, loopVars, threadVars, regVars
<1>1. CASE StartBegin
  BY <1>1 DEF StartBegin, Sessions
<1>2. CASE CloseBegin
  BY <1>2 DEF CloseBegin
<1>3. CASE StartFail
  BY <1>3 DEF StartFail
<1>4. CASE StartRegister
  BY <1>4 DEF StartRegister, NewHeartbeat
<1>5. CASE CloseJoin
  BY <1>5 DEF CloseJoin, AfterJoin
<1>6. CASE Unregister
  BY <1>6 DEF Unregister, AfterRemove, Unanswered
<1>7. CASE Quit
  BY <1>7 DEF Quit
<1>8. CASE Clear
  BY <1>8 DEF Clear
<1>9. CASE LoopTest
  <2>1. evt' \in Queued \cup {"none"} \/ UNCHANGED evt
    BY <1>9, WaitType, TypeParts DEF LoopTest, Queue
  <2>. QED BY <1>9, <2>1 DEF LoopTest, Queued
<1>10. CASE AutomaticAction
  BY <1>10 DEF AutomaticAction, Refresh, Retry, NothingToDo, Automatic, AfterAction, Resend
<1>11. CASE HandleEvent
  BY <1>11 DEF HandleEvent, RegistrationSuccess, RegistrationFailure, MessageNew
<1>12. CASE Registrar
  <2>1. tr' \in {"ok", "401", "failed", "over", "left"}
    BY <1>12 DEF Registrar, Accept, Challenge, NoAnswer, Arrive, Unanswered
  <2>2. retry' = 0 \/ retry' = retry
    BY <1>12 DEF Registrar, Accept, Challenge, NoAnswer, Arrive, Unanswered
  <2>3. lost' = lost \/ (lost < MaxLost /\ lost' = lost + 1)
    BY <1>12 DEF Registrar, Accept, Challenge, NoAnswer, Arrive, Unanswered
  <2>4. lost' \in 0 .. MaxLost
    BY <2>3
  <2>. QED BY <1>12, <2>1, <2>2, <2>4 DEF Registrar
<1>13. CASE Destroy
  BY <1>13 DEF Destroy
<1>14. ASSUME NEW h \in Beaters, heartbeatTask(h) PROVE Places'
  <2>1. UNCHANGED <<ctxVars, pc, loop, evt, tr, retry, lost>>
    BY <1>14, Zenon DEF heartbeatTask, HeartbeatLook, HeartbeatBuild, HeartbeatSend
  <2>. QED BY <2>1
<1>15. ASSUME NEW b \in Byers, ByeCheck(b) \/ sendBye(b) PROVE Places'
  <2>1. UNCHANGED <<ctxVars, pc, loop, evt, tr, retry, lost>>
    BY <1>15, Zenon DEF sendBye, ByeCheck, ByeLock, ByeSend, Live
  <2>. QED BY <2>1
<1>16. CASE Query
  BY <1>16 DEF Query
<1>17. CASE UNCHANGED vars
  BY <1>17 DEF vars
<1>18. CASE CallEvent
  BY <1>18 DEF CallEvent
<1>19. CASE StrayAnswered
  BY <1>19 DEF StrayAnswered
<1>. QED BY <1>1, <1>2, <1>3, <1>4, <1>5, <1>6, <1>7, <1>8, <1>9, <1>10, <1>11, <1>12, <1>13, <1>14, <1>15, <1>16, <1>17, <1>18, <1>19, NextCases

LEMMA ThreadsStep ==
    ASSUME TypeOK, [Next]_vars
    PROVE  Threads'
<1>0. Threads
  BY TypeParts
<1> USE <1>0 DEF Threads, clientVars, ctxVars, loopVars, threadVars, regVars
<1>1. CASE StartBegin
  BY <1>1 DEF StartBegin
<1>2. CASE CloseBegin
  BY <1>2 DEF CloseBegin
<1>3. CASE StartFail
  BY <1>3 DEF StartFail
<1>4. CASE StartRegister
  BY <1>4 DEF StartRegister, NewHeartbeat
<1>5. CASE CloseJoin
  BY <1>5 DEF CloseJoin, AfterJoin
<1>6. CASE Unregister
  BY <1>6 DEF Unregister, AfterRemove, Unanswered
<1>7. CASE Quit
  BY <1>7 DEF Quit
<1>8. CASE Clear
  BY <1>8 DEF Clear
<1>9. CASE LoopTest
  BY <1>9 DEF LoopTest
<1>10. CASE AutomaticAction
  BY <1>10 DEF AutomaticAction, Refresh, Retry, NothingToDo, Automatic, AfterAction, Resend
<1>11. CASE HandleEvent
  BY <1>11 DEF HandleEvent, RegistrationSuccess, RegistrationFailure, MessageNew
<1>12. CASE Registrar
  BY <1>12 DEF Registrar, Accept, Challenge, NoAnswer, Arrive, Unanswered
<1>13. CASE Destroy
  BY <1>13 DEF Destroy
<1>14. ASSUME NEW h \in Beaters, heartbeatTask(h) PROVE Threads'
  BY <1>14 DEF heartbeatTask, HeartbeatLook, HeartbeatBuild, HeartbeatSend
<1>15. ASSUME NEW b \in Byers, ByeCheck(b) \/ sendBye(b) PROVE Threads'
  BY <1>15 DEF sendBye, ByeCheck, ByeLock, ByeSend, Live
<1>16. CASE Query
  BY <1>16 DEF Query
<1>17. CASE UNCHANGED vars
  BY <1>17 DEF vars
<1>18. CASE CallEvent
  BY <1>18 DEF CallEvent
<1>19. CASE StrayAnswered
  BY <1>19 DEF StrayAnswered
<1>. QED BY <1>1, <1>2, <1>3, <1>4, <1>5, <1>6, <1>7, <1>8, <1>9, <1>10, <1>11, <1>12, <1>13, <1>14, <1>15, <1>16, <1>17, <1>18, <1>19, NextCases

LEMMA QueueStep ==
    ASSUME TypeOK, [Next]_vars
    PROVE  Queue'
<1>0. Queue
  BY TypeParts
<1> USE <1>0 DEF Queue, clientVars, ctxVars, loopVars, threadVars, regVars
<1>1. CASE StartBegin
  BY <1>1, EmptySeq, BoundsNat DEF StartBegin
<1>2. CASE CloseBegin
  BY <1>2 DEF CloseBegin
<1>3. CASE StartFail
  BY <1>3 DEF StartFail
<1>4. CASE StartRegister
  BY <1>4 DEF StartRegister, NewHeartbeat
<1>5. CASE CloseJoin
  BY <1>5 DEF CloseJoin, AfterJoin
<1>6. CASE Unregister
  BY <1>6 DEF Unregister, AfterRemove, Unanswered
<1>7. CASE Quit
  BY <1>7, EmptySeq, BoundsNat DEF Quit
<1>8. CASE Clear
  BY <1>8 DEF Clear
<1>9. CASE LoopTest
  BY <1>9, WaitType DEF LoopTest
<1>10. CASE AutomaticAction
  BY <1>10 DEF AutomaticAction, Refresh, Retry, NothingToDo, Automatic, AfterAction, Resend
<1>11. CASE HandleEvent
  BY <1>11 DEF HandleEvent, RegistrationSuccess, RegistrationFailure, MessageNew
<1>12. CASE Registrar
  <2>1. Len(events) < MaxEvents /\ (events' = events \/ \E e \in Queued : events' = Append(events, e))
    BY <1>12 DEF Registrar, Accept, Challenge, NoAnswer, Arrive, Unanswered, Report, Queued
  <2>. QED BY <2>1, ReportType
<1>13. CASE Destroy
  BY <1>13 DEF Destroy
<1>14. ASSUME NEW h \in Beaters, heartbeatTask(h) PROVE Queue'
  BY <1>14 DEF heartbeatTask, HeartbeatLook, HeartbeatBuild, HeartbeatSend
<1>15. ASSUME NEW b \in Byers, ByeCheck(b) \/ sendBye(b) PROVE Queue'
  BY <1>15 DEF sendBye, ByeCheck, ByeLock, ByeSend, Live
<1>16. CASE Query
  <2>1. Len(events) < MaxEvents /\ \E e \in Queued : events' = Append(events, e)
    BY <1>16, LenProperties, BoundsNat DEF Query, Report, Queued
  <2>. QED BY <2>1, ReportType
<1>17. CASE UNCHANGED vars
  BY <1>17 DEF vars
<1>18. CASE CallEvent
  BY <1>18 DEF CallEvent
<1>19. CASE StrayAnswered
  BY <1>19 DEF StrayAnswered
<1>. QED BY <1>1, <1>2, <1>3, <1>4, <1>5, <1>6, <1>7, <1>8, <1>9, <1>10, <1>11, <1>12, <1>13, <1>14, <1>15, <1>16, <1>17, <1>18, <1>19, NextCases

LEMMA TypeStep == TypeOK /\ [Next]_vars => TypeOK'
  BY FlagsStep, PlacesStep, ThreadsStep, QueueStep, TypePartsNext

----
(***************************************************************************)
(* The context and the registration.                                       *)
(***************************************************************************)
Core ==
    /\ NoContextLeak
    /\ LoopInside
    /\ LostByPhase
    /\ ContextByPhase
    /\ RegistrationByPhase
    /\ NeverStarted
    /\ FlagByPhase
    /\ LaterUnused
    /\ UnregisteredBeforeQuit

LEMMA SilentCore == TypeOK /\ Core /\ Silent => Core'
<1> SUFFICES ASSUME TypeOK, Core, Silent PROVE Core'
  OBVIOUS
<1>1. \A c : Live(c)' <=> Live(c)
  BY DEF Live, Silent, ctxVars
<1>2. SomeLost' <=> SomeLost
  BY DEF SomeLost, Silent, ctxVars
<1>. QED BY <1>1, <1>2 DEF Core, Silent, ctxVars, NoContextLeak, LoopInside, LostByPhase, ContextByPhase, RegistrationByPhase,
                     NeverStarted, FlagByPhase, LaterUnused, UnregisteredBeforeQuit, Live

LEMMA CoreStep ==
    ASSUME TypeOK, Core, [Next]_vars
    PROVE  Core'
<1> USE BoundsNat, PointersDistinct DEF TypeOK, clientVars, ctxVars, loopVars, threadVars, regVars,
        Core, NoContextLeak, LoopInside, LostByPhase, SomeLost, ContextByPhase, RegistrationByPhase, NeverStarted, FlagByPhase, LaterUnused,
        UnregisteredBeforeQuit, Live
<1>1. CASE StartBegin
  <2>1. /\ started' = started + 1 /\ started' \in Sessions /\ started \in Nat
        /\ sip_context_' = started' /\ pc = "idle" /\ pc' = "start" /\ tr' = "none" /\ is_running_'
        /\ loop' = loop /\ bound' = bound
        /\ stray' => stray \/ tr \in {"asked", "proved"}
    BY <1>1 DEF StartBegin, Sessions, Unanswered
  <2>2. \A s \in Sessions : /\ ctx[s] = "live" => s = sip_context_
                            /\ s > started => ctx[s] = "none"
                            /\ ctx'[s] = IF s = started' THEN "live"
                                         ELSE IF s = sip_context_ /\ ctx[s] = "live" THEN "lost" ELSE ctx[s]
    BY <1>1 DEF StartBegin, Sessions
  <2>3. \A s \in Sessions : ctx'[s] = "live" <=> s = started'
    BY <2>1, <2>2
  <2>4. SomeLost \/ Live(sip_context_) => SomeLost'
    BY <2>1, <2>2 DEF Sessions
  <2>5. loop # "none" \/ stray' => SomeLost'
    BY <2>1, <2>4
  <2>6. \A s \in Sessions : s > started' => ctx'[s] = "none"
    BY <2>1, <2>2 DEF Sessions
  <2>. QED BY <2>1, <2>3, <2>5, <2>6
<1>2. CASE CloseBegin
  BY <1>2 DEF CloseBegin
<1>3. CASE StartFail
  <2>1. /\ pc = "start" /\ pc' = "quit" /\ tr' = tr /\ loop' = loop /\ sip_context_' = sip_context_
        /\ ctx' = ctx /\ started' = started /\ is_running_' = is_running_ /\ bound' = bound /\ stray' = stray
    BY <1>3 DEF StartFail
  <2>2. sip_context_ # Null /\ tr = "none" /\ (loop # "none" => SomeLost) /\ is_running_
    BY <2>1
  <2>. QED BY <2>1, <2>2
<1>4. CASE StartRegister
  BY <1>4 DEF StartRegister, Active
<1>5. CASE CloseJoin
  BY <1>5 DEF CloseJoin, AfterJoin
<1>6. CASE Unregister
  BY <1>6 DEF Unregister, AfterRemove, Unanswered, Active
<1>7. CASE Quit
  BY <1>7 DEF Quit
<1>8. CASE Clear
  BY <1>8 DEF Clear
<1>9. CASE LoopTest
  BY <1>9 DEF LoopTest
<1>10. CASE AutomaticAction
  BY <1>10 DEF AutomaticAction, Refresh, Retry, NothingToDo, Automatic, AfterAction, Resend, Active
<1>11. CASE HandleEvent
  BY <1>11 DEF HandleEvent
<1>12. CASE Registrar
  BY <1>12 DEF Registrar, Accept, Challenge, NoAnswer, Arrive, Unanswered, Active
<1>13. CASE Destroy
  BY <1>13, SilentCore DEF Destroy, Silent
<1>14. ASSUME NEW h \in Beaters, heartbeatTask(h) PROVE Core'
  BY <1>14, SilentCore DEF heartbeatTask, HeartbeatLook, HeartbeatBuild, HeartbeatSend, Silent
<1>15. ASSUME NEW b \in Byers, ByeCheck(b) \/ sendBye(b) PROVE Core'
  BY <1>15, SilentCore DEF sendBye, ByeCheck, ByeLock, ByeSend, Silent
<1>16. CASE Query
  BY <1>16, SilentCore DEF Query, Silent
<1>17. CASE UNCHANGED vars
  BY <1>17, SilentCore DEF vars, Silent
<1>18. CASE CallEvent
  BY <1>18 DEF CallEvent
<1>19. CASE StrayAnswered
  BY <1>19, SMTT(30) DEF StrayAnswered
<1>. QED BY <1>1, <1>2, <1>3, <1>4, <1>5, <1>6, <1>7, <1>8, <1>9, <1>10, <1>11, <1>12, <1>13, <1>14, <1>15, <1>16, <1>17, <1>18, <1>19, NextCases

LEMMA InvHolds == Spec => []IInv
<1>1. Init => IInv
  BY InitInv
<1>2. IInv /\ [Next]_vars => IInv'
  BY TypeStep, CoreStep DEF IInv, Core
<1>. QED BY <1>1, <1>2, PTL DEF Spec

----
(***************************************************************************)
(* The refinement of SipRegistration.                                      *)
(***************************************************************************)
NoneLive == \A s \in Sessions : ctx[s] # "live"

\* A step that touches neither a context, nor the caller, nor the registration.
LEMMA SilentRegistration == Silent => UNCHANGED Registration!vars
<1> SUFFICES ASSUME Silent PROVE UNCHANGED Registration!vars
  OBVIOUS
<1>1. UNCHANGED <<ctx, sip_context_, pc, is_running_, tr, bound, stray>>
  BY DEF Silent, ctxVars
<1>2. UNCHANGED clientBar /\ UNCHANGED askedBar
  BY <1>1 DEF clientBar, phaseBar, askedBar, Live, Unanswered
<1>. QED BY <1>1, <1>2 DEF Registration!vars

\* While a context lives it is the one of sip_context_; a client that was never
\* started has none.
LEMMA OneLive ==
    ASSUME IInv
    PROVE  /\ \A s \in Sessions : ctx[s] = "live" <=> s = sip_context_ /\ Live(sip_context_)
           /\ NoneLive <=> ~ Live(sip_context_)
  BY DEF IInv, NoContextLeak, NoneLive, Live

\* The caller's place and the flag while a context lives.
LEMMA PlaceWhenLive ==
    ASSUME IInv, Live(sip_context_)
    PROVE  /\ sip_context_ \in Sessions /\ ctx[sip_context_] = "live"
           /\ pc # "clear" /\ clientBar = phaseBar
           /\ pc = "start" => tr = "none"
           /\ pc \in {"idle", "join", "unregister"} => tr \in Active
           /\ pc = "quit" => tr \in {"bye", "left", "over", "none"}
<1>1. ~ NoneLive
  BY OneLive
<1>. QED BY <1>1 DEF IInv, ContextByPhase, RegistrationByPhase, clientBar, Live

LEMMA InitRegistration == Init => Registration!Init
<1> SUFFICES ASSUME Init PROVE Registration!Init
  OBVIOUS
<1>1. NoneLive
  BY DEF Init, NoneLive
<1>2. clientBar = "closed" /\ askedBar = "nothing"
  BY <1>1 DEF clientBar, Live, NoneLive, Init, askedBar, Unanswered
<1>. QED BY <1>2 DEF Init, Registration!Init

\* The caller's steps that begin, open and fail.
LEMMA StartRegistration ==
    ASSUME IInv, StartBegin \/ StartFail \/ StartRegister
    PROVE  Registration!Next
<1>1. CASE StartBegin
  <2>1. /\ pc = "idle" /\ started' = started + 1 /\ pc' = "start" /\ sip_context_' = started'
        /\ ctx' = [s \in Sessions |-> IF s = started' THEN "live"
                                      ELSE IF s = sip_context_ /\ Live(s) THEN "lost" ELSE ctx[s]]
        /\ tr' = "none" /\ bound' = bound /\ stray' = (stray \/ Unanswered)
    BY <1>1 DEF StartBegin
  <2>2. started' \in Sessions /\ started \in Nat /\ ctx \in [Sessions -> {"none", "live", "quit", "lost"}]
    BY <1>1, BoundsNat DEF StartBegin, IInv, TypeOK, Sessions
  <2>3. ctx[started'] = "none"
    BY <2>1, <2>2 DEF IInv, LaterUnused
  <2>4. Live(sip_context_)'
    BY <2>1, <2>2 DEF Live
  <2>5. clientBar' = "starting" /\ askedBar' = "nothing"
    BY <2>1, <2>4 DEF clientBar, phaseBar, askedBar, Unanswered
  <2>6. CASE ~ Live(sip_context_)
    <3>1. clientBar = "closed" /\ tr = "none"
      BY <2>6 DEF clientBar, IInv, RegistrationByPhase
    <3>2. ctx' = [ctx EXCEPT ![started'] = "live"]
      BY <2>1, <2>2, <2>6 DEF Live
    <3>3. askedBar = "nothing" /\ stray' = stray
      <4>1. ~ Unanswered
        BY <3>1 DEF Unanswered
      <4>2. stray \in BOOLEAN
        BY DEF IInv, TypeOK
      <4>. QED BY <2>1, <3>1, <4>1, <4>2 DEF askedBar, Unanswered
    <3>4. Registration!Begin(started')
      BY <2>1, <2>3, <2>5, <3>1, <3>2, <3>3 DEF Registration!Begin
    <3>. QED BY <2>2, <3>4 DEF Registration!Next
  <2>7. CASE Live(sip_context_)
    <3>1. sip_context_ \in Sessions /\ ctx[sip_context_] = "live"
      BY <2>7 DEF Live
    <3>2. clientBar = "open"
      BY <2>1, <2>7 DEF clientBar, phaseBar, IInv, FlagByPhase
    <3>3. ctx' = [ctx EXCEPT ![sip_context_] = "lost", ![started'] = "live"]
      BY <2>1, <2>2, <2>3, <3>1 DEF Live
    <3>4. stray' = (stray \/ askedBar = "pending")
      <4>1. Unanswered <=> askedBar = "pending"
        BY <2>1, <2>7, PlaceWhenLive DEF Unanswered, askedBar, Unanswered, Active
      <4>. QED BY <2>1, <4>1, Zenon
    <3>5. Registration!Overwrite(sip_context_, started')
      BY <2>1, <2>3, <2>5, <3>1, <3>2, <3>3, <3>4 DEF Registration!Overwrite
    <3>. QED BY <2>2, <3>1, <3>5 DEF Registration!Next
  <2>. QED BY <2>6, <2>7
<1>2. CASE StartFail \/ StartRegister
  <2>1. /\ pc = "start" /\ Live(sip_context_) /\ is_running_ /\ tr = "none"
        /\ ctx' = ctx /\ bound' = bound /\ is_running_' = is_running_ /\ stray' = stray
        /\ sip_context_' = sip_context_
    BY <1>2 DEF StartFail, StartRegister, IInv, ContextByPhase, RegistrationByPhase,
                ctxVars, clientVars, regVars
  <2>2. ~ NoneLive /\ ~ NoneLive'
    BY <2>1, OneLive DEF NoneLive
  <2>3. clientBar = "starting" /\ clientBar' = phaseBar'
    BY <2>1, <2>2 DEF clientBar, phaseBar, Live, NoneLive
  <2>4. CASE StartFail
    <3>1. pc' = "quit" /\ tr' = tr
      BY <2>4 DEF StartFail, regVars
    <3>2. clientBar' = "failing" /\ askedBar' = askedBar
      BY <2>1, <2>3, <3>1 DEF phaseBar, askedBar, Unanswered
    <3>3. Registration!Fail
      BY <2>1, <2>3, <3>2 DEF Registration!Fail
    <3>. QED BY <3>3 DEF Registration!Next
  <2>5. CASE StartRegister
    <3>1. pc' = "idle" /\ tr' = "asked" /\ \A s \in Sessions : ctx[s] # "lost"
      BY <2>5 DEF StartRegister, SomeLost
    <3>2. clientBar' = "open" /\ askedBar' = "pending"
      BY <2>1, <2>3, <3>1 DEF phaseBar, askedBar, Unanswered
    <3>3. Registration!Open
      BY <2>1, <2>3, <3>1, <3>2 DEF Registration!Open
    <3>. QED BY <3>3 DEF Registration!Next
  <2>. QED BY <1>2, <2>4, <2>5
<1>. QED BY <1>1, <1>2

\* The steps of close() up to the unregistration.
LEMMA CloseRegistration ==
    ASSUME IInv, CloseBegin \/ CloseJoin \/ Unregister
    PROVE  Registration!Next \/ UNCHANGED Registration!vars
<1>1. ctx' = ctx /\ sip_context_' = sip_context_ /\ bound' = bound /\ stray' = stray
  BY DEF CloseBegin, CloseJoin, Unregister, ctxVars, regVars
<1>2. CASE ~ Live(sip_context_)
  <2>1. NoneLive /\ NoneLive'
    BY <1>1, <1>2, OneLive DEF NoneLive
  <2>2. clientBar = "closed" /\ clientBar' = "closed"
    BY <2>1 DEF clientBar, Live, NoneLive
  <2>3. tr = "none"
    BY <1>2 DEF IInv, RegistrationByPhase
  <2>4. tr' = tr
    BY <2>3 DEF CloseBegin, CloseJoin, Unregister, AfterRemove, Unanswered, regVars
  <2>. QED BY <1>1, <2>2, <2>4 DEF Registration!vars, askedBar, Unanswered
<1>3. CASE Live(sip_context_)
  <2>1. Live(sip_context_) /\ Live(sip_context_)'
    BY <1>1, <1>3 DEF Live
  <2>2. clientBar = phaseBar /\ clientBar' = phaseBar'
    BY <2>1 DEF clientBar
  <2>3. CASE CloseBegin
    <3>1. pc = "idle" /\ pc' = "join" /\ is_running_' = FALSE /\ tr' = tr
      BY <2>3 DEF CloseBegin, regVars
    <3>2. clientBar' = "closing" /\ askedBar' = askedBar
      BY <2>2, <3>1 DEF phaseBar, askedBar, Unanswered
    <3>3. CASE is_running_
      <4>1. clientBar = "open"
        BY <2>2, <3>1, <3>3 DEF phaseBar
      <4>2. Registration!Close
        BY <1>1, <3>2, <4>1 DEF Registration!Close
      <4>. QED BY <4>2 DEF Registration!Next
    <3>4. CASE ~ is_running_
      <4>1. clientBar = "closing"
        BY <2>2, <3>1, <3>4 DEF phaseBar
      <4>. QED BY <1>1, <3>2, <4>1 DEF Registration!vars
    <3>. QED BY <3>3, <3>4
  <2>4. CASE CloseJoin
    <3>1. pc = "join" /\ pc' = "unregister" /\ is_running_' = is_running_ /\ tr' = tr
      BY <1>3, <2>4, PointersDistinct DEF CloseJoin, AfterJoin, Live, clientVars, regVars
    <3>2. clientBar' = clientBar /\ askedBar' = askedBar
      BY <2>2, <3>1 DEF phaseBar, askedBar, Unanswered
    <3>. QED BY <1>1, <3>2 DEF Registration!vars
  <2>5. CASE Unregister
    <3>1. pc = "unregister" /\ pc' = "quit" /\ is_running_' = is_running_ /\ tr' = AfterRemove
      BY <2>5 DEF Unregister, clientVars
    <3>2. tr \in Active
      BY <1>3, <3>1, PlaceWhenLive
    <3>3. ~ is_running_
      BY <3>1 DEF IInv, FlagByPhase
    <3>4. clientBar = "closing" /\ clientBar' = "closing"
      BY <2>2, <3>1, <3>3 DEF phaseBar
    <3>5. \/ askedBar = "answered" /\ askedBar' = "drop"
          \/ askedBar = "pending" /\ askedBar' = "left"
      BY <3>1, <3>2 DEF AfterRemove, Unanswered, Active, askedBar, Unanswered
    <3>6. Registration!TakeBack
      BY <1>1, <3>4, <3>5 DEF Registration!TakeBack
    <3>. QED BY <3>6 DEF Registration!Next
  <2>. QED BY <2>3, <2>4, <2>5
<1>. QED BY <1>2, <1>3

\* eXosip_quit, and the null pointer after it.
LEMMA QuitRegistration ==
    ASSUME IInv, Quit \/ Clear
    PROVE  Registration!Next \/ UNCHANGED Registration!vars
<1>1. CASE Clear
  <2>1. ctx' = ctx /\ bound' = bound /\ tr' = tr /\ stray' = stray /\ pc = "clear"
    BY <1>1 DEF Clear, regVars
  <2>2. NoneLive /\ NoneLive'
    BY <2>1 DEF IInv, ContextByPhase, NoneLive
  <2>3. clientBar = "closed" /\ clientBar' = "closed"
    BY <2>2 DEF clientBar, Live, NoneLive
  <2>. QED BY <2>1, <2>3 DEF Registration!vars, askedBar, Unanswered
<1>2. CASE Quit
  <2>1. /\ pc = "quit" /\ tr' = "none" /\ stray' = stray
        /\ ctx' = [s \in Sessions |-> IF s = sip_context_ THEN "quit" ELSE ctx[s]]
        /\ bound' = bound \/ (tr = "left" /\ bound' = TRUE) \/ (tr = "bye" /\ bound' = FALSE)
    BY <1>2 DEF Quit
  <2>2. NoneLive'
    BY <2>1, OneLive DEF NoneLive
  <2>3. clientBar' = "closed" /\ askedBar' = "nothing"
    BY <2>1, <2>2 DEF clientBar, Live, NoneLive, askedBar, Unanswered
  <2>4. CASE ~ Live(sip_context_)
    <3>1. NoneLive /\ tr = "none"
      BY <2>4, OneLive DEF IInv, RegistrationByPhase
    <3>2. clientBar = "closed" /\ askedBar = "nothing" /\ bound' = bound
      BY <2>1, <3>1 DEF clientBar, Live, NoneLive, askedBar, Unanswered
    <3>3. \A s \in Sessions : s # sip_context_
      <4>1. started = 0
        BY <2>1, <2>4 DEF IInv, ContextByPhase
      <4>. QED BY <4>1 DEF IInv, NeverStarted
    <3>4. ctx' = ctx
      BY <2>1, <3>3 DEF IInv, TypeOK
    <3>. QED BY <2>1, <2>3, <3>2, <3>4 DEF Registration!vars
  <2>5. CASE Live(sip_context_)
    <3>1. /\ sip_context_ \in Sessions /\ ctx[sip_context_] = "live" /\ clientBar = phaseBar
          /\ tr \in {"bye", "left", "over", "none"}
      BY <2>1, <2>5, PlaceWhenLive
    <3>2. ctx' = [ctx EXCEPT ![sip_context_] = "quit"]
      BY <2>1, <3>1 DEF IInv, TypeOK
    <3>3. CASE is_running_
      <4>1. tr = "none" /\ bound' = bound
        BY <2>1, <3>3 DEF IInv, FlagByPhase
      <4>2. clientBar = "failing" /\ askedBar = "nothing"
        BY <2>1, <3>1, <3>3, <4>1 DEF phaseBar, askedBar, Unanswered
      <4>3. Registration!EndFailed(sip_context_)
        BY <2>1, <2>3, <3>1, <3>2, <4>1, <4>2 DEF Registration!EndFailed
      <4>. QED BY <3>1, <4>3 DEF Registration!Next
    <3>4. CASE ~ is_running_
      <4>1. tr # "none"
        BY <2>1, <2>5, <3>4 DEF IInv, FlagByPhase
      <4>2. clientBar = "closing"
        BY <2>1, <3>1, <3>4 DEF phaseBar
      <4>3. /\ askedBar \in {"drop", "dropped", "left"}
            /\ askedBar = "left" <=> tr = "left"
            /\ askedBar = "drop" <=> tr = "bye"
        BY <3>1, <4>1 DEF askedBar, Unanswered
      <4>4. bound' = bound \/ (askedBar = "left" /\ bound' = TRUE) \/ (askedBar = "drop" /\ bound' = FALSE)
        BY <2>1, <4>3
      <4>5. Registration!End(sip_context_)
        BY <2>1, <2>3, <3>1, <3>2, <4>2, <4>3, <4>4 DEF Registration!End
      <4>. QED BY <3>1, <4>5 DEF Registration!Next
    <3>. QED BY <3>3, <3>4
  <2>. QED BY <2>4, <2>5
<1>. QED BY <1>1, <1>2

\* What the loop thread does counts only when it sends a REGISTER.
LEMMA LoopRegistration ==
    ASSUME IInv, LoopTest \/ AutomaticAction \/ HandleEvent \/ CallEvent
    PROVE  Registration!Next \/ UNCHANGED Registration!vars
<1>1. UNCHANGED <<ctx, sip_context_, pc, is_running_, bound, stray>>
  BY DEF LoopTest, AutomaticAction, Refresh, Retry, NothingToDo, Automatic, HandleEvent, CallEvent, ctxVars, clientVars, regVars
<1>2. UNCHANGED clientBar
  BY <1>1 DEF clientBar, phaseBar, Live
<1>3. CASE UNCHANGED tr
  BY <1>1, <1>2, <1>3 DEF Registration!vars, askedBar, Unanswered
<1>4. CASE Refresh \/ Retry
  <2>1. /\ tr \in {"ok", "401", "failed"} /\ tr' \in {"asked", "proved"} /\ loop # "none"
    BY <1>4 DEF Refresh, Retry, Resend, Automatic
  <2>2. Live(sip_context_) /\ pc \in {"idle", "join"}
    BY <2>1 DEF IInv, LoopInside, LostByPhase
  <2>3. clientBar \in {"open", "closing"}
    BY <2>2, PlaceWhenLive DEF phaseBar
  <2>4. askedBar = "answered" /\ askedBar' = "pending"
    BY <2>1 DEF askedBar, Unanswered
  <2>5. Registration!Register
    BY <1>1, <1>2, <2>3, <2>4 DEF Registration!Register
  <2>. QED BY <2>5 DEF Registration!Next
<1>5. UNCHANGED tr \/ Refresh \/ Retry
  BY DEF LoopTest, AutomaticAction, NothingToDo, HandleEvent, CallEvent, regVars
<1>. QED BY <1>3, <1>4, <1>5

\* The registrar answers and is told only while a context lives.
LEMMA RegistrarRegistration ==
    ASSUME IInv, Registrar
    PROVE  Registration!Next
<1>1. UNCHANGED <<ctx, sip_context_, pc, is_running_, stray>>
  BY DEF Registrar, ctxVars, clientVars
<1>2. UNCHANGED clientBar
  BY <1>1 DEF clientBar, phaseBar, Live
<1>3. tr \in Active \cup {"bye", "left"} /\ tr # "none"
  BY DEF Registrar, Accept, Challenge, NoAnswer, Arrive, Unanswered, Active
<1>4. Live(sip_context_) /\ pc \notin {"start", "clear"}
  BY <1>3 DEF IInv, RegistrationByPhase
<1>5. clientBar = phaseBar
  BY <1>4, PlaceWhenLive
<1>6. CASE Accept \/ Challenge \/ NoAnswer
  <2>1. tr \in {"asked", "proved"} /\ tr' \in {"ok", "401", "failed"} /\ bound' \in {bound, TRUE}
    BY <1>6 DEF Accept, Challenge, NoAnswer, Unanswered
  <2>2. pc \in {"idle", "join", "unregister"}
    BY <1>4, <2>1, PlaceWhenLive DEF IInv, TypeOK
  <2>3. clientBar \in {"open", "closing"}
    BY <1>5, <2>2 DEF phaseBar
  <2>4. askedBar = "pending" /\ askedBar' = "answered"
    BY <2>1 DEF askedBar, Unanswered
  <2>5. Registration!Answer
    BY <1>1, <1>2, <2>1, <2>3, <2>4 DEF Registration!Answer
  <2>. QED BY <2>5 DEF Registration!Next
<1>7. CASE Arrive
  <2>1. \/ tr = "bye" /\ tr' = "over" /\ bound' = FALSE
        \/ tr = "left" /\ tr' = tr /\ bound' = TRUE
    BY <1>7 DEF Arrive
  <2>2. pc = "quit"
    BY <1>4, <2>1, PlaceWhenLive DEF IInv, TypeOK, Active
  <2>3. ~ is_running_
    BY <2>1, <2>2 DEF IInv, FlagByPhase
  <2>4. clientBar = "closing"
    BY <1>5, <2>2, <2>3 DEF phaseBar
  <2>5. \/ askedBar = "drop" /\ askedBar' = "dropped" /\ bound' = FALSE
        \/ askedBar = "left" /\ askedBar' = askedBar /\ bound' = TRUE
    BY <2>1 DEF askedBar, Unanswered
  <2>6. Registration!Arrive
    BY <1>1, <1>2, <2>4, <2>5 DEF Registration!Arrive
  <2>. QED BY <2>6 DEF Registration!Next
<1>. QED BY <1>6, <1>7 DEF Registrar

\* The request of a lost context is the registration's too.
LEMMA StrayRegistration == StrayAnswered => Registration!Next
<1> SUFFICES ASSUME StrayAnswered PROVE Registration!Next
  OBVIOUS
<1>1. UNCHANGED <<ctx, sip_context_, pc, is_running_, tr>>
  BY DEF StrayAnswered, ctxVars, clientVars
<1>2. UNCHANGED clientBar /\ UNCHANGED askedBar
  BY <1>1 DEF clientBar, phaseBar, askedBar, Live, Unanswered
<1>3. Registration!StrayAnswered
  BY <1>1, <1>2 DEF StrayAnswered, Registration!StrayAnswered
<1>. QED BY <1>3 DEF Registration!Next

LEMMA RegistrationStep ==
    ASSUME IInv, [Next]_vars
    PROVE  Registration!Next \/ UNCHANGED Registration!vars
<1>1. ASSUME NEW h \in Beaters, heartbeatTask(h) PROVE Silent
  BY <1>1 DEF heartbeatTask, HeartbeatLook, HeartbeatBuild, HeartbeatSend, Silent,
              clientVars, ctxVars, loopVars, regVars
<1>2. ASSUME NEW b \in Byers, ByeCheck(b) \/ sendBye(b) PROVE Silent
  BY <1>2 DEF sendBye, ByeCheck, ByeLock, ByeSend, Silent,
              clientVars, ctxVars, loopVars, regVars
<1>3. Destroy \/ Query \/ UNCHANGED vars => Silent
  BY DEF Destroy, Query, vars, Silent, clientVars, ctxVars, loopVars, regVars
<1>. QED
  BY <1>1, <1>2, <1>3, NextCases, SilentRegistration, StartRegistration, CloseRegistration,
     QuitRegistration, LoopRegistration, RegistrarRegistration, StrayRegistration

----
(***************************************************************************)
(* Theorems.                                                               *)
(***************************************************************************)
\* The client, eXosip's registration and every thread are at one of their places.
THEOREM TypeCorrect == Spec => []TypeOK
<1>1. IInv => TypeOK
  BY DEF IInv
<1>. QED BY <1>1, InvHolds, PTL

\* The joined loop thread and the caller of start() and close() use live contexts
\* only: the loop until a start finds the client running and overwrites its context,
\* the caller also after that.
THEOREM JoinedThreadsUseLive == Spec => []JoinedUseLive
<1>1. IInv => JoinedUseLive
  BY PointersDistinct DEF IInv, LoopInside, LostByPhase, ContextByPhase, JoinedUseLive
<1>. QED BY <1>1, InvHolds, PTL

\* A failing start() and a close() forget no eXosip context; only a start() of a
\* client that runs does, and it forgets that client's context alone.
THEOREM ContextsReleased == Spec => []NoContextLeak
<1>1. IInv => NoContextLeak
  BY DEF IInv
<1>. QED BY <1>1, InvHolds, PTL

\* close() unregisters a device with a binding before it releases the context, but for
\* a REGISTER that is still unanswered.
THEOREM BindingIsDropped == Spec => []UnregisteredBeforeQuit
<1>1. IInv => UnregisteredBeforeQuit
  BY DEF IInv
<1>. QED BY <1>1, InvHolds, PTL

\* The client implements SipRegistration, whatever calls come in whatever order:
\* start (of a running client too), close, the loop and the registrar take the steps
\* of one registration, and all that the other threads do is invisible.
THEOREM RegistrationKept == Spec => KeepsRegistration
<1>1. IInv /\ [Next]_vars => [Registration!Next]_(Registration!vars)
  BY RegistrationStep
<1>. QED BY <1>1, InitRegistration, InvHolds, PTL DEF Spec, KeepsRegistration, Registration!Spec
====
