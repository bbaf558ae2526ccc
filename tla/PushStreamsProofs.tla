---- MODULE PushStreamsProofs ----
(***************************************************************************)
(* Proofs about PushStreams for every set of calls and clients, every file *)
(* length and every number of duplicated ACKs.                             *)
(***************************************************************************)
EXTENDS PushStreams, TLAPS

\* A step is one of these, so every preservation proof has this case split.
LEMMA NextCases ==
    ASSUME Next, NEW ACTION P,
           \A r \in Clients : process(r) => P,
           \A r \in Clients : CleanFind(r) \/ sendBye(r) => P,
           \A a \in Actors : SetStop(a) \/ Join(a) => P,
           LoopCheck \/ NoEvent \/ Insert => P,
           \A c \in Calls : Invite(c) \/ InviteSearch(c) \/ Ack(c) \/ Closed(c) => P,
           CloseBegin \/ CloseSip \/ TakeMap \/ DrainNext => P,
           UNCHANGED vars => P
    PROVE  P
  BY DEF Next, cleaner, LoopStep, CallEvent, close, Finished, Actors

----
LEMMA InitType == Init => TypeOK
  BY NamesDistinct, BoundsNat DEF Init, TypeOK, Actors, PcStates, LoopStates, HttpStates, CleanerStates, ProcStates

LEMMA ProcessType ==
    ASSUME TypeOK, NEW r \in Clients, process(r)
    PROVE  TypeOK'
<1> USE NamesDistinct, BoundsNat DEF TypeOK, sipVars, callVars, clientVars, procVars, sockVars, deviceVars, byeVars, Actors, PcStates, LoopStates, HttpStates, CleanerStates, ProcStates, Goto, ProcGoto, Notify
<1>1. CASE Connect(r) BY <1>1 DEF Connect
<1>2. CASE Begin(r) BY <1>2 DEF Begin
<1>3. CASE OpenFile(r) BY <1>3, SMTT(30) DEF OpenFile
<1>4. CASE LoopTest(r) BY <1>4 DEF LoopTest
<1>5. CASE ReadPacket(r) BY <1>5, SMTT(30) DEF ReadPacket
<1>6. CASE ReadEnd(r) BY <1>6 DEF ReadEnd
<1>7. CASE ReadFail(r) BY <1>7 DEF ReadFail
<1>8. CASE Leave(r) BY <1>8 DEF Leave
<1>. QED BY <1>1, <1>2, <1>3, <1>4, <1>5, <1>6, <1>7, <1>8 DEF process

LEMMA StopLookupType ==
    ASSUME TypeOK, NEW a \in Actors \ {Http}, NEW c \in Calls, onStopPushStream(a, c),
           pc[a] \in {"find", "wait"}, UNCHANGED byeTo
    PROVE  /\ rtp_client_map_' \in [Calls -> Clients \cup {NoClient}]
           /\ pc' \in [Actors -> LoopStates \cup HttpStates \cup CleanerStates]
           /\ \A b \in Actors : pc'[b] \in PcStates(b)
           /\ hand' \in [Actors -> Clients \cup {NoClient}]
           /\ drain' = drain
  BY NamesDistinct DEF TypeOK, onStopPushStream, Actors, PcStates, LoopStates, HttpStates, CleanerStates, Goto, AfterClose

LEMMA StopType ==
    ASSUME TypeOK, HandIff, NEW a \in Actors, SetStop(a) \/ Join(a)
    PROVE  TypeOK'
<1> USE NamesDistinct DEF TypeOK, sipVars, callVars, clientVars, procVars, sockVars, deviceVars, byeVars, Actors, PcStates, LoopStates, HttpStates, CleanerStates, ProcStates, Goto
<1>1. CASE SetStop(a) BY <1>1 DEF SetStop
<1>2. CASE Join(a) BY <1>2 DEF Join, AfterClose, CloseNumber
<1>. QED BY <1>1, <1>2

LEMMA CleanerType ==
    ASSUME TypeOK, Keyed, CleanerAfterLoop, ByeHasDialog, NEW r \in Clients, CleanFind(r) \/ sendBye(r)
    PROVE  TypeOK'
<1>1. CASE CleanFind(r)
  <2>1. call_id_[r] \in Calls
    BY <1>1 DEF CleanFind, Keyed, CleanerAfterLoop, Started
  <2>2. r \in Actors \ {Http}
    BY NamesDistinct DEF Actors
  <2>. QED
    BY <1>1, <2>1, <2>2, StopLookupType DEF CleanFind, TypeOK, sipVars, callVars, clientVars, procVars, sockVars, byeVars
<1>2. CASE sendBye(r)
  BY <1>2, NamesDistinct DEF sendBye, ByeHasDialog, TypeOK, sipVars, callVars, clientVars, procVars, sockVars, deviceVars, Actors, PcStates, LoopStates, HttpStates, CleanerStates, Goto
<1>. QED BY <1>1, <1>2

LEMMA LoopType ==
    ASSUME TypeOK, HandIff, LoopCheck \/ NoEvent \/ Insert
    PROVE  TypeOK'
<1> USE NamesDistinct DEF TypeOK, sipVars, callVars, clientVars, procVars, sockVars, deviceVars, byeVars, Actors, PcStates, LoopStates, HttpStates, CleanerStates, Goto
<1>1. CASE LoopCheck BY <1>1 DEF LoopCheck
<1>2. CASE NoEvent BY <1>2 DEF NoEvent
<1>3. CASE Insert BY <1>3 DEF Insert, HandIff
<1>. QED BY <1>1, <1>2, <1>3

LEMMA CallType ==
    ASSUME TypeOK, Invited, NEW c \in Calls, Invite(c) \/ InviteSearch(c) \/ Ack(c) \/ Closed(c)
    PROVE  TypeOK'
<1>1. CASE Invite(c) \/ InviteSearch(c)
  BY <1>1, NamesDistinct DEF Invite, InviteSearch, TypeOK, sipVars, callVars, clientVars, procVars, sockVars, deviceVars, byeVars, Actors, PcStates, LoopStates, HttpStates, CleanerStates, Goto
<1>2. CASE Ack(c)
  <2>0. acks' \in [Calls -> 0 .. MaxAcks]
    <3>1. acks[c] + 1 \in 0 .. MaxAcks
      BY <1>2, BoundsNat DEF Ack, TypeOK
    <3>. QED BY <1>2, <3>1 DEF Ack, TypeOK
  <2>1. /\ dialogId' \in [Calls -> Calls \cup {NoCall}]
        /\ acks' \in [Calls -> 0 .. MaxAcks]
        /\ UNCHANGED <<sipVars, caller_param_, dialog, byeVars>>
    BY <1>2, <2>0 DEF Ack, TypeOK
  <2>2. CASE \E r \in Clients : StartPushStream(r, c)
    BY <2>1, <2>2, NamesDistinct DEF StartPushStream, TypeOK, sipVars, sockVars, byeVars, Actors, PcStates, LoopStates, HttpStates, CleanerStates, ProcStates, Goto, ProcGoto
  <2>3. CASE Goto(Loop, "check") /\ UNCHANGED <<clientVars, procVars, deviceVars>>
    BY <2>1, <2>3, NamesDistinct DEF TypeOK, sipVars, byeVars, clientVars, procVars, sockVars, deviceVars, Actors, PcStates, LoopStates, HttpStates, CleanerStates, Goto
  <2>. QED BY <1>2, <2>2, <2>3 DEF Ack
<1>3. CASE Closed(c)
  <2>1. Loop \in Actors \ {Http}
    BY NamesDistinct DEF Actors
  <2>. QED
    BY <1>3, <2>1, StopLookupType DEF Closed, TypeOK, sipVars, clientVars, procVars, sockVars, byeVars
<1>. QED BY <1>1, <1>2, <1>3

LEMMA CloseType ==
    ASSUME TypeOK, CloseBegin \/ CloseSip \/ TakeMap \/ DrainNext
    PROVE  TypeOK'
<1> USE NamesDistinct DEF TypeOK, sipVars, callVars, clientVars, procVars, sockVars, deviceVars, byeVars, Actors, PcStates, LoopStates, HttpStates, CleanerStates, Goto
<1>1. CASE CloseBegin BY <1>1 DEF CloseBegin
<1>2. CASE CloseSip BY <1>2 DEF CloseSip
<1>3. CASE TakeMap BY <1>3 DEF TakeMap
<1>4. CASE DrainNext BY <1>4 DEF DrainNext
<1>. QED BY <1>1, <1>2, <1>3, <1>4

LEMMA StutterType == TypeOK /\ UNCHANGED vars => TypeOK'
  BY DEF TypeOK, vars, sipVars, callVars, clientVars, procVars, sockVars, deviceVars, byeVars

LEMMA NextType ==
    ASSUME TypeOK, HandIff, Keyed, Invited, CleanerAfterLoop, ByeHasDialog, Next
    PROVE  TypeOK'
  BY NextCases, ProcessType, StopType, CleanerType, LoopType, CallType, CloseType, StutterType

----
(***************************************************************************)
(* Who holds which client.                                                 *)
(***************************************************************************)
Ownership == HandIff /\ HeldIffActive /\ Keyed /\ Invited /\ InsertFree /\ SingleOwner

LEMMA InitOwnership == Init => Ownership
  BY NamesDistinct DEF Init, Ownership, HandIff, HeldIffActive, Keyed, Invited, InsertFree, SingleOwner, InMap, InHand, InDrain, Active, Started, Actors

\* A streaming thread changes who exists and who holds what in no way.
LEMMA ProcessFrame ==
    ASSUME TypeOK, CleanerAfterLoop, NEW r \in Clients, process(r)
    PROVE  /\ UNCHANGED <<sipVars, callVars, clientVars, deviceVars, byes>>
           /\ \A q \in Clients : q # r => proc'[q] = proc[q]
           /\ \A q \in Clients : Started(q)' <=> Started(q)
           /\ \A q \in Clients : Active(q)' <=> Active(q)
           /\ \A a \in Actors : pc'[a] = pc[a] \/ (a = r /\ pc[a] = "none" /\ pc'[a] = "find" /\ proc'[r] = "leave")
<1>. r \in Actors
  BY DEF Actors
<1> USE NamesDistinct DEF TypeOK, sipVars, callVars, clientVars, procVars, sockVars, deviceVars, byeVars, Goto, ProcGoto, Started, Active, CleanerAfterLoop
<1>1. CASE Connect(r) BY <1>1 DEF Connect
<1>2. CASE Begin(r) BY <1>2 DEF Begin
<1>3. CASE OpenFile(r) BY <1>3 DEF OpenFile
<1>4. CASE LoopTest(r) BY <1>4 DEF LoopTest
<1>5. CASE ReadPacket(r) BY <1>5 DEF ReadPacket, Notify
<1>6. CASE ReadEnd(r) BY <1>6 DEF ReadEnd, Notify
<1>7. CASE ReadFail(r) BY <1>7 DEF ReadFail
<1>8. CASE Leave(r) BY <1>8 DEF Leave
<1>. QED BY <1>1, <1>2, <1>3, <1>4, <1>5, <1>6, <1>7, <1>8 DEF process

LEMMA ProcessOwnership ==
    ASSUME TypeOK, CleanerAfterLoop, Ownership, NEW r \in Clients, process(r)
    PROVE  Ownership'
<1> USE ProcessFrame DEF Ownership, deviceVars, clientVars, callVars
<1>1. HandIff' BY DEF HandIff
<1>2. HeldIffActive' BY DEF HeldIffActive, InMap, InHand, InDrain
<1>3. Keyed' BY DEF Keyed
<1>4. Invited' BY DEF Invited
<1>5. InsertFree' BY NamesDistinct DEF InsertFree, Actors
<1>6. SingleOwner' BY DEF SingleOwner, InMap, InHand, InDrain
<1>. QED BY <1>1, <1>2, <1>3, <1>4, <1>5, <1>6

\* onStopPushStream moves a client from the map into the caller's hand.
LEMMA LookupOwnership ==
    ASSUME TypeOK, Ownership, NEW a \in Actors \ {Http}, NEW c \in Calls, pc[a] \in {"find", "wait"},
           onStopPushStream(a, c), UNCHANGED <<procVars, clientVars, byeTo>>
    PROVE  /\ HandIff' /\ HeldIffActive' /\ Keyed' /\ SingleOwner' /\ InsertFree'
<1> DEFINE r == rtp_client_map_[c]
<1>. /\ hand[a] = NoClient
     /\ a \in Actors
  BY DEF Ownership, HandIff
<1>1. CASE r = NoClient
  <2>1. UNCHANGED <<rtp_client_map_, hand, drain, proc, call_id_, rtp_param_>> /\ pc' = [pc EXCEPT ![a] = AfterClose(a)]
    BY <1>1 DEF onStopPushStream, Goto, procVars, clientVars
  <2>2. AfterClose(a) \in {"check", "done", "bye"}
    BY DEF AfterClose
  <2>. HandIff'
    BY <2>1, <2>2 DEF Ownership, HandIff, TypeOK
  <2>. QED
    BY <2>1, <2>2 DEF Ownership, HeldIffActive, Keyed, SingleOwner, InsertFree, InMap, InHand, InDrain, Active, Started, TypeOK
<1>2. CASE r # NoClient
  <2>1. /\ rtp_client_map_' = [rtp_client_map_ EXCEPT ![c] = NoClient]
        /\ hand' = [hand EXCEPT ![a] = r]
        /\ pc' = [pc EXCEPT ![a] = "flag"]
        /\ UNCHANGED <<drain, proc, call_id_, rtp_param_>>
    BY <1>2 DEF onStopPushStream, Goto, procVars, clientVars
  <2>2. r \in Clients /\ InMap(r) /\ ~ InHand(r) /\ ~ InDrain(r)
    BY <1>2 DEF Ownership, SingleOwner, InMap, TypeOK
  <2>3. \A d \in Calls : rtp_client_map_'[d] = IF d = c THEN NoClient ELSE rtp_client_map_[d]
    BY <2>1 DEF TypeOK
  <2>4. \A b \in Actors : hand'[b] = IF b = a THEN r ELSE hand[b]
    BY <2>1 DEF TypeOK
  <2>5. \A b \in Actors : pc'[b] = IF b = a THEN "flag" ELSE pc[b]
    BY <2>1 DEF TypeOK
  <2>6. \A d \in Calls : rtp_client_map_[d] = r <=> d = c
    BY <1>2 DEF Ownership, SingleOwner
  <2>7. HandIff'
    BY <2>4, <2>5, <2>2, NamesDistinct DEF Ownership, HandIff
  <2>8. \A q \in Clients : InMap(q)' <=> InMap(q) /\ q # r
    BY <2>3, <2>6, NamesDistinct DEF InMap
  <2>9. \A q \in Clients : InHand(q)' <=> InHand(q) \/ q = r
    BY <2>4, NamesDistinct DEF InHand
  <2>10. \A q \in Clients : InDrain(q)' <=> InDrain(q)
    BY <2>1 DEF InDrain
  <2>11. \A q \in Clients : (Active(q)' <=> Active(q)) /\ (Started(q)' <=> Started(q))
    BY <2>1 DEF Active, Started
  <2>12. HeldIffActive'
    BY <2>2, <2>8, <2>9, <2>10, <2>11 DEF Ownership, HeldIffActive
  <2>13. Keyed'
    BY <2>1, <2>3, <2>11 DEF Ownership, Keyed
  <2>14. SingleOwner'
    BY <2>2, <2>3, <2>4, <2>8, <2>9, <2>10, NamesDistinct DEF Ownership, SingleOwner, InHand
  <2>15. InsertFree'
    BY <2>1, <2>3, <2>4, <2>5, NamesDistinct DEF Ownership, InsertFree, Keyed, Actors
  <2>. QED BY <2>7, <2>12, <2>13, <2>14, <2>15
<1>. QED BY <1>1, <1>2

LEMMA StopOwnership ==
    ASSUME TypeOK, Ownership, NEW a \in Actors, SetStop(a) \/ Join(a)
    PROVE  Ownership'
<1>1. CASE SetStop(a)
  BY <1>1, NamesDistinct DEF SetStop, Goto, TypeOK, Ownership, HandIff, HeldIffActive, Keyed, Invited, InsertFree, SingleOwner, InMap, InHand, InDrain, Active, Started, callVars, clientVars, deviceVars, Actors
<1>2. CASE Join(a)
  <2> DEFINE r == hand[a]
  <2>1. /\ r \in Clients /\ InHand(r) /\ ~ InMap(r) /\ ~ InDrain(r)
        /\ proc[r] = "exit"
    BY <1>2 DEF Join, Ownership, HandIff, SingleOwner, InHand, TypeOK
  <2>2. /\ \A q \in Clients : proc'[q] = IF q = r THEN "joined" ELSE proc[q]
        /\ \A b \in Actors : hand'[b] = IF b = a THEN NoClient ELSE hand[b]
        /\ \A b \in Actors : pc'[b] = IF b = a THEN AfterClose(a) ELSE pc[b]
        /\ UNCHANGED <<callVars, clientVars, rtp_client_map_, drain>>
    BY <1>2 DEF Join, Goto, TypeOK
  <2>3. AfterClose(a) \in {"check", "drain", "done", "bye"}
    BY DEF AfterClose
  <2>4. \A q \in Clients : /\ InMap(q)' <=> InMap(q)
                           /\ InHand(q)' <=> InHand(q) /\ q # r
                           /\ InDrain(q)' <=> InDrain(q)
    BY <2>1, <2>2, NamesDistinct DEF InMap, InHand, InDrain, Ownership, SingleOwner
  <2>5. \A q \in Clients : /\ Active(q)' <=> Active(q) /\ q # r
                           /\ Started(q)' <=> Started(q)
    BY <2>1, <2>2 DEF Active, Started
  <2>6. HandIff' BY <2>2, <2>3 DEF Ownership, HandIff
  <2>7. HeldIffActive' BY <2>1, <2>4, <2>5 DEF Ownership, HeldIffActive
  <2>8. Keyed' BY <2>2, <2>5 DEF Ownership, Keyed, clientVars
  <2>9. Invited' BY <2>2 DEF Ownership, Invited, callVars
  <2>10. InsertFree'
    BY <2>2, <2>3, NamesDistinct DEF Ownership, InsertFree, clientVars, Actors
  <2>11. SingleOwner'
    BY <2>2, <2>4 DEF Ownership, SingleOwner
  <2>. QED BY <2>6, <2>7, <2>8, <2>9, <2>10, <2>11 DEF Ownership
<1>. QED BY <1>1, <1>2

LEMMA CleanerOwnership ==
    ASSUME TypeOK, Ownership, CleanerAfterLoop, NEW r \in Clients, CleanFind(r) \/ sendBye(r)
    PROVE  Ownership'
<1>1. CASE CleanFind(r)
  <2>1. call_id_[r] \in Calls /\ r \in Actors \ {Http}
    BY <1>1, NamesDistinct DEF CleanFind, Ownership, Keyed, CleanerAfterLoop, Started, Actors
  <2>. QED
    BY <1>1, <2>1, LookupOwnership DEF CleanFind, Ownership, Invited, callVars, byeVars
<1>2. CASE sendBye(r)
  BY <1>2, NamesDistinct DEF sendBye, Goto, TypeOK, Ownership, HandIff, HeldIffActive, Keyed, Invited, InsertFree, SingleOwner, InMap, InHand, InDrain, Active, Started, callVars, clientVars, procVars, deviceVars, Actors
<1>. QED BY <1>1, <1>2

LEMMA LoopOwnership ==
    ASSUME TypeOK, Ownership, LoopCheck \/ NoEvent \/ Insert
    PROVE  Ownership'
<1>. Loop \in Actors
  BY DEF Actors
<1>1. CASE LoopCheck \/ NoEvent
  BY <1>1, NamesDistinct DEF LoopCheck, NoEvent, Goto, TypeOK, Ownership, HandIff, HeldIffActive, Keyed, Invited, InsertFree, SingleOwner, InMap, InHand, InDrain, Active, Started, callVars, clientVars, procVars, deviceVars
<1>2. CASE Insert
  <2> DEFINE r == hand[Loop]
             c == call_id_[r]
  <2>1. /\ r \in Clients /\ c \in Calls
        /\ InHand(r) /\ ~ InMap(r) /\ ~ InDrain(r)
        /\ rtp_client_map_[c] = NoClient
    <3>1. r \in Clients /\ InHand(r) /\ rtp_client_map_[c] = NoClient
      BY <1>2 DEF Insert, Ownership, HandIff, InsertFree, InHand, TypeOK
    <3>2. Started(r)
      BY <3>1 DEF Ownership, HeldIffActive, Active, Started
    <3>. QED BY <3>1, <3>2 DEF Ownership, SingleOwner, Keyed
  <2>2. /\ \A d \in Calls : rtp_client_map_'[d] = IF d = c THEN r ELSE rtp_client_map_[d]
        /\ \A b \in Actors : hand'[b] = IF b = Loop THEN NoClient ELSE hand[b]
        /\ \A b \in Actors : pc'[b] = IF b = Loop THEN "check" ELSE pc[b]
        /\ UNCHANGED <<callVars, clientVars, procVars, drain>>
    BY <1>2 DEF Insert, Goto, TypeOK
  <2>3. \A q \in Clients : /\ InMap(q)' <=> InMap(q) \/ q = r
                           /\ InHand(q)' <=> InHand(q) /\ q # r
                           /\ InDrain(q)' <=> InDrain(q)
    BY <2>1, <2>2, NamesDistinct DEF InMap, InHand, InDrain, Ownership, SingleOwner
  <2>4. HandIff' BY <2>2 DEF Ownership, HandIff
  <2>5. HeldIffActive'
    <3>1. \A q \in Clients : Active(q)' <=> Active(q)
      BY <2>2 DEF Active, procVars
    <3>2. Active(r)
      BY <2>1 DEF Ownership, HeldIffActive
    <3>. QED BY <2>3, <3>1, <3>2 DEF Ownership, HeldIffActive
  <2>6. Keyed' BY <2>1, <2>2 DEF Ownership, Keyed, Started, clientVars, procVars
  <2>7. Invited' BY <2>2 DEF Ownership, Invited, callVars
  <2>8. InsertFree' BY <2>2 DEF InsertFree
  <2>9. SingleOwner' BY <2>1, <2>2, <2>3 DEF Ownership, SingleOwner, InMap
  <2>. QED BY <2>4, <2>5, <2>6, <2>7, <2>8, <2>9 DEF Ownership
<1>. QED BY <1>1, <1>2

LEMMA CallOwnership ==
    ASSUME TypeOK, Ownership, NEW c \in Calls, Invite(c) \/ InviteSearch(c) \/ Ack(c) \/ Closed(c)
    PROVE  Ownership'
<1>. Loop \in Actors \ {Http}
  BY NamesDistinct DEF Actors
<1>1. CASE Invite(c) \/ InviteSearch(c)
  BY <1>1, NamesDistinct, SMTT(30) DEF Invite, InviteSearch, Goto, TypeOK, Ownership, HandIff, HeldIffActive, Keyed, Invited, InsertFree, SingleOwner, InMap, InHand, InDrain, Active, Started, callVars, clientVars, procVars, deviceVars
<1>2. CASE Ack(c)
  <2>1. CASE Goto(Loop, "check") /\ UNCHANGED <<clientVars, procVars, deviceVars>>
    BY <1>2, <2>1, NamesDistinct DEF Ack, Goto, TypeOK, Ownership, HandIff, HeldIffActive, Keyed, Invited, InsertFree, SingleOwner, InMap, InHand, InDrain, Active, Started, clientVars, procVars, deviceVars
  <2>2. ASSUME NEW r \in Clients, StartPushStream(r, c), rtp_client_map_[c] = NoClient
        PROVE  Ownership'
    <3>1. /\ proc[r] = "unborn"
          /\ ~ InMap(r) /\ ~ InHand(r) /\ ~ InDrain(r)
          /\ hand[Loop] = NoClient
          /\ caller_param_ \in Calls
      BY <1>2, <2>2 DEF Ack, StartPushStream, Ownership, HeldIffActive, Active, HandIff, Invited, TypeOK
    <3>2. /\ \A q \in Clients : proc'[q] = IF q = r THEN "connect" ELSE proc[q]
          /\ \A q \in Clients : call_id_'[q] = IF q = r THEN c ELSE call_id_[q]
          /\ \A q \in Clients : rtp_param_'[q] = IF q = r THEN caller_param_ ELSE rtp_param_[q]
          /\ \A b \in Actors : hand'[b] = IF b = Loop THEN r ELSE hand[b]
          /\ \A b \in Actors : pc'[b] = IF b = Loop THEN "insert" ELSE pc[b]
          /\ UNCHANGED <<caller_param_, dialog, rtp_client_map_, drain>>
      BY <1>2, <2>2 DEF Ack, StartPushStream, Goto, ProcGoto, TypeOK
    <3>3. \A q \in Clients : /\ InMap(q)' <=> InMap(q)
                             /\ InHand(q)' <=> InHand(q) \/ q = r
                             /\ InDrain(q)' <=> InDrain(q)
      BY <3>1, <3>2, NamesDistinct DEF InMap, InHand, InDrain
    <3>4. HandIff' BY <3>2, NamesDistinct DEF Ownership, HandIff
    <3>5. HeldIffActive' BY <3>2, <3>3 DEF Ownership, HeldIffActive, Active
    <3>6. Keyed'
      <4>1. \A d \in Calls : rtp_client_map_[d] # NoClient => rtp_client_map_[d] \in Clients \ {r}
        BY <3>1 DEF InMap, TypeOK
      <4>. QED BY <3>1, <3>2, <4>1 DEF Ownership, Keyed, Started
    <3>7. Invited' BY <3>2 DEF Ownership, Invited
    <3>8. InsertFree' BY <2>2, <3>2 DEF InsertFree
    <3>9. SingleOwner' BY <3>1, <3>2, <3>3 DEF Ownership, SingleOwner, InHand
    <3>. QED BY <3>4, <3>5, <3>6, <3>7, <3>8, <3>9 DEF Ownership
  <2>. QED BY <1>2, <2>1, <2>2 DEF Ack
<1>3. CASE Closed(c)
  <2>1. HandIff' /\ HeldIffActive' /\ Keyed' /\ SingleOwner' /\ InsertFree'
    BY <1>3, LookupOwnership DEF Closed, byeVars
  <2>2. Invited'
    BY <1>3 DEF Closed, Ownership, Invited, TypeOK
  <2>. QED BY <2>1, <2>2 DEF Ownership
<1>. QED BY <1>1, <1>2, <1>3

LEMMA CloseOwnership ==
    ASSUME TypeOK, Ownership, ClosePhases, CloseBegin \/ CloseSip \/ TakeMap \/ DrainNext
    PROVE  Ownership'
<1>. Http \in Actors
  BY DEF Actors
<1>1. CASE CloseBegin \/ CloseSip
  <2>1. /\ UNCHANGED <<callVars, clientVars, procVars, deviceVars>>
        /\ \A b \in Actors : pc'[b] = IF b = Http THEN pc'[Http] ELSE pc[b]
        /\ pc[Http] \in {"idle", "joinloop"} /\ pc'[Http] \in {"joinloop", "take"}
    BY <1>1 DEF CloseBegin, CloseSip, Goto, TypeOK
  <2>2. HandIff' BY <2>1 DEF Ownership, HandIff, deviceVars
  <2>3. InsertFree' BY <2>1, NamesDistinct DEF Ownership, InsertFree, deviceVars, clientVars, Actors
  <2>. QED
    BY <2>1, <2>2, <2>3 DEF Ownership, HeldIffActive, Keyed, Invited, SingleOwner, InMap, InHand, InDrain, Active, Started, callVars, clientVars, procVars, deviceVars
<1>2. CASE TakeMap
  <2>1. /\ pc[Http] = "take" /\ pc[Loop] = "exit" /\ drain = {}
        /\ \A b \in Actors : pc'[b] = IF b = Http THEN "drain" ELSE pc[b]
        /\ UNCHANGED <<callVars, clientVars, procVars, hand>>
        /\ \A d \in Calls : rtp_client_map_'[d] = NoClient
        /\ drain' = {rtp_client_map_[d] : d \in Calls} \ {NoClient}
    BY <1>2 DEF TakeMap, ClosePhases, Goto, TypeOK
  <2>2. \A q \in Clients : /\ ~ InMap(q)'
                           /\ InHand(q)' <=> InHand(q)
                           /\ InDrain(q)' <=> InMap(q)
                           /\ ~ InDrain(q)
    BY <2>1, NamesDistinct DEF InMap, InHand, InDrain
  <2>3. \A q \in Clients : (Active(q)' <=> Active(q)) /\ (Started(q)' <=> Started(q))
    BY <2>1 DEF Active, Started, procVars
  <2>4. HandIff' BY <2>1 DEF Ownership, HandIff
  <2>5. HeldIffActive' BY <2>2, <2>3 DEF Ownership, HeldIffActive
  <2>6. Keyed' BY <2>1, <2>3 DEF Ownership, Keyed, clientVars
  <2>7. Invited' BY <2>1 DEF Ownership, Invited, callVars
  <2>8. InsertFree' BY <2>1, NamesDistinct DEF InsertFree, Actors
  <2>9. SingleOwner' BY <2>1, <2>2 DEF Ownership, SingleOwner
  <2>. QED BY <2>4, <2>5, <2>6, <2>7, <2>8, <2>9 DEF Ownership
<1>3. CASE DrainNext
  <2>1. CASE drain = {} /\ Goto(Http, "done") /\ UNCHANGED <<drain, hand>>
    BY <1>3, <2>1, NamesDistinct DEF DrainNext, Goto, TypeOK, Ownership, HandIff, HeldIffActive, Keyed, Invited, InsertFree, SingleOwner, InMap, InHand, InDrain, Active, Started, callVars, clientVars, procVars
  <2>2. ASSUME NEW r \in drain, drain' = drain \ {r}, hand' = [hand EXCEPT ![Http] = r], Goto(Http, "flag")
        PROVE  Ownership'
    <3>1. /\ r \in Clients /\ InDrain(r) /\ ~ InMap(r) /\ ~ InHand(r)
          /\ hand[Http] = NoClient
      BY <1>3, <2>2 DEF DrainNext, TypeOK, InDrain, Ownership, SingleOwner, HandIff
    <3>2. /\ \A b \in Actors : hand'[b] = IF b = Http THEN r ELSE hand[b]
          /\ \A b \in Actors : pc'[b] = IF b = Http THEN "flag" ELSE pc[b]
          /\ UNCHANGED <<callVars, clientVars, procVars, rtp_client_map_>>
      BY <1>3, <2>2 DEF DrainNext, Goto, TypeOK
    <3>3. \A q \in Clients : /\ InMap(q)' <=> InMap(q)
                             /\ InHand(q)' <=> InHand(q) \/ q = r
                             /\ InDrain(q)' <=> InDrain(q) /\ q # r
      BY <2>2, <3>1, <3>2, NamesDistinct DEF InMap, InHand, InDrain
    <3>4. \A q \in Clients : (Active(q)' <=> Active(q)) /\ (Started(q)' <=> Started(q))
      BY <3>2 DEF Active, Started, procVars
    <3>5. HandIff' BY <3>1, <3>2, NamesDistinct DEF Ownership, HandIff
    <3>6. HeldIffActive' BY <3>1, <3>3, <3>4 DEF Ownership, HeldIffActive
    <3>7. Keyed' BY <3>2, <3>4 DEF Ownership, Keyed, clientVars
    <3>8. Invited' BY <3>2 DEF Ownership, Invited, callVars
    <3>9. InsertFree' BY <3>2, NamesDistinct DEF Ownership, InsertFree, clientVars, Actors
    <3>10. SingleOwner' BY <3>1, <3>2, <3>3 DEF Ownership, SingleOwner, InHand
    <3>. QED BY <3>5, <3>6, <3>7, <3>8, <3>9, <3>10 DEF Ownership
  <2>. QED BY <1>3, <2>1, <2>2 DEF DrainNext
<1>. QED BY <1>1, <1>2, <1>3

LEMMA StutterOwnership == Ownership /\ UNCHANGED vars => Ownership'
  BY DEF Ownership, HandIff, HeldIffActive, Keyed, Invited, InsertFree, SingleOwner, InMap, InHand, InDrain, Active, Started, vars, callVars, clientVars, procVars, deviceVars

LEMMA NextOwnership ==
    ASSUME TypeOK, Ownership, ClosePhases, CleanerAfterLoop, Next
    PROVE  Ownership'
  BY NextCases, ProcessOwnership, StopOwnership, CleanerOwnership, LoopOwnership, CallOwnership, CloseOwnership, StutterOwnership

----
(***************************************************************************)
(* Descriptors, the phases of close() and the clean-up threads.            *)
(***************************************************************************)
Phases == ClosePhases /\ ByeHasDialog /\ CleanerAfterLoop

LEMMA InitPhases == Init => Phases
  BY NamesDistinct DEF Init, Phases, ClosePhases, ByeHasDialog, CleanerAfterLoop, Actors

LEMMA ProcessPhases ==
    ASSUME TypeOK, Ownership, Phases, NEW r \in Clients, process(r)
    PROVE  Phases'
<1>4. CleanerAfterLoop'
  <2>1. proc[r] \in {"leave", "exit", "joined"} => proc'[r] = "exit"
    BY DEF process, Connect, Begin, OpenFile, LoopTest, ReadPacket, ReadEnd, ReadFail, Leave, ProcGoto, TypeOK
  <2>. QED
    BY <2>1, ProcessFrame DEF Phases, CleanerAfterLoop, Actors
<1>2. ClosePhases'
  BY ProcessFrame, NamesDistinct DEF Phases, ClosePhases, deviceVars, Actors
<1>3. ByeHasDialog'
  <2>1. \A q \in Clients : pc'[q] = "bye" => pc[q] = "bye"
    BY ProcessFrame DEF Phases, Actors
  <2>2. \A q \in Clients : pc'[q] = "bye" => byeTo'[q] = byeTo[q]
    BY <2>1 DEF process, Connect, Begin, OpenFile, LoopTest, ReadPacket, ReadEnd, ReadFail, Leave, Notify, Goto, byeVars, TypeOK, Actors
  <2>. QED BY <2>1, <2>2 DEF Phases, ByeHasDialog
<1>. QED BY <1>2, <1>3, <1>4 DEF Phases

LEMMA StopPhases ==
    ASSUME TypeOK, Ownership, Phases, NEW a \in Actors, SetStop(a) \/ Join(a)
    PROVE  Phases'
<1>1. CASE SetStop(a)
  BY <1>1, NamesDistinct DEF SetStop, Goto, TypeOK, Phases, ClosePhases, ByeHasDialog, CleanerAfterLoop, deviceVars, byeVars, Actors
<1>2. CASE Join(a)
  <2> DEFINE r == hand[a]
  <2>1. /\ r \in Clients /\ proc[r] = "exit"
        /\ \A q \in Clients : proc'[q] = IF q = r THEN "joined" ELSE proc[q]
        /\ \A b \in Actors : pc'[b] = IF b = a THEN AfterClose(a) ELSE pc[b]
        /\ UNCHANGED <<rtp_client_map_, drain, byeVars>>
    BY <1>2 DEF Join, Goto, TypeOK, Ownership, HandIff
  <2>3. ClosePhases'
    BY <1>2, <2>1, NamesDistinct DEF Join, Phases, ClosePhases, AfterClose, Actors
  <2>4. ByeHasDialog'
    BY <2>1, NamesDistinct DEF Phases, ByeHasDialog, AfterClose, byeVars, Actors
  <2>5. CleanerAfterLoop'
    BY <1>2, <2>1 DEF Join, Phases, CleanerAfterLoop, Actors
  <2>. QED BY <2>3, <2>4, <2>5 DEF Phases
<1>. QED BY <1>1, <1>2

LEMMA CleanerPhases ==
    ASSUME TypeOK, Ownership, Phases, NEW r \in Clients, CleanFind(r) \/ sendBye(r)
    PROVE  Phases'
<1>. r \in Actors /\ r # Loop /\ r # Http
  BY NamesDistinct DEF Actors
<1>1. CASE CleanFind(r)
  <2>1. /\ \A b \in Actors : b # r => pc'[b] = pc[b]
        /\ pc[r] = "find" /\ pc'[r] \in {"flag", AfterClose(r)}
        /\ \A c \in Calls : rtp_client_map_'[c] \in {rtp_client_map_[c], NoClient}
        /\ UNCHANGED <<procVars, byeVars, drain>>
    BY <1>1 DEF CleanFind, onStopPushStream, Goto, TypeOK
  <2>2. CleanerAfterLoop'
    BY <2>1 DEF Phases, CleanerAfterLoop, procVars, Actors
  <2>3. ClosePhases'
    BY <2>1, NamesDistinct DEF Phases, ClosePhases, Actors
  <2>4. ByeHasDialog'
    BY <2>1 DEF Phases, ByeHasDialog, AfterClose, byeVars, Actors
  <2>. QED BY <2>2, <2>3, <2>4 DEF Phases
<1>2. CASE sendBye(r)
  BY <1>2, NamesDistinct DEF sendBye, Goto, TypeOK, Phases, ClosePhases, ByeHasDialog, CleanerAfterLoop, procVars, deviceVars, Actors
<1>. QED BY <1>1, <1>2

LEMMA LoopPhases ==
    ASSUME TypeOK, Ownership, Phases, LoopCheck \/ NoEvent \/ Insert
    PROVE  Phases'
<1>1. /\ pc[Loop] # "exit"
      /\ \A b \in Actors : b # Loop => pc'[b] = pc[b]
      /\ UNCHANGED <<procVars, byeVars, drain>>
  BY DEF LoopCheck, NoEvent, Insert, Goto, TypeOK, deviceVars
<1>2. CleanerAfterLoop' /\ ByeHasDialog'
  BY <1>1, NamesDistinct DEF Phases, CleanerAfterLoop, ByeHasDialog, procVars, byeVars, Actors
<1>3. ClosePhases'
  BY <1>1, NamesDistinct DEF Phases, ClosePhases, Actors
<1>. QED BY <1>2, <1>3 DEF Phases

LEMMA CallPhases ==
    ASSUME TypeOK, Ownership, Phases, NEW c \in Calls, Invite(c) \/ InviteSearch(c) \/ Ack(c) \/ Closed(c)
    PROVE  Phases'
<1>1. /\ pc[Loop] = "wait"
      /\ \A b \in Actors : b # Loop => pc'[b] = pc[b]
      /\ \A q \in Clients : proc'[q] = proc[q] \/ (proc[q] = "unborn" /\ proc'[q] = "connect")
      /\ UNCHANGED <<byeVars, drain>>
  BY DEF Invite, InviteSearch, Ack, Closed, StartPushStream, onStopPushStream, Goto, ProcGoto, TypeOK, deviceVars, procVars
<1>2. CleanerAfterLoop' /\ ByeHasDialog'
  BY <1>1, NamesDistinct DEF Phases, CleanerAfterLoop, ByeHasDialog, byeVars, Actors
<1>3. ClosePhases'
  BY <1>1, NamesDistinct DEF Phases, ClosePhases, Actors
<1>. QED BY <1>2, <1>3 DEF Phases

LEMMA ClosePhasesStep ==
    ASSUME TypeOK, Ownership, Phases, CloseBegin \/ CloseSip \/ TakeMap \/ DrainNext
    PROVE  Phases'
<1>1. /\ \A b \in Actors : b # Http => pc'[b] = pc[b]
      /\ UNCHANGED <<procVars, byeVars>>
  BY DEF CloseBegin, CloseSip, TakeMap, DrainNext, Goto, TypeOK
<1>2. CleanerAfterLoop' /\ ByeHasDialog'
  BY <1>1, NamesDistinct DEF Phases, CleanerAfterLoop, ByeHasDialog, procVars, byeVars, Actors
<1>3. ClosePhases'
  <2> USE <1>1, NamesDistinct DEF Phases, ClosePhases, TypeOK, Goto, Actors
  <2>1. CASE CloseBegin BY <2>1 DEF CloseBegin, deviceVars
  <2>2. CASE CloseSip BY <2>2 DEF CloseSip, deviceVars
  <2>3. CASE TakeMap BY <2>3 DEF TakeMap
  <2>4. CASE DrainNext BY <2>4 DEF DrainNext
  <2>. QED BY <2>1, <2>2, <2>3, <2>4
<1>. QED BY <1>2, <1>3 DEF Phases

LEMMA StutterPhases == Phases /\ UNCHANGED vars => Phases'
  BY DEF Phases, ClosePhases, ByeHasDialog, CleanerAfterLoop, vars, procVars, deviceVars, byeVars

LEMMA NextPhases ==
    ASSUME TypeOK, Ownership, Phases, Next
    PROVE  Phases'
  BY NextCases, ProcessPhases, StopPhases, CleanerPhases, LoopPhases, CallPhases, ClosePhasesStep, StutterPhases

----
(***************************************************************************)
(* Whose socket is under which number.                                     *)
(***************************************************************************)
LEMMA InitSockets == Init => OwnNumber
  BY DEF Init, OwnNumber, ConnectedStates

\* A failed connect leaves the streaming thread at its end with a number that is
\* not its own; a successful one takes a number that nobody has.
LEMMA ConnectSockets ==
    ASSUME TypeOK, OwnNumber, NEW r \in Clients, Connect(r)
    PROVE  OwnNumber'
<1>1. r \notin failed /\ failed \subseteq Clients
  BY DEF Connect, OwnNumber, TypeOK
<1>2. /\ \A q \in Clients : q # r => proc'[q] = proc[q] /\ sock_fd_'[q] = sock_fd_[q]
      /\ \A q \in Clients : proc'[q] = "joined" <=> proc[q] = "joined"
      /\ proc'[r] \in {"begin", "exit"}
  BY DEF Connect, ProcGoto, TypeOK
<1>3. failed \subseteq failed' /\ failed' \subseteq failed \cup {r}
  BY DEF Connect
<1>4. ClosedTwice => ClosedTwice'
  BY <1>2, <1>3 DEF ClosedTwice, TypeOK
<1>5. CASE proc'[r] = "begin"
  <2>1. failed' = failed /\ Owns(r)'
    BY <1>5 DEF Connect, ProcGoto, FreeFd, Owns, TypeOK
  <2>2. \A q \in Clients : Owns(q) => q = r \/ Owns(q)'
    BY <1>2, <1>5, NamesDistinct DEF Connect, ProcGoto, FreeFd, Owns, TypeOK
  <2>. QED BY <1>1, <1>2, <1>4, <1>5, <2>1, <2>2 DEF OwnNumber, ConnectedStates
<1>6. CASE proc'[r] = "exit"
  <2>1. failed' = failed \cup {r} /\ owner' = owner
    BY <1>6 DEF Connect, ProcGoto, TypeOK
  <2>2. \A q \in Clients : q # r /\ Owns(q) => Owns(q)'
    BY <1>2, <2>1 DEF Owns
  <2>. QED BY <1>1, <1>2, <1>4, <1>6, <2>1, <2>2 DEF OwnNumber, ConnectedStates
<1>. QED BY <1>2, <1>5, <1>6

LEMMA ProcessSockets ==
    ASSUME TypeOK, OwnNumber, NEW r \in Clients, process(r)
    PROVE  OwnNumber'
<1>1. CASE ~ Connect(r)
  <2>1. /\ UNCHANGED sockVars
        /\ proc[r] \in ConnectedStates \ {"blocked"}
        /\ proc'[r] \in ConnectedStates \cup {"exit"}
        /\ \A q \in Clients : q # r => proc'[q] = proc[q]
        /\ failed \subseteq Clients
    BY <1>1 DEF process, Begin, OpenFile, LoopTest, ReadPacket, ReadEnd, ReadFail, Leave, ProcGoto, ConnectedStates, TypeOK
  <2>2. ClosedTwice => ClosedTwice'
    BY <2>1 DEF ClosedTwice, ConnectedStates, sockVars, TypeOK
  <2>. QED BY <2>1, <2>2 DEF OwnNumber, Owns, ConnectedStates, sockVars
<1>. QED BY <1>1, ConnectSockets

\* RtpClient::close takes nothing from another client, or it is a second close.
LEMMA StopSockets ==
    ASSUME TypeOK, Ownership, OwnNumber, NEW a \in Actors, SetStop(a) \/ Join(a)
    PROVE  OwnNumber'
<1>1. CASE SetStop(a)
  BY <1>1 DEF SetStop, OwnNumber, Owns, ClosedTwice, sockVars
<1>2. CASE Join(a)
  <2> DEFINE r == hand[a]
  <2>1. /\ r \in Clients /\ proc[r] = "exit"
        /\ \A q \in Clients : proc'[q] = IF q = r THEN "joined" ELSE proc[q]
        /\ \A q \in Clients : q # r => sock_fd_'[q] = sock_fd_[q]
        /\ \A f \in Fds : owner'[f] = IF f = sock_fd_[r] THEN NoClient ELSE owner[f]
        /\ failed' = failed /\ failed \subseteq Clients
    BY <1>2 DEF Join, CloseNumber, TypeOK, Ownership, HandIff
  <2>2. ClosedTwice => ClosedTwice'
    BY <2>1 DEF ClosedTwice, TypeOK
  <2>3. r \in failed => ClosedTwice'
    BY <2>1 DEF ClosedTwice
  <2>4. \A q \in Clients : Owns(r) /\ Owns(q) /\ q # r => Owns(q)'
    BY <2>1 DEF Owns
  <2>. QED
    BY <2>1, <2>2, <2>3, <2>4 DEF OwnNumber, ConnectedStates
<1>. QED BY <1>1, <1>2

LEMMA OtherSockets ==
    ASSUME TypeOK, OwnNumber
    PROVE  /\ \A r \in Clients : CleanFind(r) \/ sendBye(r) => OwnNumber'
           /\ LoopCheck \/ NoEvent \/ Insert => OwnNumber'
           /\ \A c \in Calls : Invite(c) \/ InviteSearch(c) \/ Ack(c) \/ Closed(c) => OwnNumber'
           /\ CloseBegin \/ CloseSip \/ TakeMap \/ DrainNext => OwnNumber'
           /\ UNCHANGED vars => OwnNumber'
<1>1. ASSUME UNCHANGED sockVars,
             \A q \in Clients : proc'[q] = proc[q] \/ (proc[q] = "unborn" /\ proc'[q] = "connect")
      PROVE  OwnNumber'
  <2>1. ClosedTwice => ClosedTwice'
    BY <1>1 DEF ClosedTwice, sockVars, TypeOK
  <2>2. failed \subseteq Clients
    BY DEF TypeOK
  <2>. QED BY <1>1, <2>1, <2>2 DEF OwnNumber, Owns, ConnectedStates, sockVars
<1>2. ASSUME NEW c \in Calls, Ack(c)
      PROVE  /\ UNCHANGED sockVars
             /\ \A q \in Clients : proc'[q] = proc[q] \/ (proc[q] = "unborn" /\ proc'[q] = "connect")
  BY <1>2 DEF Ack, StartPushStream, ProcGoto, procVars, TypeOK
<1>. QED
  BY <1>1, <1>2 DEF CleanFind, sendBye, LoopCheck, NoEvent, Insert, Invite, InviteSearch, Closed, CloseBegin, CloseSip, TakeMap, DrainNext, vars, procVars

LEMMA NextSockets ==
    ASSUME TypeOK, Ownership, OwnNumber, Next
    PROVE  OwnNumber'
  BY NextCases, ProcessSockets, StopSockets, OtherSockets

LEMMA OwnNumberOpens == OwnNumber => OpenWhileStreaming
  BY DEF OwnNumber, OpenWhileStreaming, ConnectedStates

----
(***************************************************************************)
(* A clean-up thread finds its own client or none.                         *)
(***************************************************************************)
Searches == OneUnsearched /\ CleanerStopsItsOwn

LEMMA InitSearches == Init => Searches
  BY NamesDistinct DEF Init, Searches, OneUnsearched, Unsearched, Started, CleanerStopsItsOwn, Actors

LEMMA ProcessSearches ==
    ASSUME TypeOK, Ownership, Phases, Searches, NEW r \in Clients, process(r)
    PROVE  Searches'
<1>1. \A q \in Clients : Unsearched(q)' <=> Unsearched(q)
  BY ProcessFrame DEF Phases, Unsearched, Actors
<1>2. pc'[Loop] = pc[Loop]
  BY ProcessFrame, NamesDistinct DEF Phases, Actors
<1>3. UNCHANGED <<callVars, clientVars, deviceVars>>
  BY ProcessFrame DEF Phases
<1>. QED
  BY <1>1, <1>2, <1>3 DEF Searches, OneUnsearched, CleanerStopsItsOwn, callVars, clientVars, deviceVars

LEMMA StopSearches ==
    ASSUME TypeOK, Ownership, Phases, Searches, NEW a \in Actors, SetStop(a) \/ Join(a)
    PROVE  Searches'
<1>1. /\ UNCHANGED <<callVars, clientVars, rtp_client_map_>>
      /\ pc[a] \in {"flag", "join"}
      /\ pc'[a] \notin {"none", "find", "insert", "exit"}
      /\ \A b \in Actors : b # a => pc'[b] = pc[b] /\ hand'[b] = hand[b]
      /\ hand'[a] \in {hand[a], NoClient}
      /\ \A q \in Clients : Started(q)' <=> Started(q)
  BY DEF SetStop, Join, Goto, AfterClose, Started, TypeOK, deviceVars
<1>2. \A q \in Clients : Unsearched(q)' <=> Unsearched(q)
  BY <1>1 DEF Unsearched, Actors
<1>3. OneUnsearched'
  BY <1>1, <1>2 DEF Searches, OneUnsearched, callVars, clientVars, Actors
<1>4. CleanerStopsItsOwn'
  BY <1>1 DEF Searches, CleanerStopsItsOwn, Actors
<1>. QED BY <1>3, <1>4 DEF Searches

LEMMA CleanerSearches ==
    ASSUME TypeOK, Ownership, Phases, Searches, NEW r \in Clients, CleanFind(r) \/ sendBye(r)
    PROVE  Searches'
<1>. r \in Actors /\ r # Loop /\ r # Http
  BY NamesDistinct DEF Actors
<1>1. CASE CleanFind(r)
  <2> DEFINE c == call_id_[r]
             q == rtp_client_map_[c]
  <2>1. Unsearched(r) /\ c \in Calls
    BY <1>1 DEF CleanFind, Unsearched, Started, Phases, CleanerAfterLoop, Ownership, Keyed
  <2>2. q \in {r, NoClient}
    BY <2>1 DEF Searches, OneUnsearched
  <2>3. /\ UNCHANGED <<callVars, clientVars, procVars>>
        /\ \A b \in Actors : b # r => pc'[b] = pc[b] /\ hand'[b] = hand[b]
        /\ pc'[r] \in {"flag", AfterClose(r)}
        /\ hand'[r] \in {q, hand[r]}
        /\ \A d \in Calls : rtp_client_map_'[d] = IF d = c THEN NoClient ELSE rtp_client_map_[d]
    BY <1>1, <2>1 DEF CleanFind, onStopPushStream, Goto, TypeOK
  <2>4. pc'[r] \notin {"none", "find"}
    BY <2>3 DEF AfterClose
  <2>5. CleanerStopsItsOwn'
    BY <2>2, <2>3 DEF Searches, CleanerStopsItsOwn, Actors
  <2>6. ASSUME NEW p \in Clients, Unsearched(p)'
        PROVE  /\ p # r /\ Unsearched(p)
               /\ call_id_[p] = c => rtp_client_map_[c] = NoClient
    <3>1. p # r /\ Unsearched(p)
      BY <2>3, <2>4, <2>6 DEF Unsearched, Started, procVars, Actors
    <3>2. call_id_[p] = c => rtp_client_map_[c] \in {p, NoClient}
      BY <3>1 DEF Searches, OneUnsearched
    <3>. QED BY <2>2, <3>1, <3>2
  <2>7. OneUnsearched'
    <3>1. Loop \in Actors
      BY DEF Actors
    <3> SUFFICES ASSUME NEW p \in Clients, Unsearched(p)'
                 PROVE  /\ dialog'[call_id_'[p]] # "new"
                        /\ rtp_client_map_'[call_id_'[p]] \in {p, NoClient}
                        /\ dialog'[call_id_'[p]] = "answered" /\ pc'[Loop] # "exit" =>
                              rtp_client_map_'[call_id_'[p]] = p \/ (pc'[Loop] = "insert" /\ hand'[Loop] = p)
                        /\ pc'[Loop] = "insert" /\ call_id_'[p] = call_id_'[hand'[Loop]] => hand'[Loop] = p
      BY DEF OneUnsearched
    <3>2. call_id_[p] \in Calls
      BY <2>6 DEF Unsearched, Ownership, Keyed
    <3>. QED
      BY <2>3, <2>6, <3>1, <3>2, NamesDistinct DEF Searches, OneUnsearched, callVars, clientVars
  <2>. QED BY <2>5, <2>7 DEF Searches
<1>2. CASE sendBye(r)
  <2>1. /\ UNCHANGED <<callVars, clientVars, procVars, deviceVars>>
        /\ pc'[Loop] = pc[Loop]
        /\ \A q \in Clients : pc'[q] \in {"none", "find"} => pc[q] = pc'[q]
    BY <1>2, NamesDistinct DEF sendBye, Goto, TypeOK, Actors
  <2>. QED
    BY <2>1 DEF Searches, OneUnsearched, Unsearched, Started, CleanerStopsItsOwn, callVars, clientVars, procVars, deviceVars
<1>. QED BY <1>1, <1>2

LEMMA LoopSearches ==
    ASSUME TypeOK, Ownership, Phases, Searches, LoopCheck \/ NoEvent \/ Insert
    PROVE  Searches'
<1>. Loop \in Actors
  BY DEF Actors
<1>1. \A q \in Clients : pc'[q] = pc[q] /\ proc'[q] = proc[q] /\ hand'[q] = hand[q]
  BY NamesDistinct DEF LoopCheck, NoEvent, Insert, Goto, TypeOK, procVars, deviceVars, Actors
<1>2. CleanerStopsItsOwn'
  BY <1>1 DEF Searches, CleanerStopsItsOwn
<1>3. \A q \in Clients : Unsearched(q)' <=> Unsearched(q)
  BY <1>1 DEF Unsearched, Started
<1>4. CASE LoopCheck \/ NoEvent
  <2>1. pc[Loop] \in {"check", "wait"} /\ pc'[Loop] \in {"check", "wait", "exit"}
    BY <1>4 DEF LoopCheck, NoEvent, Goto, TypeOK
  <2>2. UNCHANGED <<callVars, clientVars, deviceVars>>
    BY <1>4 DEF LoopCheck, NoEvent
  <2>3. OneUnsearched'
    BY <1>3, <2>1, <2>2 DEF Searches, OneUnsearched, callVars, clientVars, deviceVars
  <2>. QED BY <1>2, <2>3 DEF Searches
<1>5. CASE Insert
  <2> DEFINE r == hand[Loop]
             c == call_id_[r]
  <2>1. /\ \A d \in Calls : rtp_client_map_'[d] = IF d = c THEN r ELSE rtp_client_map_[d]
        /\ pc[Loop] = "insert" /\ pc'[Loop] = "check"
        /\ UNCHANGED <<callVars, clientVars>>
    BY <1>5 DEF Insert, Goto, TypeOK
  <2>2. ASSUME NEW p \in Clients, Unsearched(p)
        PROVE  /\ call_id_[p] \in Calls
               /\ call_id_[p] = c => p = r
               /\ p = r => call_id_[p] = c
    BY <2>1, <2>2 DEF Searches, OneUnsearched, Unsearched, Ownership, Keyed
  <2>3. OneUnsearched'
    BY <1>3, <2>1, <2>2 DEF Searches, OneUnsearched, callVars, clientVars
  <2>. QED BY <1>2, <2>3 DEF Searches
<1>. QED BY <1>4, <1>5

LEMMA CallSearches ==
    ASSUME TypeOK, Ownership, Phases, Searches, NEW c \in Calls, Invite(c) \/ InviteSearch(c) \/ Ack(c) \/ Closed(c)
    PROVE  Searches'
<1>. Loop \in Actors
  BY DEF Actors
<1>1. /\ pc[Loop] = "wait"
      /\ \A q \in Clients : pc'[q] = pc[q] /\ hand'[q] = hand[q]
  BY NamesDistinct DEF Invite, InviteSearch, Ack, Closed, StartPushStream, onStopPushStream, Goto, TypeOK, deviceVars, Actors
<1>2. CleanerStopsItsOwn'
  BY <1>1 DEF Searches, CleanerStopsItsOwn
<1>3. CASE Invite(c) \/ InviteSearch(c)
  <2>1. /\ dialog[c] = "new"
        /\ \A d \in Calls : d # c => dialog'[d] = dialog[d]
        /\ pc'[Loop] \in {"check", "search"}
        /\ UNCHANGED <<clientVars, procVars, deviceVars>>
    BY <1>3 DEF Invite, InviteSearch, Goto, TypeOK, callVars
  <2>2. \A q \in Clients : Unsearched(q)' <=> Unsearched(q)
    BY <1>1, <2>1 DEF Unsearched, Started, procVars
  <2>3. \A q \in Clients : Unsearched(q) => call_id_[q] \in Calls /\ call_id_[q] # c
    BY <2>1 DEF Searches, OneUnsearched, Unsearched, Ownership, Keyed
  <2>4. OneUnsearched'
    BY <1>1, <2>1, <2>2, <2>3 DEF Searches, OneUnsearched, clientVars, deviceVars
  <2>. QED BY <1>2, <2>4 DEF Searches
<1>4. CASE Ack(c)
  <2>0. UNCHANGED dialog /\ dialog[c] = "answered"
    BY <1>4 DEF Ack
  <2>1. CASE Goto(Loop, "check") /\ UNCHANGED <<clientVars, procVars, deviceVars>>
    <3>1. pc'[Loop] = "check"
      BY <2>1 DEF Goto, TypeOK
    <3>2. \A q \in Clients : Unsearched(q)' <=> Unsearched(q)
      BY <1>1, <2>1 DEF Unsearched, Started, procVars
    <3>3. OneUnsearched'
      BY <1>1, <2>0, <2>1, <3>1, <3>2 DEF Searches, OneUnsearched, clientVars, deviceVars
    <3>. QED BY <1>2, <3>3 DEF Searches
  <2>2. ASSUME NEW r \in Clients, StartPushStream(r, c), rtp_client_map_[c] = NoClient
        PROVE  Searches'
    <3>1. /\ \A q \in Clients : call_id_'[q] = IF q = r THEN c ELSE call_id_[q]
          /\ \A q \in Clients : q # r => proc'[q] = proc[q]
          /\ pc'[Loop] = "insert" /\ hand'[Loop] = r
          /\ UNCHANGED rtp_client_map_
      BY <1>4, <2>2 DEF Ack, StartPushStream, Goto, ProcGoto, TypeOK
    <3>2. \A q \in Clients : q # r => (Unsearched(q)' <=> Unsearched(q))
      BY <1>1, <3>1 DEF Unsearched, Started
    <3>3. \A q \in Clients : Unsearched(q) => call_id_[q] # c
      BY <1>1, <2>0, <2>2, NamesDistinct DEF Searches, OneUnsearched
    <3>4. OneUnsearched'
      BY <1>1, <2>0, <2>2, <3>1, <3>2, <3>3 DEF Searches, OneUnsearched
    <3>. QED BY <1>2, <3>4 DEF Searches
  <2>. QED BY <1>4, <2>1, <2>2 DEF Ack
<1>5. CASE Closed(c)
  <2>1. /\ \A d \in Calls : rtp_client_map_'[d] = IF d = c THEN NoClient ELSE rtp_client_map_[d]
        /\ \A d \in Calls : dialog'[d] = IF d = c THEN "over" ELSE dialog[d]
        /\ pc'[Loop] \in {"flag", "check"}
        /\ UNCHANGED <<clientVars, procVars>>
    <3>1. AfterClose(Loop) = "check"
      BY NamesDistinct DEF AfterClose
    <3>2. /\ \A d \in Calls : dialog'[d] = IF d = c THEN "over" ELSE dialog[d]
          /\ UNCHANGED <<clientVars, procVars>>
          /\ onStopPushStream(Loop, c)
      BY <1>5 DEF Closed, TypeOK
    <3>3. /\ \A d \in Calls : rtp_client_map_'[d] = IF d = c THEN NoClient ELSE rtp_client_map_[d]
          /\ pc'[Loop] \in {"flag", "check"}
      BY <3>1, <3>2 DEF onStopPushStream, Goto, TypeOK
    <3>. QED BY <3>2, <3>3
  <2>2. \A q \in Clients : Unsearched(q)' <=> Unsearched(q)
    BY <1>1, <2>1 DEF Unsearched, Started, procVars
  <2>3. \A q \in Clients : Unsearched(q) => call_id_[q] \in Calls
    BY DEF Unsearched, Ownership, Keyed
  <2>4. OneUnsearched'
    BY <1>1, <2>1, <2>2, <2>3 DEF Searches, OneUnsearched, clientVars
  <2>. QED BY <1>2, <2>4 DEF Searches
<1>. QED BY <1>3, <1>4, <1>5

LEMMA CloseSearches ==
    ASSUME TypeOK, Ownership, Phases, Searches, CloseBegin \/ CloseSip \/ TakeMap \/ DrainNext
    PROVE  Searches'
<1>1. /\ UNCHANGED <<callVars, clientVars, procVars>>
      /\ \A b \in Actors : b # Http => pc'[b] = pc[b] /\ hand'[b] = hand[b]
      /\ UNCHANGED rtp_client_map_ \/ (pc[Http] = "take" /\ rtp_client_map_' = [c \in Calls |-> NoClient])
  BY DEF CloseBegin, CloseSip, TakeMap, DrainNext, Goto, TypeOK, deviceVars
<1>2. CleanerStopsItsOwn'
  BY <1>1, NamesDistinct DEF Searches, CleanerStopsItsOwn, Actors
<1>3. \A q \in Clients : Unsearched(q)' <=> Unsearched(q)
  BY <1>1, NamesDistinct DEF Unsearched, Started, procVars, Actors
<1>4. pc'[Loop] = pc[Loop] /\ hand'[Loop] = hand[Loop]
  BY <1>1, NamesDistinct DEF Actors
<1>5. CASE UNCHANGED rtp_client_map_
  BY <1>1, <1>2, <1>3, <1>4, <1>5 DEF Searches, OneUnsearched, callVars, clientVars
<1>6. CASE pc[Http] = "take" /\ rtp_client_map_' = [c \in Calls |-> NoClient]
  <2>1. pc[Loop] = "exit"
    BY <1>6 DEF Phases, ClosePhases
  <2>2. \A q \in Clients : Unsearched(q) => call_id_[q] \in Calls
    BY DEF Unsearched, Ownership, Keyed
  <2>. QED
    BY <1>1, <1>2, <1>3, <1>4, <1>6, <2>1, <2>2 DEF Searches, OneUnsearched, callVars, clientVars
<1>. QED BY <1>1, <1>5, <1>6

LEMMA StutterSearches == Searches /\ UNCHANGED vars => Searches'
  BY DEF Searches, OneUnsearched, Unsearched, Started, CleanerStopsItsOwn, vars, callVars, clientVars, procVars, deviceVars

LEMMA NextSearches ==
    ASSUME TypeOK, Ownership, Phases, Searches, Next
    PROVE  Searches'
  BY NextCases, ProcessSearches, StopSearches, CleanerSearches, LoopSearches, CallSearches, CloseSearches, StutterSearches

----
(***************************************************************************)
(* The inductive invariant and what follows from it.                       *)
(***************************************************************************)
LEMMA IInvParts == IInv <=> TypeOK /\ Ownership /\ Phases /\ Searches /\ OwnNumber
  BY OwnNumberOpens DEF IInv, Ownership, Phases, Searches

\* The strengthened invariant of PushStreams holds in every reachable state.
THEOREM Invariance == Spec => []IInv
<1>1. Init => IInv
  BY InitType, InitOwnership, InitPhases, InitSearches, InitSockets, IInvParts
<1>2. IInv /\ [Next]_vars => IInv'
  <2> SUFFICES ASSUME IInv, [Next]_vars PROVE IInv'
    OBVIOUS
  <2>1. TypeOK /\ Ownership /\ Phases /\ Searches /\ OwnNumber
    BY IInvParts
  <2>2. TypeOK' /\ Ownership' /\ Phases' /\ Searches' /\ OwnNumber'
    <3>1. CASE Next
      <4>1. TypeOK'
        BY <2>1, <3>1, NextType DEF Ownership, Phases
      <4>2. Ownership' /\ Phases' /\ Searches' /\ OwnNumber'
        BY <2>1, <3>1, NextOwnership, NextPhases, NextSearches, NextSockets DEF Phases
      <4>. QED BY <4>1, <4>2
    <3>2. CASE UNCHANGED vars
      BY <2>1, <3>2, StutterType, StutterOwnership, StutterPhases, StutterSearches, OtherSockets
    <3>. QED BY <3>1, <3>2
  <2>3. OpenWhileStreaming'
    BY <2>2 DEF OwnNumber, OpenWhileStreaming, ConnectedStates
  <2>. QED BY <2>2, <2>3 DEF IInv, Ownership, Phases, Searches
<1>. QED BY <1>1, <1>2, PTL DEF Spec

\* Every variable keeps its type.
THEOREM TypeCorrect == Spec => []TypeOK
<1>1. IInv => TypeOK
  BY DEF IInv
<1>. QED BY <1>1, Invariance, PTL

\* RtpClient::close is never entered twice for one client, however the SIP loop,
\* the clean-up threads and close() interleave.
THEOREM OneOwner == Spec => []SingleOwner
<1>1. IInv => SingleOwner
  BY DEF IInv
<1>. QED BY <1>1, Invariance, PTL

\* No RtpClient with a joinable thread is dropped.
THEOREM NoneOrphaned == Spec => []NoOrphanThread
<1>1. IInv => NoOrphanThread
  BY DEF IInv, HeldIffActive, NoOrphanThread, Active
<1>. QED BY <1>1, Invariance, PTL

\* A streaming thread has a descriptor that is open and its own, until a client is
\* closed whose connect had failed: only that second close of a number can take one
\* away from another client.
THEOREM DescriptorOpen == Spec => []OpenWhileStreaming
<1>1. IInv => OpenWhileStreaming
  BY DEF IInv
<1>. QED BY <1>1, Invariance, PTL

\* A clean-up thread never stops a later stream of the same call.
THEOREM OwnClientOnly == Spec => []CleanerStopsItsOwn
<1>1. IInv => CleanerStopsItsOwn
  BY DEF IInv
<1>. QED BY <1>1, Invariance, PTL

\* When close() has returned, nothing of the device streams.
THEOREM CloseStopsAll == Spec => []NoStreamOutlivesClose
<1>1. ASSUME IInv, pc[Http] = "done", NEW r \in Clients
      PROVE  proc[r] \in {"unborn", "leave", "exit", "joined"}
  <2>1. /\ pc[Loop] = "exit" /\ drain = {}
        /\ \A c \in Calls : rtp_client_map_[c] = NoClient
    BY <1>1 DEF IInv, ClosePhases
  <2>2. hand[Loop] = NoClient /\ hand[Http] = NoClient
    BY <1>1, <2>1 DEF IInv, HandIff, Actors
  <2>3. CASE ~ Active(r)
    BY <2>3 DEF Active
  <2>4. CASE Active(r)
    <3>1. InHand(r)
      BY <1>1, <2>1, <2>4, NamesDistinct DEF IInv, HeldIffActive, InMap, InDrain
    <3>2. PICK q \in Clients : hand[q] = r
      BY <2>2, <3>1, NamesDistinct DEF InHand, Actors
    <3>3. q = r /\ pc[q] # "none"
      BY <1>1, <3>2, NamesDistinct DEF IInv, CleanerStopsItsOwn, HandIff, Actors
    <3>. QED BY <1>1, <3>3 DEF IInv, CleanerAfterLoop
  <2>. QED BY <2>3, <2>4
<1>2. IInv => NoStreamOutlivesClose
  BY <1>1 DEF IInv, ClosePhases, NoStreamOutlivesClose
<1>. QED BY <1>2, Invariance, PTL

----
(***************************************************************************)
(* The device keeps the promises of StreamLifecycle.                       *)
(***************************************************************************)
\* One client of a bar function, with what the bar of the others depends on.
LEMMA LifeUnchanged ==
    ASSUME \A q \in Clients : (proc'[q] = "unborn" <=> proc[q] = "unborn") /\ (proc'[q] = "joined" <=> proc[q] = "joined"),
           \A q \in Clients : Active(q) => (InStop(q)' <=> InStop(q)),
           pc'[Http] = "done" <=> pc[Http] = "done"
    PROVE  UNCHANGED Lifecycle!vars
<1>1. \A q \in Clients : lifeBar'[q] = lifeBar[q]
  BY DEF lifeBar, Active
<1>2. lifeBar' = lifeBar
  BY <1>1 DEF lifeBar
<1>. QED BY <1>2 DEF Lifecycle!vars, deviceBar

LEMMA LifeClaimed ==
    ASSUME NEW r \in Clients, Active(r), ~ InStop(r), InStop(r)', UNCHANGED proc,
           \A q \in Clients \ {r} : InStop(q)' <=> InStop(q),
           pc[Http] # "done", pc'[Http] # "done"
    PROVE  Lifecycle!Claim(r)
<1>1. /\ lifeBar[r] = "owned" /\ lifeBar'[r] = "stopping"
      /\ \A q \in Clients \ {r} : lifeBar'[q] = lifeBar[q]
  BY DEF lifeBar, Active
<1>2. lifeBar' = [lifeBar EXCEPT ![r] = "stopping"]
  BY <1>1 DEF lifeBar
<1>. QED BY <1>1, <1>2 DEF Lifecycle!Claim, deviceBar

LEMMA LookupLife ==
    ASSUME IInv, NEW a \in Actors \ {Http}, NEW c \in Calls, pc[a] \in {"find", "wait"},
           onStopPushStream(a, c), UNCHANGED proc
    PROVE  [Lifecycle!Next]_Lifecycle!vars
<1>. a \in Actors /\ Http \in Actors
  BY DEF Actors
<1>1. pc'[Http] = pc[Http]
  BY DEF onStopPushStream, Goto, IInv, TypeOK
<1>2. CASE rtp_client_map_[c] = NoClient
  <2>1. /\ pc'[a] \notin {"flag", "join"} /\ pc[a] \notin {"flag", "join"}
        /\ \A b \in Actors : b # a => pc'[b] = pc[b]
        /\ UNCHANGED hand
    BY <1>2 DEF onStopPushStream, AfterClose, Goto, IInv, TypeOK
  <2>2. \A q \in Clients : InStop(q)' <=> InStop(q)
    BY <2>1 DEF InStop
  <2>. QED BY <1>1, <2>2, LifeUnchanged
<1>3. ASSUME NEW r \in Clients, rtp_client_map_[c] = r
      PROVE  [Lifecycle!Next]_Lifecycle!vars
  <2>1. /\ r \in Clients /\ Active(r) /\ InMap(r)
        /\ hand'[a] = r /\ pc'[a] = "flag"
        /\ \A b \in Actors : b # a => pc'[b] = pc[b] /\ hand'[b] = hand[b]
        /\ pc[Http] # "done"
    BY <1>3, NamesDistinct DEF onStopPushStream, Goto, IInv, TypeOK, HeldIffActive, InMap, ClosePhases
  <2>2. ~ InHand(r)
    BY <2>1 DEF IInv, SingleOwner
  <2>3. ~ InStop(r) /\ InStop(r)'
    BY <2>1, <2>2 DEF InStop, InHand
  <2>4. \A q \in Clients \ {r} : InStop(q)' <=> InStop(q)
    BY <2>1 DEF InStop
  <2>5. Lifecycle!Claim(r)
    BY <1>1, <2>1, <2>3, <2>4, LifeClaimed
  <2>. QED BY <2>1, <2>5 DEF Lifecycle!Next
<1>. QED BY <1>2, <1>3 DEF IInv, TypeOK

LEMMA StopLife ==
    ASSUME IInv, NEW a \in Actors, SetStop(a) \/ Join(a)
    PROVE  [Lifecycle!Next]_Lifecycle!vars
<1>. Http \in Actors
  BY DEF Actors
<1>1. CASE SetStop(a)
  <2>1. /\ UNCHANGED <<proc, hand>> /\ pc[a] = "flag" /\ pc'[a] = "join"
        /\ \A b \in Actors : b # a => pc'[b] = pc[b]
    BY <1>1 DEF SetStop, Goto, deviceVars, IInv, TypeOK
  <2>2. \A q \in Clients : InStop(q)' <=> InStop(q)
    BY <2>1 DEF InStop
  <2>. QED BY <2>1, <2>2, LifeUnchanged
<1>2. CASE Join(a)
  <2> DEFINE r == hand[a]
  <2>1. /\ r \in Clients /\ proc[r] = "exit" /\ InStop(r) /\ pc[a] = "join"
        /\ \A q \in Clients : proc'[q] = IF q = r THEN "joined" ELSE proc[q]
        /\ \A b \in Actors : b # a => pc'[b] = pc[b] /\ hand'[b] = hand[b]
        /\ pc'[a] = AfterClose(a) /\ hand'[a] = NoClient
    BY <1>2 DEF Join, Goto, InStop, IInv, HandIff, TypeOK
  <2>2. \A q \in Clients \ {r} : InStop(q)' <=> InStop(q)
    BY <2>1, NamesDistinct DEF InStop
  <2>3. pc'[Http] # "done" <=> pc[Http] # "done"
    BY <2>1, NamesDistinct DEF AfterClose
  <2>4. /\ lifeBar[r] = "stopping" /\ lifeBar'[r] = "closed"
        /\ \A q \in Clients \ {r} : lifeBar'[q] = lifeBar[q]
    BY <2>1, <2>2 DEF lifeBar
  <2>5. lifeBar' = [lifeBar EXCEPT ![r] = "closed"]
    BY <2>4 DEF lifeBar
  <2>6. Lifecycle!Close(r)
    BY <2>3, <2>4, <2>5 DEF Lifecycle!Close, deviceBar
  <2>. QED BY <2>1, <2>6 DEF Lifecycle!Next
<1>. QED BY <1>1, <1>2

LEMMA CallLife ==
    ASSUME IInv, NEW c \in Calls, Invite(c) \/ InviteSearch(c) \/ Ack(c) \/ Closed(c)
    PROVE  [Lifecycle!Next]_Lifecycle!vars
<1>. Loop \in Actors \ {Http} /\ Http \in Actors
  BY NamesDistinct DEF Actors
<1>0. pc[Loop] = "wait" /\ pc[Http] # "done" /\ hand[Loop] = NoClient
  BY DEF Invite, InviteSearch, Ack, Closed, IInv, ClosePhases, HandIff
<1>1. CASE Closed(c)
  BY <1>0, <1>1, LookupLife DEF Closed, procVars
<1>2. CASE Invite(c) \/ InviteSearch(c) \/ (Ack(c) /\ Goto(Loop, "check") /\ UNCHANGED <<clientVars, procVars, deviceVars>>)
  <2>1. /\ UNCHANGED <<proc, hand>> /\ pc'[Loop] \in {"check", "search"}
        /\ \A b \in Actors : b # Loop => pc'[b] = pc[b]
    BY <1>2 DEF Invite, InviteSearch, Goto, procVars, deviceVars, IInv, TypeOK
  <2>2. \A q \in Clients : InStop(q)' <=> InStop(q)
    BY <1>0, <2>1 DEF InStop
  <2>. QED BY <2>1, <2>2, NamesDistinct, LifeUnchanged
<1>3. ASSUME NEW r \in Clients, Ack(c), StartPushStream(r, c)
      PROVE  [Lifecycle!Next]_Lifecycle!vars
  <2>1. /\ proc[r] = "unborn"
        /\ \A q \in Clients : proc'[q] = IF q = r THEN "connect" ELSE proc[q]
        /\ \A b \in Actors : b # Loop => pc'[b] = pc[b] /\ hand'[b] = hand[b]
        /\ pc'[Loop] = "insert" /\ hand'[Loop] = r
    BY <1>3 DEF StartPushStream, Goto, ProcGoto, IInv, TypeOK
  <2>2. ~ InHand(r)
    BY <2>1 DEF IInv, HeldIffActive, Active
  <2>3. ~ InStop(r)' /\ \A q \in Clients \ {r} : InStop(q)' <=> InStop(q)
    BY <1>0, <2>1, <2>2 DEF InStop, InHand
  <2>4. /\ lifeBar[r] = "new" /\ lifeBar'[r] = "owned"
        /\ \A q \in Clients \ {r} : lifeBar'[q] = lifeBar[q]
    BY <2>1, <2>3 DEF lifeBar
  <2>5. lifeBar' = [lifeBar EXCEPT ![r] = "owned"]
    BY <2>4 DEF lifeBar
  <2>6. Lifecycle!Start(r)
    BY <1>0, <2>1, <2>4, <2>5, NamesDistinct DEF Lifecycle!Start, deviceBar
  <2>. QED BY <2>6 DEF Lifecycle!Next
<1>. QED BY <1>1, <1>2, <1>3 DEF Ack

LEMMA CloseLife ==
    ASSUME IInv, CloseBegin \/ CloseSip \/ TakeMap \/ DrainNext
    PROVE  [Lifecycle!Next]_Lifecycle!vars
<1>. Http \in Actors
  BY DEF Actors
<1>1. UNCHANGED proc /\ \A b \in Actors : b # Http => pc'[b] = pc[b] /\ hand'[b] = hand[b]
  BY DEF CloseBegin, CloseSip, TakeMap, DrainNext, Goto, procVars, deviceVars, IInv, TypeOK
<1>2. CASE CloseBegin \/ CloseSip \/ TakeMap
  <2>1. /\ pc[Http] \notin {"flag", "join", "done"} /\ pc'[Http] \notin {"flag", "join", "done"}
    BY <1>2 DEF CloseBegin, CloseSip, TakeMap, Goto, IInv, TypeOK
  <2>2. \A q \in Clients : InStop(q)' <=> InStop(q)
    BY <1>1, <2>1 DEF InStop
  <2>. QED BY <1>1, <2>1, <2>2, LifeUnchanged
<1>3. CASE DrainNext
  <2>0. pc[Http] = "drain" /\ hand[Http] = NoClient
    BY <1>3 DEF DrainNext, IInv, HandIff
  <2>1. ASSUME NEW r \in drain, hand' = [hand EXCEPT ![Http] = r], Goto(Http, "flag")
        PROVE  [Lifecycle!Next]_Lifecycle!vars
    <3>1. /\ r \in Clients /\ Active(r) /\ ~ InHand(r)
          /\ hand'[Http] = r /\ pc'[Http] = "flag"
      BY <2>1 DEF Goto, IInv, TypeOK, HeldIffActive, SingleOwner, InDrain
    <3>2. ~ InStop(r) /\ InStop(r)' /\ \A q \in Clients \ {r} : InStop(q)' <=> InStop(q)
      BY <1>1, <2>0, <3>1, NamesDistinct DEF InStop, InHand
    <3>3. Lifecycle!Claim(r)
      BY <1>1, <2>0, <3>1, <3>2, LifeClaimed
    <3>. QED BY <3>1, <3>3 DEF Lifecycle!Next
  <2>2. CASE drain = {} /\ Goto(Http, "done") /\ UNCHANGED <<drain, hand>>
    <3>1. pc'[Http] = "done" /\ pc[Loop] = "exit" /\ \A c \in Calls : rtp_client_map_[c] = NoClient
      BY <2>0, <2>2 DEF Goto, IInv, TypeOK, ClosePhases
    <3>2. \A q \in Clients : InStop(q)' <=> InStop(q)
      BY <1>1, <2>0, <2>2, <3>1 DEF InStop
    <3>3. \A q \in Clients : Active(q) => InStop(q)
      <4> SUFFICES ASSUME NEW q \in Clients, Active(q) PROVE InStop(q)
        OBVIOUS
      <4>1. InHand(q)
        BY <2>2, <3>1, NamesDistinct DEF IInv, HeldIffActive, InMap, InDrain
      <4>2. PICK a \in Actors : hand[a] = q
        BY <4>1 DEF InHand
      <4>3. pc[a] \in {"insert", "flag", "join"} /\ a # Loop
        BY <3>1, <4>2, NamesDistinct DEF IInv, HandIff, Actors
      <4>4. pc[a] # "insert"
        BY <4>3 DEF IInv, TypeOK, PcStates, HttpStates, CleanerStates
      <4>. QED BY <4>2, <4>3, <4>4 DEF InStop
    <3>4. \A q \in Clients : lifeBar[q] # "owned" /\ lifeBar'[q] = lifeBar[q]
      BY <1>1, <3>2, <3>3 DEF lifeBar, Active
    <3>5. lifeBar' = lifeBar
      BY <3>4 DEF lifeBar
    <3>6. Lifecycle!Shut
      BY <2>0, <3>1, <3>4, <3>5 DEF Lifecycle!Shut, deviceBar
    <3>. QED BY <3>6 DEF Lifecycle!Next
  <2>. QED BY <1>3, <2>1, <2>2 DEF DrainNext
<1>. QED BY <1>2, <1>3

LEMMA OtherLife ==
    ASSUME IInv
    PROVE  /\ \A r \in Clients : process(r) \/ sendBye(r) => UNCHANGED Lifecycle!vars
           /\ LoopCheck \/ NoEvent \/ Insert \/ UNCHANGED vars => UNCHANGED Lifecycle!vars
<1>. Http \in Actors /\ Loop \in Actors
  BY DEF Actors
<1>1. ASSUME NEW r \in Clients, process(r)
      PROVE  UNCHANGED Lifecycle!vars
  <2>1. /\ UNCHANGED hand /\ pc'[Http] = pc[Http]
        /\ \A a \in Actors : pc'[a] = pc[a] \/ (pc[a] = "none" /\ pc'[a] = "find")
    BY <1>1, ProcessFrame, NamesDistinct DEF IInv, deviceVars
  <2>2. \A q \in Clients : (proc'[q] = "unborn" <=> proc[q] = "unborn") /\ (proc'[q] = "joined" <=> proc[q] = "joined")
    BY <1>1, ProcessFrame DEF IInv, Started, Active
  <2>3. \A q \in Clients : InStop(q)' <=> InStop(q)
    BY <2>1 DEF InStop
  <2>. QED BY <2>1, <2>2, <2>3, LifeUnchanged
<1>2. ASSUME NEW r \in Clients, sendBye(r)
      PROVE  UNCHANGED Lifecycle!vars
  <2>1. /\ UNCHANGED <<proc, hand>> /\ pc[r] = "bye" /\ pc'[r] = "done" /\ r # Http
        /\ \A b \in Actors : b # r => pc'[b] = pc[b]
    BY <1>2, NamesDistinct DEF sendBye, Goto, procVars, deviceVars, IInv, TypeOK, Actors
  <2>2. \A q \in Clients : InStop(q)' <=> InStop(q)
    BY <2>1 DEF InStop
  <2>. QED BY <2>1, <2>2, LifeUnchanged
<1>3. ASSUME LoopCheck \/ NoEvent \/ Insert
      PROVE  UNCHANGED Lifecycle!vars
  <2>1. /\ UNCHANGED proc /\ pc[Loop] \notin {"flag", "join"} /\ pc'[Loop] \notin {"flag", "join"}
        /\ \A b \in Actors : b # Loop => pc'[b] = pc[b] /\ hand'[b] = hand[b]
    BY <1>3 DEF LoopCheck, NoEvent, Insert, Goto, procVars, deviceVars, IInv, TypeOK
  <2>2. \A q \in Clients : InStop(q)' <=> InStop(q)
    BY <2>1 DEF InStop
  <2>. QED BY <2>1, <2>2, NamesDistinct, LifeUnchanged
<1>4. ASSUME UNCHANGED vars
      PROVE  UNCHANGED Lifecycle!vars
  <2>1. UNCHANGED <<proc, hand, pc>>
    BY <1>4 DEF vars, procVars, deviceVars
  <2>2. \A q \in Clients : InStop(q)' <=> InStop(q)
    BY <2>1 DEF InStop
  <2>. QED BY <2>1, <2>2, LifeUnchanged
<1>. QED BY <1>1, <1>2, <1>3, <1>4

\* Every behaviour of the device's threads is, seen through lifeBar, a behaviour
\* of StreamLifecycle: each client is started, claimed and closed once, and
\* close() returns only when every started client is claimed.
THEOREM Refinement == Spec => KeepsLifecycle
<1>1. Init => Lifecycle!Init
  BY NamesDistinct DEF Init, Lifecycle!Init, lifeBar, deviceBar, Actors
<1>2. IInv /\ [Next]_vars => [Lifecycle!Next]_Lifecycle!vars
  <2> SUFFICES ASSUME IInv, [Next]_vars PROVE [Lifecycle!Next]_Lifecycle!vars
    OBVIOUS
  <2>1. ASSUME NEW r \in Clients, CleanFind(r)
        PROVE  [Lifecycle!Next]_Lifecycle!vars
    <3>1. r \in Actors \ {Http} /\ call_id_[r] \in Calls
      BY <2>1, NamesDistinct DEF CleanFind, IInv, CleanerAfterLoop, Keyed, Started, Actors
    <3>. QED BY <2>1, <3>1, LookupLife DEF CleanFind, procVars
  <2>2. CASE Next
    BY <2>1, <2>2, NextCases, StopLife, CallLife, CloseLife, OtherLife
  <2>3. CASE UNCHANGED vars
    BY <2>3, OtherLife
  <2>. QED BY <2>2, <2>3
<1>. QED BY <1>1, <1>2, Invariance, PTL DEF Spec, Lifecycle!Spec, KeepsLifecycle
====
