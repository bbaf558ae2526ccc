---- MODULE DeviceRegistryProofs ----
(***************************************************************************)
(* The proof that DeviceManager keeps the promises of DeviceRegistry: each *)
(* step of the boot, of a worker and of a crash is one step of the         *)
(* registry, or none.  It rests on the two invariants Base and Agreement.  *)
(***************************************************************************)
EXTENDS DeviceManagerProofs

----
(***************************************************************************)
(* What a step does to the registry, one id at a time.                     *)
(***************************************************************************)
LEMMA BarsAt ==
    ASSUME NEW i \in Ids
    PROVE  /\ i \in tainted =>
                 recordBar[i] = {} /\ i \notin startedBar /\ servedBar[i] = {} /\ i \notin runningBar
           /\ i \notin tainted =>
                 /\ recordBar[i] = {Entry(table[n]) : n \in RowsOf(i)}
                 /\ i \in startedBar <=> \E n \in RowsOf(i) : table[n].status = 1
                 /\ servedBar[i] = IF device_map_[i] = NoDevice THEN {} ELSE {Entry(config[device_map_[i]])}
                 /\ i \in runningBar <=> device_map_[i] # NoDevice /\ sip[device_map_[i]] # "idle"
  BY DEF recordBar, startedBar, servedBar, runningBar

LEMMA SameRecord ==
    ASSUME UNCHANGED tainted, NEW j \in Ids, SameRows(j)
    PROVE  recordBar'[j] = recordBar[j] /\ (j \in startedBar' <=> j \in startedBar)
<1>1. /\ \A n \in RowsOf(j)' : \E m \in RowsOf(j) : table[m] = table'[n]
      /\ \A m \in RowsOf(j) : \E n \in RowsOf(j)' : table'[n] = table[m]
  BY DEF SameRows, RowsOf
<1>2. {Entry(table'[n]) : n \in RowsOf(j)'} = {Entry(table[n]) : n \in RowsOf(j)}
  BY <1>1
<1>3. (\E n \in RowsOf(j)' : table'[n].status = 1) <=> (\E n \in RowsOf(j) : table[n].status = 1)
  BY <1>1
<1>. QED BY <1>2, <1>3 DEF recordBar, startedBar

LEMMA SameServed ==
    ASSUME UNCHANGED tainted, NEW j \in Ids, SameObject(j)
    PROVE  servedBar'[j] = servedBar[j] /\ (j \in runningBar' <=> j \in runningBar)
  BY DEF SameObject, servedBar, runningBar

LEMMA SameRecords ==
    ASSUME UNCHANGED table, UNCHANGED tainted
    PROVE  UNCHANGED recordBar /\ UNCHANGED startedBar
  BY DEF recordBar, startedBar, RowsOf

LEMMA SameService ==
    ASSUME UNCHANGED device_map_, UNCHANGED config, UNCHANGED sip, UNCHANGED tainted
    PROVE  UNCHANGED servedBar /\ UNCHANGED runningBar
  BY DEF servedBar, runningBar

LEMMA SameRequests ==
    ASSUME UNCHANGED req, UNCHANGED tainted
    PROVE  UNCHANGED requestBar
  BY DEF requestBar, Seen

\* What the rows of an id say of its record.
RowIsRecord(i) ==
    /\ (\A n \in DOMAIN table : table[n].id # i) => recordBar[i] = {} /\ i \notin startedBar
    /\ \A n \in DOMAIN table : table[n].id = i =>
          recordBar[i] = {Entry(table[n])} /\ (i \in startedBar <=> table[n].status = 1)

LEMMA OneRow ==
    ASSUME NEW i \in Ids
    PROVE  i \notin tainted /\ Single(i) => RowIsRecord(i)
<1> SUFFICES ASSUME i \notin tainted, Single(i)
             PROVE  RowIsRecord(i)
  OBVIOUS
<1>1. ASSUME \A n \in DOMAIN table : table[n].id # i
      PROVE  recordBar[i] = {} /\ i \notin startedBar
  <2>1. RowsOf(i) = {}
    BY <1>1 DEF RowsOf
  <2>. QED BY <2>1, BarsAt
<1>2. ASSUME NEW n \in DOMAIN table, table[n].id = i
      PROVE  recordBar[i] = {Entry(table[n])} /\ (i \in startedBar <=> table[n].status = 1)
  <2>1. RowsOf(i) = {n}
    BY <1>2 DEF RowsOf, Single
  <2>. QED BY <2>1, BarsAt, ZenonT(40)
<1>. QED BY <1>1, <1>2 DEF RowIsRecord

LEMMA OneRowNext ==
    ASSUME NEW i \in Ids
    PROVE  (i \notin tainted /\ Single(i) => RowIsRecord(i))'
  BY OneRow, PTL

\* A device that agrees with its row agrees with its record.
LEMMA AgreeAgrees ==
    ASSUME Singles, NEW i \in Ids, i \notin tainted => Agree(i)
    PROVE  Registry!Agrees(i)
<1>0. CASE i \in tainted
  BY <1>0, BarsAt DEF Registry!Agrees
<1>1. CASE i \notin tainted /\ \A n \in DOMAIN table : table[n].id # i
  <2>1. device_map_[i] = NoDevice /\ recordBar[i] = {} /\ i \notin startedBar
    BY <1>1, OneRow DEF RowIsRecord, Agree, Singles
  <2>. QED BY <1>1, <2>1, BarsAt DEF Registry!Agrees
<1>2. ASSUME i \notin tainted, NEW n \in DOMAIN table, table[n].id = i
      PROVE  Registry!Agrees(i)
  <2>1. recordBar[i] = {Entry(table[n])} /\ (i \in startedBar <=> table[n].status = 1)
    BY <1>2, OneRow DEF RowIsRecord, Singles
  <2>2. /\ device_map_[i] # NoDevice /\ Describes(table[n], device_map_[i])
        /\ i \notin stale => (sip[device_map_[i]] # "idle" <=> table[n].status = 1)
    BY <1>2 DEF Agree, Recorded
  <2>3. Entry(config[device_map_[i]]) = Entry(table[n])
    BY <2>2 DEF Describes, Entry
  <2>. QED BY <1>2, <2>1, <2>2, <2>3, BarsAt DEF Registry!Agrees
<1>. QED BY <1>0, <1>1, <1>2

\* Steps that the registry does not see.
LEMMA Unseen ==
    ASSUME UNCHANGED <<table, device_map_, config, sip, req, tainted, stale>>, phase' = "up" <=> phase = "up",
           doneBar' = doneBar
    PROVE  UNCHANGED Registry!vars
<1>1. UNCHANGED <<recordBar, startedBar, servedBar, runningBar, requestBar>>
  BY SameRecords, SameService, SameRequests
<1>2. (phase = "up")' = (phase = "up")
  OBVIOUS
<1>. QED BY <1>1, <1>2 DEF Registry!vars, Registry!durable, Registry!volatile, Registry!calls, Registry!limits

\* However the program ends, the registry crashes.
LEMMA EndsCrash ==
    ASSUME Base, Agreement, ProgramEnds, UNCHANGED table
    PROVE  Registry!Next
<1>1. /\ phase' = "down" /\ device_map_' = [i \in Ids |-> NoDevice]
      /\ req' = [w \in Workers |-> NoRequest] /\ pc' = [w \in Workers |-> "idle"]
      /\ stale' = {}
  BY DEF ProgramEnds, EmptyMap
<1>2. tainted' = {i \in Ids : Doubled(i)}
  BY DEF ProgramEnds
<1>3. servedBar' = [i \in Ids |-> {}] /\ runningBar' = {} /\ doneBar' = {}
      /\ requestBar' = [w \in Workers |-> NoRequest]
  BY <1>1 DEF servedBar, runningBar, doneBar, requestBar, Seen
<1>4. (phase = "up")' = FALSE /\ (stale \ tainted)' = {}
  BY <1>1
<1>5. tainted' \subseteq tainted
  BY <1>2 DEF Agreement, Singles, Single, Doubled, RowsOf
<1>6. ASSUME NEW i \in Ids, i \notin tainted
      PROVE  recordBar'[i] = recordBar[i] /\ (i \in startedBar' <=> i \in startedBar)
  <2>1. i \notin tainted'
    BY <1>5, <1>6
  <2>. QED BY <1>6, <2>1 DEF recordBar, startedBar, RowsOf
<1>7. ASSUME NEW i \in Ids
      PROVE  recordBar'[i] \in {{}} \cup {{e} : e \in Registry!Entry}
  <2>1. CASE i \in tainted' \/ \A n \in DOMAIN table : table[n].id # i
    BY <2>1 DEF recordBar, RowsOf
  <2>2. ASSUME i \notin tainted', NEW n \in DOMAIN table, table[n].id = i
        PROVE  recordBar'[i] \in {{e} : e \in Registry!Entry}
    <3>1. RowsOf(i)' = {n}
      BY <1>2, <2>2 DEF Doubled, RowsOf
    <3>2. recordBar'[i] = {Entry(table[n])}
      BY <2>2, <3>1 DEF recordBar
    <3>3. table[n] \in Config
      BY <2>2, ElementOfSeq, LenProperties DEF Base, TypeOK
    <3>4. Entry(table[n]) \in Registry!Entry
      BY <3>3 DEF Config, Entry, Registry!Entry
    <3>. QED BY <3>2, <3>4
  <2>. QED BY <2>1, <2>2
<1>8. recordBar' = [i \in Ids |-> recordBar'[i]] /\ startedBar' \subseteq Ids
  BY DEF recordBar, startedBar
<1>9. recordBar' \in [Ids -> {{}} \cup {{e} : e \in Registry!Entry}]
  BY <1>7, <1>8
<1>10. \A i \in tainted' : recordBar'[i] = {} /\ i \notin startedBar'
  BY <1>2 DEF recordBar, startedBar
<1>11. Registry!Crash
  BY <1>3, <1>4, <1>5, <1>6, <1>8, <1>9, <1>10 DEF Registry!Crash, Registry!Nothing, Registry!NoCalls
<1>. QED BY <1>11 DEF Registry!Next

----
(***************************************************************************)
(* What a worker's step does to the registry.                              *)
(***************************************************************************)
DoneLabels == {"copy", "publish", "init", "reply"}

LEMMA DoneStep ==
    ASSUME Base, NEW w \in Workers, Seen(w), NEW label \in Labels, pc' = [pc EXCEPT ![w] = label],
           UNCHANGED req, UNCHANGED tainted
    PROVE  /\ (label \in DoneLabels <=> pc[w] \in DoneLabels) => doneBar' = doneBar
           /\ w \in doneBar <=> pc[w] \in DoneLabels
           /\ label \in DoneLabels => doneBar' = doneBar \cup {w}
           /\ label \notin DoneLabels => doneBar' = doneBar \ {w}
<1>1. pc'[w] = label /\ \A v \in Workers \ {w} : pc'[v] = pc[v]
  BY DEF Base, TypeOK
<1>2. \A v \in Workers : Seen(v)' = Seen(v)
  BY DEF Seen
<1>. QED BY <1>1, <1>2 DEF doneBar, DoneLabels

LEMMA OwnRecord ==
    ASSUME UNCHANGED tainted, NEW own \in Ids, \A j \in Ids \ {own} : SameRows(j)
    PROVE  /\ \A e : recordBar'[own] = e => recordBar' = [recordBar EXCEPT ![own] = e]
           /\ own \in startedBar' => startedBar' = startedBar \cup {own}
           /\ own \notin startedBar' => startedBar' = startedBar \ {own}
<1>1. \A j \in Ids \ {own} : recordBar'[j] = recordBar[j] /\ (j \in startedBar' <=> j \in startedBar)
  BY SameRecord
<1>2. ASSUME NEW e, recordBar'[own] = e
      PROVE  recordBar' = [recordBar EXCEPT ![own] = e]
  BY <1>1, <1>2 DEF recordBar
<1>3. startedBar \subseteq Ids /\ startedBar' \subseteq Ids
  BY DEF startedBar
<1>. QED BY <1>1, <1>2, <1>3

LEMMA OwnService ==
    ASSUME UNCHANGED tainted, NEW own \in Ids, \A j \in Ids \ {own} : SameObject(j)
    PROVE  /\ \A e : servedBar'[own] = e => servedBar' = [servedBar EXCEPT ![own] = e]
           /\ own \in runningBar' => runningBar' = runningBar \cup {own}
           /\ own \notin runningBar' => runningBar' = runningBar \ {own}
<1>1. \A j \in Ids \ {own} : servedBar'[j] = servedBar[j] /\ (j \in runningBar' <=> j \in runningBar)
  BY SameServed
<1>2. ASSUME NEW e, servedBar'[own] = e
      PROVE  servedBar' = [servedBar EXCEPT ![own] = e]
  BY <1>1, <1>2 DEF servedBar
<1>3. runningBar \subseteq Ids /\ runningBar' \subseteq Ids
  BY DEF runningBar
<1>. QED BY <1>1, <1>2, <1>3

\* A worker goes on between two effects of its request.
LEMMA ContinueUnseen ==
    ASSUME Base, NEW w \in Workers, Seen(w), NEW label \in Labels, Continue(w, label), UNCHANGED table,
           label \in DoneLabels <=> pc[w] \in DoneLabels
    PROVE  UNCHANGED Registry!vars
<1>1. /\ pc' = [pc EXCEPT ![w] = label]
      /\ UNCHANGED <<phase, device_map_, config, sip, req, tainted, stale>>
  BY DEF Continue, Move, Goto, phaseVars, deviceVars
<1>2. doneBar' = doneBar
  BY <1>1, DoneStep
<1>. QED BY <1>1, <1>2, Unseen

\* A worker answers.
LEMMA LeavesBar ==
    ASSUME Base, NEW w \in Workers, Seen(w), UNCHANGED tainted,
           req' = [req EXCEPT ![w] = NoRequest], pc' = [pc EXCEPT ![w] = "idle"]
    PROVE  Registry!Leaves(w) /\ requestBar[w] = req[w] /\ (w \in doneBar <=> pc[w] \in DoneLabels)
<1>1. /\ req'[w] = NoRequest /\ \A v \in Workers \ {w} : req'[v] = req[v] /\ pc'[v] = pc[v]
  BY DEF Base, TypeOK
<1>2. ~ Seen(w)' /\ \A v \in Workers \ {w} : Seen(v)' = Seen(v)
  BY <1>1 DEF Seen
<1>3. doneBar' = doneBar \ {w} /\ (w \in doneBar <=> pc[w] \in DoneLabels)
  BY <1>1, <1>2 DEF doneBar, DoneLabels
<1>4. requestBar' = [requestBar EXCEPT ![w] = NoRequest] /\ requestBar[w] = req[w] /\ req[w] # NoRequest
  BY <1>1, <1>2 DEF requestBar, Seen
<1>. QED BY <1>3, <1>4 DEF Registry!Leaves

LEMMA ReplyAnswers ==
    ASSUME Base, Agreement, NEW w \in Workers, Seen(w),
           NEW own \in Ids, own = req[w].id, Reply(w), UNCHANGED table, Agree(own),
           req[w].op \in {"start", "stop"} => device_map_[own] = NoDevice \/ pc[w] = "reply"
    PROVE  Registry!Next
<1>1. CASE ProgramEnds
  BY <1>1, EndsCrash
<1>2. CASE ~ ProgramEnds
  <2>0. req[w] # NoRequest /\ own \notin tainted
    BY DEF Seen
  <2>1. device_map_ \in Maps
    BY DEF Base, TypeOK
  <2>2. UNCHANGED device_map_ /\ UNCHANGED phase /\ UNCHANGED tainted /\ UNCHANGED stale
        /\ \A i \in Ids : SameObject(i)
    BY <1>2, <2>0, <2>1, ReplyEffect DEF Reply
  <2>3. req' = [req EXCEPT ![w] = NoRequest] /\ pc' = [pc EXCEPT ![w] = "idle"]
    BY <1>2 DEF Reply, ReplyWith, Goto
  <2>4. UNCHANGED recordBar /\ UNCHANGED startedBar
    BY <2>2, SameRecords
  <2>5. UNCHANGED servedBar /\ UNCHANGED runningBar
    <3>1. \A i \in Ids : servedBar'[i] = servedBar[i] /\ (i \in runningBar' <=> i \in runningBar)
      BY <2>2, SameServed
    <3>. QED BY <3>1 DEF servedBar, runningBar
  <2>6. (phase = "up")' = (phase = "up")
    BY <2>2
  <2>7. Registry!Agrees(own)
    BY AgreeAgrees DEF Agreement
  <2>8. Registry!Leaves(w) /\ requestBar[w] = req[w] /\ (w \in doneBar <=> pc[w] \in DoneLabels)
    BY <2>2, <2>3, LeavesBar
  <2>9. requestBar[w].op \in {"start", "stop"} /\ servedBar[own] # {} => w \in doneBar
    BY <2>0, <2>8, BarsAt DEF DoneLabels
  <2>10. Registry!Answer(w, own)
    BY <2>2, <2>4, <2>5, <2>6, <2>7, <2>8, <2>9
    DEF Registry!Answer, Registry!durable, Registry!volatile, Registry!limits
  <2>11. requestBar[w] # NoRequest /\ requestBar[w].id = own
    BY <2>0, <2>8
  <2>. QED BY <2>10, <2>11 DEF Registry!Next, Registry!Handle
<1>. QED BY <1>1, <1>2

\* The looks at files, map and table, and the answer.
LEMMA ChecksRegistry ==
    ASSUME Base, Agreement, NEW w \in Workers, req[w] \in Request, Seen(w),
           \/ FileExist(w) /\ req[w].op \in {"create", "update"}
           \/ req[w].op = "create" /\ (NotInMap(w) \/ PortUnused(w))
           \/ Finish(w)
    PROVE  [Registry!Next]_Registry!vars
<1>0. PICK own \in Ids : own = req[w].id /\ req[w] # NoRequest /\ own \notin tainted
  BY OwnId DEF Seen
<1>1. phase = "up" /\ UNCHANGED table
  BY DEF FileExist, NotInMap, PortUnused, Finish, At, diskVars
<1>2. Agree(own)
  BY <1>0, <1>1 DEF Agreement, Stages, Stage, FileExist, NotInMap, PortUnused, Finish, At
<1>3. CASE Reply(w)
  <2>1. req[w].op \in {"start", "stop"} => pc[w] = "reply"
    BY DEF Finish, At
  <2>. QED BY <1>0, <1>1, <1>2, <1>3, <2>1, ReplyAnswers
<1>4. ASSUME NEW label \in {"unique", "update", "port", "add"}, Continue(w, label), pc[w] \notin DoneLabels
      PROVE  UNCHANGED Registry!vars
  BY <1>1, <1>4, ContinueUnseen DEF DoneLabels, Labels
<1>. QED BY <1>3, <1>4 DEF FileExist, NotInMap, PortUnused, Finish, At, DoneLabels

LEMMA FindRegistry ==
    ASSUME Base, Agreement, NEW w \in Workers, req[w] \in Request, Seen(w),
           Find(w), req[w].op # "create"
    PROVE  [Registry!Next]_Registry!vars
<1>0. PICK own \in Ids : own = req[w].id /\ req[w] # NoRequest /\ own \notin tainted
  BY OwnId DEF Seen
<1>1. phase = "up" /\ UNCHANGED table /\ pc[w] = "find"
  BY DEF Find, At, diskVars
<1>2. Agree(own)
  BY <1>0, <1>1 DEF Agreement, Stages, Stage
<1>3. CASE Reply(w) /\ (device_map_[own] = NoDevice \/ req[w].op = "update")
  BY <1>0, <1>1, <1>2, <1>3, ReplyAnswers
<1>4. CASE Continue(w, "remove")
  BY <1>1, <1>4, ContinueUnseen DEF DoneLabels, Labels
<1>5. CASE /\ req[w].op # "delete"
           /\ Goto(w, IF req[w].op = "update" THEN "exist" ELSE req[w].op)
           /\ UNCHANGED <<phaseVars, device_map_, map_lock_, deviceVars, req, copy, histVars>>
  <2>1. PICK label \in {"exist", "start", "stop"} : pc' = [pc EXCEPT ![w] = label]
    BY <1>5 DEF Request, Goto
  <2>2. UNCHANGED <<phase, device_map_, config, sip, req, tainted, stale>>
    BY <1>5 DEF phaseVars, deviceVars, histVars
  <2>3. doneBar' = doneBar
    BY <1>1, <2>1, <2>2, DoneStep DEF DoneLabels, Labels
  <2>. QED BY <1>1, <2>2, <2>3, Unseen
<1>. QED BY <1>0, <1>3, <1>4, <1>5 DEF Find

----
(***************************************************************************)
(* The statements on the table are the effects of the requests.            *)
(***************************************************************************)
\* A statement leaves map and clients alone.
LEMMA StatementTakesEffect ==
    ASSUME Base, NEW w \in Workers, Seen(w), NEW own \in Ids, own = req[w].id,
           NEW label \in {"copy", "init", "reply"}, Move(w, label), pc[w] \notin DoneLabels
    PROVE  /\ Registry!TakesEffect(w, req[w].op, own)
           /\ UNCHANGED Registry!volatile
           /\ UNCHANGED <<device_map_, config, sip, req, tainted>>
           /\ requestBar[w] = req[w] /\ req[w] # NoRequest
<1>1. /\ pc' = [pc EXCEPT ![w] = label]
      /\ UNCHANGED <<phase, device_map_, config, sip, req, tainted>>
  BY DEF Move, Goto, phaseVars, deviceVars
<1>2. w \notin doneBar /\ doneBar' = doneBar \cup {w}
  BY <1>1, DoneStep DEF DoneLabels, Labels
<1>3. UNCHANGED servedBar /\ UNCHANGED runningBar /\ (phase = "up")' = (phase = "up") /\ UNCHANGED requestBar
  BY <1>1, SameService, SameRequests
<1>4. requestBar[w] = req[w] /\ req[w] # NoRequest
  BY DEF requestBar, Seen
<1>. QED BY <1>1, <1>2, <1>3, <1>4 DEF Registry!TakesEffect, Registry!For, Registry!volatile

LEMMA AddRegistry ==
    ASSUME Base, Agreement, NEW w \in Workers, req[w] \in Request, Seen(w),
           req[w].op = "create", addDeviceInfo(w)
    PROVE  Registry!Next
<1> DEFINE row == NewConfig(req[w])
<1>0. PICK own \in Ids : own = req[w].id /\ req[w] # NoRequest /\ own \notin tainted
  BY OwnId DEF Seen
<1>1. phase = "up" /\ pc[w] = "add"
  BY DEF addDeviceInfo, At
<1>2. row \in Config /\ row.id = own /\ row.port = req[w].port /\ row.path = req[w].path /\ row.status = 0
  BY <1>0, NewRow DEF NewConfig
<1> HIDE DEF row
<1>3. Agree(own) /\ device_map_[own] = NoDevice /\ Single(own)
  BY <1>0, <1>1 DEF Agreement, Singles, Stages, Stage
<1>4. \A n \in DOMAIN table : table[n].id # own
  BY <1>3 DEF Agree
<1>5. CASE Reply(w) /\ UNCHANGED table
  BY <1>0, <1>3, <1>5, ReplyAnswers
<1>6. CASE table' = Append(table, row) /\ Continue(w, "copy")
  <2>0. Move(w, "copy") /\ UNCHANGED stale
    BY <1>6 DEF Continue
  <2>1. /\ Single(own)' /\ \A j \in Ids \ {own} : SameRows(j)
        /\ \E n \in DOMAIN table' : table'[n] = row
    BY <1>2, <1>4, <1>6, <2>0, Appended
  <2>2. PICK n \in DOMAIN table' : table'[n] = row
    BY <2>1
  <2>3. recordBar[own] = {} /\ own \notin startedBar
    BY <1>0, <1>3, <1>4, OneRow DEF RowIsRecord
  <2>7. /\ Registry!TakesEffect(w, "create", own) /\ UNCHANGED Registry!volatile
        /\ UNCHANGED tainted /\ requestBar[w] = req[w]
    BY <1>0, <1>1, <2>0, StatementTakesEffect DEF DoneLabels
  <2>4. recordBar'[own] = {Entry(row)} /\ own \notin startedBar'
    <3>1. RowIsRecord(own)'
      BY <1>0, <2>1, <2>7, OneRowNext
    <3>. QED BY <1>2, <2>2, <3>1 DEF RowIsRecord
  <2>5. Entry(row) = Registry!Asked(w)
    BY <1>2, <2>7 DEF Entry, Registry!Asked
  <2>6. recordBar' = [recordBar EXCEPT ![own] = {Registry!Asked(w)}] /\ startedBar' = startedBar
    BY <2>1, <2>3, <2>4, <2>5, <2>7, OwnRecord
  <2>8. Registry!Write(w, own)
    BY <2>0, <2>3, <2>6, <2>7 DEF Registry!Write, Registry!limits
  <2>. QED BY <1>0, <2>7, <2>8 DEF Registry!Next, Registry!Handle
<1>. QED BY <1>5, <1>6 DEF addDeviceInfo, row

LEMMA RemoveRegistry ==
    ASSUME Base, Agreement, NEW w \in Workers, req[w] \in Request, Seen(w),
           req[w].op = "delete", removeDeviceInfo(w)
    PROVE  Registry!Next
<1>0. PICK own \in Ids : own = req[w].id /\ req[w] # NoRequest /\ own \notin tainted
  BY OwnId DEF Seen
<1>1. phase = "up" /\ pc[w] = "remove"
  BY DEF removeDeviceInfo, At
<1>2. Agree(own) /\ device_map_[own] # NoDevice /\ Single(own)
  BY <1>0, <1>1 DEF Agreement, Singles, Stages, Stage
<1>3. CASE Reply(w) /\ UNCHANGED table
  BY <1>0, <1>2, <1>3, ReplyAnswers
<1>4. CASE DeleteRows(own) /\ stale' = stale \ {own} /\ Move(w, "copy")
  <2>1. /\ \A j \in Ids \ {own} : SameRows(j)
        /\ \A n \in DOMAIN table' : table'[n].id # own
    BY <1>4, Removed
  <2>2. recordBar[own] # {}
    <3>1. \E n \in DOMAIN table : table[n].id = own
      BY <1>2 DEF Agree
    <3>. QED BY <1>0, <1>2, <3>1, OneRow DEF RowIsRecord
  <2>3. /\ Registry!TakesEffect(w, "delete", own) /\ UNCHANGED Registry!volatile
        /\ UNCHANGED tainted /\ requestBar[w] = req[w]
    BY <1>0, <1>1, <1>4, StatementTakesEffect DEF DoneLabels
  <2>4. recordBar'[own] = {} /\ own \notin startedBar'
    <3>1. Single(own)'
      BY <2>1 DEF Single
    <3>2. RowIsRecord(own)'
      BY <1>0, <2>3, <3>1, OneRowNext
    <3>. QED BY <2>1, <3>2 DEF RowIsRecord
  <2>5. recordBar' = [recordBar EXCEPT ![own] = {}] /\ startedBar' = startedBar \ {own}
    BY <2>1, <2>3, <2>4, OwnRecord
  <2>6. (stale \ tainted)' = (stale \ tainted) \ {own}
    BY <1>4, <2>3
  <2>7. Registry!Erase(w, own)
    BY <2>2, <2>3, <2>5, <2>6 DEF Registry!Erase
  <2>. QED BY <1>0, <2>3, <2>7 DEF Registry!Next, Registry!Handle
<1>. QED BY <1>0, <1>3, <1>4 DEF removeDeviceInfo

LEMMA UpdateRegistry ==
    ASSUME Base, Agreement, NEW w \in Workers, req[w] \in Request, Seen(w),
           req[w].op = "update", updateDeviceInfo(w)
    PROVE  Registry!Next
<1> DEFINE row == NewConfig(req[w])
<1>0. PICK own \in Ids : own = req[w].id /\ req[w] # NoRequest /\ own \notin tainted
  BY OwnId DEF Seen
<1>1. phase = "up" /\ pc[w] = "update"
  BY DEF updateDeviceInfo, At
<1>2. Agree(own) /\ Single(own) /\ device_map_[own] # NoDevice
  BY <1>0, <1>1 DEF Agreement, Singles, Stages, Stage, HasTarget
<1>3. row \in Config /\ row.id = own /\ row.port = req[w].port /\ row.path = req[w].path
  BY <1>0, NewRow DEF NewConfig
<1> HIDE DEF row
<1>4. CASE Reply(w) /\ UNCHANGED table
  BY <1>0, <1>2, <1>4, ReplyAnswers
<1>5. CASE /\ table' = [n \in DOMAIN table |->
                           IF table[n].id = own THEN [row EXCEPT !.status = table[n].status] ELSE table[n]]
           /\ Continue(w, "init")
  <2>0. Move(w, "init") /\ UNCHANGED stale
    BY <1>5 DEF Continue
  <2>1. /\ DOMAIN table' = DOMAIN table
        /\ \A n \in DOMAIN table : table[n].id # own => table'[n] = table[n]
        /\ \A n \in DOMAIN table : table[n].id = own =>
              /\ table'[n].id = own /\ table'[n].port = row.port /\ table'[n].path = row.path
              /\ table'[n].status = table[n].status
    BY <1>3, <1>5, RowsUpdated
  <2>2. Single(own)' /\ \A j \in Ids \ {own} : SameRows(j)
    BY <1>2, <2>0, <2>1, RowsInPlace
  <2>3. PICK n \in DOMAIN table : table[n].id = own
    BY <1>2 DEF Agree
  <2>4. /\ Registry!TakesEffect(w, "update", own) /\ UNCHANGED Registry!volatile
        /\ UNCHANGED tainted /\ requestBar[w] = req[w]
    BY <1>0, <1>1, <2>0, StatementTakesEffect DEF DoneLabels
  <2>5. Entry(table'[n]) = Registry!Asked(w)
    BY <1>3, <2>1, <2>3, <2>4 DEF Entry, Registry!Asked
  <2>6. recordBar[own] # {} /\ (own \in startedBar <=> table[n].status = 1)
    BY <1>0, <1>2, <2>3, OneRow DEF RowIsRecord
  <2>7. recordBar'[own] = {Registry!Asked(w)} /\ (own \in startedBar' <=> table[n].status = 1)
    <3>1. RowIsRecord(own)'
      BY <1>0, <2>2, <2>4, OneRowNext
    <3>. QED BY <2>1, <2>3, <2>5, <3>1 DEF RowIsRecord
  <2>8. startedBar' = startedBar
    BY <2>2, <2>4, <2>6, <2>7, OwnRecord, SMTT(30)
  <2>9. recordBar' = [recordBar EXCEPT ![own] = {Registry!Asked(w)}]
    BY <2>2, <2>4, <2>7, OwnRecord
  <2>10. Registry!Write(w, own)
    BY <2>0, <2>4, <2>6, <2>8, <2>9 DEF Registry!Write, Registry!limits
  <2>. QED BY <1>0, <2>4, <2>10 DEF Registry!Next, Registry!Handle
<1>. QED BY <1>0, <1>4, <1>5 DEF updateDeviceInfo, row

LEMMA StatusRegistry ==
    ASSUME Base, Agreement, NEW w \in Workers, req[w] \in Request, Seen(w),
           req[w].op \in {"start", "stop"}, modifyDeviceStatus(w)
    PROVE  Registry!Next
<1> DEFINE s == IF req[w].op = "start" THEN 1 ELSE 0
<1>0. PICK own \in Ids : own = req[w].id /\ req[w] # NoRequest /\ own \notin tainted
  BY OwnId DEF Seen
<1>1. phase = "up" /\ pc[w] = "status" /\ Move(w, "reply")
  BY DEF modifyDeviceStatus, At
<1>2. /\ Single(own) /\ device_map_[own] # NoDevice
      /\ \E n \in DOMAIN table : table[n].id = own
      /\ req[w].op = "stop" <=> sip[device_map_[own]] = "idle"
  BY <1>0, <1>1 DEF Agreement, Singles, Stages, Stage, HasTarget
<1>3. /\ Registry!TakesEffect(w, req[w].op, own) /\ UNCHANGED Registry!volatile
      /\ UNCHANGED tainted /\ requestBar[w] = req[w]
  BY <1>0, <1>1, StatementTakesEffect DEF DoneLabels
<1>4. own \in runningBar <=> req[w].op # "stop"
  BY <1>0, <1>2, BarsAt
<1>5. CASE /\ table' = [n \in DOMAIN table |->
                           IF table[n].id = own THEN [table[n] EXCEPT !.status = s] ELSE table[n]]
           /\ stale' = stale \ {own}
  <2>1. s = 1 <=> req[w].op = "start"
    OBVIOUS
  <2> HIDE DEF s
  <2>2. /\ DOMAIN table' = DOMAIN table
        /\ \A n \in DOMAIN table : table[n].id # own => table'[n] = table[n]
        /\ \A n \in DOMAIN table : table[n].id = own =>
              /\ table'[n].id = own /\ table'[n].port = table[n].port /\ table'[n].path = table[n].path
              /\ table'[n].status = s
    BY <1>5, StatusUpdated
  <2>3. Single(own)' /\ \A j \in Ids \ {own} : SameRows(j)
    BY <1>2, <1>5, <2>2, RowsInPlace
  <2>4. PICK n \in DOMAIN table : table[n].id = own
    BY <1>2
  <2>5. recordBar[own] = {Entry(table[n])}
    BY <1>0, <1>2, <2>4, OneRow DEF RowIsRecord
  <2>6. Entry(table'[n]) = Entry(table[n])
    BY <2>2, <2>4 DEF Entry
  <2>7. recordBar'[own] = recordBar[own] /\ (own \in startedBar' <=> req[w].op = "start")
    <3>1. RowIsRecord(own)'
      BY <1>0, <1>3, <2>3, OneRowNext
    <3>. QED BY <2>1, <2>2, <2>4, <2>5, <2>6, <3>1 DEF RowIsRecord
  <2>8. recordBar' = recordBar
    <3>1. \A j \in Ids : recordBar'[j] = recordBar[j]
      BY <1>3, <2>3, <2>7, SameRecord
    <3>. QED BY <3>1 DEF recordBar
  <2>9. (stale \ tainted)' = (stale \ tainted) \ {own}
    BY <1>3, <1>5
  <2>10. \/ req[w].op = "start" /\ own \in runningBar /\ startedBar' = startedBar \cup {own}
         \/ req[w].op = "stop" /\ own \notin runningBar /\ startedBar' = startedBar \ {own}
    BY <1>3, <1>4, <2>3, <2>7, OwnRecord
  <2>11. Registry!Mark(w, own)
    BY <1>3, <2>5, <2>8, <2>9, <2>10 DEF Registry!Mark
  <2>. QED BY <1>0, <1>3, <2>11 DEF Registry!Next, Registry!Handle
<1>6. CASE stale' = stale \cup {own} /\ UNCHANGED table
  <2>1. UNCHANGED recordBar /\ UNCHANGED startedBar
    BY <1>3, <1>6, SameRecords
  <2>2. (stale \ tainted)' = (stale \ tainted) \cup {own}
    BY <1>0, <1>3, <1>6
  <2>3. \/ req[w].op = "start" /\ own \in runningBar
        \/ req[w].op = "stop" /\ own \notin runningBar
    BY <1>4
  <2>4. Registry!MarkFails(w, own)
    BY <1>3, <2>1, <2>2, <2>3 DEF Registry!MarkFails, Registry!durable
  <2>. QED BY <1>0, <1>3, <2>4 DEF Registry!Next, Registry!Handle
<1>. QED BY <1>0, <1>5, <1>6 DEF modifyDeviceStatus, SetStatus

----
(***************************************************************************)
(* The map, the objects and their clients.                                 *)
(***************************************************************************)
LEMMA CopyRegistry ==
    ASSUME Base, NEW w \in Workers, Seen(w), CopyMap(w)
    PROVE  UNCHANGED Registry!vars
<1>1. /\ pc[w] = "copy" /\ pc' = [pc EXCEPT ![w] = "publish"]
      /\ UNCHANGED <<table, phase, device_map_, config, sip, req, tainted, stale>>
  BY DEF CopyMap, At, Goto, diskVars, phaseVars, deviceVars, histVars
<1>2. doneBar' = doneBar
  BY <1>1, DoneStep DEF DoneLabels, Labels
<1>. QED BY <1>1, <1>2, Unseen

LEMMA InsertRegistry ==
    ASSUME Base, Agreement, NEW w \in Workers, req[w] \in Request, Seen(w), insertDevice(w)
    PROVE  Registry!Next
<1>0. PICK own \in Ids : own = req[w].id /\ req[w] # NoRequest /\ own \notin tainted
  BY OwnId DEF Seen
<1>1. phase = "up" /\ pc[w] = "publish" /\ UNCHANGED table /\ req[w].op = "create"
  BY DEF insertDevice, At, diskVars
<1>2. Written(req[w]) /\ Single(own)
  BY <1>0, <1>1 DEF Agreement, Singles, Stages, Stage
<1>3. CASE ProgramEnds
  BY <1>1, <1>3, EndsCrash
<1>4. CASE ~ ProgramEnds
  <2>1. /\ UNCHANGED phase /\ UNCHANGED sip /\ UNCHANGED tainted /\ UNCHANGED stale
        /\ req' = [req EXCEPT ![w] = NoRequest] /\ pc' = [pc EXCEPT ![w] = "idle"]
        /\ \A j \in Ids \ {own} : SameObject(j)
    BY <1>0, <1>4, InsertEffect
  <2>2. PICK d \in Devices :
          /\ device_map_'[own] = d /\ d # NoDevice /\ sip[d] = "idle"
          /\ config'[d] = NewConfig(req[w])
    BY <1>0, <1>4, InsertEffect
  <2>3. PICK n \in DOMAIN table : table[n].id = own
    BY <1>0, <1>2 DEF Written
  <2>4. Entry(config'[d]) = Entry(table[n])
    BY <1>0, <1>2, <2>2, <2>3 DEF Written, NewConfig, Entry
  <2>5. recordBar[own] = {Entry(table[n])}
    BY <1>0, <1>2, <2>3, OneRow DEF RowIsRecord
  <2>6. servedBar'[own] = recordBar[own] /\ own \notin runningBar'
    BY <1>0, <2>1, <2>2, <2>4, <2>5 DEF servedBar, runningBar
  <2>7. servedBar' = [servedBar EXCEPT ![own] = recordBar[own]] /\ runningBar' = runningBar \ {own}
    BY <2>1, <2>6, OwnService
  <2>8. Registry!Leaves(w) /\ w \in doneBar /\ requestBar[w] = req[w]
    BY <1>1, <2>1, LeavesBar DEF DoneLabels
  <2>9. UNCHANGED recordBar /\ UNCHANGED startedBar /\ (phase = "up")' = (phase = "up")
    BY <1>1, <2>1, SameRecords
  <2>10. Registry!Publish(w, own)
    BY <1>0, <1>1, <2>1, <2>7, <2>8, <2>9
    DEF Registry!Publish, Registry!For, Registry!durable, Registry!limits
  <2>. QED BY <1>0, <2>8, <2>10 DEF Registry!Next, Registry!Handle
<1>. QED BY <1>3, <1>4

LEMMA DeleteRegistry ==
    ASSUME Base, Agreement, NEW w \in Workers, req[w] \in Request, Seen(w), deleteDevice(w)
    PROVE  Registry!Next
<1>0. PICK own \in Ids : own = req[w].id /\ req[w] # NoRequest /\ own \notin tainted
  BY OwnId DEF Seen
<1> DEFINE map == [device_map_ EXCEPT ![own] = NoDevice]
<1>1. /\ copy[w] = device_map_ /\ phase = "up" /\ pc[w] = "publish" /\ UNCHANGED table
      /\ req[w].op = "delete" /\ device_map_ \in Maps
  BY DEF deleteDevice, At, Base, Locked, TypeOK
<1>2. Single(own) /\ \A n \in DOMAIN table : table[n].id # own
  BY <1>0, <1>1 DEF Agreement, Singles, Stages, Stage
<1>3. ReplyWith(w, map)
  BY <1>0, <1>1 DEF deleteDevice
<1>4. /\ map \in Maps /\ \A i \in Ids : map[i] \in {device_map_[i], NoDevice}
      /\ map[own] = NoDevice /\ \A i \in Ids \ {own} : map[i] = device_map_[i]
  BY <1>1 DEF Maps
<1> HIDE DEF map
<1>5. CASE ProgramEnds
  BY <1>1, <1>5, EndsCrash
<1>6. CASE ~ ProgramEnds
  <2>1. /\ device_map_' = map /\ UNCHANGED phase /\ UNCHANGED tainted /\ UNCHANGED stale
        /\ \A i \in Ids \ {own} : SameObject(i)
    BY <1>0, <1>3, <1>4, <1>6, ReplyEffect
  <2>2. req' = [req EXCEPT ![w] = NoRequest] /\ pc' = [pc EXCEPT ![w] = "idle"]
    BY <1>3, <1>6 DEF ReplyWith, Goto
  <2>3. recordBar[own] = {}
    BY <1>0, <1>2, OneRow DEF RowIsRecord
  <2>4. servedBar'[own] = recordBar[own] /\ own \notin runningBar'
    BY <1>4, <2>1, <2>3 DEF servedBar, runningBar
  <2>5. servedBar' = [servedBar EXCEPT ![own] = recordBar[own]] /\ runningBar' = runningBar \ {own}
    BY <2>1, <2>4, OwnService
  <2>6. Registry!Leaves(w) /\ w \in doneBar /\ requestBar[w] = req[w]
    BY <1>1, <2>1, <2>2, LeavesBar DEF DoneLabels
  <2>7. UNCHANGED recordBar /\ UNCHANGED startedBar /\ (phase = "up")' = (phase = "up")
    BY <1>1, <2>1, SameRecords
  <2>8. Registry!Publish(w, own)
    BY <1>0, <1>1, <2>1, <2>5, <2>6, <2>7
    DEF Registry!Publish, Registry!For, Registry!durable, Registry!limits
  <2>. QED BY <1>0, <2>6, <2>8 DEF Registry!Next, Registry!Handle
<1>. QED BY <1>5, <1>6

LEMMA ReinitRegistry ==
    ASSUME Base, Agreement, NEW w \in Workers, req[w] \in Request, Seen(w),
           req[w].op = "update", Reinit(w)
    PROVE  Registry!Next
<1>0. PICK own \in Ids : own = req[w].id /\ req[w] # NoRequest /\ own \notin tainted
  BY OwnId DEF Seen
<1> DEFINE d == device_map_[own]
           new == NewConfig(req[w])
<1>1. phase = "up" /\ pc[w] = "init" /\ UNCHANGED table
  BY DEF Reinit, At, diskVars
<1>2. Single(own) /\ target[w] = d /\ d # NoDevice /\ Written(req[w])
  BY <1>0, <1>1 DEF Agreement, Singles, Stages, Stage, HasTarget
<1>3. CASE ProgramEnds
  BY <1>1, <1>3, EndsCrash
<1>4. CASE /\ sip[target[w]] = "idle"
           /\ config' = [config EXCEPT ![target[w]] = new]
           /\ Goto(w, "reply")
           /\ UNCHANGED <<phaseVars, device_map_, sip, req, target, histVars>>
  <2>1. new.port = req[w].port /\ new.path = req[w].path
    BY DEF NewConfig
  <2> HIDE DEF new
  <2>2. d \in Devices
    BY <1>2 DEF Base, TypeOK, Maps
  <2>0. UNCHANGED tainted /\ UNCHANGED stale /\ UNCHANGED phase /\ UNCHANGED requestBar
        /\ requestBar[w] = req[w]
    BY <1>0, <1>4, SameRequests DEF histVars, phaseVars, requestBar, Seen
  <2>3. config'[d] = new /\ \A e \in Devices \ {d} : config'[e] = config[e]
    BY <1>2, <1>4, <2>2 DEF Base, TypeOK
  <2>4. \A j \in Ids \ {own} : SameObject(j)
    <3>1. HasTarget(w)
      BY <1>0, <1>1 DEF HasTarget
    <3>2. \A j \in Ids \ {own} : device_map_[j] # NoDevice => device_map_[j] \in Devices \ {d}
      BY <1>0, <1>2, <3>1, OwnObject
    <3>. QED BY <1>4, <2>3, <3>2 DEF SameObject
  <2>5. PICK n \in DOMAIN table : table[n].id = own
    BY <1>0, <1>2 DEF Written
  <2>6. Entry(new) = Entry(table[n])
    BY <1>0, <1>2, <2>1, <2>5 DEF Written, Entry
  <2>7. recordBar[own] = {Entry(new)}
    BY <1>0, <1>2, <2>5, <2>6, OneRow DEF RowIsRecord
  <2>8. servedBar'[own] = recordBar[own]
    BY <1>0, <1>2, <1>4, <2>0, <2>3, <2>7 DEF servedBar
  <2>9. own \notin runningBar /\ runningBar' = runningBar
    BY <1>2, <1>4, <2>0 DEF runningBar
  <2>10. servedBar' = [servedBar EXCEPT ![own] = recordBar[own]]
    BY <2>0, <2>4, <2>8, OwnService
  <2>11. w \in doneBar /\ doneBar' = doneBar
    BY <1>1, <1>4, <2>0, DoneStep DEF Goto, DoneLabels, Labels
  <2>12. UNCHANGED recordBar /\ UNCHANGED startedBar /\ (phase = "up")' = (phase = "up")
    BY <1>1, <2>0, SameRecords
  <2>13. Registry!Apply(w, own)
    BY <1>0, <2>0, <2>9, <2>10, <2>11, <2>12
    DEF Registry!Apply, Registry!For, Registry!durable, Registry!calls, Registry!limits
  <2>. QED BY <1>0, <2>0, <2>13 DEF Registry!Next, Registry!Handle
<1>. QED BY <1>3, <1>4 DEF Reinit

LEMMA StartRegistry ==
    ASSUME Base, Agreement, NEW w \in Workers, req[w] \in Request, Seen(w),
           req[w].op = "start", Start(w)
    PROVE  Registry!Next
<1>0. PICK own \in Ids : own = req[w].id /\ req[w] # NoRequest /\ own \notin tainted
  BY OwnId DEF Seen
<1> DEFINE d == device_map_[own]
<1>1. /\ phase = "up" /\ pc[w] = "start" /\ phase' = phase
      /\ UNCHANGED <<table, device_map_, config, req, target, tainted, stale>>
  BY DEF Start, At, diskVars, phaseVars, histVars
<1>2. target[w] = d /\ d # NoDevice /\ HasTarget(w)
  BY <1>0, <1>1 DEF Agreement, Singles, Stages, Stage, HasTarget
<1>3. d \in Devices
  BY <1>2 DEF Base, TypeOK, Maps
<1>4. /\ UNCHANGED recordBar /\ UNCHANGED startedBar /\ UNCHANGED servedBar /\ servedBar[own] # {}
      /\ (phase = "up")' = (phase = "up") /\ UNCHANGED requestBar /\ requestBar[w] = req[w]
  BY <1>0, <1>1, <1>2, SameRecords, SameRequests DEF servedBar, requestBar, Seen
<1>5. CASE PortFree(config[d].port) /\ sip' = [sip EXCEPT ![d] = "running"] /\ Goto(w, "status")
  <2>1. sip[d] = "idle" /\ sip'[d] = "running" /\ \A e \in Devices \ {d} : sip'[e] = sip[e]
    BY <1>3, <1>5 DEF PortFree, Base, TypeOK
  <2>2. \A j \in Ids \ {own} : SameObject(j)
    <3>1. \A j \in Ids \ {own} : device_map_[j] # NoDevice => device_map_[j] \in Devices \ {d}
      BY <1>0, <1>2, OwnObject
    <3>. QED BY <1>1, <2>1, <3>1 DEF SameObject
  <2>3. own \notin runningBar /\ own \in runningBar'
    BY <1>0, <1>1, <1>2, <2>1 DEF runningBar
  <2>4. runningBar' = runningBar \cup {own}
    BY <1>1, <2>2, <2>3, OwnService
  <2>5. w \notin doneBar /\ doneBar' = doneBar
    BY <1>1, <1>5, DoneStep DEF Goto, DoneLabels, Labels
  <2>6. Registry!Run(w, own)
    BY <1>0, <1>1, <1>4, <2>3, <2>4, <2>5
    DEF Registry!Run, Registry!For, Registry!durable, Registry!calls, Registry!limits
  <2>. QED BY <1>0, <1>4, <2>6 DEF Registry!Next, Registry!Handle
<1>6. CASE sip' = [sip EXCEPT ![d] = IF @ = "running" THEN "broken" ELSE @] /\ Goto(w, "reply")
  <2>1. (sip'[d] = "idle" <=> sip[d] = "idle") /\ \A e \in Devices \ {d} : sip'[e] = sip[e]
    BY <1>3, <1>6 DEF Base, TypeOK
  <2>2. \A i \in Ids : device_map_[i] # NoDevice => (sip'[device_map_[i]] = "idle" <=> sip[device_map_[i]] = "idle")
    BY <2>1 DEF Base, TypeOK, Maps
  <2>3. UNCHANGED runningBar
    BY <1>1, <2>2 DEF runningBar
  <2>4. w \notin doneBar /\ doneBar' = doneBar \cup {w}
    BY <1>1, <1>6, DoneStep DEF Goto, DoneLabels, Labels
  <2>5. Registry!RunFails(w, own)
    BY <1>0, <1>1, <1>4, <2>3, <2>4
    DEF Registry!RunFails, Registry!TakesEffect, Registry!For, Registry!durable, Registry!volatile,
        Registry!limits
  <2>. QED BY <1>0, <1>4, <2>5 DEF Registry!Next, Registry!Handle
<1>. QED BY <1>2, <1>5, <1>6 DEF Start

LEMMA StopRegistry ==
    ASSUME Base, Agreement, NEW w \in Workers, req[w] \in Request, Seen(w),
           req[w].op = "stop", Stop(w)
    PROVE  Registry!Next
<1>0. PICK own \in Ids : own = req[w].id /\ req[w] # NoRequest /\ own \notin tainted
  BY OwnId DEF Seen
<1> DEFINE d == device_map_[own]
<1>1. /\ phase = "up" /\ pc[w] = "stop" /\ phase' = phase
      /\ UNCHANGED <<table, device_map_, config, req, target, tainted, stale>>
  BY DEF Stop, At, diskVars, phaseVars, histVars
<1>2. target[w] = d /\ d # NoDevice /\ HasTarget(w)
  BY <1>0, <1>1 DEF Agreement, Singles, Stages, Stage, HasTarget
<1>3. d \in Devices
  BY <1>2 DEF Base, TypeOK, Maps
<1>4. sip'[d] = "idle" /\ \A e \in Devices \ {d} : sip'[e] = sip[e]
  BY <1>2, <1>3 DEF Stop, Base, TypeOK
<1>5. \A j \in Ids \ {own} : SameObject(j)
  <2>1. \A j \in Ids \ {own} : device_map_[j] # NoDevice => device_map_[j] \in Devices \ {d}
    BY <1>0, <1>2, OwnObject
  <2>. QED BY <1>1, <1>4, <2>1 DEF SameObject
<1>6. own \notin runningBar'
  BY <1>1, <1>4 DEF runningBar
<1>7. runningBar' = runningBar \ {own}
  BY <1>1, <1>5, <1>6, OwnService
<1>8. /\ UNCHANGED recordBar /\ UNCHANGED startedBar /\ UNCHANGED servedBar
      /\ (phase = "up")' = (phase = "up") /\ UNCHANGED requestBar /\ requestBar[w] = req[w]
  BY <1>0, <1>1, SameRecords, SameRequests DEF servedBar, requestBar, Seen
<1>9. w \notin doneBar /\ doneBar' = doneBar
  BY <1>1, DoneStep DEF Stop, Goto, DoneLabels, Labels
<1>10. Registry!Halt(w, own)
  BY <1>0, <1>1, <1>7, <1>8, <1>9 DEF Registry!Halt, Registry!For, Registry!durable,
      Registry!calls, Registry!limits
<1>. QED BY <1>0, <1>8, <1>10 DEF Registry!Next, Registry!Handle

----
(***************************************************************************)
(* What is done for a tainted id is not seen.                              *)
(***************************************************************************)
\* A worker touches only what its request names, and nobody else's request.
Framed(w) ==
    /\ phase' = phase
    /\ tainted' = tainted
    /\ req'[w] \in {req[w], NoRequest}
    /\ \A v \in Workers \ {w} : req'[v] = req[v] /\ pc'[v] = pc[v]
    /\ \A j \in Ids \ {req[w].id} : SameRows(j) /\ SameObject(j)

LEMMA MoveFramed ==
    ASSUME Base, NEW w \in Workers, NEW label, Move(w, label),
           \A j \in Ids \ {req[w].id} : SameRows(j)
    PROVE  Framed(w)
<1>1. UNCHANGED <<phase, tainted, req, device_map_, config, sip>> /\ pc' = [pc EXCEPT ![w] = label]
  BY DEF Move, Goto, phaseVars, deviceVars
<1>2. \A v \in Workers \ {w} : pc'[v] = pc[v]
  BY <1>1 DEF Base, TypeOK
<1>. QED BY <1>1, <1>2 DEF Framed, SameObject

LEMMA ContinueFramed ==
    ASSUME Base, NEW w \in Workers, NEW label, Continue(w, label), UNCHANGED table
    PROVE  Framed(w)
  BY Untouched, MoveFramed DEF Continue

LEMMA ReplyFramed ==
    ASSUME Base, NEW w \in Workers, req[w] # NoRequest, req[w].id \in Ids, NEW map \in Maps, UNCHANGED table,
           \A i \in Ids : map[i] \in {device_map_[i], NoDevice},
           \A i \in Ids \ {req[w].id} : map[i] = device_map_[i],
           ReplyWith(w, map)
    PROVE  Framed(w) \/ ProgramEnds
<1>1. CASE ~ ProgramEnds
  <2>1. /\ phase' = phase /\ req'[w] = NoRequest /\ tainted' = tainted /\ stale' = stale
        /\ \A v \in Workers \ {w} : req'[v] = req[v] /\ pc'[v] = pc[v]
        /\ \A i \in Ids : map[i] = device_map_[i] => SameObject(i)
    BY <1>1, ReplyEffect
  <2>2. \A i \in Ids : SameRows(i)
    BY <2>1, Untouched
  <2>. QED BY <2>1, <2>2 DEF Framed
<1>. QED BY <1>1

LEMMA PlainReplyFramed ==
    ASSUME Base, NEW w \in Workers, req[w] # NoRequest, UNCHANGED table, Reply(w)
    PROVE  Framed(w) \/ ProgramEnds
  BY OwnId, SameMap, ReplyFramed DEF Reply

LEMMA LooksFramed ==
    ASSUME Base, NEW w \in Workers, req[w] # NoRequest,
           FileExist(w) \/ NotInMap(w) \/ PortUnused(w) \/ Find(w) \/ CopyMap(w) \/ Finish(w)
    PROVE  Framed(w) \/ ProgramEnds
<1>1. UNCHANGED table
  BY DEF FileExist, NotInMap, PortUnused, Find, CopyMap, Finish, diskVars
<1>2. CASE Reply(w)
  BY <1>1, <1>2, PlainReplyFramed
<1>3. ASSUME NEW label, Continue(w, label)
      PROVE  Framed(w)
  BY <1>1, <1>3, ContinueFramed
<1>4. ASSUME NEW label, Goto(w, label), UNCHANGED <<phase, device_map_, config, sip, req, tainted, stale>>
      PROVE  Framed(w)
  <2>1. \A v \in Workers \ {w} : pc'[v] = pc[v]
    BY <1>4 DEF Goto, Base, TypeOK
  <2>2. \A i \in Ids : SameRows(i)
    BY <1>1, <1>4, Untouched
  <2>. QED BY <1>4, <2>1, <2>2 DEF Framed, SameObject
<1>5. CASE Find(w)
  BY <1>2, <1>3, <1>4, <1>5 DEF Find, phaseVars, deviceVars, histVars
<1>6. CASE CopyMap(w)
  BY <1>4, <1>6 DEF CopyMap, phaseVars, deviceVars, histVars
<1>. QED BY <1>2, <1>3, <1>5, <1>6 DEF FileExist, NotInMap, PortUnused, Finish

LEMMA StatementsFramed ==
    ASSUME Base, NEW w \in Workers, req[w] \in Request, req[w] # NoRequest,
           \/ addDeviceInfo(w) /\ req[w].op = "create"
           \/ removeDeviceInfo(w)
           \/ updateDeviceInfo(w) /\ req[w].op = "update"
           \/ modifyDeviceStatus(w)
    PROVE  Framed(w) \/ (ProgramEnds /\ UNCHANGED table)
<1>0. PICK own \in Ids : own = req[w].id
  BY OwnId
<1>1. CASE Reply(w) /\ UNCHANGED table
  BY <1>1, PlainReplyFramed
<1>2. CASE req[w].op = "create" /\ table' = Append(table, NewConfig(req[w])) /\ Continue(w, "copy")
  <2>1. NewConfig(req[w]) \in Config /\ NewConfig(req[w]).id = own
    BY <1>0, <1>2, NewRow DEF NewConfig
  <2>2. UNCHANGED stale /\ Move(w, "copy")
    BY <1>2 DEF Continue
  <2>3. \A j \in Ids \ {own} : SameRows(j)
    BY <1>2, <2>1, <2>2, Appended
  <2>. QED BY <1>0, <2>2, <2>3, MoveFramed
<1>3. CASE DeleteRows(own) /\ stale' = stale \ {own} /\ Move(w, "copy")
  <2>1. \A j \in Ids \ {own} : SameRows(j)
    BY <1>3, Removed
  <2>. QED BY <1>0, <1>3, <2>1, MoveFramed
<1> DEFINE row == NewConfig(req[w])
<1>4. CASE /\ req[w].op = "update"
           /\ table' = [n \in DOMAIN table |->
                           IF table[n].id = own THEN [row EXCEPT !.status = table[n].status] ELSE table[n]]
           /\ Continue(w, "init")
  <2>1. row \in Config /\ row.id = own
    BY <1>0, <1>4, NewRow DEF NewConfig
  <2> HIDE DEF row
  <2>2. UNCHANGED stale /\ Move(w, "init")
    BY <1>4 DEF Continue
  <2>3. /\ DOMAIN table' = DOMAIN table
        /\ \A n \in DOMAIN table : table[n].id # own => table'[n] = table[n]
        /\ \A n \in DOMAIN table : table[n].id = own => table'[n].id = own
    BY <1>4, <2>1, RowsUpdated
  <2>4. \A j \in Ids \ {own} : SameRows(j)
    BY <2>2, <2>3, RowsInPlace
  <2>. QED BY <1>0, <2>2, <2>4, MoveFramed
<1>5. CASE modifyDeviceStatus(w)
  <2>0. Move(w, "reply") /\ stale' \in {stale \ {own}, stale \cup {own}}
    BY <1>0, <1>5 DEF modifyDeviceStatus
  <2>1. CASE UNCHANGED table
    <3>1. \A j \in Ids \ {own} : SameRows(j)
      BY <2>0, <2>1 DEF SameRows, Single
    <3>. QED BY <1>0, <2>0, <3>1, MoveFramed
  <2>2. ASSUME NEW s, SetStatus(w, s)
        PROVE  Framed(w)
    <3>1. table' = [n \in DOMAIN table |->
                       IF table[n].id = own THEN [table[n] EXCEPT !.status = s] ELSE table[n]]
      BY <1>0, <2>2 DEF SetStatus
    <3>2. /\ DOMAIN table' = DOMAIN table
          /\ \A n \in DOMAIN table : table[n].id # own => table'[n] = table[n]
          /\ \A n \in DOMAIN table : table[n].id = own => table'[n].id = own
      BY <3>1, StatusUpdated
    <3>3. \A j \in Ids \ {own} : SameRows(j)
      BY <2>0, <3>2, RowsInPlace
    <3>. QED BY <1>0, <2>0, <3>3, MoveFramed
  <2>. QED BY <1>5, <2>1, <2>2 DEF modifyDeviceStatus
<1>. QED BY <1>0, <1>1, <1>2, <1>3, <1>4, <1>5 DEF addDeviceInfo, removeDeviceInfo, updateDeviceInfo

LEMMA ObjectsFramed ==
    ASSUME Base, NEW w \in Workers, req[w] \in Request, req[w] # NoRequest,
           \/ insertDevice(w) \/ deleteDevice(w)
           \/ Reinit(w) /\ req[w].op = "update"
           \/ Start(w) /\ req[w].op = "start"
           \/ Stop(w) /\ req[w].op = "stop"
    PROVE  Framed(w) \/ ProgramEnds
<1>0. PICK own \in Ids : own = req[w].id
  BY OwnId
<1>1. UNCHANGED table
  BY DEF insertDevice, deleteDevice, Reinit, Start, Stop, diskVars
<1>2. CASE insertDevice(w) /\ ~ ProgramEnds
  <2>1. /\ UNCHANGED phase /\ UNCHANGED tainted /\ UNCHANGED stale
        /\ req' = [req EXCEPT ![w] = NoRequest] /\ pc' = [pc EXCEPT ![w] = "idle"]
        /\ \A j \in Ids \ {own} : SameObject(j)
    BY <1>0, <1>2, InsertEffect
  <2>2. req'[w] = NoRequest /\ \A v \in Workers \ {w} : req'[v] = req[v] /\ pc'[v] = pc[v]
    BY <2>1 DEF Base, TypeOK
  <2>. QED BY <1>0, <1>1, <2>1, <2>2, Untouched DEF Framed
<1>3. CASE deleteDevice(w)
  <2> DEFINE map == [device_map_ EXCEPT ![own] = NoDevice]
  <2>1. copy[w] = device_map_ /\ device_map_ \in Maps
    BY <1>3 DEF deleteDevice, At, Base, Locked, TypeOK
  <2>2. ReplyWith(w, map)
    BY <1>0, <1>3, <2>1 DEF deleteDevice
  <2>3. /\ map \in Maps /\ \A i \in Ids : map[i] \in {device_map_[i], NoDevice}
        /\ \A i \in Ids \ {own} : map[i] = device_map_[i]
    BY <2>1 DEF Maps
  <2> HIDE DEF map
  <2>. QED BY <1>0, <1>1, <2>2, <2>3, ReplyFramed
<1>4. ASSUME HasTarget(w), NEW label, Goto(w, label),
             UNCHANGED <<phase, device_map_, req, tainted, stale>>,
             \A d \in Devices \ {target[w]} : config'[d] = config[d] /\ sip'[d] = sip[d]
      PROVE  Framed(w)
  <2>1. \A v \in Workers \ {w} : pc'[v] = pc[v]
    BY <1>4 DEF Goto, Base, TypeOK
  <2>2. \A j \in Ids \ {own} : device_map_[j] # NoDevice => device_map_[j] \in Devices \ {target[w]}
    BY <1>0, <1>4, OwnObject
  <2>3. \A j \in Ids \ {own} : SameObject(j)
    BY <1>4, <2>2 DEF SameObject
  <2>. QED BY <1>0, <1>1, <1>4, <2>1, <2>3, Untouched DEF Framed
<1>5. CASE Reinit(w) /\ req[w].op = "update" /\ ~ ProgramEnds
  <2>1. HasTarget(w) /\ Goto(w, "reply") /\ UNCHANGED <<phase, device_map_, req, tainted, stale, sip>>
    BY <1>5 DEF Reinit, At, HasTarget, phaseVars, histVars
  <2>2. \A d \in Devices \ {target[w]} : config'[d] = config[d]
    BY <1>5 DEF Reinit, Base, TypeOK
  <2>. QED BY <1>4, <2>1, <2>2
<1>6. CASE Start(w) /\ req[w].op = "start"
  <2>1. HasTarget(w) /\ UNCHANGED <<phase, device_map_, req, tainted, stale, config>>
    BY <1>6 DEF Start, At, HasTarget, phaseVars, histVars
  <2>2. \A d \in Devices \ {target[w]} : sip'[d] = sip[d]
    BY <1>6 DEF Start, Base, TypeOK
  <2>3. Goto(w, "status") \/ Goto(w, "reply")
    BY <1>6 DEF Start
  <2>. QED BY <1>4, <2>1, <2>2, <2>3
<1>7. CASE Stop(w) /\ req[w].op = "stop"
  <2>1. HasTarget(w) /\ Goto(w, "status") /\ UNCHANGED <<phase, device_map_, req, tainted, stale, config>>
    BY <1>7 DEF Stop, At, HasTarget, phaseVars, histVars
  <2>2. \A d \in Devices \ {target[w]} : sip'[d] = sip[d]
    BY <1>7 DEF Stop, Base, TypeOK
  <2>. QED BY <1>4, <2>1, <2>2
<1>. QED BY <1>2, <1>3, <1>5, <1>6, <1>7

\* Nothing but a tainted id changes.
LEMMA Muddled ==
    ASSUME Base, stale' \subseteq Ids, UNCHANGED phase, UNCHANGED tainted, NEW own \in tainted,
           \A j \in Ids \ {own} : SameRows(j) /\ SameObject(j),
           UNCHANGED requestBar, UNCHANGED doneBar
    PROVE  UNCHANGED Registry!vars
<1>1. ASSUME NEW j \in Ids
      PROVE  /\ recordBar'[j] = recordBar[j] /\ (j \in startedBar' <=> j \in startedBar)
             /\ servedBar'[j] = servedBar[j] /\ (j \in runningBar' <=> j \in runningBar)
  <2>1. CASE j = own
    BY <2>1 DEF recordBar, startedBar, servedBar, runningBar
  <2>2. CASE j # own
    BY <2>2, SameRecord, SameServed
  <2>. QED BY <2>1, <2>2
<1>2. UNCHANGED <<recordBar, startedBar, servedBar, runningBar>>
  BY <1>1, ZenonT(40) DEF recordBar, startedBar, servedBar, runningBar
<1>3. (stale \ tainted)' = stale \ tainted
  <2>1. stale \subseteq Ids /\ \A j \in Ids \ {own} : j \in stale' <=> j \in stale
    BY DEF Base, TypeOK, SameRows
  <2>. QED BY <2>1
<1>4. (phase = "up")' = (phase = "up")
  OBVIOUS
<1>. QED BY <1>2, <1>3, <1>4
     DEF Registry!vars, Registry!durable, Registry!volatile, Registry!calls, Registry!limits

LEMMA TaintedUnseen ==
    ASSUME Base, Base', NEW w \in Workers, req[w] # NoRequest, req[w].id \in tainted, Framed(w)
    PROVE  UNCHANGED Registry!vars
<1>1. ~ Seen(w) /\ ~ Seen(w)' /\ tainted' = tainted
  BY DEF Framed, Seen
<1>2. \A v \in Workers \ {w} : Seen(v)' = Seen(v) /\ req'[v] = req[v] /\ pc'[v] = pc[v]
  BY DEF Framed, Seen
<1>3. UNCHANGED requestBar /\ UNCHANGED doneBar
  BY <1>1, <1>2 DEF requestBar, doneBar
<1>4. stale' \subseteq Ids
  BY DEF Base, TypeOK
<1>. QED BY <1>3, <1>4, Muddled DEF Framed

\* Whatever a worker does for a tainted id: the registry does not see it, or crashes.
LEMMA TaintedRegistry ==
    ASSUME Base, Base', Agreement, NEW w \in Workers, req[w] # NoRequest, req[w].id \in tainted,
           Framed(w) \/ (ProgramEnds /\ UNCHANGED table)
    PROVE  [Registry!Next]_Registry!vars
  BY TaintedUnseen, EndsCrash

----
(***************************************************************************)
(* Requests come, the program starts and ends.                             *)
(***************************************************************************)
LEMMA ReceiveRegistry ==
    ASSUME Base, Agreement, NEW w \in Workers, Receive(w)
    PROVE  [Registry!Next]_Registry!vars
<1>1. PICK q \in Request :
        /\ req' = [req EXCEPT ![w] = q]
        /\ pc' = [pc EXCEPT ![w] = FirstStep(q.op)]
        /\ tainted' = IF Handlers(q.id) # {} THEN tainted \cup {q.id} ELSE tainted
  BY DEF Receive, Goto
<1>2. /\ UNCHANGED <<table, phase, device_map_, config, sip, stale>>
      /\ phase = "up" /\ pc[w] = "idle" /\ req[w] = NoRequest
  <2>1. req[w] # NoRequest => pc[w] # "idle"
    BY DEF Base, InPlace, LabelsOf, Request, TypeOK
  <2>. QED BY <2>1 DEF Receive, At, diskVars, phaseVars, deviceVars
<1>3. /\ req'[w] = q /\ q # NoRequest /\ pc'[w] \in {"exist", "find"} /\ q.id \in Ids
      /\ \A v \in Workers \ {w} : req'[v] = req[v] /\ pc'[v] = pc[v]
  <2>1. FirstStep(q.op) \in {"exist", "find"}
    BY DEF FirstStep
  <2>2. q # NoRequest /\ q.id \in Ids
    BY NamesDistinct DEF Request
  <2>. QED BY <1>1, <2>1, <2>2 DEF Base, TypeOK
<1>4. (phase = "up")' = (phase = "up") /\ (phase = "up") = TRUE
  BY <1>2
<1>5. w \notin doneBar /\ w \notin doneBar' /\ requestBar[w] = NoRequest
  BY <1>2, <1>3 DEF doneBar, requestBar, Seen
<1>6. \A v \in Workers : req[v] # NoRequest /\ req[v].id = q.id <=> v \in Handlers(q.id)
  BY DEF Handlers, Names
<1>7. CASE tainted' = tainted
  <2>1. UNCHANGED <<recordBar, startedBar, servedBar, runningBar>>
    BY <1>2, <1>7, SameRecords, SameService
  <2>2. \A v \in Workers \ {w} : Seen(v)' = Seen(v)
    BY <1>3, <1>7 DEF Seen
  <2>3. doneBar' = doneBar
    BY <1>3, <1>5, <2>2 DEF doneBar
  <2>4. (stale \ tainted)' = stale \ tainted
    BY <1>2, <1>7
  <2>5. CASE q.id \in tainted
    <3>1. ~ Seen(w)'
      BY <1>3, <1>7, <2>5 DEF Seen
    <3>2. requestBar' = requestBar
      BY <1>3, <1>5, <2>2, <3>1 DEF requestBar
    <3>. QED BY <1>4, <1>7, <2>1, <2>3, <2>4, <3>2
         DEF Registry!vars, Registry!durable, Registry!volatile, Registry!calls, Registry!limits
  <2>6. CASE q.id \notin tainted
    <3>1. Seen(w)'
      BY <1>3, <1>7, <2>6 DEF Seen
    <3>2. requestBar' = [requestBar EXCEPT ![w] = q] /\ requestBar'[w] = q
      BY <1>3, <2>2, <3>1 DEF requestBar
    <3>3. \A v \in Workers : requestBar[v] # NoRequest => requestBar[v].id # q.id
      <4>1. Handlers(q.id) = {}
        BY <1>1, <1>7, <2>6
      <4>. QED BY <1>6, <4>1 DEF requestBar, Seen
    <3>4. q \in Registry!Request
      BY DEF Request, Registry!Request
    <3>5. Registry!Ask(w)
      BY <1>4, <1>5, <1>7, <2>1, <2>3, <2>4, <2>6, <3>2, <3>3, <3>4
      DEF Registry!Ask, Registry!durable, Registry!volatile, Registry!limits
    <3>. QED BY <3>5 DEF Registry!Next
  <2>. QED BY <2>5, <2>6
<1>8. CASE tainted' # tainted
  <2> DEFINE own == q.id
             others == {v \in Workers : requestBar[v] # NoRequest /\ requestBar[v].id = own}
  <2>1. tainted' = tainted \cup {own} /\ own \notin tainted /\ own \in Ids /\ Handlers(own) # {}
    BY <1>1, <1>3, <1>8
  <2>2. others = Handlers(own)
    BY <1>6, <2>1 DEF requestBar, Seen, Handlers
  <2>3. recordBar' = [i \in Ids |-> IF i \in {own} THEN {} ELSE recordBar[i]]
    BY <1>2, <2>1 DEF recordBar, RowsOf
  <2>4. startedBar' = startedBar \ {own} /\ runningBar' = runningBar \ {own}
    BY <1>2, <2>1 DEF startedBar, runningBar, RowsOf
  <2>5. servedBar' = [servedBar EXCEPT ![own] = {}]
    BY <1>2, <2>1 DEF servedBar
  <2>6. (stale \ tainted)' = (stale \ tainted) \ {own}
    BY <1>2, <2>1
  <2>7. \A v \in Workers : Seen(v)' <=> Seen(v) /\ v \notin Handlers(own)
    BY <1>2, <1>3, <1>6, <2>1 DEF Seen
  <2>8. requestBar' = [v \in Workers |-> IF v \in others THEN NoRequest ELSE requestBar[v]]
    <3>1. \A v \in Workers : requestBar'[v] = IF v \in Handlers(own) THEN NoRequest ELSE requestBar[v]
      BY <1>2, <1>3, <2>7 DEF requestBar, Seen
    <3>2. requestBar' = [v \in Workers |-> requestBar'[v]]
      BY DEF requestBar
    <3>. QED BY <2>2, <3>1, <3>2
  <2>9. doneBar' = doneBar \ others
    <3>1. \A v \in Workers : v \in doneBar' <=> v \in doneBar /\ v \notin Handlers(own)
      BY <1>3, <1>5, <2>7 DEF doneBar
    <3>. QED BY <2>2, <3>1 DEF doneBar
  <2>10. Registry!Overlap(own)
    BY <1>4, <2>1, <2>2, <2>3, <2>4, <2>5, <2>6, <2>8, <2>9 DEF Registry!Overlap, Registry!Forget
  <2>. QED BY <2>1, <2>10 DEF Registry!Next
<1>. QED BY <1>7, <1>8

\* What the boot does for the row it comes to.
LEMMA BootRowStarts ==
    ASSUME Base, BootRow, ~ ProgramEnds, NEW row \in Config, row = table[next], NEW own \in Ids, own = row.id
    PROVE  \/ row.status = 1 /\ sip'[device_map_'[own]] # "idle" /\ stale' = stale
           \/ row.status = 1 /\ sip'[device_map_'[own]] = "idle" /\ stale' = stale \cup {own}
           \/ row.status = 0 /\ sip'[device_map_'[own]] = "idle" /\ stale' = stale
<1>1. PICK d \in Devices :
        /\ config[d] = NoConfig
        /\ device_map_' = [device_map_ EXCEPT ![own] = d]
        /\ BootStart(d, row)
  BY DEF BootRow, Drop
<1>2. device_map_'[own] = d
  BY <1>1 DEF Base, TypeOK, Maps
<1>3. sip[d] = "idle"
  BY <1>1 DEF Base, Alive
<1>. QED BY <1>1, <1>2, <1>3 DEF BootStart, Base, TypeOK

LEMMA BootRowRegistry ==
    ASSUME Base, Base', Agreement, BootRow
    PROVE  [Registry!Next]_Registry!vars
<1>1. /\ phase = "boot" /\ next \in Nat /\ next <= Len(table) /\ next > 0 /\ UNCHANGED table
      /\ DOMAIN table = 1 .. Len(table) /\ Len(table) \in Nat
  BY LenProperties DEF BootRow, Base, TypeOK, Quiet, diskVars
<1>2. CASE ProgramEnds
  BY <1>1, <1>2, EndsCrash
<1>3. CASE ~ ProgramEnds
  <2>1. table[next] \in Config /\ next \in DOMAIN table
    BY <1>1, ElementOfSeq DEF Base, TypeOK
  <2>2. PICK row \in Config : row = table[next]
    BY <2>1
  <2>3. PICK own \in Ids : own = row.id
    BY <2>2 DEF Config
  <2>4. /\ UNCHANGED phase /\ UNCHANGED req /\ UNCHANGED pc /\ UNCHANGED tainted
        /\ \A j \in Ids \ {own} : SameObject(j)
        /\ \A j \in Ids \ {own} : j \in stale' <=> j \in stale
    BY <1>3, <2>2, <2>3, BootRowEffect
  <2>5. UNCHANGED requestBar /\ UNCHANGED doneBar
    BY <2>4, SameRequests DEF doneBar, Seen
  <2>6. CASE own \in tainted
    <3>1. \A j \in Ids \ {own} : SameRows(j)
      BY <1>1, <2>4 DEF SameRows, Single
    <3>2. stale' \subseteq Ids
      BY DEF Base, TypeOK
    <3>. QED BY <2>4, <2>5, <2>6, <3>1, <3>2, Muddled
  <2>7. CASE own \notin tainted
    <3>1. PICK d \in Devices :
            device_map_'[own] = d /\ d # NoDevice /\ config'[d].port = row.port /\ config'[d].path = row.path
      BY <1>3, <2>2, <2>3, BootRowEffect
    <3>2. \A n \in DOMAIN table : n < next => table[n].id # own
      BY <1>1, <2>1, <2>2, <2>3, <2>7 DEF Agreement, Singles, Single
    <3>3. device_map_[own] = NoDevice
      BY <1>1, <2>7, <3>2 DEF Agreement, BootAgree
    <3>4. servedBar[own] = {} /\ own \notin runningBar
      BY <3>3, <2>7, BarsAt
    <3>5. recordBar[own] = {Entry(row)} /\ (own \in startedBar <=> row.status = 1)
      BY <2>1, <2>2, <2>3, <2>7, OneRow DEF RowIsRecord, Agreement, Singles
    <3>6. servedBar'[own] = recordBar[own] /\ (own \in runningBar' <=> sip'[d] # "idle")
      BY <2>4, <2>7, <3>1, <3>5 DEF servedBar, runningBar, Entry
    <3>7. servedBar' = [servedBar EXCEPT ![own] = recordBar[own]]
      BY <2>4, <3>6, OwnService
    <3>8. \/ own \in startedBar /\ own \in runningBar' /\ stale' = stale
          \/ own \in startedBar /\ own \notin runningBar' /\ stale' = stale \cup {own}
          \/ own \notin startedBar /\ own \notin runningBar' /\ stale' = stale
      BY <1>3, <2>2, <2>3, <3>1, <3>5, <3>6, BootRowStarts
    <3>9. \/ own \in startedBar /\ runningBar' = runningBar \cup {own} /\ (stale \ tainted)' = stale \ tainted
          \/ own \in startedBar /\ runningBar' = runningBar /\ (stale \ tainted)' = (stale \ tainted) \cup {own}
          \/ own \notin startedBar /\ runningBar' = runningBar /\ (stale \ tainted)' = stale \ tainted
      BY <2>4, <2>7, <3>4, <3>8, OwnService
    <3>10. UNCHANGED recordBar /\ UNCHANGED startedBar
      BY <1>1, <2>4, SameRecords
    <3>11. (phase = "up")' = (phase = "up") /\ (phase = "up") = FALSE
      BY <1>1, <2>4
    <3>12. Registry!Load(own)
      BY <2>4, <2>5, <3>4, <3>5, <3>7, <3>9, <3>10, <3>11
      DEF Registry!Load, Registry!durable, Registry!calls
    <3>. QED BY <3>12 DEF Registry!Next
  <2>. QED BY <2>6, <2>7
<1>. QED BY <1>2, <1>3

LEMMA BootRegistry ==
    ASSUME Base, Agreement, Boot
    PROVE  [Registry!Next]_Registry!vars
<1>1. /\ phase = "down" /\ UNCHANGED <<table, device_map_, config, sip, req, pc, stale>>
  BY DEF Boot, diskVars, deviceVars, workVars
<1>2. CASE phase' = "boot" /\ UNCHANGED tainted
  <2>1. UNCHANGED doneBar
    BY <1>1, <1>2 DEF doneBar, Seen
  <2>. QED BY <1>1, <1>2, <2>1, Unseen
<1>3. CASE phase' = "up" /\ tainted' = {i \in Ids : RowsOf(i) # {}}
  <2> DEFINE M == {i \in Ids : recordBar[i] # {}}
  <2>1. \A i \in Ids : i \in M <=> i \notin tainted /\ RowsOf(i) # {}
    BY DEF recordBar
  <2>2. tainted \subseteq Ids /\ tainted \subseteq tainted'
    BY <1>1, <1>3 DEF Base, TypeOK, Agreement, DownAgree
  <2>3. tainted' = tainted \cup M
    BY <1>3, <2>1, <2>2
  <2>4. recordBar' = [i \in Ids |-> IF i \in M THEN {} ELSE recordBar[i]]
    <3>1. \A i \in Ids : RowsOf(i)' = RowsOf(i)
      BY <1>1 DEF RowsOf
    <3>2. \A i \in Ids : recordBar'[i] = {} /\ (i \notin M => recordBar[i] = {})
      BY <1>3, <3>1 DEF recordBar
    <3>3. recordBar' = [i \in Ids |-> recordBar'[i]]
      BY DEF recordBar
    <3>. QED BY <3>2, <3>3
  <2>5. startedBar' = startedBar \ M
    <3>1. startedBar' = {}
      BY <1>1, <1>3 DEF startedBar, RowsOf
    <3>2. startedBar \subseteq M
      BY <2>1 DEF startedBar
    <3>. QED BY <3>1, <3>2
  <2>6. (stale \ tainted)' = (stale \ tainted) \ M
    BY <1>1, <2>3
  <2>7. servedBar = [i \in Ids |-> {}] /\ servedBar' = servedBar /\ runningBar' = runningBar
    <3>1. \A i \in Ids : device_map_[i] = NoDevice
      BY <1>1 DEF Base, Quiet, EmptyMap
    <3>. QED BY <1>1, <3>1 DEF servedBar, runningBar
  <2>8. UNCHANGED requestBar /\ UNCHANGED doneBar
    <3>1. \A w \in Workers : req[w] = NoRequest
      BY <1>1 DEF Base, Quiet
    <3>. QED BY <1>1, <3>1 DEF requestBar, doneBar, Seen
  <2>9. (phase = "up")' = TRUE /\ (phase = "up") = FALSE
    BY <1>1, <1>3
  <2>10. Registry!Forget(M)
    BY <2>3, <2>4, <2>5, <2>6 DEF Registry!Forget
  <2>11. Registry!ServeUnread
    BY <2>7, <2>8, <2>9, <2>10 DEF Registry!ServeUnread, Registry!Nothing, Registry!calls
  <2>. QED BY <2>11 DEF Registry!Next
<1>. QED BY <1>2, <1>3 DEF Boot

LEMMA OtherRegistry ==
    ASSUME Base, Agreement, Serve \/ Upload \/ Crash \/ UNCHANGED vars
    PROVE  [Registry!Next]_Registry!vars
<1>1. CASE Upload \/ UNCHANGED vars
  <2>1. UNCHANGED <<table, device_map_, config, sip, req, pc, phase, tainted, stale>>
    BY <1>1 DEF Upload, vars, diskVars, phaseVars, deviceVars, workVars, histVars
  <2>2. UNCHANGED doneBar
    BY <2>1 DEF doneBar, Seen
  <2>. QED BY <2>1, <2>2, Unseen
<1>2. CASE Serve
  <2>1. /\ phase = "boot" /\ next > Len(table) /\ next \in Nat /\ phase' = "up"
        /\ UNCHANGED <<table, device_map_, config, sip, req, pc, tainted, stale>>
    BY <1>2 DEF Serve, Base, TypeOK, diskVars, deviceVars, workVars, histVars
  <2>2. DOMAIN table = 1 .. Len(table) /\ Len(table) \in Nat
    BY LenProperties DEF Base, TypeOK
  <2>3. \A n \in DOMAIN table : n < next
    BY <2>1, <2>2
  <2>4. \A i \in Ids : i \notin tainted => Agree(i)
    BY <2>1, <2>3 DEF Agreement, BootAgree, Agree
  <2>5. \A i \in Ids : Registry!Agrees(i)
    BY <2>4, AgreeAgrees DEF Agreement
  <2>6. UNCHANGED <<recordBar, startedBar, servedBar, runningBar, requestBar, doneBar>>
    BY <2>1, SameRecords, SameService, SameRequests DEF doneBar, Seen
  <2>7. ~ (phase = "up") /\ (phase = "up")' = TRUE
    BY <2>1
  <2>8. Registry!Serve
    BY <2>1, <2>5, <2>6, <2>7 DEF Registry!Serve, Registry!durable, Registry!calls, Registry!limits
  <2>. QED BY <2>8 DEF Registry!Next
<1>3. CASE Crash
  BY <1>3, EndsCrash DEF Crash, diskVars
<1>. QED BY <1>1, <1>2, <1>3

LEMMA RegistryStep ==
    ASSUME Base, Agreement, [Next]_vars
    PROVE  [Registry!Next]_Registry!vars
<1>0. Base'
  BY BaseStep
<1>1. CASE initFromDB \/ Serve \/ Crash \/ Upload \/ UNCHANGED vars
  BY <1>0, <1>1, BootRegistry, BootRowRegistry, OtherRegistry DEF initFromDB
<1>2. ASSUME NEW w \in Workers, Receive(w)
      PROVE  [Registry!Next]_Registry!vars
  BY <1>2, ReceiveRegistry
<1>3. ASSUME NEW w \in Workers, deviceCreate(w)
      PROVE  [Registry!Next]_Registry!vars
  <2>1. req[w] \in Request /\ req[w] # NoRequest /\ req[w].op = "create"
    BY <1>3, Working DEF deviceCreate
  <2>2. CASE Seen(w)
    BY <1>3, <2>1, <2>2, ChecksRegistry, AddRegistry, CopyRegistry, InsertRegistry DEF deviceCreate
  <2>3. CASE ~ Seen(w)
    <3>1. Framed(w) \/ (ProgramEnds /\ UNCHANGED table)
      <4>1. addDeviceInfo(w) \/ UNCHANGED table
        BY <1>3 DEF deviceCreate, FileExist, NotInMap, PortUnused, CopyMap, insertDevice, diskVars
      <4>. QED BY <1>3, <2>1, <4>1, LooksFramed, StatementsFramed, ObjectsFramed DEF deviceCreate
    <3>. QED BY <1>0, <2>1, <2>3, <3>1, TaintedRegistry DEF Seen
  <2>. QED BY <2>2, <2>3
<1>4. ASSUME NEW w \in Workers, deviceDelete(w)
      PROVE  [Registry!Next]_Registry!vars
  <2>1. req[w] \in Request /\ req[w] # NoRequest /\ req[w].op = "delete"
    BY <1>4, Working DEF deviceDelete
  <2>2. CASE Seen(w)
    BY <1>4, <2>1, <2>2, FindRegistry, RemoveRegistry, CopyRegistry, DeleteRegistry DEF deviceDelete
  <2>3. CASE ~ Seen(w)
    <3>1. Framed(w) \/ (ProgramEnds /\ UNCHANGED table)
      <4>1. removeDeviceInfo(w) \/ UNCHANGED table
        BY <1>4 DEF deviceDelete, Find, CopyMap, deleteDevice, diskVars
      <4>. QED BY <1>4, <2>1, <4>1, LooksFramed, StatementsFramed, ObjectsFramed DEF deviceDelete
    <3>. QED BY <1>0, <2>1, <2>3, <3>1, TaintedRegistry DEF Seen
  <2>. QED BY <2>2, <2>3
<1>5. ASSUME NEW w \in Workers, deviceUpdate(w)
      PROVE  [Registry!Next]_Registry!vars
  <2>1. req[w] \in Request /\ req[w] # NoRequest /\ req[w].op = "update"
    BY <1>5, Working DEF deviceUpdate
  <2>2. CASE Seen(w)
    BY <1>5, <2>1, <2>2, ChecksRegistry, FindRegistry, UpdateRegistry, ReinitRegistry DEF deviceUpdate
  <2>3. CASE ~ Seen(w)
    <3>1. Framed(w) \/ (ProgramEnds /\ UNCHANGED table)
      <4>1. updateDeviceInfo(w) \/ UNCHANGED table
        BY <1>5 DEF deviceUpdate, Find, FileExist, Reinit, Finish, diskVars
      <4>. QED BY <1>5, <2>1, <4>1, LooksFramed, StatementsFramed, ObjectsFramed DEF deviceUpdate
    <3>. QED BY <1>0, <2>1, <2>3, <3>1, TaintedRegistry DEF Seen
  <2>. QED BY <2>2, <2>3
<1>6. ASSUME NEW w \in Workers, deviceStart(w) \/ deviceStop(w)
      PROVE  [Registry!Next]_Registry!vars
  <2>1. /\ req[w] \in Request /\ req[w] # NoRequest /\ req[w].op \in {"start", "stop"}
        /\ \/ Find(w) \/ modifyDeviceStatus(w) \/ Finish(w)
           \/ Start(w) /\ req[w].op = "start"
           \/ Stop(w) /\ req[w].op = "stop"
    BY <1>6, Working DEF deviceStart, deviceStop
  <2>2. CASE Seen(w)
    BY <2>1, <2>2, ChecksRegistry, FindRegistry, StartRegistry, StopRegistry, StatusRegistry
  <2>3. CASE ~ Seen(w)
    <3>1. Framed(w) \/ (ProgramEnds /\ UNCHANGED table)
      <4>1. CASE modifyDeviceStatus(w)
        BY <2>1, <4>1, StatementsFramed
      <4>2. CASE Find(w) \/ Finish(w)
        BY <2>1, <4>2, LooksFramed DEF Find, Finish, diskVars
      <4>3. CASE (Start(w) /\ req[w].op = "start") \/ (Stop(w) /\ req[w].op = "stop")
        BY <2>1, <4>3, ObjectsFramed DEF Start, Stop, diskVars
      <4>. QED BY <2>1, <4>1, <4>2, <4>3
    <3>. QED BY <1>0, <2>1, <2>3, <3>1, TaintedRegistry DEF Seen
  <2>. QED BY <2>2, <2>3
<1>. QED BY <1>1, <1>2, <1>3, <1>4, <1>5, <1>6 DEF Next

LEMMA InitRegistry == Init => Registry!Init
<1> SUFFICES ASSUME Init
             PROVE  Registry!Init
  OBVIOUS
<1>1. DOMAIN table = {} /\ tainted = {} /\ stale = {}
  BY DEF Init
<1>2. recordBar = [i \in Ids |-> {}] /\ startedBar = {}
  BY <1>1 DEF recordBar, startedBar, RowsOf
<1>3. servedBar = [i \in Ids |-> {}] /\ runningBar = {} /\ doneBar = {}
      /\ requestBar = [w \in Workers |-> NoRequest]
  BY DEF Init, EmptyMap, servedBar, runningBar, doneBar, requestBar, Seen
<1>4. (phase = "up") = FALSE
  BY DEF Init
<1>. QED BY <1>1, <1>2, <1>3, <1>4 DEF Registry!Init, Registry!Nothing, Registry!NoCalls

----
\* Whoever asks for what, whatever crashes and whichever statement fails,
\* DeviceManager is a DeviceRegistry: every statement, map, client, boot and
\* crash step is one step of it or none.
THEOREM RegistryKept == Spec => KeepsRegistry
<1>1. Base /\ Agreement /\ [Next]_vars => [Registry!Next]_Registry!vars
  BY RegistryStep
<1>. QED BY <1>1, InitRegistry, AgreementHolds, PTL DEF Spec, KeepsRegistry, Registry!Spec
====
