---- MODULE DeviceManagerProofs ----
(***************************************************************************)
(* Proofs about DeviceManager for every set of workers, ids, ports, files  *)
(* and objects, and every length of the table.                             *)
(***************************************************************************)
EXTENDS DeviceManager, TLAPS, SequenceTheorems

----
(***************************************************************************)
(* The first invariant: places, locks, and which objects are alive.  It    *)
(* needs no assumption on who asks for what.                               *)
(***************************************************************************)
LabelsOf(op) ==
    CASE op = "create" -> {"exist", "unique", "port", "add", "copy", "publish"}
      [] op = "delete" -> {"find", "remove", "copy", "publish"}
      [] op = "update" -> {"find", "exist", "update", "init", "reply"}
      [] op = "start"  -> {"find", "start", "status", "reply"}
      [] op = "stop"   -> {"find", "stop", "status", "reply"}

\* A worker is where its request can have brought it.
InPlace ==
    \A w \in Workers :
        /\ req[w] = NoRequest => pc[w] = "idle"
        /\ req[w] # NoRequest => pc[w] \in LabelsOf(req[w].op)

\* map_lock_ is held exactly from the copy to the replacement of the map.
Locked ==
    \A w \in Workers :
        /\ map_lock_ = w <=> pc[w] = "publish"
        /\ pc[w] = "publish" => copy[w] = device_map_

\* Outside the serving phase nobody works; outside the program nothing is left.
Quiet ==
    /\ phase # "up" => \A w \in Workers : req[w] = NoRequest /\ held[w] = {}
    /\ phase = "down" => device_map_ = EmptyMap
    /\ phase = "boot" => next > 0
    /\ phase # "boot" => next = 0

\* What the map or a snapshot refers to exists, and the map has each object under its id.
Alive ==
    /\ \A i \in Ids : device_map_[i] # NoDevice =>
          config[device_map_[i]] \in Config /\ config[device_map_[i]].id = i
    /\ \A w \in Workers : \A d \in held[w] : config[d] \in Config
    /\ \A d \in Devices : config[d] = NoConfig => sip[d] = "idle"

HasTarget(w) == req[w] # NoRequest /\ req[w].op \in {"update", "start", "stop"} /\ pc[w] # "find"

\* A worker's snapshot keeps its target alive.
TargetHeld ==
    \A w \in Workers : HasTarget(w) =>
        target[w] \in held[w] /\ config[target[w]].id = req[w].id

Base == TypeOK /\ InPlace /\ Locked /\ Quiet /\ Alive /\ TargetHeld

----
(***************************************************************************)
(* Objects.                                                                *)
(***************************************************************************)
\* Destruction spares what the map and the snapshots refer to.
LEMMA Kept ==
    ASSUME NEW map \in Maps, NEW snaps \in [Workers -> SUBSET Devices]
    PROVE  /\ \A i \in Ids : map[i] \in Referenced(map, snaps)
           /\ \A w \in Workers : \A d \in snaps[w] : d \in Referenced(map, snaps)
           /\ \A d \in Referenced(map, snaps) :
                 (\E i \in Ids : d = map[i]) \/ (\E w \in Workers : d \in snaps[w])
<1>1. \A i \in Ids : map[i] \in Referenced(map, snaps)
  BY DEF Referenced
<1>2. ASSUME NEW w \in Workers, NEW d \in snaps[w]
      PROVE  d \in Referenced(map, snaps)
  <2>1. snaps[w] \in {snaps[v] : v \in Workers}
    OBVIOUS
  <2>. QED BY <2>1 DEF Referenced
<1>3. ASSUME NEW d \in Referenced(map, snaps)
      PROVE  (\E i \in Ids : d = map[i]) \/ (\E w \in Workers : d \in snaps[w])
  BY <1>3 DEF Referenced
<1>. QED BY <1>1, <1>2, <1>3

\* The program's end leaves a state of the invariant, whatever the state before.
LEMMA EndsBase ==
    ASSUME ProgramEnds, table' \in Seq(Config), Len(table') <= MaxRows, files' \subseteq Paths
    PROVE  Base'
<1> USE Pools, NamesDistinct DEF ProgramEnds, EmptyMap, Maps
<1>1. TypeOK'
  <2>1. Len(table') \in Nat
    BY LenProperties
  <2>. QED BY <2>1 DEF TypeOK, Labels
<1>2. InPlace' /\ Locked' /\ TargetHeld'
  BY DEF InPlace, Locked, TargetHeld, HasTarget
<1>3. Quiet' /\ Alive'
  BY DEF Quiet, Alive
<1>. QED BY <1>1, <1>2, <1>3 DEF Base

LEMMA InitBase == Init => Base
<1> SUFFICES ASSUME Init PROVE Base
  OBVIOUS
<1> USE Pools, NamesDistinct DEF Init, EmptyMap, Maps
<1>1. TypeOK
  BY EmptySeq DEF TypeOK, Labels
<1>2. InPlace /\ Locked /\ TargetHeld
  BY DEF InPlace, Locked, TargetHeld, HasTarget
<1>3. Quiet /\ Alive
  BY DEF Quiet, Alive
<1>. QED BY <1>1, <1>2, <1>3 DEF Base

----
(***************************************************************************)
(* The steps that many actions share keep the first invariant.             *)
(***************************************************************************)
TableType == table' \in Seq(Config) /\ Len(table') <= MaxRows /\ files' \subseteq Paths

\* A worker goes on to another label, and nothing else of the program changes.
LEMMA MoveBase ==
    ASSUME Base, TableType, stale' \subseteq Ids, NEW w \in Workers, NEW label \in Labels,
           phase = "up", req[w] # NoRequest, pc[w] # "publish", label \notin {"publish", "find"},
           pc[w] = "find" => req[w].op = "delete",
           label \in LabelsOf(req[w].op), Move(w, label)
    PROVE  Base'
<1> USE DEF Base, Move, Goto, phaseVars, deviceVars
<1>1. TypeOK'
  <2>1. next = 0 /\ Len(table') \in Nat
    BY LenProperties DEF TableType, Quiet
  <2>. QED BY <2>1 DEF TypeOK, TableType
<1>2. InPlace'
  BY DEF InPlace, TypeOK
<1>3. Locked'
  BY DEF Locked, TypeOK
<1>4. Quiet' /\ Alive'
  BY DEF Quiet, Alive
<1>5. TargetHeld'
  BY DEF TargetHeld, HasTarget, TypeOK
<1>. QED BY <1>1, <1>2, <1>3, <1>4, <1>5

\* A worker replies, with a map that has lost at most one device.
LEMMA ReplyBase ==
    ASSUME Base, TableType, NEW w \in Workers, phase = "up", req[w] # NoRequest,
           NEW map \in Maps, \A i \in Ids : map[i] \in {device_map_[i], NoDevice},
           map = device_map_ \/ pc[w] = "publish",
           ReplyWith(w, map)
    PROVE  Base'
<1> DEFINE snaps == [held EXCEPT ![w] = {}]
<1>1. CASE Terminates(map, snaps) /\ ProgramEnds
  BY <1>1, EndsBase DEF TableType
<1>2. CASE /\ ~ Terminates(map, snaps)
           /\ Drop(map, snaps, config)
           /\ Goto(w, "idle")
           /\ req' = [req EXCEPT ![w] = NoRequest]
           /\ target' = [target EXCEPT ![w] = NoDevice]
           /\ copy' = [copy EXCEPT ![w] = NoMap]
           /\ map_lock_' = IF map_lock_ = w THEN NoWorker ELSE map_lock_
           /\ UNCHANGED <<phaseVars, sip, leaked, histVars>>
  <2>1. snaps \in [Workers -> SUBSET Devices] /\ \A v \in Workers : snaps[v] \in {{}, held[v]}
    BY DEF Base, TypeOK
  <2> HIDE DEF snaps
  <2>2. /\ device_map_' = map /\ held' = snaps
        /\ config' = [d \in Devices |-> IF d \in Referenced(map, snaps) THEN config[d] ELSE NoConfig]
    BY <1>2 DEF Drop
  <2>3. /\ \A i \in Ids : map[i] # NoDevice => config'[map[i]] = config[map[i]] /\ map[i] = device_map_[i]
        /\ \A v \in Workers : \A d \in snaps[v] : config'[d] = config[d]
        /\ \A d \in Devices : config'[d] \in {config[d], NoConfig}
    BY <2>1, <2>2, Kept DEF Maps
  <2>4. \A d \in Devices : sip[d] # "idle" => config'[d] = config[d]
    BY <1>2, <2>2 DEF Terminates
  <2>5. /\ pc' = [pc EXCEPT ![w] = "idle"]
        /\ req' = [req EXCEPT ![w] = NoRequest]
        /\ target' = [target EXCEPT ![w] = NoDevice]
        /\ copy' = [copy EXCEPT ![w] = NoMap]
        /\ map_lock_' = IF map_lock_ = w THEN NoWorker ELSE map_lock_
        /\ phase' = phase /\ next' = next /\ sip' = sip /\ leaked' = leaked
        /\ tainted' = tainted /\ stale' = stale
    BY <1>2 DEF Goto, phaseVars, histVars
  <2> USE Pools, NamesDistinct
  <2>6. TypeOK'
    <3>1. next = 0 /\ Len(table') \in Nat
      BY LenProperties DEF Base, TableType, Quiet
    <3>2. config' \in [Devices -> Config \cup {NoConfig}] /\ held' \in [Workers -> SUBSET Devices]
      BY <2>1, <2>2 DEF Base, TypeOK
    <3>3. /\ pc' \in [Workers -> Labels] /\ req' \in [Workers -> Request \cup {NoRequest}]
          /\ target' \in [Workers -> Devices \cup {NoDevice}] /\ copy' \in [Workers -> Maps \cup {NoMap}]
          /\ map_lock_' \in Workers \cup {NoWorker}
      BY <2>5 DEF Base, TypeOK, Labels
    <3>4. /\ device_map_' \in Maps /\ phase' = "up" /\ next' = 0 /\ leaked' \subseteq Ports
          /\ sip' \in [Devices -> {"idle", "running", "broken"}]
          /\ tainted' \subseteq Ids /\ stale' \subseteq Ids
      BY <2>2, <2>5, <3>1 DEF Base, TypeOK
    <3>. QED BY <3>1, <3>2, <3>3, <3>4 DEF TypeOK, TableType
  <2>7. InPlace'
    BY <2>5 DEF Base, InPlace, TypeOK
  <2>8. Locked'
    <3>1. \A v \in Workers : v # w /\ pc[v] = "publish" => map = device_map_
      BY DEF Base, Locked
    <3>. QED BY <2>2, <2>5, <3>1 DEF Base, Locked, TypeOK
  <2>9. Quiet'
    BY <2>5 DEF Base, Quiet
  <2>10. Alive'
    <3>1. \A i \in Ids : map[i] # NoDevice => config'[map[i]] \in Config /\ config'[map[i]].id = i
      BY <2>3 DEF Base, Alive
    <3>2. \A v \in Workers : \A d \in snaps[v] : config'[d] \in Config
      BY <2>1, <2>3 DEF Base, Alive
    <3>3. \A d \in Devices : config'[d] = NoConfig => sip[d] = "idle"
      BY <2>4 DEF Base, Alive
    <3>. QED BY <2>2, <2>5, <3>1, <3>2, <3>3 DEF Alive
  <2>11. TargetHeld'
    <3>1. \A v \in Workers : HasTarget(v)' => v # w /\ HasTarget(v)
      BY <2>5 DEF HasTarget, Base, TypeOK
    <3>2. \A v \in Workers : v # w => snaps[v] = held[v] /\ target'[v] = target[v] /\ req'[v] = req[v]
      BY <2>5 DEF snaps, Base, TypeOK
    <3>3. ASSUME NEW v \in Workers, HasTarget(v)'
          PROVE  (target[v] \in held[v] /\ config[target[v]].id = req[v].id)'
      <4>1. target[v] \in held[v] /\ config[target[v]].id = req[v].id
        BY <3>1, <3>3 DEF Base, TargetHeld
      <4>2. target[v] \in snaps[v] /\ target'[v] = target[v] /\ req'[v] = req[v]
        BY <3>1, <3>2, <3>3, <4>1
      <4>3. config'[target[v]] = config[target[v]]
        BY <2>3, <4>2
      <4>. QED BY <2>2, <4>1, <4>2, <4>3
    <3>. QED BY <3>3 DEF TargetHeld
  <2>. QED BY <2>6, <2>7, <2>8, <2>9, <2>10, <2>11 DEF Base
<1>. QED BY <1>1, <1>2 DEF ReplyWith

----
(***************************************************************************)
(* The table stays a table.                                                *)
(***************************************************************************)
LEMMA NewRow == \A q \in Request : q.op \in {"create", "update"} => NewConfig(q) \in Config
  BY DEF Request, NewConfig, Config, Given, Secrets

LEMMA UnchangedTable == TypeOK /\ UNCHANGED table => table' \in Seq(Config) /\ Len(table') <= MaxRows
  BY DEF TypeOK

LEMMA AddType ==
    ASSUME TypeOK, NEW w \in Workers, req[w] \in Request, req[w].op = "create", addDeviceInfo(w)
    PROVE  TableType
<1>1. NewConfig(req[w]) \in Config /\ Len(table) \in Nat
  BY NewRow, LenProperties DEF TypeOK
<1>2. CASE Len(table) < MaxRows /\ table' = Append(table, NewConfig(req[w]))
  <2>1. table' \in Seq(Config) /\ Len(table') = Len(table) + 1
    BY <1>1, <1>2, AppendProperties DEF TypeOK
  <2>. QED BY <1>1, <1>2, <2>1, Pools DEF TableType, TypeOK, addDeviceInfo
<1>3. CASE UNCHANGED table
  BY <1>3 DEF TableType, TypeOK, addDeviceInfo
<1>. QED BY <1>2, <1>3 DEF addDeviceInfo

LEMMA RemoveType ==
    ASSUME TypeOK, NEW w \in Workers, removeDeviceInfo(w)
    PROVE  TableType
<1>1. Len(table) \in Nat /\ DOMAIN table = 1 .. Len(table) /\ \A n \in DOMAIN table : table[n] \in Config
  BY LenProperties, ElementOfSeq DEF TypeOK
<1>2. CASE DeleteRows(req[w].id)
  <2> DEFINE kept == {n \in DOMAIN table : table[n].id # req[w].id}
  <2>1. PICK k \in 0 .. Len(table) : \E old \in [1 .. k -> kept] : table' = [n \in 1 .. k |-> table[old[n]]]
    BY <1>2 DEF DeleteRows
  <2>2. PICK old \in [1 .. k -> kept] : table' = [n \in 1 .. k |-> table[old[n]]]
    BY <2>1
  <2>3. table' \in [1 .. k -> Config] /\ k \in Nat
    BY <1>1, <2>2
  <2>4. table' \in Seq(Config)
    BY <2>3, SeqDef
  <2>5. Len(table') = k
    BY <2>3, <2>4, LenProperties
  <2>. QED BY <1>1, <2>1, <2>4, <2>5, Pools DEF TableType, TypeOK, removeDeviceInfo
<1>3. CASE UNCHANGED table
  BY <1>3 DEF TableType, TypeOK, removeDeviceInfo
<1>. QED BY <1>2, <1>3 DEF removeDeviceInfo

\* An UPDATE statement changes rows in place.
LEMMA InPlaceType ==
    ASSUME TypeOK, NEW e, table' = [n \in DOMAIN table |-> e[n]], \A n \in DOMAIN table : e[n] \in Config
    PROVE  table' \in Seq(Config) /\ Len(table') = Len(table)
<1>1. Len(table) \in Nat /\ DOMAIN table = 1 .. Len(table)
  BY LenProperties DEF TypeOK
<1>2. table' \in [1 .. Len(table) -> Config]
  BY <1>1
<1>3. table' \in Seq(Config)
  BY <1>1, <1>2, SeqDef
<1>. QED BY <1>1, <1>2, <1>3, LenProperties

LEMMA UpdateType ==
    ASSUME TypeOK, NEW w \in Workers, req[w] \in Request, req[w].op = "update", updateDeviceInfo(w)
    PROVE  TableType
<1> DEFINE e == [n \in DOMAIN table |->
                    IF table[n].id = req[w].id
                    THEN [NewConfig(req[w]) EXCEPT !.status = table[n].status]
                    ELSE table[n]]
<1>1. \A n \in DOMAIN table : table[n] \in Config
  BY ElementOfSeq, LenProperties DEF TypeOK
<1>2. NewConfig(req[w]) \in Config
  BY NewRow
<1>3. \A n \in DOMAIN table : e[n] \in Config
  BY <1>1, <1>2 DEF Config
<1>4. table' = e \/ UNCHANGED table
  BY DEF updateDeviceInfo
<1>5. e = [n \in DOMAIN table |-> e[n]]
  OBVIOUS
<1> HIDE DEF e
<1>6. table' \in Seq(Config) /\ Len(table') = Len(table)
  BY <1>3, <1>4, <1>5, InPlaceType DEF TypeOK
<1>. QED BY <1>6 DEF TableType, TypeOK, updateDeviceInfo

LEMMA StatusType ==
    ASSUME TypeOK, NEW w \in Workers, modifyDeviceStatus(w)
    PROVE  TableType
<1> DEFINE e == [n \in DOMAIN table |->
                    IF table[n].id = req[w].id
                    THEN [table[n] EXCEPT !.status = IF req[w].op = "start" THEN 1 ELSE 0]
                    ELSE table[n]]
<1>1. \A n \in DOMAIN table : table[n] \in Config
  BY ElementOfSeq, LenProperties DEF TypeOK
<1>3. \A n \in DOMAIN table : e[n] \in Config
  BY <1>1 DEF Config
<1>4. table' = e \/ UNCHANGED table
  BY DEF modifyDeviceStatus, SetStatus
<1>5. e = [n \in DOMAIN table |-> e[n]]
  OBVIOUS
<1> HIDE DEF e
<1>6. table' \in Seq(Config) /\ Len(table') = Len(table)
  BY <1>3, <1>4, <1>5, InPlaceType DEF TypeOK
<1>. QED BY <1>6 DEF TableType, TypeOK, modifyDeviceStatus

----
(***************************************************************************)
(* Every action keeps the first invariant.                                 *)
(***************************************************************************)
\* What holds while a worker handles a request.
LEMMA Working ==
    ASSUME Base, NEW w \in Workers, NEW op, Doing(w, op)
    PROVE  req[w] \in Request /\ req[w] # NoRequest /\ req[w].op = op /\ req[w].id \in Ids
  BY DEF Base, TypeOK, Doing, Request

LEMMA SameMap ==
    ASSUME Base
    PROVE  device_map_ \in Maps /\ \A i \in Ids : device_map_[i] \in {device_map_[i], NoDevice}
  BY DEF Base, TypeOK

\* The steps that only answer or go on.
LEMMA SimpleBase ==
    ASSUME Base, NEW w \in Workers, req[w] \in Request, req[w] # NoRequest,
           \/ req[w].op \in {"create", "update"} /\ FileExist(w)
           \/ req[w].op = "create" /\ (NotInMap(w) \/ PortUnused(w) \/ addDeviceInfo(w))
           \/ req[w].op = "delete" /\ removeDeviceInfo(w)
           \/ req[w].op = "update" /\ updateDeviceInfo(w)
           \/ req[w].op \in {"start", "stop"} /\ modifyDeviceStatus(w)
           \/ req[w].op \in {"update", "start", "stop"} /\ Finish(w)
    PROVE  Base'
<1>1. TableType
  BY AddType, RemoveType, UpdateType, StatusType
     DEF Base, TypeOK, TableType, FileExist, NotInMap, PortUnused, Finish, diskVars
<1>2. CASE Reply(w)
  <2>1. phase = "up"
    BY DEF FileExist, NotInMap, PortUnused, addDeviceInfo, removeDeviceInfo, updateDeviceInfo, modifyDeviceStatus, Finish, At
  <2>. QED BY <1>1, <1>2, <2>1, SameMap, ReplyBase DEF Reply
<1>3. ASSUME NEW label \in Labels, Move(w, label), stale' \subseteq Ids,
             phase = "up", pc[w] \notin {"publish", "find"}, label \notin {"publish", "find"},
             label \in LabelsOf(req[w].op)
      PROVE  Base'
  BY <1>1, <1>3, MoveBase
<1>0. stale \subseteq Ids /\ req[w].id \in Ids /\ \A label : Continue(w, label) => Move(w, label) /\ stale' = stale
  BY DEF Base, TypeOK, Request, Continue
<1>4. CASE FileExist(w) /\ req[w].op \in {"create", "update"}
  BY <1>0, <1>2, <1>3, <1>4 DEF FileExist, At, Labels, LabelsOf
<1>5. CASE (NotInMap(w) \/ PortUnused(w) \/ addDeviceInfo(w)) /\ req[w].op = "create"
  BY <1>0, <1>2, <1>3, <1>5 DEF NotInMap, PortUnused, addDeviceInfo, At, Labels, LabelsOf
<1>6. CASE removeDeviceInfo(w) /\ req[w].op = "delete"
  BY <1>0, <1>2, <1>3, <1>6 DEF removeDeviceInfo, At, Labels, LabelsOf
<1>7. CASE updateDeviceInfo(w) /\ req[w].op = "update"
  BY <1>0, <1>2, <1>3, <1>7 DEF updateDeviceInfo, At, Labels, LabelsOf
<1>8. CASE modifyDeviceStatus(w) /\ req[w].op \in {"start", "stop"}
  BY <1>0, <1>2, <1>3, <1>8 DEF modifyDeviceStatus, At, Labels, LabelsOf
<1>9. CASE Finish(w)
  BY <1>2, <1>9 DEF Finish
<1>. QED BY <1>4, <1>5, <1>6, <1>7, <1>8, <1>9

LEMMA FindBase ==
    ASSUME Base, NEW w \in Workers, req[w] \in Request, req[w] # NoRequest, Find(w),
           req[w].op # "create"
    PROVE  Base'
<1> DEFINE d == device_map_[req[w].id]
<1>1. TableType /\ UNCHANGED diskVars /\ phase = "up" /\ pc[w] = "find"
  BY DEF Find, Base, TypeOK, TableType, diskVars, At
<1>2. CASE Reply(w)
  BY <1>1, <1>2, SameMap, ReplyBase DEF Reply
<1>3. CASE req[w].op = "delete" /\ Continue(w, "remove")
  BY <1>1, <1>3, MoveBase DEF Labels, LabelsOf, Continue, Base, TypeOK
<1>4. CASE /\ d # NoDevice
           /\ req[w].op # "delete"
           /\ Goto(w, IF req[w].op = "update" THEN "exist" ELSE req[w].op)
           /\ target' = [target EXCEPT ![w] = d]
           /\ held' = [held EXCEPT ![w] = {device_map_[i] : i \in Ids} \ {NoDevice}]
           /\ UNCHANGED <<phaseVars, device_map_, map_lock_, deviceVars, req, copy, histVars>>
  <2> DEFINE label == IF req[w].op = "update" THEN "exist" ELSE req[w].op
             snap == {device_map_[i] : i \in Ids} \ {NoDevice}
  <2>1. /\ req[w].op \in {"update", "start", "stop"} /\ req[w].id \in Ids
        /\ label \in LabelsOf(req[w].op) /\ label \in Labels /\ label \notin {"find", "publish"}
    BY <1>4 DEF Request, LabelsOf, Labels
  <2>2. /\ d \in snap /\ snap \subseteq Devices /\ d \in Devices /\ config[d].id = req[w].id
        /\ \A e \in snap : config[e] \in Config
    BY <1>4, <2>1 DEF Base, TypeOK, Maps, Alive
  <2> HIDE DEF label, snap
  <2>3. /\ pc' = [pc EXCEPT ![w] = label] /\ target' = [target EXCEPT ![w] = d]
        /\ held' = [held EXCEPT ![w] = snap]
        /\ UNCHANGED <<phaseVars, device_map_, map_lock_, deviceVars, req, copy, table, files, tainted, stale>>
    BY <1>1, <1>4 DEF Goto, label, snap, diskVars, histVars
  <2> HIDE DEF d
  <2> USE <1>1, <2>1, <2>2, <2>3 DEF phaseVars, deviceVars
  <2>4. TypeOK'
    BY DEF Base, TypeOK
  <2>5. InPlace'
    BY DEF Base, InPlace, TypeOK
  <2>6. Locked'
    BY DEF Base, Locked, TypeOK
  <2>7. Quiet' /\ Alive'
    BY DEF Base, Quiet, Alive, TypeOK
  <2>8. TargetHeld'
    BY DEF Base, TargetHeld, HasTarget, TypeOK
  <2>. QED BY <2>4, <2>5, <2>6, <2>7, <2>8 DEF Base
<1>. QED BY <1>2, <1>3, <1>4 DEF Find

LEMMA CopyBase ==
    ASSUME Base, NEW w \in Workers, req[w] \in Request, req[w] # NoRequest, CopyMap(w),
           req[w].op \in {"create", "delete"}
    PROVE  Base'
<1> USE Pools DEF CopyMap, At, Goto, diskVars, phaseVars, deviceVars, histVars
<1>1. TypeOK'
  BY DEF Base, TypeOK, Labels
<1>2. InPlace' /\ TargetHeld'
  BY DEF Base, InPlace, TargetHeld, HasTarget, TypeOK, LabelsOf
<1>3. Locked'
  BY DEF Base, Locked, TypeOK
<1>4. Quiet' /\ Alive'
  BY DEF Base, Quiet, Alive
<1>. QED BY <1>1, <1>2, <1>3, <1>4 DEF Base

LEMMA DeleteBase ==
    ASSUME Base, NEW w \in Workers, req[w] \in Request, req[w] # NoRequest, deleteDevice(w)
    PROVE  Base'
<1> DEFINE map == [copy[w] EXCEPT ![req[w].id] = NoDevice]
<1>1. copy[w] = device_map_ /\ device_map_ \in Maps /\ phase = "up" /\ pc[w] = "publish"
  BY DEF deleteDevice, At, Base, Locked, TypeOK
<1>2. map \in Maps /\ \A i \in Ids : map[i] \in {device_map_[i], NoDevice}
  BY <1>1 DEF Maps
<1>3. TableType
  BY DEF deleteDevice, Base, TypeOK, TableType
<1>4. ReplyWith(w, map)
  BY DEF deleteDevice
<1> HIDE DEF map
<1>. QED BY <1>1, <1>2, <1>3, <1>4, ReplyBase

LEMMA StartStopBase ==
    ASSUME Base, NEW w \in Workers, req[w] \in Request, req[w] # NoRequest,
           \/ req[w].op = "start" /\ Start(w)
           \/ req[w].op = "stop" /\ Stop(w)
    PROVE  Base'
<1>1. /\ target[w] \in held[w] /\ target[w] \in Devices /\ config[target[w]] \in Config
      /\ config[target[w]].port \in Ports
  BY DEF Base, TargetHeld, HasTarget, TypeOK, Alive, Start, Stop, At, Config
<1>2. \E label \in LabelsOf(req[w].op) \cap Labels :
          /\ label \notin {"find", "publish"} /\ pc' = [pc EXCEPT ![w] = label]
          /\ pc[w] \notin {"find", "publish"} /\ phase = "up"
  BY DEF Start, Stop, At, Goto, LabelsOf, Labels
<1>3. /\ UNCHANGED <<table, files, phase, next, device_map_, map_lock_, config, req, target, held, copy, tainted, stale>>
      /\ \E s \in {"idle", "running", "broken"} : sip' = [sip EXCEPT ![target[w]] = s]
      /\ leaked' \subseteq leaked \cup {config[target[w]].port}
  BY <1>1 DEF Start, Stop, diskVars, phaseVars, histVars, Base, TypeOK
<1> USE <1>1, <1>2, <1>3
<1>4. TypeOK'
  BY DEF Base, TypeOK
<1>5. InPlace' /\ Locked'
  BY DEF Base, InPlace, Locked, TypeOK
<1>6. Quiet'
  BY DEF Base, Quiet
<1>7. Alive'
  BY NamesDistinct DEF Base, Alive, TypeOK
<1>8. TargetHeld'
  BY DEF Base, TargetHeld, HasTarget, TypeOK
<1>. QED BY <1>4, <1>5, <1>6, <1>7, <1>8 DEF Base

LEMMA ReinitBase ==
    ASSUME Base, NEW w \in Workers, req[w] \in Request, req[w] # NoRequest, req[w].op = "update", Reinit(w)
    PROVE  Base'
<1>1. CASE ProgramEnds
  BY <1>1, EndsBase DEF Reinit, Base, TypeOK, diskVars
<1>2. CASE /\ sip[target[w]] = "idle"
           /\ config' = [config EXCEPT ![target[w]] = NewConfig(req[w])]
           /\ Goto(w, "reply")
           /\ UNCHANGED <<phaseVars, device_map_, map_lock_, sip, leaked, req, target, held, copy, histVars>>
  <2>1. /\ target[w] \in held[w] /\ target[w] \in Devices /\ config[target[w]].id = req[w].id
        /\ pc[w] = "init" /\ phase = "up" /\ UNCHANGED <<table, files>>
    BY DEF Base, TargetHeld, HasTarget, TypeOK, Reinit, At, diskVars
  <2>2. NewConfig(req[w]) \in Config /\ NewConfig(req[w]).id = req[w].id
    BY NewRow DEF NewConfig
  <2> DEFINE new == NewConfig(req[w])
  <2> HIDE DEF new
  <2>3. /\ config' = [config EXCEPT ![target[w]] = new] /\ new \in Config /\ new.id = config[target[w]].id
        /\ pc' = [pc EXCEPT ![w] = "reply"]
        /\ UNCHANGED <<phaseVars, device_map_, map_lock_, sip, leaked, req, target, held, copy, histVars>>
    BY <1>2, <2>1, <2>2 DEF new, Goto
  <2>4. \A d \in Devices : config'[d] = config[d] \/ (config'[d] \in Config /\ config'[d].id = config[d].id)
    BY <2>1, <2>3 DEF Base, TypeOK
  <2> USE <2>1, <2>3, <2>4 DEF phaseVars, histVars
  <2>5. TypeOK'
    BY DEF Base, TypeOK, Labels
  <2>6. InPlace' /\ Locked'
    BY DEF Base, InPlace, Locked, TypeOK, LabelsOf
  <2>7. Quiet'
    BY DEF Base, Quiet
  <2>8. Alive'
    BY NamesDistinct DEF Base, Alive, TypeOK, Maps
  <2>9. TargetHeld'
    BY DEF Base, TargetHeld, HasTarget, TypeOK
  <2>. QED BY <2>5, <2>6, <2>7, <2>8, <2>9 DEF Base
<1>. QED BY <1>1, <1>2 DEF Reinit

\* A new object: Drop with a new configuration for an object that was not alive.
LEMMA NewObject ==
    ASSUME Base, NEW i \in Ids, NEW d \in Devices, config[d] = NoConfig, NEW new \in Config, new.id = i,
           NEW map, map = [device_map_ EXCEPT ![i] = d],
           ~ Terminates(map, held), Drop(map, held, [config EXCEPT ![d] = new])
    PROVE  /\ map \in Maps /\ device_map_' = map /\ held' = held
           /\ config' \in [Devices -> Config \cup {NoConfig}]
           /\ config'[d] = new
           /\ \A j \in Ids : j # i /\ device_map_[j] # NoDevice =>
                 device_map_[j] # d /\ config'[device_map_[j]] = config[device_map_[j]]
           /\ \A w \in Workers : \A e \in held[w] : config'[e] = config[e]
           /\ \A e \in Devices : config'[e] = NoConfig => sip[e] = "idle"
<1> DEFINE cfg == [config EXCEPT ![d] = new]
<1>1. map \in Maps /\ held \in [Workers -> SUBSET Devices] /\ map[i] = d
  BY DEF Base, TypeOK, Maps
<1>2. /\ device_map_' = map /\ held' = held
      /\ config' = [e \in Devices |-> IF e \in Referenced(map, held) THEN cfg[e] ELSE NoConfig]
  BY DEF Drop
<1>3. cfg \in [Devices -> Config \cup {NoConfig}] /\ cfg[d] = new /\ \A e \in Devices : e # d => cfg[e] = config[e]
  BY DEF Base, TypeOK
<1> HIDE DEF cfg
<1>4. config' \in [Devices -> Config \cup {NoConfig}] /\ config'[d] = new
  <2>1. d \in Referenced(map, held)
    <3>1. \A j \in Ids : map[j] \in Referenced(map, held)
      BY <1>1, Kept
    <3>. QED BY <1>1, <3>1
  <2>2. config'[d] = new
    BY <1>2, <1>3, <2>1
  <2>. QED BY <1>2, <1>3, <2>2
<1>5. ASSUME NEW j \in Ids, j # i, device_map_[j] # NoDevice
      PROVE  device_map_[j] # d /\ config'[device_map_[j]] = config[device_map_[j]]
  <2>1. /\ device_map_[j] \in Devices /\ device_map_[j] # d /\ map[j] = device_map_[j]
    BY <1>5, NamesDistinct DEF Base, TypeOK, Maps, Alive
  <2>. QED BY <1>1, <1>2, <1>3, <2>1, Kept
<1>6. ASSUME NEW w \in Workers, NEW e \in held[w]
      PROVE  config'[e] = config[e]
  <2>1. e \in Devices /\ e # d
    BY <1>1, NamesDistinct DEF Base, Alive
  <2>. QED BY <1>1, <1>2, <1>3, <2>1, Kept
<1>7. ASSUME NEW e \in Devices, config'[e] = NoConfig, sip[e] # "idle"
      PROVE  FALSE
  <2>1. e \in Referenced(map, held)
    BY <1>7 DEF Terminates
  <2>2. cfg[e] = NoConfig /\ e # d
    BY <1>2, <1>3, <1>7, <2>1, NamesDistinct
  <2>. QED BY <1>3, <1>7, <2>2 DEF Base, Alive
<1>. QED BY <1>1, <1>2, <1>4, <1>5, <1>6, <1>7

LEMMA InsertBase ==
    ASSUME Base, NEW w \in Workers, req[w] \in Request, req[w] # NoRequest, insertDevice(w)
    PROVE  Base'
<1>1. /\ copy[w] = device_map_ /\ phase = "up" /\ pc[w] = "publish" /\ UNCHANGED <<table, files>>
      /\ req[w].op = "create" /\ req[w].id \in Ids
      /\ NewConfig(req[w]) \in Config /\ NewConfig(req[w]).id = req[w].id
  BY NewRow DEF insertDevice, At, Base, Locked, diskVars, Request, NewConfig
<1>2. CASE ProgramEnds
  BY <1>1, <1>2, EndsBase DEF Base, TypeOK
<1>3. CASE ~ ProgramEnds
  <2> DEFINE new == NewConfig(req[w])
             i == req[w].id
  <2>1. PICK d \in Devices :
          /\ config[d] = NoConfig
          /\ ~ Terminates([device_map_ EXCEPT ![i] = d], held)
          /\ Drop([device_map_ EXCEPT ![i] = d], held, [config EXCEPT ![d] = new])
          /\ Goto(w, "idle")
          /\ req' = [req EXCEPT ![w] = NoRequest]
          /\ copy' = [copy EXCEPT ![w] = NoMap]
          /\ map_lock_' = IF map_lock_ = w THEN NoWorker ELSE map_lock_
          /\ UNCHANGED <<phaseVars, sip, leaked, target, histVars>>
    BY <1>1, <1>3 DEF insertDevice
  <2> HIDE DEF new, i
  <2> DEFINE map == [device_map_ EXCEPT ![i] = d]
  <2>2. i = req[w].id /\ i \in Ids /\ new \in Config /\ new.id = i
    BY <1>1 DEF new, i
  <2>3. /\ map \in Maps /\ device_map_' = map /\ held' = held
        /\ config' \in [Devices -> Config \cup {NoConfig}]
        /\ config'[d] = new
        /\ \A j \in Ids : j # i /\ device_map_[j] # NoDevice =>
              device_map_[j] # d /\ config'[device_map_[j]] = config[device_map_[j]]
        /\ \A v \in Workers : \A e \in held[v] : config'[e] = config[e]
        /\ \A e \in Devices : config'[e] = NoConfig => sip[e] = "idle"
    BY <2>1, <2>2, NewObject
  <2>4. map[i] = d /\ \A j \in Ids : j # i => map[j] = device_map_[j]
    BY <2>2 DEF Base, TypeOK, Maps
  <2> HIDE DEF map
  <2>5. /\ pc' = [pc EXCEPT ![w] = "idle"] /\ req' = [req EXCEPT ![w] = NoRequest]
        /\ copy' = [copy EXCEPT ![w] = NoMap] /\ map_lock_' = IF map_lock_ = w THEN NoWorker ELSE map_lock_
        /\ phase' = phase /\ next' = next /\ sip' = sip /\ leaked' = leaked /\ target' = target
        /\ tainted' = tainted /\ stale' = stale
    BY <2>1 DEF Goto, phaseVars, histVars
  <2> USE Pools, NamesDistinct, <1>1, <2>2, <2>3, <2>5
  <2>6. TypeOK'
    BY DEF Base, TypeOK, Labels
  <2>7. InPlace'
    BY DEF Base, InPlace, TypeOK
  <2>8. Locked'
    BY DEF Base, Locked, TypeOK
  <2>9. Quiet'
    BY DEF Base, Quiet
  <2>10. Alive'
    BY <2>4 DEF Base, Alive
  <2>11. TargetHeld'
    BY DEF Base, TargetHeld, HasTarget, TypeOK
  <2>. QED BY <2>6, <2>7, <2>8, <2>9, <2>10, <2>11 DEF Base
<1>. QED BY <1>2, <1>3

LEMMA BootRowBase ==
    ASSUME Base, BootRow
    PROVE  Base'
<1>1. phase = "boot" /\ next \in Nat /\ next <= Len(table) /\ next > 0 /\ UNCHANGED <<table, files>>
      /\ Len(table) \in Nat
  BY LenProperties DEF BootRow, Base, TypeOK, Quiet, diskVars
<1>2. CASE ProgramEnds
  BY <1>1, <1>2, EndsBase DEF Base, TypeOK
<1>3. CASE ~ ProgramEnds
  <2> DEFINE row == table[next]
             new == LoadedConfig(row)
             i == row.id
  <2>1. row \in Config
    BY <1>1, ElementOfSeq DEF Base, TypeOK
  <2>2. new \in Config /\ new.id = i /\ i \in Ids
    BY <2>1 DEF LoadedConfig, LoadedLogin, Config, Secrets
  <2>3. PICK d \in Devices :
          /\ config[d] = NoConfig
          /\ ~ Terminates([device_map_ EXCEPT ![i] = d], held)
          /\ Drop([device_map_ EXCEPT ![i] = d], held, [config EXCEPT ![d] = new])
          /\ BootStart(d, row)
          /\ next' = next + 1
          /\ UNCHANGED <<phase, map_lock_, leaked, pc, req, target, copy, tainted>>
    BY <1>3 DEF BootRow
  <2> HIDE DEF row, new, i
  <2> DEFINE map == [device_map_ EXCEPT ![i] = d]
  <2>4. /\ map \in Maps /\ device_map_' = map /\ held' = held
        /\ config' \in [Devices -> Config \cup {NoConfig}]
        /\ config'[d] = new
        /\ \A j \in Ids : j # i /\ device_map_[j] # NoDevice =>
              device_map_[j] # d /\ config'[device_map_[j]] = config[device_map_[j]]
        /\ \A v \in Workers : \A e \in held[v] : config'[e] = config[e]
        /\ \A e \in Devices : config'[e] = NoConfig => sip[e] = "idle"
    BY <2>2, <2>3, NewObject
  <2>5. map[i] = d /\ \A j \in Ids : j # i => map[j] = device_map_[j]
    BY <2>2 DEF Base, TypeOK, Maps
  <2> HIDE DEF map
  <2>6. (sip' = sip \/ sip' = [sip EXCEPT ![d] = "running"]) /\ stale' \subseteq Ids
    BY <2>2, <2>3 DEF BootStart, i, Base, TypeOK
  <2>7. next' = next + 1 /\ UNCHANGED <<phase, map_lock_, leaked, pc, req, target, copy, tainted>>
    BY <2>3
  <2> USE Pools, NamesDistinct, <1>1, <2>2, <2>4, <2>6, <2>7
  <2>8. TypeOK'
    BY DEF Base, TypeOK
  <2>9. InPlace'
    BY DEF Base, InPlace
  <2>10. Locked'
    BY DEF Base, Locked, Quiet, InPlace
  <2>11. Quiet'
    BY DEF Base, Quiet
  <2>12. Alive'
    BY <2>5 DEF Base, Alive, TypeOK
  <2>13. TargetHeld'
    BY DEF Base, TargetHeld, HasTarget, TypeOK
  <2>. QED BY <2>8, <2>9, <2>10, <2>11, <2>12, <2>13 DEF Base
<1>. QED BY <1>2, <1>3

LEMMA OtherBase ==
    ASSUME Base, Boot \/ Serve \/ Upload \/ Crash
    PROVE  Base'
<1>1. CASE Crash
  BY <1>1, EndsBase DEF Crash, Base, TypeOK, diskVars
<1>2. CASE Boot \/ Serve \/ Upload
  <2> USE <1>2 DEF Boot, Serve, Upload, diskVars, phaseVars, deviceVars, workVars, histVars
  <2>1. TypeOK'
    <3>1. Len(table) \in Nat /\ table' = table
      BY LenProperties DEF Base, TypeOK
    <3>. QED BY <3>1 DEF Base, TypeOK
  <2>2. InPlace' /\ Locked' /\ TargetHeld'
    BY DEF Base, InPlace, Locked, TargetHeld, HasTarget
  <2>3. Quiet' /\ Alive'
    BY DEF Base, Quiet, Alive
  <2>. QED BY <2>1, <2>2, <2>3 DEF Base
<1>. QED BY <1>1, <1>2

LEMMA ReceiveBase ==
    ASSUME Base, NEW w \in Workers, Receive(w)
    PROVE  Base'
<1>1. PICK q \in Request :
        /\ req' = [req EXCEPT ![w] = q]
        /\ pc' = [pc EXCEPT ![w] = FirstStep(q.op)]
        /\ tainted' \in {tainted, tainted \cup {q.id}}
  BY DEF Receive, Goto
<1>2. /\ UNCHANGED <<diskVars, phaseVars, device_map_, map_lock_, deviceVars, target, held, copy, stale>>
      /\ phase = "up" /\ pc[w] = "idle"
  BY DEF Receive, At
<1>3. /\ q.op \in {"create", "update", "delete", "start", "stop"}
      /\ FirstStep(q.op) \in LabelsOf(q.op) /\ FirstStep(q.op) \in Labels /\ FirstStep(q.op) # "publish"
      /\ q.op # "create" => FirstStep(q.op) = "find"
      /\ q.id \in Ids
  BY DEF Request, FirstStep, LabelsOf, Labels
<1> USE <1>1, <1>2, <1>3 DEF diskVars, phaseVars, deviceVars
<1>4. TypeOK'
  BY DEF Base, TypeOK
<1>5. InPlace'
  BY NamesDistinct DEF Base, InPlace, TypeOK
<1>6. Locked'
  BY DEF Base, Locked, TypeOK
<1>7. Quiet' /\ Alive'
  BY DEF Base, Quiet, Alive
<1>8. TargetHeld'
  BY DEF Base, TargetHeld, HasTarget, TypeOK
<1>. QED BY <1>4, <1>5, <1>6, <1>7, <1>8 DEF Base

LEMMA BaseStep == Base /\ [Next]_vars => Base'
<1> SUFFICES ASSUME Base, [Next]_vars PROVE Base'
  OBVIOUS
<1>1. CASE initFromDB \/ Serve \/ Crash \/ Upload
  BY <1>1, BootRowBase, OtherBase DEF initFromDB
<1>2. ASSUME NEW w \in Workers, Receive(w) PROVE Base'
  BY <1>2, ReceiveBase
<1>3. ASSUME NEW w \in Workers, deviceCreate(w) PROVE Base'
  <2>1. req[w] \in Request /\ req[w] # NoRequest /\ req[w].op = "create"
    BY <1>3, Working DEF deviceCreate
  <2>. QED BY <1>3, <2>1, SimpleBase, CopyBase, InsertBase DEF deviceCreate
<1>4. ASSUME NEW w \in Workers, deviceDelete(w) PROVE Base'
  <2>1. req[w] \in Request /\ req[w] # NoRequest /\ req[w].op = "delete"
    BY <1>4, Working DEF deviceDelete
  <2>. QED BY <1>4, <2>1, SimpleBase, FindBase, CopyBase, DeleteBase DEF deviceDelete
<1>5. ASSUME NEW w \in Workers, deviceUpdate(w) PROVE Base'
  <2>1. req[w] \in Request /\ req[w] # NoRequest /\ req[w].op = "update"
    BY <1>5, Working DEF deviceUpdate
  <2>. QED BY <1>5, <2>1, SimpleBase, FindBase, ReinitBase DEF deviceUpdate
<1>6. ASSUME NEW w \in Workers, deviceStart(w) PROVE Base'
  <2>1. req[w] \in Request /\ req[w] # NoRequest /\ req[w].op = "start"
    BY <1>6, Working DEF deviceStart
  <2>. QED BY <1>6, <2>1, SimpleBase, FindBase, StartStopBase DEF deviceStart
<1>7. ASSUME NEW w \in Workers, deviceStop(w) PROVE Base'
  <2>1. req[w] \in Request /\ req[w] # NoRequest /\ req[w].op = "stop"
    BY <1>7, Working DEF deviceStop
  <2>. QED BY <1>7, <2>1, SimpleBase, FindBase, StartStopBase DEF deviceStop
<1>8. CASE UNCHANGED vars
  BY <1>8 DEF vars, diskVars, phaseVars, deviceVars, workVars, histVars, Base, TypeOK, InPlace, Locked, Quiet, Alive, TargetHeld, HasTarget
<1>. QED BY <1>1, <1>2, <1>3, <1>4, <1>5, <1>6, <1>7, <1>8 DEF Next

LEMMA BaseHolds == Spec => []Base
<1>1. Init => Base
  BY InitBase
<1>2. Base /\ [Next]_vars => Base'
  BY BaseStep
<1>. QED BY <1>1, <1>2, PTL DEF Spec

----
(***************************************************************************)
(* What the first invariant says by itself: it holds whoever asks for      *)
(* what, two workers at one device included.                               *)
(***************************************************************************)
LEMMA ReplyMap ==
    ASSUME NEW w \in Workers, NEW map, ReplyWith(w, map), phase' = "up"
    PROVE  device_map_' = map
  BY DEF ReplyWith, Drop, ProgramEnds

\* A worker changes the map at one entry, if at all: at the one its request names.
WritesOwn(w) ==
    \/ UNCHANGED device_map_
    \/ \E d \in Devices \cup {NoDevice} : device_map_' = [device_map_ EXCEPT ![req[w].id] = d]

LEMMA WorkerWritesOwn ==
    ASSUME Base, NEW w \in Workers, phase' = "up",
           deviceCreate(w) \/ deviceDelete(w) \/ deviceUpdate(w) \/ deviceStart(w) \/ deviceStop(w)
    PROVE  WritesOwn(w)
<1>1. CASE insertDevice(w)
  <2>1. copy[w] = device_map_
    BY <1>1 DEF insertDevice, At, Base, Locked
  <2>2. ~ ProgramEnds
    BY DEF ProgramEnds
  <2>. QED BY <1>1, <2>1, <2>2 DEF insertDevice, Drop, WritesOwn
<1>2. CASE deleteDevice(w)
  <2>1. copy[w] = device_map_
    BY <1>2 DEF deleteDevice, At, Base, Locked
  <2>. QED BY <1>2, <2>1, ReplyMap DEF deleteDevice, WritesOwn
<1>3. CASE \/ FileExist(w) \/ NotInMap(w) \/ PortUnused(w) \/ addDeviceInfo(w)
           \/ Find(w) \/ removeDeviceInfo(w) \/ updateDeviceInfo(w) \/ modifyDeviceStatus(w) \/ Finish(w)
  <2>1. CASE \E label : Move(w, label)
    BY <2>1 DEF Move, WritesOwn
  <2>2. CASE Reply(w)
    BY <2>2, ReplyMap DEF Reply, WritesOwn
  <2>3. CASE Find(w) /\ UNCHANGED device_map_
    BY <2>3 DEF WritesOwn
  <2>. QED
    BY <1>3, <2>1, <2>2, <2>3
    DEF FileExist, NotInMap, PortUnused, addDeviceInfo, Find, removeDeviceInfo,
        updateDeviceInfo, modifyDeviceStatus, Finish, Continue
<1>4. CASE CopyMap(w) \/ Reinit(w) \/ Start(w) \/ Stop(w)
  BY <1>4 DEF CopyMap, Reinit, Start, Stop, ProgramEnds, WritesOwn
<1>. QED BY <1>1, <1>2, <1>3, <1>4 DEF deviceCreate, deviceDelete, deviceUpdate, deviceStart, deviceStop

\* The program that serves and goes on serving changes one entry of the map.
LEMMA OneEntry ==
    ASSUME Base, Next, phase = "up", phase' = "up"
    PROVE  \A i, j \in Ids : device_map_'[i] # device_map_[i] /\ device_map_'[j] # device_map_[j] => i = j
<1>1. CASE UNCHANGED device_map_
  BY <1>1
<1>2. ASSUME NEW w \in Workers, WritesOwn(w)
      PROVE  \A i \in Ids : device_map_'[i] # device_map_[i] => i = req[w].id
  BY <1>2 DEF WritesOwn, Base, TypeOK, Maps
<1>3. CASE initFromDB \/ Serve \/ Crash \/ Upload
  BY <1>1, <1>3 DEF initFromDB, Boot, BootRow, Serve, Crash, Upload, ProgramEnds
<1>4. CASE \E w \in Workers : Receive(w)
  BY <1>1, <1>4 DEF Receive
<1>. QED BY <1>2, <1>3, <1>4, WorkerWritesOwn DEF Next

----
(***************************************************************************)
(* The second invariant: map, table and running clients agree, but for the *)
(* device that a worker is at work on, and for that one as far as the work *)
(* has come.  Of tainted ids nothing is said, and of stale ones not what   *)
(* status their rows have.                                                 *)
(***************************************************************************)
Single(i) == \A m, n \in DOMAIN table : table[m].id = i /\ table[n].id = i => m = n

\* At most one row for each id but the tainted ones.
Singles == \A i \in Ids : i \notin tainted => Single(i)

\* Two requests that are handled at once name different ids, but for tainted ones.
SoleUser ==
    \A v, w \in Workers :
        v # w /\ req[v] # NoRequest /\ req[w] # NoRequest /\ req[v].id = req[w].id => req[w].id \in tainted

Describes(row, d) == config[d].port = row.port /\ config[d].path = row.path

Recorded(row, d) == row.id \notin stale => (row.status = 1 <=> sip[d] # "idle")

Agree(i) ==
    /\ device_map_[i] = NoDevice <=> \A n \in DOMAIN table : table[n].id # i
    /\ \A n \in DOMAIN table : table[n].id = i =>
          Describes(table[n], device_map_[i]) /\ Recorded(table[n], device_map_[i])

\* The rows of a request's id say what it asked for.
Written(q) ==
    /\ \E n \in DOMAIN table : table[n].id = q.id
    /\ \A n \in DOMAIN table : table[n].id = q.id => table[n].port = q.port /\ table[n].path = q.path

\* How far a worker's request has come.
Stage(w) ==
    LET q == req[w]
        d == device_map_[q.id]
    IN  /\ pc[w] \in {"exist", "unique", "port", "add", "find", "remove", "update", "start", "stop", "reply"} =>
              Agree(q.id)
        /\ pc[w] \in {"port", "add"} => d = NoDevice
        /\ pc[w] = "remove" => d # NoDevice
        /\ pc[w] \in {"copy", "publish"} /\ q.op = "create" =>
              /\ d = NoDevice /\ Written(q)
              /\ \A n \in DOMAIN table : table[n].id = q.id => table[n].status = 0
        /\ pc[w] \in {"copy", "publish"} /\ q.op = "delete" => \A n \in DOMAIN table : table[n].id # q.id
        /\ pc[w] = "init" =>
              Written(q) /\ \A n \in DOMAIN table : table[n].id = q.id => Recorded(table[n], d)
        /\ pc[w] = "status" =>
              /\ \E n \in DOMAIN table : table[n].id = q.id
              /\ \A n \in DOMAIN table : table[n].id = q.id => Describes(table[n], d)
              /\ q.op = "stop" <=> sip[d] = "idle"
        /\ HasTarget(w) => target[w] = d /\ d # NoDevice

ServedAgree == phase = "up" => \A i \in Ids : Settled(i) => Agree(i)

Stages == \A w \in Workers : Seen(w) => Stage(w)

\* initFromDB: the rows it has come to are in the map, and no others.
BootAgree ==
    phase = "boot" => \A i \in Ids \ tainted :
        /\ device_map_[i] = NoDevice <=> \A n \in DOMAIN table : n < next => table[n].id # i
        /\ \A n \in DOMAIN table : n < next /\ table[n].id = i =>
              Describes(table[n], device_map_[i]) /\ Recorded(table[n], device_map_[i])

\* Between two lives of the program the tainted ids have rows.
DownAgree == phase = "down" => \A i \in tainted : RowsOf(i) # {}

Agreement == Singles /\ SoleUser /\ ServedAgree /\ Stages /\ BootAgree /\ DownAgree

----
(***************************************************************************)
(* A step that leaves alone the rows and the object of an id keeps what is *)
(* known of that id.                                                       *)
(***************************************************************************)
SameRows(i) ==
    /\ Single(i) => Single(i)'
    /\ i \in stale' <=> i \in stale
    /\ \A n \in DOMAIN table' : table'[n].id = i => \E m \in DOMAIN table : table[m] = table'[n]
    /\ \A m \in DOMAIN table : table[m].id = i => \E n \in DOMAIN table' : table'[n] = table[m]

SameObject(i) ==
    /\ device_map_'[i] = device_map_[i]
    /\ device_map_[i] # NoDevice =>
          config'[device_map_[i]] = config[device_map_[i]] /\ sip'[device_map_[i]] = sip[device_map_[i]]

LEMMA FrameRows ==
    ASSUME NEW i, SameRows(i)
    PROVE  (\A n \in DOMAIN table' : table'[n].id # i) <=> (\A n \in DOMAIN table : table[n].id # i)
  BY DEF SameRows

LEMMA FrameAgree ==
    ASSUME NEW i \in Ids, SameRows(i), SameObject(i), Agree(i)
    PROVE  Agree(i)'
<1>1. (device_map_[i] = NoDevice <=> \A n \in DOMAIN table : table[n].id # i)'
  BY FrameRows DEF Agree, SameObject
<1>2. ASSUME NEW n \in DOMAIN table', table'[n].id = i
      PROVE  (Describes(table[n], device_map_[i]) /\ Recorded(table[n], device_map_[i]))'
  <2>1. PICK m \in DOMAIN table : table[m] = table'[n]
    BY <1>2 DEF SameRows
  <2>2. device_map_[i] # NoDevice /\ Describes(table[m], device_map_[i]) /\ Recorded(table[m], device_map_[i])
    BY <1>2, <2>1 DEF Agree
  <2>. QED BY <1>2, <2>1, <2>2 DEF SameRows, SameObject, Describes, Recorded
<1>. QED BY <1>1, <1>2 DEF Agree

LEMMA FrameStage ==
    ASSUME NEW w \in Workers, req[w] # NoRequest, req[w].id \in Ids, SameRows(req[w].id), SameObject(req[w].id),
           req'[w] = req[w], pc'[w] = pc[w], target'[w] = target[w], Stage(w),
           pc[w] = "status" => device_map_[req[w].id] # NoDevice,
           pc[w] = "init" => device_map_[req[w].id] # NoDevice
    PROVE  Stage(w)'
<1> DEFINE q == req[w]
           i == q.id
           d == device_map_[i]
<1>1. Agree(i) => Agree(i)'
  BY FrameAgree
<1>2. (\A n \in DOMAIN table' : table'[n].id # i) <=> (\A n \in DOMAIN table : table[n].id # i)
  BY FrameRows
<1>3. Written(q) => Written(q)'
  BY DEF Written, SameRows
<1>4. d # NoDevice =>
        /\ (\A n \in DOMAIN table : table[n].id = i => Recorded(table[n], d)) =>
              (\A n \in DOMAIN table : table[n].id = i => Recorded(table[n], d))'
        /\ (\A n \in DOMAIN table : table[n].id = i => Describes(table[n], d)) =>
              (\A n \in DOMAIN table : table[n].id = i => Describes(table[n], d))'
        /\ sip'[d] = sip[d]
  BY DEF SameRows, SameObject, Recorded, Describes
<1>5. d' = d /\ q' = q /\ HasTarget(w)' = HasTarget(w)
  BY DEF SameObject, HasTarget
<1>6. (\A n \in DOMAIN table : table[n].id = i => table[n].status = 0) =>
          (\A n \in DOMAIN table : table[n].id = i => table[n].status = 0)'
  BY DEF SameRows
<1>. QED BY <1>1, <1>2, <1>3, <1>4, <1>5, <1>6 DEF Stage

\* A worker's step touches its own device only.
LEMMA WorkStep ==
    ASSUME Base, Agreement, NEW w \in Workers, req[w] # NoRequest,
           NEW own \in Ids, own = req[w].id, phase = "up", phase' = "up", UNCHANGED tainted,
           \A v \in Workers \ {w} : req'[v] = req[v] /\ pc'[v] = pc[v] /\ target'[v] = target[v],
           req'[w] \in {req[w], NoRequest},
           \A j \in Ids \ {own} : SameRows(j) /\ SameObject(j),
           own \notin tainted => Single(own)',
           own \notin tainted /\ req'[w] = NoRequest => Agree(own)',
           own \notin tainted /\ req'[w] # NoRequest => Stage(w)'
    PROVE  Agreement'
<1>1. ASSUME NEW i \in Ids, Settled(i)'
      PROVE  Agree(i)'
  <2>1. i \notin tainted /\ \A v \in Workers : req'[v] = NoRequest \/ req'[v].id # i
    BY <1>1 DEF Settled, Handlers, Names
  <2>2. CASE i = own
    BY <2>1, <2>2
  <2>3. CASE i # own
    <3>1. \A v \in Workers : req[v] # NoRequest => req[v].id # i
      BY <2>1, <2>3
    <3>2. Agree(i)
      BY <2>1, <3>1 DEF Agreement, ServedAgree, Settled, Handlers, Names
    <3>. QED BY <2>3, <3>2, FrameAgree
  <2>. QED BY <2>2, <2>3
<1>2. ASSUME NEW v \in Workers, Seen(v)'
      PROVE  Stage(v)'
  <2>0. req'[v] # NoRequest /\ req'[v].id \notin tainted
    BY <1>2 DEF Seen
  <2>1. CASE v = w
    BY <2>0, <2>1
  <2>2. CASE v # w
    <3>1. req[v] # NoRequest /\ req'[v] = req[v] /\ pc'[v] = pc[v] /\ target'[v] = target[v]
      BY <2>0, <2>2
    <3>2. pc[v] \in LabelsOf(req[v].op) /\ req[v] \in Request
      BY <3>1 DEF Base, InPlace, TypeOK
    <3>3. req[v].id \in Ids /\ req[v].id # req[w].id
      BY <2>0, <2>2, <3>1, <3>2 DEF Request, Agreement, SoleUser
    <3>4. Stage(v)
      BY <2>0, <3>1 DEF Agreement, Stages, Seen
    <3>5. req[v].op \in {"create", "update", "delete", "start", "stop"}
      BY <3>2 DEF Request
    <3>6. pc[v] \in {"status", "init"} => HasTarget(v)
      BY <3>1, <3>2, <3>5 DEF LabelsOf, HasTarget
    <3>7. pc[v] \in {"status", "init"} => device_map_[req[v].id] # NoDevice
      BY <3>4, <3>6 DEF Stage
    <3>. QED BY <3>1, <3>3, <3>4, <3>7, FrameStage
  <2>. QED BY <2>1, <2>2
<1>3. Singles'
  BY DEF Agreement, Singles, SameRows
<1>4. SoleUser'
  <2>1. \A v \in Workers : req'[v] \in {req[v], NoRequest}
    OBVIOUS
  <2>. QED BY <2>1 DEF Agreement, SoleUser
<1>. QED BY <1>1, <1>2, <1>3, <1>4 DEF Agreement, ServedAgree, Stages, BootAgree, DownAgree

LEMMA EndsAgree ==
    ASSUME ProgramEnds, UNCHANGED table
    PROVE  Agreement'
<1>1. Singles'
  BY DEF ProgramEnds, Singles, Single, Doubled, RowsOf
<1>2. DownAgree'
  BY DEF ProgramEnds, DownAgree, Doubled, RowsOf
<1>. QED BY <1>1, <1>2 DEF ProgramEnds, Agreement, SoleUser, ServedAgree, Settled, Stages, Seen, BootAgree

LEMMA Untouched ==
    ASSUME UNCHANGED table, UNCHANGED stale
    PROVE  \A i \in Ids : SameRows(i)
  BY DEF SameRows, Single

LEMMA UntouchedAgree ==
    ASSUME UNCHANGED table, UNCHANGED stale, UNCHANGED device_map_, UNCHANGED config, UNCHANGED sip
    PROVE  \A i \in Ids : SameRows(i) /\ SameObject(i) /\ (Agree(i) => Agree(i)')
<1>1. \A i \in Ids : SameRows(i) /\ SameObject(i)
  BY Untouched DEF SameObject
<1>. QED BY <1>1, FrameAgree

\* A worker goes on and has touched nothing but perhaps the rows of its device.
LEMMA MoveAgree ==
    ASSUME Base, Agreement, NEW w \in Workers, req[w] # NoRequest, phase = "up",
           NEW own \in Ids, own = req[w].id, NEW label, Move(w, label),
           \A j \in Ids \ {own} : SameRows(j),
           own \notin tainted => Single(own)' /\ Stage(w)'
    PROVE  Agreement'
<1>1. \A j \in Ids : SameObject(j)
  BY DEF Move, deviceVars, SameObject
<1>2. phase' = "up" /\ req' = req /\ target' = target /\ pc' = [pc EXCEPT ![w] = label] /\ tainted' = tainted
  BY DEF Move, Goto, phaseVars
<1>3. \A v \in Workers \ {w} : req'[v] = req[v] /\ pc'[v] = pc[v] /\ target'[v] = target[v]
  BY <1>2 DEF Base, TypeOK
<1>. QED BY <1>1, <1>2, <1>3, WorkStep

\* What a reply does to the objects: none that stays in the map changes.
LEMMA ReplyEffect ==
    ASSUME Base, NEW w \in Workers, req[w] # NoRequest, NEW map \in Maps,
           \A i \in Ids : map[i] \in {device_map_[i], NoDevice},
           ReplyWith(w, map), ~ ProgramEnds
    PROVE  /\ device_map_' = map /\ phase' = phase /\ req'[w] = NoRequest
           /\ tainted' = tainted /\ stale' = stale
           /\ \A v \in Workers \ {w} : req'[v] = req[v] /\ pc'[v] = pc[v] /\ target'[v] = target[v]
           /\ \A i \in Ids : map[i] = device_map_[i] => SameObject(i)
<1> DEFINE snaps == [held EXCEPT ![w] = {}]
<1>1. snaps \in [Workers -> SUBSET Devices]
  BY DEF Base, TypeOK
<1>2. /\ Drop(map, snaps, config) /\ Goto(w, "idle")
      /\ req' = [req EXCEPT ![w] = NoRequest]
      /\ target' = [target EXCEPT ![w] = NoDevice]
      /\ UNCHANGED <<phaseVars, sip, histVars>>
  BY DEF ReplyWith
<1> HIDE DEF snaps
<1>3. /\ device_map_' = map /\ sip' = sip /\ phase' = phase /\ tainted' = tainted /\ stale' = stale
      /\ config' = [d \in Devices |-> IF d \in Referenced(map, snaps) THEN config[d] ELSE NoConfig]
  BY <1>2 DEF Drop, phaseVars, histVars
<1>4. \A i \in Ids : map[i] \in Referenced(map, snaps)
  BY <1>1, Kept
<1>5. \A i \in Ids : map[i] = device_map_[i] => SameObject(i)
  BY <1>3, <1>4 DEF SameObject, Maps
<1>6. /\ req'[w] = NoRequest
      /\ \A v \in Workers \ {w} : req'[v] = req[v] /\ pc'[v] = pc[v] /\ target'[v] = target[v]
  BY <1>2 DEF Goto, Base, TypeOK
<1>. QED BY <1>3, <1>5, <1>6

\* A worker replies that found its device as it was, or left it so.
LEMMA ReplyAgree ==
    ASSUME Base, Agreement, NEW w \in Workers, req[w] # NoRequest, phase = "up",
           NEW own \in Ids, own = req[w].id, Reply(w), UNCHANGED table, own \notin tainted => Agree(own)
    PROVE  Agreement'
<1>1. CASE ProgramEnds
  BY <1>1, EndsAgree
<1>2. CASE ~ ProgramEnds
  <2>1. device_map_ \in Maps
    BY DEF Base, TypeOK
  <2>2. /\ device_map_' = device_map_ /\ phase' = phase /\ req'[w] = NoRequest
        /\ tainted' = tainted /\ stale' = stale
        /\ \A v \in Workers \ {w} : req'[v] = req[v] /\ pc'[v] = pc[v] /\ target'[v] = target[v]
        /\ \A i \in Ids : SameObject(i)
    BY <1>2, <2>1, ReplyEffect DEF Reply
  <2>3. \A i \in Ids : SameRows(i)
    BY <2>2, Untouched
  <2>4. own \notin tainted => Agree(own)' /\ Single(own)'
    BY <2>2, <2>3, FrameAgree DEF Agreement, Singles, SameRows
  <2>. QED BY <2>2, <2>3, <2>4, WorkStep
<1>. QED BY <1>1, <1>2

\* A look at the map, the table or the files after which the request goes on.
LEMMA LookAgree ==
    ASSUME Base, Agreement, NEW w \in Workers, req[w] # NoRequest, phase = "up",
           NEW own \in Ids, own = req[w].id, UNCHANGED table, own \notin tainted => Agree(own),
           NEW label \in {"unique", "port", "add", "remove", "update", "reply"}, Continue(w, label),
           own \notin tainted =>
               /\ label \in {"port", "add"} => device_map_[own] = NoDevice
               /\ label = "remove" => device_map_[own] # NoDevice,
           HasTarget(w)' => HasTarget(w)
    PROVE  Agreement'
<1>1. /\ UNCHANGED device_map_ /\ UNCHANGED config /\ UNCHANGED sip /\ UNCHANGED stale
      /\ req'[w] = req[w] /\ target'[w] = target[w] /\ pc'[w] = label /\ Move(w, label)
  BY DEF Continue, Move, Goto, deviceVars, Base, TypeOK
<1>2. \A i \in Ids : SameRows(i) /\ (Agree(i) => Agree(i)')
  BY <1>1, UntouchedAgree
<1>3. ASSUME own \notin tainted
      PROVE  Single(own)' /\ Stage(w)'
  <2>1. HasTarget(w) => target[w] = device_map_[own] /\ device_map_[own] # NoDevice
    BY <1>3 DEF Agreement, Stages, Stage, Seen
  <2>2. Agree(own)' /\ Single(own)'
    BY <1>2, <1>3 DEF Agreement, Singles, SameRows
  <2>. QED BY <1>1, <1>3, <2>1, <2>2 DEF Stage
<1>. QED BY <1>1, <1>2, <1>3, MoveAgree

LEMMA OwnId ==
    ASSUME Base, NEW w \in Workers, req[w] # NoRequest
    PROVE  req[w].id \in Ids /\ req[w] \in Request
  BY DEF Base, TypeOK, Request

LEMMA ChecksAgree ==
    ASSUME Base, Agreement, NEW w \in Workers, req[w] \in Request, req[w] # NoRequest,
           \/ FileExist(w) /\ req[w].op \in {"create", "update"}
           \/ NotInMap(w) \/ PortUnused(w)
           \/ Finish(w)
    PROVE  Agreement'
<1>0. PICK own \in Ids : own = req[w].id
  BY OwnId
<1>1. phase = "up" /\ UNCHANGED table
  BY DEF FileExist, NotInMap, PortUnused, Finish, At, diskVars
<1>2. own \notin tainted => Agree(own) /\ (pc[w] = "port" => device_map_[own] = NoDevice)
  BY <1>0, <1>1 DEF Agreement, Stages, Stage, Seen, FileExist, NotInMap, PortUnused, Finish, At
<1>3. CASE Reply(w)
  BY <1>0, <1>1, <1>2, <1>3, ReplyAgree
<1>4. ASSUME NEW label \in {"unique", "port", "add", "update"}, Continue(w, label),
             own \notin tainted => (label \in {"port", "add"} => device_map_[own] = NoDevice), pc[w] # "find"
      PROVE  Agreement'
  <2>1. HasTarget(w)' => HasTarget(w)
    BY <1>4 DEF HasTarget, Continue, Move
  <2>. QED BY <1>0, <1>1, <1>2, <1>4, <2>1, LookAgree
<1>5. CASE FileExist(w) /\ req[w].op \in {"create", "update"}
  BY <1>3, <1>4, <1>5 DEF FileExist, At
<1>6. CASE NotInMap(w)
  BY <1>0, <1>1, <1>3, <1>4, <1>6 DEF NotInMap, At
<1>7. CASE PortUnused(w)
  BY <1>2, <1>3, <1>4, <1>7 DEF PortUnused, At
<1>. QED BY <1>3, <1>5, <1>6, <1>7 DEF Finish

LEMMA FindAgree ==
    ASSUME Base, Agreement, NEW w \in Workers, req[w] \in Request, req[w] # NoRequest, Find(w),
           req[w].op # "create"
    PROVE  Agreement'
<1>0. PICK own \in Ids : own = req[w].id
  BY OwnId
<1>1. phase = "up" /\ UNCHANGED table /\ pc[w] = "find"
  BY DEF Find, At, diskVars
<1> DEFINE d == device_map_[own]
<1>2. own \notin tainted => Agree(own)
  BY <1>0, <1>1 DEF Agreement, Stages, Stage, Seen
<1>3. CASE Reply(w)
  BY <1>0, <1>1, <1>2, <1>3, ReplyAgree
<1>4. CASE d # NoDevice /\ req[w].op = "delete" /\ Continue(w, "remove")
  <2>1. ~ HasTarget(w)'
    BY <1>4 DEF HasTarget, Continue, Move
  <2>. QED BY <1>0, <1>1, <1>2, <1>4, <2>1, LookAgree
<1>5. CASE /\ d # NoDevice
           /\ req[w].op # "delete"
           /\ Goto(w, IF req[w].op = "update" THEN "exist" ELSE req[w].op)
           /\ target' = [target EXCEPT ![w] = d]
           /\ UNCHANGED <<phaseVars, device_map_, map_lock_, deviceVars, req, copy, histVars>>
  <2> DEFINE label == IF req[w].op = "update" THEN "exist" ELSE req[w].op
  <2>1. label \in {"exist", "start", "stop"}
    BY <1>5 DEF Request
  <2> HIDE DEF label
  <2>2. /\ pc' = [pc EXCEPT ![w] = label] /\ target' = [target EXCEPT ![w] = d]
        /\ UNCHANGED <<phase, device_map_, config, sip, req, tainted, stale>>
    BY <1>5 DEF label, Goto, phaseVars, deviceVars, histVars
  <2> HIDE DEF d
  <2>3. /\ pc'[w] = label /\ target'[w] = d
        /\ \A v \in Workers \ {w} : pc'[v] = pc[v] /\ target'[v] = target[v]
    BY <2>2 DEF Base, TypeOK
  <2>4. \A i \in Ids : SameRows(i) /\ SameObject(i) /\ (Agree(i) => Agree(i)')
    BY <1>1, <2>2, UntouchedAgree
  <2>5. own \notin tainted => Agree(own)' /\ Single(own)'
    BY <1>2, <2>4 DEF Agreement, Singles, SameRows
  <2>6. own \notin tainted => Stage(w)'
    BY <1>0, <1>1, <1>5, <2>1, <2>2, <2>3, <2>5 DEF Stage, d
  <2>. QED BY <1>0, <1>1, <2>2, <2>3, <2>4, <2>5, <2>6, WorkStep
<1>. QED BY <1>0, <1>1, <1>3, <1>4, <1>5 DEF Find

----
(***************************************************************************)
(* The statements on the table.                                            *)
(***************************************************************************)
LEMMA Appended ==
    ASSUME Base, NEW row \in Config, table' = Append(table, row), UNCHANGED stale
    PROVE  /\ \A j \in Ids \ {row.id} : SameRows(j)
           /\ (\A n \in DOMAIN table : table[n].id # row.id) =>
                 /\ Single(row.id)'
                 /\ \E n \in DOMAIN table' : table'[n] = row
                 /\ \A n \in DOMAIN table' : table'[n].id = row.id => table'[n] = row
<1>1. /\ Len(table) \in Nat /\ DOMAIN table = 1 .. Len(table) /\ DOMAIN table' = 1 .. Len(table) + 1
      /\ \A n \in 1 .. Len(table) : table'[n] = table[n]
      /\ table'[Len(table) + 1] = row
  BY AppendProperties, LenProperties DEF Base, TypeOK
<1>2. \A j \in Ids \ {row.id} : SameRows(j)
  BY <1>1 DEF SameRows, Single
<1>3. (\A n \in DOMAIN table : table[n].id # row.id) => Single(row.id)'
  BY <1>1 DEF Single
<1>. QED BY <1>1, <1>2, <1>3

LEMMA AddAgree ==
    ASSUME Base, Agreement, NEW w \in Workers, req[w] \in Request, req[w] # NoRequest,
           req[w].op = "create", addDeviceInfo(w)
    PROVE  Agreement'
<1> DEFINE row == NewConfig(req[w])
<1>0. PICK own \in Ids : own = req[w].id
  BY OwnId
<1>1. phase = "up" /\ pc[w] = "add"
  BY DEF addDeviceInfo, At
<1>2. row \in Config /\ row.id = own /\ row.port = req[w].port /\ row.path = req[w].path /\ row.status = 0
  BY <1>0, NewRow DEF NewConfig
<1> HIDE DEF row
<1>3. own \notin tainted => Agree(own) /\ device_map_[own] = NoDevice
  BY <1>0, <1>1 DEF Agreement, Stages, Stage, Seen
<1>4. own \notin tainted => \A n \in DOMAIN table : table[n].id # own
  BY <1>3 DEF Agree
<1>5. CASE Reply(w) /\ UNCHANGED table
  BY <1>0, <1>1, <1>3, <1>5, ReplyAgree
<1>6. CASE table' = Append(table, row) /\ Continue(w, "copy")
  <2>1. /\ device_map_' = device_map_ /\ req' = req /\ pc'[w] = "copy" /\ ~ HasTarget(w)'
        /\ UNCHANGED stale /\ Move(w, "copy")
    BY <1>6 DEF Continue, Move, Goto, HasTarget, Base, TypeOK
  <2>2. \A j \in Ids \ {own} : SameRows(j)
    BY <1>2, <1>6, <2>1, Appended
  <2>3. ASSUME own \notin tainted
        PROVE  Single(own)' /\ Stage(w)'
    <3>1. /\ Single(own)'
          /\ \E n \in DOMAIN table' : table'[n] = row
          /\ \A n \in DOMAIN table' : table'[n].id = own => table'[n] = row
      BY <1>2, <1>4, <1>6, <2>1, <2>3, Appended
    <3>. QED BY <1>0, <1>1, <1>2, <1>3, <2>1, <2>3, <3>1 DEF Stage, Written
  <2>. QED BY <1>0, <1>1, <2>1, <2>2, <2>3, MoveAgree
<1>. QED BY <1>5, <1>6 DEF addDeviceInfo, row

LEMMA Removed ==
    ASSUME Base, NEW own \in Ids, DeleteRows(own), stale' = stale \ {own}
    PROVE  /\ \A j \in Ids \ {own} : SameRows(j)
           /\ \A n \in DOMAIN table' : table'[n].id # own
<1> DEFINE kept == {n \in DOMAIN table : table[n].id # own}
<1>1. PICK k \in 0 .. Len(table) : \E old \in [1 .. k -> kept] :
          /\ \A m, n \in 1 .. k : m < n => old[m] < old[n]
          /\ kept = {old[n] : n \in 1 .. k}
          /\ table' = [n \in 1 .. k |-> table[old[n]]]
  BY DEF DeleteRows
<1>2. PICK old \in [1 .. k -> kept] :
          /\ \A m, n \in 1 .. k : m < n => old[m] < old[n]
          /\ kept = {old[n] : n \in 1 .. k}
          /\ table' = [n \in 1 .. k |-> table[old[n]]]
  BY <1>1
<1>3. k \in Nat /\ DOMAIN table \subseteq Int /\ DOMAIN table' = 1 .. k
  BY <1>1, <1>2, LenProperties DEF Base, TypeOK
<1>4. \A n \in 1 .. k : table'[n] = table[old[n]] /\ old[n] \in DOMAIN table /\ table[old[n]].id # own
  BY <1>2
<1>5. \A m, n \in 1 .. k : m # n => old[m] # old[n]
  BY <1>2, <1>3
<1>6. ASSUME NEW j \in Ids \ {own}
      PROVE  SameRows(j)
  <2>1. ASSUME NEW m \in DOMAIN table, table[m].id = j
        PROVE  \E n \in DOMAIN table' : table'[n] = table[m]
    <3>1. PICK n \in 1 .. k : old[n] = m
      BY <1>2, <2>1
    <3>. QED BY <1>3, <1>4, <3>1
  <2>2. Single(j) => Single(j)'
    BY <1>3, <1>4, <1>5 DEF Single
  <2>. QED BY <1>3, <1>4, <2>1, <2>2 DEF SameRows
<1>7. \A n \in DOMAIN table' : table'[n].id # own
  BY <1>3, <1>4
<1>. QED BY <1>6, <1>7

LEMMA RemoveAgree ==
    ASSUME Base, Agreement, NEW w \in Workers, req[w] \in Request, req[w] # NoRequest,
           req[w].op = "delete", removeDeviceInfo(w)
    PROVE  Agreement'
<1>0. PICK own \in Ids : own = req[w].id
  BY OwnId
<1>1. phase = "up" /\ pc[w] = "remove"
  BY DEF removeDeviceInfo, At
<1>2. own \notin tainted => Agree(own)
  BY <1>0, <1>1 DEF Agreement, Stages, Stage, Seen
<1>3. CASE Reply(w) /\ UNCHANGED table
  BY <1>0, <1>1, <1>2, <1>3, ReplyAgree
<1>4. CASE DeleteRows(own) /\ stale' = stale \ {own} /\ Move(w, "copy")
  <2>1. /\ \A j \in Ids \ {own} : SameRows(j)
        /\ \A n \in DOMAIN table' : table'[n].id # own
    BY <1>4, Removed
  <2>2. req' = req /\ pc'[w] = "copy" /\ ~ HasTarget(w)'
    BY <1>4 DEF Move, Goto, HasTarget, Base, TypeOK
  <2>3. Single(own)'
    BY <2>1 DEF Single
  <2>4. Stage(w)'
    BY <1>0, <1>1, <2>1, <2>2 DEF Stage
  <2>. QED BY <1>0, <1>1, <1>4, <2>1, <2>3, <2>4, MoveAgree
<1>. QED BY <1>0, <1>3, <1>4 DEF removeDeviceInfo

\* An UPDATE statement changes the rows of one id in place.
LEMMA RowsInPlace ==
    ASSUME NEW own, DOMAIN table' = DOMAIN table,
           \A n \in DOMAIN table : IF table[n].id = own THEN table'[n].id = own ELSE table'[n] = table[n],
           \A j \in Ids \ {own} : j \in stale' <=> j \in stale
    PROVE  /\ \A j \in Ids \ {own} : SameRows(j)
           /\ Single(own) => Single(own)'
<1>1. \A n \in DOMAIN table : table'[n].id = table[n].id
  OBVIOUS
<1>2. \A j : Single(j) => Single(j)'
  BY <1>1 DEF Single
<1>3. \A j \in Ids \ {own} : SameRows(j)
  BY <1>2 DEF SameRows
<1>. QED BY <1>2, <1>3

LEMMA RowsUpdated ==
    ASSUME Base, NEW row \in Config, NEW own, own = row.id,
           table' = [n \in DOMAIN table |->
                        IF table[n].id = own THEN [row EXCEPT !.status = table[n].status] ELSE table[n]]
    PROVE  /\ DOMAIN table' = DOMAIN table
           /\ \A n \in DOMAIN table : table[n].id # own => table'[n] = table[n]
           /\ \A n \in DOMAIN table : table[n].id = own =>
                 /\ table'[n].id = own /\ table'[n].port = row.port /\ table'[n].path = row.path
                 /\ table'[n].status = table[n].status
<1>1. \A n \in DOMAIN table : table[n] \in Config
  BY ElementOfSeq, LenProperties DEF Base, TypeOK
<1>. QED BY <1>1 DEF Config

LEMMA UpdateAgree ==
    ASSUME Base, Agreement, NEW w \in Workers, req[w] \in Request, req[w] # NoRequest,
           req[w].op = "update", updateDeviceInfo(w)
    PROVE  Agreement'
<1>0. PICK own \in Ids : own = req[w].id
  BY OwnId
<1>1. phase = "up" /\ pc[w] = "update"
  BY DEF updateDeviceInfo, At
<1> DEFINE d == device_map_[own]
           row == NewConfig(req[w])
<1>2. own \notin tainted => Agree(own) /\ Single(own) /\ HasTarget(w) /\ target[w] = d /\ d # NoDevice
  BY <1>0, <1>1 DEF Agreement, Singles, Stages, Stage, Seen, HasTarget
<1>3. row \in Config /\ row.id = own /\ row.port = req[w].port /\ row.path = req[w].path
  BY <1>0, NewRow DEF NewConfig
<1> HIDE DEF row
<1>4. CASE Reply(w) /\ UNCHANGED table
  BY <1>0, <1>1, <1>2, <1>4, ReplyAgree
<1>5. CASE /\ table' = [n \in DOMAIN table |->
                           IF table[n].id = own THEN [row EXCEPT !.status = table[n].status] ELSE table[n]]
           /\ Continue(w, "init")
  <2>1. /\ UNCHANGED device_map_ /\ UNCHANGED sip /\ req'[w] = req[w] /\ target'[w] = target[w]
        /\ pc'[w] = "init" /\ UNCHANGED stale /\ Move(w, "init")
    BY <1>5 DEF Continue, Move, Goto, deviceVars, Base, TypeOK
  <2>2. /\ DOMAIN table' = DOMAIN table
        /\ \A n \in DOMAIN table : table[n].id # own => table'[n] = table[n]
        /\ \A n \in DOMAIN table : table[n].id = own =>
              /\ table'[n].id = own /\ table'[n].port = req[w].port /\ table'[n].path = req[w].path
              /\ table'[n].status = table[n].status
    BY <1>3, <1>5, RowsUpdated
  <2>3. (Single(own) => Single(own)') /\ \A j \in Ids \ {own} : SameRows(j)
    BY <2>1, <2>2, RowsInPlace
  <2>4. ASSUME own \notin tainted
        PROVE  Stage(w)'
    <3>1. \E n \in DOMAIN table : table[n].id = own
      BY <1>2, <2>4 DEF Agree
    <3>2. Written(req[w])'
      BY <1>0, <2>1, <2>2, <3>1 DEF Written
    <3>3. \A n \in DOMAIN table' : table'[n].id = own => Recorded(table[n], d)'
      BY <1>2, <2>1, <2>2, <2>4 DEF Agree, Recorded
    <3>. QED BY <1>0, <1>1, <1>2, <2>1, <2>4, <3>2, <3>3 DEF Stage
  <2>. QED BY <1>0, <1>1, <1>2, <2>1, <2>3, <2>4, MoveAgree
<1>. QED BY <1>0, <1>4, <1>5 DEF updateDeviceInfo, row

LEMMA StatusUpdated ==
    ASSUME Base, NEW own, NEW s,
           table' = [n \in DOMAIN table |->
                        IF table[n].id = own THEN [table[n] EXCEPT !.status = s] ELSE table[n]]
    PROVE  /\ DOMAIN table' = DOMAIN table
           /\ \A n \in DOMAIN table : table[n].id # own => table'[n] = table[n]
           /\ \A n \in DOMAIN table : table[n].id = own =>
                 /\ table'[n].id = own /\ table'[n].port = table[n].port /\ table'[n].path = table[n].path
                 /\ table'[n].status = s
<1>1. \A n \in DOMAIN table : table[n] \in Config
  BY ElementOfSeq, LenProperties DEF Base, TypeOK
<1>. QED BY <1>1 DEF Config

LEMMA StatusAgree ==
    ASSUME Base, Agreement, NEW w \in Workers, req[w] \in Request, req[w] # NoRequest,
           req[w].op \in {"start", "stop"}, modifyDeviceStatus(w)
    PROVE  Agreement'
<1>0. PICK own \in Ids : own = req[w].id
  BY OwnId
<1>1. phase = "up" /\ pc[w] = "status" /\ Move(w, "reply")
  BY DEF modifyDeviceStatus, At
<1> DEFINE d == device_map_[own]
           s == IF req[w].op = "start" THEN 1 ELSE 0
<1>2. own \notin tainted =>
        /\ Single(own) /\ HasTarget(w) /\ target[w] = d /\ d # NoDevice
        /\ \E n \in DOMAIN table : table[n].id = own
        /\ \A n \in DOMAIN table : table[n].id = own => Describes(table[n], d)
        /\ req[w].op = "stop" <=> sip[d] = "idle"
  BY <1>0, <1>1 DEF Agreement, Singles, Stages, Stage, Seen, HasTarget
<1>3. s = 1 <=> req[w].op # "stop"
  OBVIOUS
<1>4. \/ UNCHANGED table /\ stale' = stale \cup {own}
      \/ /\ table' = [n \in DOMAIN table |->
                      IF table[n].id = own THEN [table[n] EXCEPT !.status = s] ELSE table[n]]
         /\ stale' = stale \ {own}
  BY <1>0 DEF modifyDeviceStatus, SetStatus
<1> HIDE DEF s
<1>5. /\ DOMAIN table' = DOMAIN table
      /\ \A n \in DOMAIN table : table[n].id # own => table'[n] = table[n]
      /\ \A n \in DOMAIN table : table[n].id = own =>
            /\ table'[n].id = own /\ table'[n].port = table[n].port /\ table'[n].path = table[n].path
            /\ own \in stale' \/ table'[n].status = s
  BY <1>4, StatusUpdated
<1>6. (Single(own) => Single(own)') /\ \A j \in Ids \ {own} : SameRows(j)
  BY <1>4, <1>5, RowsInPlace
<1>7. /\ UNCHANGED device_map_ /\ UNCHANGED sip /\ UNCHANGED config /\ req'[w] = req[w]
      /\ target'[w] = target[w] /\ pc'[w] = "reply"
  BY <1>1 DEF Move, Goto, deviceVars, Base, TypeOK
<1>8. ASSUME own \notin tainted
      PROVE  Stage(w)'
  <2>1. \A n \in DOMAIN table' : table'[n].id = own => Describes(table[n], d)' /\ Recorded(table[n], d)'
    BY <1>2, <1>3, <1>5, <1>7, <1>8 DEF Describes, Recorded
  <2>2. Agree(own)'
    BY <1>2, <1>5, <1>7, <1>8, <2>1 DEF Agree
  <2>. QED BY <1>0, <1>2, <1>7, <1>8, <2>2 DEF Stage
<1>. QED BY <1>0, <1>1, <1>2, <1>6, <1>8, MoveAgree

----
(***************************************************************************)
(* The map and the objects.                                                *)
(***************************************************************************)
LEMMA CopyAgree ==
    ASSUME Base, Agreement, NEW w \in Workers, req[w] \in Request, req[w] # NoRequest,
           CopyMap(w), req[w].op \in {"create", "delete"}
    PROVE  Agreement'
<1>0. PICK own \in Ids : own = req[w].id
  BY OwnId
<1>1. /\ phase = "up" /\ pc[w] = "copy" /\ pc' = [pc EXCEPT ![w] = "publish"]
      /\ UNCHANGED <<table, phase, device_map_, config, sip, req, target, tainted, stale>>
  BY DEF CopyMap, At, Goto, diskVars, phaseVars, deviceVars, histVars
<1>2. pc'[w] = "publish" /\ \A v \in Workers \ {w} : pc'[v] = pc[v]
  BY <1>1 DEF Base, TypeOK
<1>3. \A i \in Ids : SameRows(i) /\ SameObject(i)
  BY <1>1, UntouchedAgree
<1>4. own \notin tainted => Single(own)'
  BY <1>3 DEF Agreement, Singles, SameRows
<1>5. own \notin tainted => Stage(w)'
  BY <1>0, <1>1, <1>2 DEF Agreement, Stages, Stage, Seen, Written, HasTarget
<1>. QED BY <1>0, <1>1, <1>2, <1>3, <1>4, <1>5, WorkStep

LEMMA InsertEffect ==
    ASSUME Base, NEW w \in Workers, req[w] \in Request, NEW own \in Ids, own = req[w].id,
           insertDevice(w), ~ ProgramEnds
    PROVE  /\ UNCHANGED phase /\ UNCHANGED sip /\ UNCHANGED tainted /\ UNCHANGED stale
           /\ req' = [req EXCEPT ![w] = NoRequest] /\ pc' = [pc EXCEPT ![w] = "idle"]
           /\ UNCHANGED target
           /\ \A j \in Ids \ {own} : SameObject(j)
           /\ \E d \in Devices :
                 /\ device_map_'[own] = d /\ d # NoDevice /\ sip[d] = "idle"
                 /\ config'[d] = NewConfig(req[w])
<1> DEFINE new == NewConfig(req[w])
<1>1. copy[w] = device_map_ /\ req[w].op = "create"
  BY DEF insertDevice, At, Base, Locked
<1>2. new \in Config /\ new.id = own
  BY <1>1, NewRow DEF NewConfig
<1>3. PICK d \in Devices :
        /\ config[d] = NoConfig
        /\ ~ Terminates([device_map_ EXCEPT ![own] = d], held)
        /\ Drop([device_map_ EXCEPT ![own] = d], held, [config EXCEPT ![d] = new])
        /\ Goto(w, "idle")
        /\ req' = [req EXCEPT ![w] = NoRequest]
        /\ UNCHANGED <<phaseVars, sip, target, histVars>>
  BY <1>1 DEF insertDevice
<1> HIDE DEF new
<1> DEFINE map == [device_map_ EXCEPT ![own] = d]
<1>4. /\ device_map_' = map /\ config'[d] = new
      /\ \A j \in Ids : j # own /\ device_map_[j] # NoDevice =>
            config'[device_map_[j]] = config[device_map_[j]]
  BY <1>2, <1>3, NewObject
<1>5. map[own] = d /\ \A j \in Ids : j # own => map[j] = device_map_[j]
  BY DEF Base, TypeOK, Maps
<1> HIDE DEF map
<1>6. sip' = sip /\ sip[d] = "idle" /\ d # NoDevice
  BY <1>3, Pools DEF Base, Alive
<1>7. \A j \in Ids \ {own} : SameObject(j)
  BY <1>4, <1>5, <1>6 DEF SameObject
<1>. QED BY <1>3, <1>4, <1>5, <1>6, <1>7 DEF new, Goto, phaseVars, histVars

LEMMA InsertAgree ==
    ASSUME Base, Agreement, NEW w \in Workers, req[w] \in Request, req[w] # NoRequest,
           insertDevice(w)
    PROVE  Agreement'
<1>0. PICK own \in Ids : own = req[w].id
  BY OwnId
<1>1. phase = "up" /\ pc[w] = "publish" /\ UNCHANGED table /\ req[w].op = "create"
  BY DEF insertDevice, At, diskVars
<1>2. own \notin tainted =>
        /\ Written(req[w]) /\ Single(own)
        /\ \A n \in DOMAIN table : table[n].id = own => table[n].status = 0
  BY <1>0, <1>1 DEF Agreement, Singles, Stages, Stage, Seen
<1>3. CASE ProgramEnds
  BY <1>1, <1>3, EndsAgree
<1>4. CASE ~ ProgramEnds
  <2>1. /\ UNCHANGED phase /\ UNCHANGED sip /\ UNCHANGED target /\ UNCHANGED tainted /\ UNCHANGED stale
        /\ req' = [req EXCEPT ![w] = NoRequest] /\ pc' = [pc EXCEPT ![w] = "idle"]
        /\ \A j \in Ids \ {own} : SameObject(j)
    BY <1>0, <1>4, InsertEffect
  <2>2. PICK d \in Devices :
          /\ device_map_'[own] = d /\ d # NoDevice /\ sip[d] = "idle"
          /\ config'[d] = NewConfig(req[w])
    BY <1>0, <1>4, InsertEffect
  <2>3. config'[d].port = req[w].port /\ config'[d].path = req[w].path
    BY <2>2 DEF NewConfig
  <2>4. \A i \in Ids : SameRows(i)
    BY <1>1, <2>1, Untouched
  <2>5. ASSUME own \notin tainted
        PROVE  Agree(own)' /\ Single(own)'
    <3>1. \A n \in DOMAIN table : table[n].id = own => table[n].status # 1
      BY <1>2, <2>5
    <3>2. Single(own)'
      BY <1>2, <2>4, <2>5 DEF SameRows
    <3>. QED BY <1>0, <1>1, <1>2, <2>1, <2>2, <2>3, <2>5, <3>1, <3>2 DEF Agree, Written, Describes, Recorded
  <2>6. /\ phase' = "up" /\ req'[w] = NoRequest
        /\ \A v \in Workers \ {w} : req'[v] = req[v] /\ pc'[v] = pc[v] /\ target'[v] = target[v]
    BY <1>1, <2>1 DEF Base, TypeOK
  <2>. QED BY <1>0, <1>1, <2>1, <2>4, <2>5, <2>6, WorkStep
<1>. QED BY <1>3, <1>4

LEMMA DeleteAgree ==
    ASSUME Base, Agreement, NEW w \in Workers, req[w] \in Request, req[w] # NoRequest,
           deleteDevice(w)
    PROVE  Agreement'
<1>0. PICK own \in Ids : own = req[w].id
  BY OwnId
<1> DEFINE map == [device_map_ EXCEPT ![own] = NoDevice]
<1>1. /\ copy[w] = device_map_ /\ phase = "up" /\ pc[w] = "publish" /\ UNCHANGED table
      /\ req[w].op = "delete" /\ device_map_ \in Maps
  BY DEF deleteDevice, At, Base, Locked, TypeOK
<1>2. own \notin tainted => Single(own) /\ \A n \in DOMAIN table : table[n].id # own
  BY <1>0, <1>1 DEF Agreement, Singles, Stages, Stage, Seen
<1>4. ReplyWith(w, map)
  BY <1>0, <1>1 DEF deleteDevice
<1>5. /\ map \in Maps /\ \A i \in Ids : map[i] \in {device_map_[i], NoDevice}
      /\ map[own] = NoDevice /\ \A i \in Ids \ {own} : map[i] = device_map_[i]
  BY <1>1 DEF Maps
<1> HIDE DEF map
<1>6. CASE ProgramEnds
  BY <1>1, <1>6, EndsAgree
<1>7. CASE ~ ProgramEnds
  <2>1. /\ device_map_' = map /\ phase' = phase /\ req'[w] = NoRequest
        /\ tainted' = tainted /\ stale' = stale
        /\ \A v \in Workers \ {w} : req'[v] = req[v] /\ pc'[v] = pc[v] /\ target'[v] = target[v]
        /\ \A i \in Ids : map[i] = device_map_[i] => SameObject(i)
    BY <1>4, <1>5, <1>7, ReplyEffect
  <2>2. \A i \in Ids : SameRows(i)
    BY <1>1, <2>1, Untouched
  <2>3. own \notin tainted => Agree(own)' /\ Single(own)'
    BY <1>1, <1>2, <1>5, <2>1, <2>2 DEF Agree, SameRows
  <2>. QED BY <1>0, <1>1, <1>5, <2>1, <2>2, <2>3, WorkStep
<1>. QED BY <1>6, <1>7

\* The object a worker is at work on is no other id's.
LEMMA OwnObject ==
    ASSUME Base, NEW w \in Workers, HasTarget(w), NEW j \in Ids, j # req[w].id, device_map_[j] # NoDevice
    PROVE  device_map_[j] # target[w] /\ device_map_[j] \in Devices /\ target[w] \in Devices
  BY DEF Base, Alive, TargetHeld, TypeOK, Maps

LEMMA ReinitAgree ==
    ASSUME Base, Agreement, NEW w \in Workers, req[w] \in Request, req[w] # NoRequest,
           req[w].op = "update", Reinit(w)
    PROVE  Agreement'
<1>0. PICK own \in Ids : own = req[w].id
  BY OwnId
<1> DEFINE d == device_map_[own]
           t == target[w]
           new == NewConfig(req[w])
<1>1. phase = "up" /\ pc[w] = "init" /\ UNCHANGED table /\ HasTarget(w) /\ t \in Devices
  BY DEF Reinit, At, diskVars, HasTarget, Base, TargetHeld, TypeOK
<1>2. own \notin tainted =>
        /\ t = d /\ d # NoDevice /\ Written(req[w]) /\ Single(own)
        /\ \A n \in DOMAIN table : table[n].id = own => Recorded(table[n], d)
  BY <1>0, <1>1 DEF Agreement, Singles, Stages, Stage, Seen
<1>3. CASE ProgramEnds
  BY <1>1, <1>3, EndsAgree
<1>4. CASE /\ config' = [config EXCEPT ![t] = new]
           /\ Goto(w, "reply")
           /\ UNCHANGED <<phaseVars, device_map_, sip, req, target, histVars>>
  <2>1. new.port = req[w].port /\ new.path = req[w].path
    BY DEF NewConfig
  <2> HIDE DEF new, t
  <2>2. config'[t] = new /\ \A e \in Devices \ {t} : config'[e] = config[e]
    BY <1>1, <1>4 DEF Base, TypeOK
  <2>3. \A j \in Ids \ {own} : SameObject(j)
    BY <1>0, <1>1, <1>4, <2>2, OwnObject DEF SameObject, t
  <2>4. /\ phase' = phase /\ req' = req /\ target' = target /\ pc'[w] = "reply"
        /\ tainted' = tainted /\ stale' = stale
        /\ \A v \in Workers \ {w} : pc'[v] = pc[v]
    BY <1>4 DEF Goto, phaseVars, histVars, Base, TypeOK
  <2>5. \A i \in Ids : SameRows(i)
    BY <1>1, <2>4, Untouched
  <2>6. ASSUME own \notin tainted
        PROVE  Single(own)' /\ Stage(w)'
    <3>1. Agree(own)'
      BY <1>0, <1>1, <1>2, <1>4, <2>1, <2>2, <2>4, <2>6 DEF Agree, Written, Describes, Recorded
    <3>2. Stage(w)'
      BY <1>0, <1>2, <1>4, <2>4, <2>6, <3>1 DEF Stage, t
    <3>. QED BY <1>2, <2>5, <2>6, <3>2 DEF SameRows
  <2>. QED BY <1>0, <1>1, <2>3, <2>4, <2>5, <2>6, WorkStep
<1>. QED BY <1>3, <1>4 DEF Reinit

LEMMA StartStopAgree ==
    ASSUME Base, Agreement, NEW w \in Workers, req[w] \in Request, req[w] # NoRequest,
           \/ req[w].op = "start" /\ Start(w)
           \/ req[w].op = "stop" /\ Stop(w)
    PROVE  Agreement'
<1>0. PICK own \in Ids : own = req[w].id
  BY OwnId
<1> DEFINE d == device_map_[own]
           t == target[w]
<1>1. /\ phase = "up" /\ pc[w] = req[w].op /\ phase' = phase
      /\ UNCHANGED <<table, device_map_, config, req, target, tainted, stale>>
  BY DEF Start, Stop, At, diskVars, phaseVars, histVars
<1>2. HasTarget(w) /\ req[w].op \in {"start", "stop"} /\ t \in Devices
  BY <1>1 DEF HasTarget, Base, TargetHeld, TypeOK
<1>3. own \notin tainted => t = d /\ d # NoDevice /\ Agree(own) /\ Single(own)
  BY <1>0, <1>1, <1>2 DEF Agreement, Singles, Stages, Stage, Seen
<1>4. \A i \in Ids : SameRows(i)
  BY <1>1, Untouched
<1>5. \E s, label :
          /\ sip' = [sip EXCEPT ![t] = s] /\ pc' = [pc EXCEPT ![w] = label]
          /\ \/ label = "status" /\ (req[w].op = "stop" <=> s = "idle")
             \/ label = "reply" /\ (s = "idle" <=> sip[t] = "idle")
  <2>1. CASE req[w].op = "start" /\ Start(w)
    <3>1. CASE sip' = [sip EXCEPT ![t] = "running"] /\ Goto(w, "status")
      <4>1. req[w].op = "stop" <=> "running" = "idle"
        BY <2>1
      <4>. QED BY <3>1, <4>1 DEF Goto
    <3>2. CASE /\ sip' = [sip EXCEPT ![t] = IF @ = "running" THEN "broken" ELSE @]
               /\ Goto(w, "reply")
      <4> DEFINE s == IF sip[t] = "running" THEN "broken" ELSE sip[t]
      <4>1. sip' = [sip EXCEPT ![t] = s] /\ (s = "idle" <=> sip[t] = "idle")
        BY <1>2, <3>2
      <4>. QED BY <3>2, <4>1 DEF Goto
    <3>. QED BY <2>1, <3>1, <3>2 DEF Start
  <2>2. CASE req[w].op = "stop" /\ Stop(w)
    <3>1. sip' = [sip EXCEPT ![t] = "idle"] /\ Goto(w, "status")
      BY <2>2 DEF Stop
    <3>2. req[w].op = "stop" <=> "idle" = "idle"
      BY <2>2
    <3>. QED BY <3>1, <3>2 DEF Goto
  <2>. QED BY <2>1, <2>2
<1>6. PICK s, label :
          /\ sip' = [sip EXCEPT ![t] = s] /\ pc' = [pc EXCEPT ![w] = label]
          /\ \/ label = "status" /\ (req[w].op = "stop" <=> s = "idle")
             \/ label = "reply" /\ (s = "idle" <=> sip[t] = "idle")
  BY <1>5
<1>7. /\ sip'[t] = s /\ \A e \in Devices \ {t} : sip'[e] = sip[e]
      /\ pc'[w] = label /\ \A v \in Workers \ {w} : pc'[v] = pc[v]
  BY <1>2, <1>6 DEF Base, TypeOK
<1>8. \A j \in Ids \ {own} : SameObject(j)
  BY <1>0, <1>1, <1>2, <1>7, OwnObject DEF SameObject
<1>9. own \notin tainted => Single(own)'
  BY <1>3, <1>4 DEF SameRows
<1>10. ASSUME own \notin tainted
       PROVE  Stage(w)'
  <2>1. /\ \E n \in DOMAIN table : table[n].id = own
        /\ \A n \in DOMAIN table : table[n].id = own => Describes(table[n], d)
    BY <1>3, <1>10 DEF Agree
  <2>2. label = "reply" => Agree(own)'
    BY <1>1, <1>3, <1>6, <1>7, <1>10 DEF Agree, Describes, Recorded
  <2>3. /\ req'[w] = req[w] /\ target'[w] = d /\ d' = d /\ d # NoDevice /\ sip'[d] = s
        /\ (\E n \in DOMAIN table : table[n].id = own)'
        /\ (\A n \in DOMAIN table : table[n].id = own => Describes(table[n], d))'
    BY <1>1, <1>3, <1>7, <1>10, <2>1 DEF Describes
  <2>4. pc'[w] \in {"status", "reply"} /\ (pc'[w] = "status" => (req[w].op = "stop" <=> s = "idle"))
    BY <1>6, <1>7
  <2>. QED BY <1>0, <1>7, <2>2, <2>3, <2>4 DEF Stage
<1>. QED BY <1>0, <1>1, <1>4, <1>7, <1>8, <1>9, <1>10, WorkStep

----
(***************************************************************************)
(* Requests come, the program starts and ends.                             *)
(***************************************************************************)
LEMMA ReceiveAgree ==
    ASSUME Base, Agreement, NEW w \in Workers, Receive(w)
    PROVE  Agreement'
<1>1. PICK q \in Request :
        /\ req' = [req EXCEPT ![w] = q]
        /\ pc' = [pc EXCEPT ![w] = FirstStep(q.op)]
        /\ tainted' = IF Handlers(q.id) # {} THEN tainted \cup {q.id} ELSE tainted
  BY DEF Receive, Goto
<1>2. /\ UNCHANGED <<table, phase, device_map_, config, sip, target, stale>>
      /\ phase = "up" /\ pc[w] = "idle" /\ req[w] = NoRequest
  <2>1. req[w] # NoRequest => pc[w] # "idle"
    BY DEF Base, InPlace, LabelsOf, Request, TypeOK
  <2>. QED BY <2>1 DEF Receive, At, diskVars, phaseVars, deviceVars
<1>3. /\ req'[w] = q /\ pc'[w] = FirstStep(q.op) /\ q # NoRequest
      /\ \A v \in Workers \ {w} : req'[v] = req[v] /\ pc'[v] = pc[v]
  BY <1>1, NamesDistinct DEF Base, TypeOK
<1>4. PICK own \in Ids : own = q.id
  BY <1>1 DEF Request
<1>5. \A i \in Ids : SameRows(i) /\ (Agree(i) => Agree(i)')
  BY <1>2, UntouchedAgree
<1>6. tainted \subseteq tainted' /\ \A i : i \notin tainted' => i \notin tainted
  BY <1>1
<1>7. \A v \in Workers : req[v] # NoRequest /\ req[v].id = own => own \in tainted'
  BY <1>1, <1>4 DEF Handlers, Names
<1>8. own \notin tainted' => Agree(own)'
  <2>1. own \notin tainted' => Settled(own)
    BY <1>2, <1>6, <1>7 DEF Settled, Handlers, Names
  <2>. QED BY <1>2, <1>5, <2>1 DEF Agreement, ServedAgree, Settled
<1>9. ServedAgree'
  <2>1. ASSUME NEW i \in Ids, Settled(i)'
        PROVE  Settled(i)
    <3>1. i \notin tainted' /\ \A v \in Workers : ~ (req'[v] # NoRequest /\ req'[v].id = i)
      BY <2>1 DEF Settled, Handlers, Names
    <3>. QED BY <1>2, <1>3, <1>6, <3>1 DEF Settled, Handlers, Names
  <2>. QED BY <1>2, <1>5, <2>1 DEF Agreement, ServedAgree
<1>10. ASSUME NEW v \in Workers, Seen(v)'
       PROVE  Stage(v)'
  <2>0. req'[v] # NoRequest /\ req'[v].id \notin tainted'
    BY <1>10 DEF Seen
  <2>1. CASE v = w
    <3>1. pc'[w] \in {"exist", "find"} /\ ~ HasTarget(w)'
      BY <1>1, <1>3 DEF Request, FirstStep, HasTarget
    <3>. QED BY <1>3, <1>4, <1>8, <2>0, <2>1, <3>1 DEF Stage
  <2>2. CASE v # w
    <3>1. req'[v] = req[v] /\ pc'[v] = pc[v] /\ target'[v] = target[v] /\ Stage(v)
      BY <1>2, <1>3, <1>6, <2>0, <2>2 DEF Agreement, Stages, Seen
    <3>. QED BY <1>2, <3>1 DEF Stage, Agree, Written, Describes, Recorded, HasTarget
  <2>. QED BY <2>1, <2>2
<1>11. Singles'
  BY <1>5, <1>6 DEF Agreement, Singles, SameRows
<1>12. SoleUser'
  <2>1. ASSUME NEW u \in Workers, NEW v \in Workers, u # v,
               req'[u] # NoRequest, req'[v] # NoRequest, req'[u].id = req'[v].id
        PROVE  req'[v].id \in tainted'
    <3>1. CASE u # w /\ v # w
      BY <1>3, <1>6, <2>1, <3>1 DEF Agreement, SoleUser
    <3>2. CASE u = w
      BY <1>3, <1>4, <1>7, <2>1, <3>2
    <3>3. CASE v = w
      BY <1>3, <1>4, <1>7, <2>1, <3>3
    <3>. QED BY <3>1, <3>2, <3>3
  <2>. QED BY <2>1 DEF SoleUser
<1>. QED BY <1>2, <1>9, <1>10, <1>11, <1>12 DEF Agreement, Stages, BootAgree, DownAgree

LEMMA BootRowEffect ==
    ASSUME Base, BootRow, ~ ProgramEnds, NEW row \in Config, row = table[next], NEW own \in Ids, own = row.id
    PROVE  /\ next' = next + 1 /\ UNCHANGED phase /\ UNCHANGED req /\ UNCHANGED pc /\ UNCHANGED tainted
           /\ \A j \in Ids \ {own} : j \in stale' <=> j \in stale
           /\ \A j \in Ids \ {own} : SameObject(j)
           /\ \E d \in Devices :
                 /\ device_map_'[own] = d /\ d # NoDevice
                 /\ config'[d].port = row.port /\ config'[d].path = row.path
                 /\ Recorded(row, d)'
<1> DEFINE new == LoadedConfig(row)
<1>1. new \in Config /\ new.id = own /\ new.port = row.port /\ new.path = row.path
  BY DEF LoadedConfig, LoadedLogin, Config, Secrets
<1>2. PICK d \in Devices :
        /\ config[d] = NoConfig
        /\ ~ Terminates([device_map_ EXCEPT ![own] = d], held)
        /\ Drop([device_map_ EXCEPT ![own] = d], held, [config EXCEPT ![d] = new])
        /\ BootStart(d, row)
        /\ next' = next + 1
        /\ UNCHANGED <<phase, req, pc, tainted>>
  BY DEF BootRow
<1> HIDE DEF new
<1> DEFINE map == [device_map_ EXCEPT ![own] = d]
<1>3. /\ device_map_' = map /\ config'[d] = new
      /\ \A j \in Ids : j # own /\ device_map_[j] # NoDevice =>
            device_map_[j] # d /\ config'[device_map_[j]] = config[device_map_[j]]
  BY <1>1, <1>2, NewObject
<1>4. map[own] = d /\ \A j \in Ids \ {own} : map[j] = device_map_[j]
  BY DEF Base, TypeOK, Maps
<1> HIDE DEF map
<1>5. d # NoDevice /\ sip[d] = "idle"
  BY <1>2, Pools DEF Base, Alive
<1>6. /\ own \notin stale' => (row.status = 1 <=> sip'[d] # "idle")
      /\ \A e \in Devices \ {d} : sip'[e] = sip[e]
      /\ \A j \in Ids \ {own} : j \in stale' <=> j \in stale
  BY <1>2, <1>5 DEF BootStart, Base, TypeOK
<1>7. \A j \in Ids \ {own} : SameObject(j)
  BY <1>3, <1>4, <1>6 DEF SameObject, Base, TypeOK, Maps
<1>. QED BY <1>1, <1>2, <1>3, <1>4, <1>5, <1>6, <1>7 DEF Recorded

LEMMA BootRowAgree ==
    ASSUME Base, Agreement, BootRow
    PROVE  Agreement'
<1>1. /\ phase = "boot" /\ next \in Nat /\ next > 0 /\ next <= Len(table) /\ UNCHANGED table
      /\ DOMAIN table = 1 .. Len(table) /\ Len(table) \in Nat
      /\ \A v \in Workers : req[v] = NoRequest
  BY LenProperties DEF BootRow, Base, TypeOK, Quiet, diskVars
<1>3. CASE ProgramEnds
  BY <1>1, <1>3, EndsAgree
<1>4. CASE ~ ProgramEnds
  <2>0. table[next] \in Config /\ next \in DOMAIN table
    BY <1>1, ElementOfSeq DEF Base, TypeOK
  <2>1. PICK row \in Config : row = table[next]
    BY <2>0
  <2>2. PICK own \in Ids : own = row.id
    BY <2>1 DEF Config
  <2>4. /\ next' = next + 1 /\ UNCHANGED phase /\ UNCHANGED req /\ UNCHANGED tainted
        /\ \A j \in Ids \ {own} : j \in stale' <=> j \in stale
        /\ \A j \in Ids \ {own} : SameObject(j)
    BY <1>4, <2>1, <2>2, BootRowEffect
  <2>5. PICK d \in Devices :
          /\ device_map_'[own] = d /\ d # NoDevice
          /\ config'[d].port = row.port /\ config'[d].path = row.path
          /\ Recorded(row, d)'
    BY <1>4, <2>1, <2>2, BootRowEffect
  <2>10. \A n \in DOMAIN table : n < next + 1 => n < next \/ n = next
    BY <1>1
  <2>11. ASSUME NEW i \in Ids \ {own}, i \notin tainted
         PROVE  /\ device_map_'[i] = NoDevice <=> \A n \in DOMAIN table : n < next + 1 => table[n].id # i
                /\ \A n \in DOMAIN table : n < next + 1 /\ table[n].id = i =>
                      Describes(table[n], device_map_[i])' /\ Recorded(table[n], device_map_[i])'
    <3>1. \A n \in DOMAIN table : n < next + 1 /\ table[n].id = i => n < next
      BY <2>1, <2>2, <2>10
    <3>2. \A n \in DOMAIN table : n < next => n < next + 1
      BY <1>1
    <3>3. /\ device_map_[i] = NoDevice <=> \A n \in DOMAIN table : n < next => table[n].id # i
          /\ \A n \in DOMAIN table : n < next /\ table[n].id = i =>
                Describes(table[n], device_map_[i]) /\ Recorded(table[n], device_map_[i])
      BY <1>1, <2>11 DEF Agreement, BootAgree
    <3>4. SameObject(i) /\ (i \in stale' <=> i \in stale)
      BY <2>4
    <3>5. ASSUME NEW n \in DOMAIN table, n < next + 1, table[n].id = i
          PROVE  Describes(table[n], device_map_[i])' /\ Recorded(table[n], device_map_[i])'
      <4>1. device_map_[i] # NoDevice /\ Describes(table[n], device_map_[i]) /\ Recorded(table[n], device_map_[i])
        BY <3>1, <3>3, <3>5
      <4>. QED BY <1>1, <3>4, <3>5, <4>1 DEF SameObject, Describes, Recorded
    <3>. QED BY <3>1, <3>2, <3>3, <3>4, <3>5 DEF SameObject
  <2>12. ASSUME own \notin tainted
         PROVE
         /\ device_map_'[own] # NoDevice /\ next < next + 1 /\ table[next].id = own
         /\ \A n \in DOMAIN table : n < next + 1 /\ table[n].id = own =>
               Describes(table[n], device_map_[own])' /\ Recorded(table[n], device_map_[own])'
    <3>1. \A n \in DOMAIN table : table[n].id = own => table[n] = row
      BY <2>0, <2>1, <2>2, <2>12 DEF Agreement, Singles, Single
    <3>2. Describes(row, d)' /\ Recorded(row, d)'
      BY <1>1, <2>5 DEF Describes
    <3>. QED BY <1>1, <2>1, <2>2, <2>5, <3>1, <3>2
  <2>13. BootAgree'
    BY <1>1, <2>0, <2>4, <2>11, <2>12 DEF BootAgree
  <2>14. Stages' /\ ServedAgree' /\ SoleUser' /\ Singles' /\ DownAgree'
    BY <1>1, <2>4 DEF Stages, Seen, ServedAgree, Settled, DownAgree, SoleUser, Agreement, Singles, Single
  <2>. QED BY <2>13, <2>14 DEF Agreement
<1>. QED BY <1>3, <1>4

\* Before a boot, or during one, nobody works.
LEMMA QuietAgree ==
    ASSUME phase' = "boot" \/ phase' = "up", \A w \in Workers : req'[w] = NoRequest, Singles', BootAgree',
           phase' = "up" => \A i \in Ids : i \notin tainted' => Agree(i)'
    PROVE  Agreement'
  BY DEF Agreement, SoleUser, ServedAgree, Settled, Stages, Seen, DownAgree

LEMMA BootAgrees ==
    ASSUME Base, Agreement, Boot
    PROVE  Agreement'
<1>1. /\ table' = table /\ stale' = stale /\ UNCHANGED <<config, sip>>
      /\ device_map_' = EmptyMap /\ req' = req /\ \A w \in Workers : req[w] = NoRequest
  BY DEF Boot, Base, Quiet, workVars, diskVars, deviceVars
<1>2. CASE phase' = "boot" /\ next' = 1 /\ tainted' = tainted
  <2>1. DOMAIN table = 1 .. Len(table) /\ Len(table) \in Nat
    BY LenProperties DEF Base, TypeOK
  <2>2. \A n \in DOMAIN table : ~ n < 1
    BY <2>1
  <2>3. BootAgree'
    BY <1>1, <1>2, <2>2 DEF BootAgree, EmptyMap
  <2>4. Singles'
    BY <1>1, <1>2 DEF Agreement, Singles, Single
  <2>. QED BY <1>1, <1>2, <2>3, <2>4, QuietAgree
<1>3. CASE phase' = "up" /\ tainted' = {i \in Ids : RowsOf(i) # {}}
  <2>1. \A i \in Ids : i \notin tainted' => \A n \in DOMAIN table' : table'[n].id # i
    BY <1>1, <1>3 DEF RowsOf
  <2>2. Singles'
    BY <2>1 DEF Singles, Single
  <2>3. \A i \in Ids : i \notin tainted' => Agree(i)'
    BY <1>1, <2>1 DEF Agree, EmptyMap
  <2>4. BootAgree'
    BY <1>3 DEF BootAgree
  <2>. QED BY <1>1, <1>3, <2>2, <2>3, <2>4, QuietAgree
<1>. QED BY <1>2, <1>3 DEF Boot

LEMMA OtherAgree ==
    ASSUME Base, Agreement, Boot \/ Serve \/ Upload \/ Crash \/ UNCHANGED vars
    PROVE  Agreement'
<1>1. table' = table
  BY DEF Boot, Serve, Upload, Crash, vars, diskVars
<1>2. CASE Serve
  <2>1. /\ phase = "boot" /\ next > Len(table) /\ next \in Nat /\ phase' = "up"
        /\ UNCHANGED <<device_map_, config, sip, req, tainted, stale>>
        /\ \A w \in Workers : req[w] = NoRequest
    BY <1>2 DEF Serve, Base, TypeOK, Quiet, deviceVars, workVars, histVars
  <2>2. DOMAIN table = 1 .. Len(table) /\ Len(table) \in Nat
    BY LenProperties DEF Base, TypeOK
  <2>3. \A n \in DOMAIN table : n < next
    BY <2>1, <2>2
  <2>4. \A i \in Ids : i \notin tainted => Agree(i)
    BY <2>1, <2>3 DEF Agreement, BootAgree, Agree
  <2>5. \A i \in Ids : i \notin tainted' => Agree(i)'
    BY <1>1, <2>1, <2>4, UntouchedAgree
  <2>6. Singles'
    BY <1>1, <2>1 DEF Agreement, Singles, Single
  <2>7. BootAgree'
    BY <2>1 DEF BootAgree
  <2>. QED BY <2>1, <2>5, <2>6, <2>7, QuietAgree
<1>3. CASE Upload \/ UNCHANGED vars
  <2>1. UNCHANGED <<table, phase, next, device_map_, config, sip, pc, req, target, tainted, stale>>
    BY <1>3 DEF Upload, vars, diskVars, phaseVars, deviceVars, workVars, histVars
  <2>2. ServedAgree'
    BY <2>1 DEF Agreement, ServedAgree, Settled, Handlers, Names, Agree, Describes, Recorded
  <2>3. Stages'
    BY <2>1 DEF Agreement, Stages, Stage, Seen, HasTarget, Agree, Written, Describes, Recorded
  <2>4. BootAgree'
    BY <2>1 DEF Agreement, BootAgree, Describes, Recorded
  <2>5. Singles' /\ SoleUser' /\ DownAgree'
    BY <2>1 DEF Agreement, Singles, Single, SoleUser, DownAgree, RowsOf
  <2>. QED BY <2>2, <2>3, <2>4, <2>5 DEF Agreement
<1>4. CASE Crash
  BY <1>1, <1>4, EndsAgree DEF Crash
<1>. QED BY <1>2, <1>3, <1>4, BootAgrees

LEMMA AgreementStep ==
    ASSUME Base, Agreement, [Next]_vars
    PROVE  Agreement'
<1>1. CASE initFromDB \/ Serve \/ Crash \/ Upload \/ UNCHANGED vars
  BY <1>1, BootRowAgree, OtherAgree DEF initFromDB
<1>2. ASSUME NEW w \in Workers, Receive(w) PROVE Agreement'
  BY <1>2, ReceiveAgree
<1>3. ASSUME NEW w \in Workers, deviceCreate(w) PROVE Agreement'
  <2>1. req[w] \in Request /\ req[w] # NoRequest /\ req[w].op = "create"
    BY <1>3, Working DEF deviceCreate, Base
  <2>. QED BY <1>3, <2>1, ChecksAgree, AddAgree, CopyAgree, InsertAgree DEF deviceCreate
<1>4. ASSUME NEW w \in Workers, deviceDelete(w) PROVE Agreement'
  <2>1. req[w] \in Request /\ req[w] # NoRequest /\ req[w].op = "delete"
    BY <1>4, Working DEF deviceDelete, Base
  <2>. QED BY <1>4, <2>1, FindAgree, RemoveAgree, CopyAgree, DeleteAgree DEF deviceDelete
<1>5. ASSUME NEW w \in Workers, deviceUpdate(w) PROVE Agreement'
  <2>1. req[w] \in Request /\ req[w] # NoRequest /\ req[w].op = "update"
    BY <1>5, Working DEF deviceUpdate, Base
  <2>. QED BY <1>5, <2>1, ChecksAgree, FindAgree, UpdateAgree, ReinitAgree DEF deviceUpdate
<1>6. ASSUME NEW w \in Workers, deviceStart(w) PROVE Agreement'
  <2>1. req[w] \in Request /\ req[w] # NoRequest /\ req[w].op = "start"
    BY <1>6, Working DEF deviceStart, Base
  <2>. QED BY <1>6, <2>1, ChecksAgree, FindAgree, StartStopAgree, StatusAgree DEF deviceStart
<1>7. ASSUME NEW w \in Workers, deviceStop(w) PROVE Agreement'
  <2>1. req[w] \in Request /\ req[w] # NoRequest /\ req[w].op = "stop"
    BY <1>7, Working DEF deviceStop, Base
  <2>. QED BY <1>7, <2>1, ChecksAgree, FindAgree, StartStopAgree, StatusAgree DEF deviceStop
<1>. QED BY <1>1, <1>2, <1>3, <1>4, <1>5, <1>6, <1>7 DEF Next

LEMMA InitAgreement == Init => Agreement
  BY DEF Init, Agreement, Singles, Single, SoleUser, ServedAgree, Stages, Seen, BootAgree, DownAgree, Settled

LEMMA AgreementHolds == Spec => [](Base /\ Agreement)
<1>1. Init => Base /\ Agreement
  BY InitBase, InitAgreement
<1>2. Base /\ Agreement /\ [Next]_vars => (Base /\ Agreement)'
  BY BaseStep, AgreementStep
<1>. QED BY <1>1, <1>2, PTL DEF Spec

----
(***************************************************************************)
(* Theorems.                                                               *)
(***************************************************************************)
\* The variables have their types, whoever asks for what and whichever
\* statement fails.
THEOREM TypeCorrect == Spec => []TypeOK
<1>1. Base => TypeOK
  BY DEF Base
<1>. QED BY <1>1, BaseHolds, PTL

\* Whoever asks for what, a worker's device outlives the worker's request
\* (getDeviceMap's snapshot in deviceStart, deviceStop and deviceUpdate).
THEOREM TargetsStayAlive == Spec => []TargetsAlive
<1>1. ASSUME Base, NEW w \in Workers, pc[w] \in {"update", "init", "start", "stop", "status", "reply"}
      PROVE  config[target[w]] # NoConfig /\ config[target[w]].id = req[w].id
  <2>1. HasTarget(w)
    <3>1. req[w] # NoRequest /\ req[w] \in Request /\ pc[w] \in LabelsOf(req[w].op)
      BY <1>1 DEF Base, TypeOK, InPlace
    <3>2. req[w].op \in {"update", "start", "stop"}
      BY <1>1, <3>1 DEF LabelsOf, Request
    <3>. QED BY <1>1, <3>1, <3>2 DEF HasTarget
  <2>2. target[w] \in held[w] /\ config[target[w]].id = req[w].id
    BY <1>1, <2>1 DEF Base, TargetHeld
  <2>3. config[target[w]] \in Config
    BY <1>1, <2>2 DEF Base, Alive
  <2>. QED BY <2>2, <2>3, NamesDistinct
<1>2. Base => TargetsAlive
  BY <1>1 DEF TargetsAlive
<1>. QED BY <1>2, BaseHolds, PTL

\* Whoever asks for what, insertDevice and deleteDevice lose no change of the map.
THEOREM NoLostUpdate == Spec => MapUpdatesKept
<1>1. Base /\ [Next]_vars =>
          [phase = "up" /\ phase' = "up" =>
              \A i, j \in Ids : device_map_'[i] # device_map_[i] /\ device_map_'[j] # device_map_[j] => i = j]_vars
  BY OneEntry
<1>. QED BY <1>1, BaseHolds, PTL DEF Spec, MapUpdatesKept

\* Whoever asks for what, crashes and failing statements included, map and table
\* agree on every device between its requests, if no two of these overlapped
\* (deviceCreate, deviceDelete, deviceUpdate, initFromDB).
THEOREM MapMatches == Spec => []MapMatchesTable
<1>1. Base /\ Agreement => MapMatchesTable
  BY DEF Agreement, Singles, Single, ServedAgree, Agree, Describes, MapMatchesTable, RowsOf, Settled
<1>. QED BY <1>1, AgreementHolds, PTL

\* Of such a device the row's status says whether it runs, if the last
\* modifyDeviceStatus did not fail and the boot could start it: no order of starts
\* and stops of other devices, by any workers, confuses it.
THEOREM RecordsKept == Spec => []RunningRecorded
<1>1. Base /\ Agreement => RunningRecorded
  BY DEF Agreement, ServedAgree, Agree, Recorded, RunningRecorded, RowsOf, Settled
<1>. QED BY <1>1, AgreementHolds, PTL

\* Only requests that overlap, and a boot that did not find the rows, can put an
\* id into two rows of the table, though it has no unique key and addDeviceInfo
\* does not look (deviceCreate).
THEOREM DuplicatesOnlyByOverlap == Spec => []DuplicatesExplained
<1>1. Base /\ Agreement => DuplicatesExplained
  BY DEF Agreement, Singles, Single, DuplicatesExplained, Doubled, RowsOf
<1>. QED BY <1>1, AgreementHolds, PTL
====
