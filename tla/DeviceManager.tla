---- MODULE DeviceManager ----
(***************************************************************************)
(* The registry of virtual devices: DeviceManager (requests handled by the *)
(* HTTP server's worker threads), SQLiteUtils (the table that survives the *)
(* program) and, of each GB28181Device, its configuration and whether its  *)
(* SipClient runs.  The model covers the program's whole life: booting     *)
(* from the table, serving, ending by a crash or by std::terminate, and    *)
(* being started again.                                                    *)
(*                                                                         *)
(* Every call of SQLiteUtils holds db_mutex_ for its only statement and is *)
(* one step; so is every look at device_map_.  A request that lacks a      *)
(* parameter is answered before it touches anything and is left out, as    *)
(* are the requests that only read (deviceList, getDeviceFilePath).        *)
(***************************************************************************)
EXTENDS Naturals, Sequences

CONSTANTS
    Workers,   \* threads of the HTTP server
    Ids,       \* device_sip_id
    Ports,     \* local_port
    Paths,     \* file_path
    Devices,   \* GB28181Device objects; one can be used again once destroyed
    NoDevice, NoConfig, NoRequest, NoWorker, NoMap,
    SqlFaults, \* statements that may fail: "port", "add", "remove", "update", "status", "load"
    MaxRows,   \* rows of the table (a bound)
    Racy       \* the operations that may be asked for an id that a worker handles,
               \* or that is tainted (a bound)

ASSUME Pools ==
    /\ NoDevice \notin Devices
    /\ NoWorker \notin Workers
    /\ SqlFaults \subseteq {"port", "add", "remove", "update", "status", "load"}
    /\ MaxRows \in Nat

\* What a request and a row say of username and password, and what is said of
\* a string left empty.
Secrets == {"user", "pass", "empty"}
Given == [username |-> "user", password |-> "pass"]

Config ==
    [id : Ids, port : Ports, path : Paths, status : {0, 1},
     login : [username : Secrets, password : Secrets]]

Request ==
    [op : {"create", "update"}, id : Ids, port : Ports, path : Paths]
        \cup [op : {"delete", "start", "stop"}, id : Ids]

ASSUME NamesDistinct ==
    /\ NoConfig \notin Config
    /\ NoRequest \notin Request
    /\ NoMap \notin [Ids -> Devices \cup {NoDevice}]

VARIABLES
    \* what survives the program
    table,       \* the rows, in the order of their primary key
    files,       \* the video files that exist
    \* the program
    phase,       \* "down", "boot" or "up"
    next,        \* booting: the row that initFromDB comes to next
    device_map_, map_lock_,
    config,      \* device_config_ of each object; NoConfig: not allocated
    sip,         \* its SipClient: "idle", "running", or "broken" (its thread
                 \* runs although sip_context_ is null)
    leaked,      \* ports held by eXosip contexts that nobody refers to
    \* the workers
    pc, req,
    target,      \* the device a worker found
    held,        \* the objects its snapshot of the map keeps alive
    copy,        \* the new map inside insertDevice or deleteDevice
    \* history variables
    tainted,     \* ids of which, since the program was started, two requests were
                 \* handled at once, or that the boot did not find, or found twice
    stale        \* ids whose row may have another status than their device: the boot
                 \* could not start it, or modifyDeviceStatus failed

diskVars   == <<table, files>>
phaseVars  == <<phase, next>>
deviceVars == <<config, sip, leaked>>
workVars   == <<pc, req, target, held, copy>>
histVars   == <<tainted, stale>>
vars == <<diskVars, phaseVars, device_map_, map_lock_, deviceVars, workVars, histVars>>

EmptyMap == [i \in Ids |-> NoDevice]

RowsOf(id) == {n \in DOMAIN table : table[n].id = id}
Doubled(id) == \E m, n \in RowsOf(id) : m # n

Init ==
    /\ table = <<>>
    /\ files = {}
    /\ phase = "down"
    /\ next = 0
    /\ device_map_ = EmptyMap
    /\ map_lock_ = NoWorker
    /\ config = [d \in Devices |-> NoConfig]
    /\ sip = [d \in Devices |-> "idle"]
    /\ leaked = {}
    /\ pc = [w \in Workers |-> "idle"]
    /\ req = [w \in Workers |-> NoRequest]
    /\ target = [w \in Workers |-> NoDevice]
    /\ held = [w \in Workers |-> {}]
    /\ copy = [w \in Workers |-> NoMap]
    /\ tainted = {}
    /\ stale = {}

----
(***************************************************************************)
(* Objects.  A device is destroyed with its last shared_ptr, be it in the  *)
(* map or in a worker's snapshot of an earlier map.                        *)
(***************************************************************************)
Referenced(map, snaps) ==
    {map[i] : i \in Ids} \cup UNION {snaps[w] : w \in Workers}

\* The map becomes map, the snapshots become snaps, the configurations cfg of
\* the objects no longer referred to vanish.
Drop(map, snaps, cfg) ==
    /\ device_map_' = map
    /\ held' = snaps
    /\ config' = [d \in Devices |-> IF d \in Referenced(map, snaps) THEN cfg[d] ELSE NoConfig]

\* ~SipClient destroys loop_th_: std::terminate, if the thread was not joined.
Terminates(map, snaps) ==
    \E d \in Devices : sip[d] # "idle" /\ d \notin Referenced(map, snaps)

\* The end of the program, however it comes: only the table and files remain.
ProgramEnds ==
    /\ phase' = "down"
    /\ next' = 0
    /\ device_map_' = EmptyMap
    /\ map_lock_' = NoWorker
    /\ config' = [d \in Devices |-> NoConfig]
    /\ sip' = [d \in Devices |-> "idle"]
    /\ leaked' = {}
    /\ pc' = [w \in Workers |-> "idle"]
    /\ req' = [w \in Workers |-> NoRequest]
    /\ target' = [w \in Workers |-> NoDevice]
    /\ held' = [w \in Workers |-> {}]
    /\ copy' = [w \in Workers |-> NoMap]
    /\ tainted' = {i \in Ids : Doubled(i)}
    /\ stale' = {}

\* SipClient::start can bind a port that nobody holds; it may fail all the same.
PortFree(p) ==
    /\ p \notin leaked
    /\ \A d \in Devices : sip[d] # "idle" => config[d].port # p

----
(***************************************************************************)
(* initFromDB, on the main thread before the HTTP server listens.          *)
(***************************************************************************)
\* queryAllDevice stores the password's column into username.
LoadedLogin(row) == [username |-> row.login.password, password |-> "empty"]
LoadedConfig(row) == [row EXCEPT !.login = LoadedLogin(row)]

\* A failed query is an empty table.
Boot ==
    /\ phase = "down"
    /\ \/ /\ phase' = "boot"
          /\ next' = 1
          /\ UNCHANGED tainted
       \/ /\ "load" \in SqlFaults
          /\ phase' = "up"
          /\ next' = 0
          /\ tainted' = {i \in Ids : RowsOf(i) # {}}
    /\ UNCHANGED <<diskVars, device_map_, map_lock_, deviceVars, workVars, stale>>

\* The device of a row that says 1 is started; a failure is only logged.
BootStart(d, row) ==
    \/ /\ row.status = 1
       /\ PortFree(row.port)
       /\ sip' = [sip EXCEPT ![d] = "running"]
       /\ UNCHANGED stale
    \/ /\ row.status = 1
       /\ stale' = stale \cup {row.id}
       /\ UNCHANGED sip
    \/ /\ row.status = 0
       /\ UNCHANGED <<sip, stale>>

\* A boot that counts two rows for one.
BootRowSkipping ==
    /\ phase = "boot"
    /\ next <= Len(table)
    /\ \E d \in Devices :
          LET row == table[next]
              map == [device_map_ EXCEPT ![row.id] = d]
          IN /\ config[d] = NoConfig
             /\ \/ /\ ~ Terminates(map, held)
                   /\ Drop(map, held, [config EXCEPT ![d] = LoadedConfig(row)])
                   /\ BootStart(d, row)
                   /\ next' = next + 2
                   /\ UNCHANGED <<phase, map_lock_, leaked, pc, req, target, copy, tainted>>
                \/ Terminates(map, held) /\ ProgramEnds
    /\ UNCHANGED diskVars

\* One turn of the loop of initFromDB: the row's device replaces the entry of an
\* earlier row of the same id.
BootRow ==
    /\ phase = "boot"
    /\ next <= Len(table)
    /\ \E d \in Devices :
          LET row == table[next]
              map == [device_map_ EXCEPT ![row.id] = d]
          IN /\ config[d] = NoConfig
             /\ \/ /\ ~ Terminates(map, held)
                   /\ Drop(map, held, [config EXCEPT ![d] = LoadedConfig(row)])
                   /\ BootStart(d, row)
                   /\ next' = next + 1
                   /\ UNCHANGED <<phase, map_lock_, leaked, pc, req, target, copy, tainted>>
                \/ Terminates(map, held) /\ ProgramEnds
    /\ UNCHANGED diskVars

Serve ==
    /\ phase = "boot"
    /\ next > Len(table)
    /\ phase' = "up"
    /\ next' = 0
    /\ UNCHANGED <<diskVars, device_map_, map_lock_, deviceVars, workVars, histVars>>

\* A signal, a kill, a power failure, a SipClient's thread that uses its null
\* context, or the detached heartbeat thread of a destroyed SipClient.
Crash ==
    /\ phase # "down"
    /\ ProgramEnds
    /\ UNCHANGED diskVars

----
(***************************************************************************)
(* Requests.                                                               *)
(***************************************************************************)
At(w, label) == phase = "up" /\ pc[w] = label
Goto(w, label) == pc' = [pc EXCEPT ![w] = label]

\* The statement succeeds, or it throws and the call returns false.
Succeeds(kind) == IF kind \in SqlFaults THEN BOOLEAN ELSE {TRUE}

\* The map's last write and the worker's reply: its snapshot is dropped.
ReplyWith(w, map) ==
    LET snaps == [held EXCEPT ![w] = {}] IN
    \/ /\ ~ Terminates(map, snaps)
       /\ Drop(map, snaps, config)
       /\ Goto(w, "idle")
       /\ req' = [req EXCEPT ![w] = NoRequest]
       /\ target' = [target EXCEPT ![w] = NoDevice]
       /\ copy' = [copy EXCEPT ![w] = NoMap]
       /\ map_lock_' = IF map_lock_ = w THEN NoWorker ELSE map_lock_
       /\ UNCHANGED <<phaseVars, sip, leaked, histVars>>
    \/ /\ Terminates(map, snaps)
       /\ ProgramEnds

Reply(w) == ReplyWith(w, device_map_)

Move(w, label) ==
    /\ Goto(w, label)
    /\ UNCHANGED <<phaseVars, device_map_, map_lock_, deviceVars, req, target, held, copy, tainted>>

Continue(w, label) == Move(w, label) /\ UNCHANGED stale

Names(w, id) == req[w] # NoRequest /\ req[w].id = id
Handlers(id) == {w \in Workers : Names(w, id)}

WithinBound(q) ==
    q.id \in tainted \/ Handlers(q.id) # {} =>
        q.op \in Racy /\ \A v \in Handlers(q.id) : req[v].op \in Racy

FirstStep(op) == IF op = "create" THEN "exist" ELSE "find"

\* Any worker may get the next request, for any id, whatever the others handle.
Receive(w) ==
    /\ At(w, "idle")
    /\ \E q \in Request :
          /\ WithinBound(q)
          /\ req' = [req EXCEPT ![w] = q]
          /\ Goto(w, FirstStep(q.op))
          /\ tainted' = IF Handlers(q.id) # {} THEN tainted \cup {q.id} ELSE tainted
    /\ UNCHANGED <<diskVars, phaseVars, device_map_, map_lock_, deviceVars, target, held, copy, stale>>

\* The upload handler, as one step: the file is written under a fresh name.
Upload ==
    /\ phase = "up"
    /\ \E p \in Paths \ files : files' = files \cup {p}
    /\ UNCHANGED <<table, phaseVars, device_map_, map_lock_, deviceVars, workVars, histVars>>

\* isFileExist, in deviceCreate and deviceUpdate.
FileExist(w) ==
    /\ At(w, "exist")
    /\ \/ /\ req[w].path \in files
          /\ Continue(w, IF req[w].op = "create" THEN "unique" ELSE "update")
       \/ /\ req[w].path \notin files
          /\ Reply(w)
    /\ UNCHANGED diskVars

\* deviceCreate without the look at the map.
NotInMapUnchecked(w) ==
    /\ At(w, "unique")
    /\ map_lock_ = NoWorker
    /\ Continue(w, "port")
    /\ UNCHANGED diskVars

\* isInMap, in deviceCreate.
NotInMap(w) ==
    /\ At(w, "unique")
    /\ map_lock_ = NoWorker
    /\ \/ device_map_[req[w].id] = NoDevice /\ Continue(w, "port")
       \/ device_map_[req[w].id] # NoDevice /\ Reply(w)
    /\ UNCHANGED diskVars

\* isExistLocalHost; a statement that fails counts no row.
PortUnused(w) ==
    /\ At(w, "port")
    /\ \E ok \in Succeeds("port") :
          LET used == ok /\ \E n \in DOMAIN table : table[n].port = req[w].port IN
          \/ ~ used /\ Continue(w, "add")
          \/ used /\ Reply(w)
    /\ UNCHANGED diskVars

NewConfig(q) == [id |-> q.id, port |-> q.port, path |-> q.path, status |-> 0, login |-> Given]

addDeviceInfo(w) ==
    /\ At(w, "add")
    /\ \/ /\ Len(table) < MaxRows
          /\ table' = Append(table, NewConfig(req[w]))
          /\ Continue(w, "copy")
       \/ /\ "add" \in SqlFaults
          /\ Reply(w)
          /\ UNCHANGED table
    /\ UNCHANGED files

\* isInMap, and in deviceStart, deviceStop and deviceUpdate the snapshot they
\* go on with: whichever of the two lookups fails, the answer is the same.
\* deviceUpdate refuses a device whose configuration in memory says 1.
Find(w) ==
    /\ At(w, "find")
    /\ map_lock_ = NoWorker
    /\ LET d  == device_map_[req[w].id]
           op == req[w].op
       IN \/ /\ d = NoDevice
             /\ Reply(w)
          \/ /\ d # NoDevice
             /\ op = "delete"
             /\ Continue(w, "remove")
          \/ /\ d # NoDevice
             /\ op = "update" => config[d].status # 1
             /\ op # "delete"
             /\ Goto(w, IF op = "update" THEN "exist" ELSE op)
             /\ target' = [target EXCEPT ![w] = d]
             /\ held' = [held EXCEPT ![w] = {device_map_[i] : i \in Ids} \ {NoDevice}]
             /\ UNCHANGED <<phaseVars, device_map_, map_lock_, deviceVars, req, copy, histVars>>
          \/ /\ d # NoDevice
             /\ op = "update"
             /\ config[d].status = 1
             /\ Reply(w)
    /\ UNCHANGED diskVars

\* DELETE: the rows that stay keep their order.
DeleteRows(id) ==
    LET kept == {n \in DOMAIN table : table[n].id # id} IN
    \E k \in 0 .. Len(table) : \E old \in [1 .. k -> kept] :
        /\ \A m, n \in 1 .. k : m < n => old[m] < old[n]
        /\ kept = {old[n] : n \in 1 .. k}
        /\ table' = [n \in 1 .. k |-> table[old[n]]]

removeDeviceInfo(w) ==
    /\ At(w, "remove")
    /\ \/ /\ DeleteRows(req[w].id)
          /\ stale' = stale \ {req[w].id}
          /\ Move(w, "copy")
       \/ /\ "remove" \in SqlFaults
          /\ Reply(w)
          /\ UNCHANGED table
    /\ UNCHANGED files

\* The copy taken before the lock is.
CopyMapUnlocked(w) ==
    /\ At(w, "copy")
    /\ copy' = [copy EXCEPT ![w] = device_map_]
    /\ Goto(w, "publish")
    /\ UNCHANGED <<diskVars, phaseVars, device_map_, map_lock_, deviceVars, req, target, held, histVars>>

\* insertDevice and deleteDevice: under map_lock_ the map is copied, ...
CopyMap(w) ==
    /\ At(w, "copy")
    /\ map_lock_ = NoWorker
    /\ map_lock_' = w
    /\ copy' = [copy EXCEPT ![w] = device_map_]
    /\ Goto(w, "publish")
    /\ UNCHANGED <<diskVars, phaseVars, device_map_, deviceVars, req, target, held, histVars>>

\* ... the copy becomes the map, with the new device in it ...
insertDevice(w) ==
    /\ At(w, "publish")
    /\ req[w].op = "create"
    /\ \E d \in Devices :
          /\ config[d] = NoConfig
          /\ LET map   == [copy[w] EXCEPT ![req[w].id] = d]
                 cfg   == [config EXCEPT ![d] = NewConfig(req[w])]
             IN \/ /\ ~ Terminates(map, held)
                   /\ Drop(map, held, cfg)
                   /\ Goto(w, "idle")
                   /\ req' = [req EXCEPT ![w] = NoRequest]
                   /\ copy' = [copy EXCEPT ![w] = NoMap]
                   /\ map_lock_' = IF map_lock_ = w THEN NoWorker ELSE map_lock_
                   /\ UNCHANGED <<phaseVars, sip, leaked, target, histVars>>
                \/ Terminates(map, held) /\ ProgramEnds
    /\ UNCHANGED diskVars

\* ... or without the device, whose file is deleted first.
deleteDevice(w) ==
    /\ At(w, "publish")
    /\ req[w].op = "delete"
    /\ LET d == copy[w][req[w].id] IN
       files' = IF d = NoDevice THEN files ELSE files \ {config[d].path}
    /\ ReplyWith(w, [copy[w] EXCEPT ![req[w].id] = NoDevice])
    /\ UNCHANGED table

\* An UPDATE that writes every column, the status too.
updateDeviceInfoAndStatus(w) ==
    /\ At(w, "update")
    /\ \/ /\ table' = [n \in DOMAIN table |->
                          IF table[n].id = req[w].id THEN NewConfig(req[w]) ELSE table[n]]
          /\ Continue(w, "init")
       \/ /\ "update" \in SqlFaults
          /\ Reply(w)
          /\ UNCHANGED table
    /\ UNCHANGED files

\* deviceUpdate: the row first, the object after it.
updateDeviceInfo(w) ==
    /\ At(w, "update")
    /\ \/ /\ table' = [n \in DOMAIN table |->
                          IF table[n].id = req[w].id
                          THEN [NewConfig(req[w]) EXCEPT !.status = table[n].status]
                          ELSE table[n]]
          /\ Continue(w, "init")
       \/ /\ "update" \in SqlFaults
          /\ Reply(w)
          /\ UNCHANGED table
    /\ UNCHANGED files

\* GB28181Device::init replaces the SipClient and destroys the old one.
Reinit(w) ==
    /\ At(w, "init")
    /\ \/ /\ sip[target[w]] = "idle"
          /\ config' = [config EXCEPT ![target[w]] = NewConfig(req[w])]
          /\ Goto(w, "reply")
          /\ UNCHANGED <<phaseVars, device_map_, map_lock_, sip, leaked, req, target, held, copy, histVars>>
       \/ /\ sip[target[w]] # "idle"
          /\ ProgramEnds
    /\ UNCHANGED diskVars

\* device->start().  The port of a SipClient that runs is taken: by itself.
Start(w) ==
    LET d == target[w] IN
    /\ At(w, "start")
    /\ \/ /\ PortFree(config[d].port)
          /\ sip' = [sip EXCEPT ![d] = "running"]
          /\ Goto(w, "status")
       \/ /\ sip' = [sip EXCEPT ![d] = IF @ = "running" THEN "broken" ELSE @]
          /\ Goto(w, "reply")
    /\ UNCHANGED <<diskVars, phaseVars, device_map_, map_lock_, config, leaked>>
    /\ UNCHANGED <<req, target, held, copy, histVars>>

\* device->close().  The context that a second start replaced is never released.
Stop(w) ==
    LET d == target[w] IN
    /\ At(w, "stop")
    /\ sip' = [sip EXCEPT ![d] = "idle"]
    /\ leaked' = IF sip[d] = "broken" THEN leaked \cup {config[d].port} ELSE leaked
    /\ Goto(w, "status")
    /\ UNCHANGED <<diskVars, phaseVars, device_map_, map_lock_, config, req, target, held, copy, histVars>>

\* modifyDeviceStatus; its result is not looked at.
SetStatus(w, s) ==
    table' = [n \in DOMAIN table |->
                 IF table[n].id = req[w].id THEN [table[n] EXCEPT !.status = s] ELSE table[n]]

\* deviceStop that leaves the status to deviceStart.
modifyDeviceStatusOnStart(w) ==
    /\ At(w, "status")
    /\ \/ req[w].op = "start" /\ SetStatus(w, 1)
       \/ req[w].op = "stop" /\ UNCHANGED table
    /\ Continue(w, "reply")
    /\ UNCHANGED files

modifyDeviceStatus(w) ==
    /\ At(w, "status")
    /\ \/ /\ SetStatus(w, IF req[w].op = "start" THEN 1 ELSE 0)
          /\ stale' = stale \ {req[w].id}
       \/ /\ "status" \in SqlFaults
          /\ stale' = stale \cup {req[w].id}
          /\ UNCHANGED table
    /\ Move(w, "reply")
    /\ UNCHANGED files

Finish(w) ==
    /\ At(w, "reply")
    /\ Reply(w)
    /\ UNCHANGED diskVars

Doing(w, op) == req[w] # NoRequest /\ req[w].op = op

deviceCreate(w) ==
    /\ Doing(w, "create")
    /\ FileExist(w) \/ NotInMap(w) \/ PortUnused(w) \/ addDeviceInfo(w) \/ CopyMap(w) \/ insertDevice(w)

deviceDelete(w) ==
    /\ Doing(w, "delete")
    /\ Find(w) \/ removeDeviceInfo(w) \/ CopyMap(w) \/ deleteDevice(w)

deviceUpdate(w) ==
    /\ Doing(w, "update")
    /\ Find(w) \/ FileExist(w) \/ updateDeviceInfo(w) \/ Reinit(w) \/ Finish(w)

deviceStart(w) ==
    /\ Doing(w, "start")
    /\ Find(w) \/ Start(w) \/ modifyDeviceStatus(w) \/ Finish(w)

deviceStop(w) ==
    /\ Doing(w, "stop")
    /\ Find(w) \/ Stop(w) \/ modifyDeviceStatus(w) \/ Finish(w)

initFromDB == Boot \/ BootRow

Next ==
    \/ initFromDB \/ Serve \/ Crash \/ Upload
    \/ \E w \in Workers :
          \/ Receive(w)
          \/ deviceCreate(w) \/ deviceDelete(w) \/ deviceUpdate(w)
          \/ deviceStart(w) \/ deviceStop(w)

Spec == Init /\ [][Next]_vars

----
(***************************************************************************)
(* Properties.                                                             *)
(***************************************************************************)
Labels == {"idle", "exist", "unique", "port", "add", "find", "remove", "copy", "publish",
           "update", "init", "start", "stop", "status", "reply"}

Maps == [Ids -> Devices \cup {NoDevice}]

TypeOK ==
    /\ table \in Seq(Config)
    /\ Len(table) <= MaxRows
    /\ files \subseteq Paths
    /\ phase \in {"down", "boot", "up"}
    /\ next \in 0 .. Len(table) + 1
    /\ device_map_ \in Maps
    /\ map_lock_ \in Workers \cup {NoWorker}
    /\ config \in [Devices -> Config \cup {NoConfig}]
    /\ sip \in [Devices -> {"idle", "running", "broken"}]
    /\ leaked \subseteq Ports
    /\ pc \in [Workers -> Labels]
    /\ req \in [Workers -> Request \cup {NoRequest}]
    /\ target \in [Workers -> Devices \cup {NoDevice}]
    /\ held \in [Workers -> SUBSET Devices]
    /\ copy \in [Workers -> Maps \cup {NoMap}]
    /\ tainted \subseteq Ids
    /\ stale \subseteq Ids

\* No request names id at the moment, and none did while another one was handled.
Settled(id) ==
    /\ phase = "up"
    /\ id \notin tainted
    /\ Handlers(id) = {}

\* Between requests, the map has a device exactly for the id of a row, and the
\* device's port and file are the row's: so what is listed can be managed, and
\* a restart brings back what was there.  Requests for other devices, in any order
\* and by any worker, crashes and failing statements do not change that, except
\* for a device of which two requests overlapped and for the rows that a failed
\* query at boot did not find.
MapMatchesTable ==
    \A id \in Ids : Settled(id) =>
        /\ device_map_[id] = NoDevice <=> RowsOf(id) = {}
        /\ \A m, n \in RowsOf(id) : m = n
        /\ \A n \in RowsOf(id) :
              /\ config[device_map_[id]].port = table[n].port
              /\ config[device_map_[id]].path = table[n].path

\* Between requests, the row of a device says whether it runs: a crash brings back
\* those that were started and not those whose stop was answered.  The exceptions
\* are those of MapMatchesTable, a device that the boot could not start, and one
\* whose last modifyDeviceStatus failed, for nobody looks at its result.
RunningRecorded ==
    \A id \in Ids :
        Settled(id) /\ device_map_[id] # NoDevice /\ id \notin stale =>
            \A n \in RowsOf(id) : table[n].status = 1 <=> sip[device_map_[id]] # "idle"

\* A second row of one id is written only by requests that overlap, or after a boot
\* that did not find the first.  (The boot that comes next puts the later row's
\* device over the earlier one's; if that one runs, the program ends.)
DuplicatesExplained == \A id \in Ids : Doubled(id) => id \in tainted

\* A worker of deviceStart, deviceStop or deviceUpdate finds its device alive and
\* still its own until it answers, though another worker deletes that device or
\* creates it anew meanwhile.
TargetsAlive ==
    \A w \in Workers : pc[w] \in {"update", "init", "start", "stop", "status", "reply"} =>
        config[target[w]] # NoConfig /\ config[target[w]].id = req[w].id

\* Workers that insert and delete at the same time undo nothing of each other: no
\* step of the serving program changes two entries of the map.
MapUpdatesKept ==
    [][phase = "up" /\ phase' = "up" =>
          \A i, j \in Ids : device_map_'[i] # device_map_[i] /\ device_map_'[j] # device_map_[j] => i = j]_vars

----
(***************************************************************************)
(* The refinement: the registry keeps the promises of DeviceRegistry.  Of  *)
(* tainted ids nothing is seen.                                            *)
(***************************************************************************)
Entry(c) == [port |-> c.port, path |-> c.path]

recordBar == [i \in Ids |-> IF i \in tainted THEN {} ELSE {Entry(table[n]) : n \in RowsOf(i)}]

startedBar == {i \in Ids \ tainted : \E n \in RowsOf(i) : table[n].status = 1}

servedBar ==
    [i \in Ids |-> IF i \in tainted \/ device_map_[i] = NoDevice
                   THEN {} ELSE {Entry(config[device_map_[i]])}]

runningBar == {i \in Ids \ tainted : device_map_[i] # NoDevice /\ sip[device_map_[i]] # "idle"}

Seen(w) == req[w] # NoRequest /\ req[w].id \notin tainted

requestBar == [w \in Workers |-> IF Seen(w) THEN req[w] ELSE NoRequest]

\* The statement of a request is behind it, or the start that failed is.
doneBar == {w \in Workers : Seen(w) /\ pc[w] \in {"copy", "publish", "init", "reply"}}

Registry == INSTANCE DeviceRegistry
    WITH record <- recordBar, started <- startedBar, up <- (phase = "up"),
         served <- servedBar, running <- runningBar, request <- requestBar, done <- doneBar,
         muddled <- tainted, unsure <- stale \ tainted

\* Every step of the workers, of the boot and of a crash is one step of the
\* registry, or none: statements, map and clients together are one record per
\* device that each request changes at most once.
KeepsRegistry == Registry!Spec

----
(***************************************************************************)
(* Statements of the source's comments and error texts that the code       *)
(* breaks.                                                                 *)
(***************************************************************************)
\* A device is only changed while it is closed.
UpdateOnlyClosed ==
    \A w \in Workers : pc[w] \in {"update", "init"} => sip[target[w]] = "idle"

\* A device id that exists is not created again.
IdsUnique == \A m, n \in DOMAIN table : table[m].id = table[n].id => m = n

\* The configuration loaded from a row has the user name and password of the row.
LoginSurvives ==
    \A id \in Ids : Settled(id) /\ device_map_[id] # NoDevice =>
        \A n \in RowsOf(id) : config[device_map_[id]].login = table[n].login
====
