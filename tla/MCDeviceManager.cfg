\* Two workers, each with any request for any of two devices; every statement may fail.
CONSTANTS
    Workers = {w1, w2}
    Ids = {a, b}
    Ports = {p1}
    Paths = {v1}
    Devices = {d1, d2, d3}
    NoDevice = NoDevice
    NoConfig = NoConfig
    NoRequest = NoRequest
    NoWorker = NoWorker
    NoMap = NoMap
    SqlFaults = {"port", "add", "remove", "update", "status", "load"}
    MaxRows = 2
    Racy = {"create", "delete"}
SPECIFICATION Spec
SYMMETRY Symmetry
INVARIANTS
    TypeOK
    MapMatchesTable
    RunningRecorded
    DuplicatesExplained
PROPERTIES
    MapUpdatesKept
    KeepsRegistry
