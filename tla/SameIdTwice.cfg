\* Two workers create the same device.
CONSTANTS
    Workers = {w1, w2}
    Ids = {a}
    Ports = {p1, p2}
    Paths = {v1}
    Devices = {d1, d2}
    NoDevice = NoDevice
    NoConfig = NoConfig
    NoRequest = NoRequest
    NoWorker = NoWorker
    NoMap = NoMap
    SqlFaults = {}
    MaxRows = 2
    Racy = {"create"}
SPECIFICATION Spec
SYMMETRY Symmetry
INVARIANTS
    IdsUnique
