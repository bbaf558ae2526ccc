\* One worker and a restart of the program.
CONSTANTS
    Workers = {w1}
    Ids = {a}
    Ports = {p1}
    Paths = {v1}
    Devices = {d1, d2}
    NoDevice = NoDevice
    NoConfig = NoConfig
    NoRequest = NoRequest
    NoWorker = NoWorker
    NoMap = NoMap
    SqlFaults = {}
    MaxRows = 2
    Racy = {}
SPECIFICATION Spec
SYMMETRY Symmetry
INVARIANTS
    LoginSurvives
