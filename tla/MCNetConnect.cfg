\* Two calls at a time, and so many files and HTTP connections that descriptors run out.
CONSTANTS
    Clients = {c1, c2}
    Fds = {0, 1, 2}
    MinPort = 1
    MaxPort = 2
    MaxOther = 1
    Free = Free
    Other = Other
    Probe = Probe
    NoFd = NoFd
    NoPort = NoPort
    Idle = Idle
SYMMETRY ClientSymmetry
SPECIFICATION Spec
INVARIANTS
    TypeOK
    NoLeak
    HoldersOwn
PROPERTIES
    BindFailsOnlyIfOutrun
