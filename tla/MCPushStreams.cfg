\* A live call and a playback call, with a duplicated ACK each.
CONSTANTS
    Calls = {live, clip}
    Playback = {clip}
    Clients = {r1, r2}
    NoCall = NoCall
    NoClient = NoClient
    Fds = {f1, f2}
    NoFd = NoFd
    Loop = Loop
    Http = Http
    FilePackets = 1
    MaxAcks = 2
SPECIFICATION Spec
SYMMETRY ClientSymmetry
INVARIANTS
    TypeOK
    SingleOwner
    NoOrphanThread
    OpenWhileStreaming
    NoStreamOutlivesClose
    CleanerStopsItsOwn
    IInv
PROPERTIES
    KeepsLifecycle
