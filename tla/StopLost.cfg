\* A live stream that is stopped before its thread has set is_runing_.
CONSTANTS
    Calls = {live, clip}
    Playback = {clip}
    Clients = {r1}
    NoCall = NoCall
    NoClient = NoClient
    Fds = {f1}
    NoFd = NoFd
    Loop = Loop
    Http = Http
    FilePackets = 1
    MaxAcks = 2
SPECIFICATION FairSpec
PROPERTIES
    StopReturns
