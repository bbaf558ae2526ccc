\* One client, a live call or a playback, under the scheduler's fairness.
CONSTANTS
    Calls = {live, clip}
    Playback = {clip}
    Clients = {r1}
    NoCall = NoCall
    NoClient = NoClient
    Fds = {f1}
    NoFd = NoFd
    Loop = Loop
    Http = Http
    FilePackets = 1
    MaxAcks = 2
SPECIFICATION FairSpec
PROPERTIES
    StopObeyedInLoop
    PlaybackStopReturns
    CleanerFinishes
    CloseReturnsWithoutLive
