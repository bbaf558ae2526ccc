\* Two INVITEs before the first ACK.
CONSTANTS
    Calls = {live, clip}
    Playback = {clip}
    Clients = {r1, r2}
    NoCall = NoCall
    NoClient = NoClient
    Fds = {f1, f2}
    NoFd = NoFd
    Loop = Loop
    Http = Http
    FilePackets = 1
    MaxAcks = 1
SPECIFICATION Spec
SYMMETRY ClientSymmetry
INVARIANTS
    ByeMatchesCall
