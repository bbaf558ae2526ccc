\* Two starts of one client, one heartbeat thread, one clean-up thread, one automatic retry.
CONSTANTS
    MaxStarts = 2
    Beaters = {h1}
    Byers = {b1}
    MaxEvents = 2
    MaxLost = 1
    MaxRetries = 1
    Null = Null
    Wild = Wild
SPECIFICATION FairSpec
INVARIANTS
    TypeOK
    JoinedUseLive
    NoContextLeak
    UnregisteredBeforeQuit
PROPERTIES
    KeepsRegistration
    CloseReturns
    RegistersUnlessClosed
    KeepalivesGoOn
