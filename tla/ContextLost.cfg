\* One start, one heartbeat thread, one clean-up thread: enough for a context that goes away.
CONSTANTS
    MaxStarts = 1
    Beaters = {h1}
    Byers = {b1}
    MaxEvents = 2
    MaxLost = 1
    MaxRetries = 1
    Null = Null
    Wild = Wild
SPECIFICATION Spec
INVARIANT DetachedUseLive
