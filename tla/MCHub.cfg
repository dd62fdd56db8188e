SPECIFICATION FairSpec
CONSTANTS
    Window = {w1}
    Value = {0, 1}
    QueueSize = 1
    MaxEvents = 2
    MaxBreaks = 1
    None = None
INVARIANTS NewestOnItsWay HeldUntilSeen
CHECK_DEADLOCK FALSE
PROPERTY Converges
