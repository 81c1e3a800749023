SPECIFICATION FairSpec
CONSTANTS
    Actors = {a, b}
    Idle = Idle
    MonitorRefs = {1, 2}
    RequestIds = {1, 2}
    Outside = Outside
    Timers = {t}
    MaxQueue = 2
    Waits = {v, w}
    MaxSpurious = 1
    GroupKeys = {g, h}
    MaxJoins = 2
    Width = 2
    MaxCast = 1
CHECK_DEADLOCK FALSE
INVARIANTS DownOnce ResultMeaning   FairShares
PROPERTIES    SignalEndsApplication
