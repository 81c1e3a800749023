SPECIFICATION Spec
CONSTANTS
    a1 = a1
    a2 = a2
    a3 = a3
    NoReason = NoReason
    Actors <- Trio
    Casts <- AllCasts
CHECK_DEADLOCK FALSE
INVARIANTS SignalledOnce 
