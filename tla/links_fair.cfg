SPECIFICATION FairSpec
CONSTANTS
    a1 = a1
    a2 = a2
    a3 = a3
    NoReason = NoReason
    Actors <- Pair
    Casts <- FairCasts
CHECK_DEADLOCK FALSE
PROPERTIES FateShared
