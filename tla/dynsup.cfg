SPECIFICATION FairSpec
CONSTANTS
    Configs <- AllConfigs
    None = None
    x = x
CHECK_DEADLOCK FALSE
INVARIANTS TablesAgree EndsClean
PROPERTIES OnlyOwnNames StopEnds
