SPECIFICATION FairSpec
CONSTANTS
    Policies <- FairPolicies
    None = None
CHECK_DEADLOCK FALSE
PROPERTIES SignalledReplaced
