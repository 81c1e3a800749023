SPECIFICATION FairSpec
CONSTANTS
    s1 = s1
    s2 = s2
    Self = self
    Senders <- TwoSenders
    Capacities <- ZeroToTwo
    MaxSends = 1
CHECK_DEADLOCK FALSE
INVARIANTS DepthAccounting
PROPERTIES SemaphoreRefined
