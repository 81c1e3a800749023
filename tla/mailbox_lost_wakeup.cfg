SPECIFICATION FairSpec
CONSTANTS
    s1 = s1
    s2 = s2
    Self = self
    Senders <- OneSender
    Capacities <- One
    MaxSends = 2
CHECK_DEADLOCK FALSE
PROPERTIES
    BlockedUntilSpace
