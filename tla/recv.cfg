SPECIFICATION RecvFairSpec
CONSTANT
    MaxQueued = 2
CHECK_DEADLOCK FALSE
INVARIANTS OvertakenOnce
PROPERTIES StopTaken
