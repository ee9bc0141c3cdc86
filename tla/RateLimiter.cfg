SPECIFICATION FairSpec
CONSTANTS
    t1 = t1
    t2 = t2
    t3 = t3
    Threads <- ThreeThreads
    Elem <- Stamps
    Capacity = 2
    Filler = 0
    windowSize = 1
    Start = 2
    LastTick = 5
    MaxRequests = 5
INVARIANTS
    TypeOK
    MutualExclusion
    KeepsTheLastStamps
    SpacedStamps
    WindowNeverOverfull
PROPERTIES
    LockIsReleased
CHECK_DEADLOCK FALSE
