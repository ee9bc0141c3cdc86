SPECIFICATION FairSpec
CONSTANTS
    h1 = h1
    h2 = h2
    t1 = t1
    t2 = t2
    t3 = t3
    Hosts <- TwoHosts
    Threads <- ThreeThreads
    hostOf <- TwoAndOne
    address <- MCAddress
    WorkerSize = 4
    SequenceSize = 2
    HighBit = 16
    LastTick = 2
    MaxIds = 3
    MaxBacks = 1
INVARIANTS
    TypeOK
    OneAtATime
    IdsIncrease
    HostsDisjoint
PROPERTY
    SpinEnds
CHECK_DEADLOCK FALSE
