SPECIFICATION FairSpec
CONSTANTS
    Capacity = 2
    Users = {u1, u2}
    MaxClients = 5
    u1 = u1
    u2 = u2
INVARIANT PoolOK
PROPERTY OpenReleaseReturns
CHECK_DEADLOCK FALSE
