SPECIFICATION FairSpec
INVARIANTS
    ConnectHandlerInTime
    FlagIsEarned
PROPERTY WaitsEnd
CHECK_DEADLOCK FALSE
