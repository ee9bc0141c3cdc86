SPECIFICATION FairSpec
CONSTANTS
    MaxConnects = 2
    MaxDisconnects = 1
    MaxFailures = 2
    MaxStreams = 4
    MaxDue = 1
INVARIANTS ChainOK OpenIsRead HeartbeatLives
PROPERTY Recovers
CHECK_DEADLOCK FALSE
