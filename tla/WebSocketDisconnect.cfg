SPECIFICATION Spec
CONSTANTS
    MaxConnects = 1
    MaxDisconnects = 1
    MaxFailures = 0
    MaxStreams = 2
    MaxDue = 1
PROPERTY DisconnectFinal
CHECK_DEADLOCK FALSE
