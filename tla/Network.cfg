SPECIFICATION NetworkSpec
CONSTANTS
    Ops = {o1, o2, o3}
    Threads = {thread}
    Coroutines = {coroutine}
    Scripts = {script}
    NoOp = NoOp
    Timeouts = {1, 2}
    MaxCalls = 4
    LastTick = 5
INVARIANT OneCallbackEach
PROPERTIES
    RunsUntilStopped
    Barks
CHECK_DEADLOCK FALSE
