\* stop_core waits for itself when a failed child cannot be killed.
CONSTANTS
    p1 = p1
    p2 = p2
    k1 = k1
    k2 = k2
    NoPid = NoPid
    NoConfig = NoConfig
    MaxRestarts = 1
    Pid <- MCPid
    Config <- MCConfigOne
SPECIFICATION FairSpec
PROPERTIES
    StopReturns
CHECK_DEADLOCK FALSE
