\* Safety and liveness of starts, stops and recovery.
CONSTANTS
    p1 = p1
    p2 = p2
    k1 = k1
    k2 = k2
    NoPid = NoPid
    NoConfig = NoConfig
    MaxRestarts = 2
    Pid <- MCPid
    Config <- MCConfig
SPECIFICATION FairSpec
INVARIANTS
    TypeOK
    AtMostOneCore
    NoCoreLost
    StartFindsNoCore
    RunningPairIsConsistent
    StatusIsTrue
PROPERTIES
    StopMeansStopped
    ImplementsContract
    RecoverySettles
    CallsComplete
\* A stop_core that retries a kill in vain never returns.
CHECK_DEADLOCK FALSE
