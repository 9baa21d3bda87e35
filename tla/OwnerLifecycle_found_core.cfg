SPECIFICATION Spec
CONSTANTS
    alice = alice
    bob = bob
    k1 = k1
    k2 = k2
    p1 = p1
    p2 = p2
    NoOwner = NoOwner
    NoConfig = NoConfig
    NoPid = NoPid
    Owner <- MCOwnerOne
    Config <- MCConfigOne
    Pid <- MCPid
    MaxGeneration = 2
INVARIANTS
    FoundCoreIsStoppedFirst
