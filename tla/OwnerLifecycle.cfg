SPECIFICATION Spec
CONSTANTS
    alice = alice
    bob = bob
    k1 = k1
    k2 = k2
    p1 = p1
    p2 = p2
    NoOwner = NoOwner
    NoConfig = NoConfig
    NoPid = NoPid
    Owner <- MCOwner
    Config <- MCConfig
    Pid <- MCPid
    MaxGeneration = 3
SYMMETRY Symmetry
INVARIANTS
    TypeOK
    OnlyTheCurrentSessionStops
    IdleCoreIsCommitted
    AckedStopHolds
    BootResumesCommitted
    RecordedCoreExcludesStart
    NoCoreIsLost
PROPERTIES
    ImplementsSessions
