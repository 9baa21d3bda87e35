SPECIFICATION FairSpec
CONSTANTS
    Pid = {p1, p2, p3}
    Nothing = Nothing
    Stale = Stale
    Maintenance = Maintenance
    Reusable = {p1}
    HealthAttempts = 2
    ReacquireAttempts = 2
INVARIANTS
    TypeOK
    OneOwner
    HolderIsKnown
    OnlyOwnersAreTerminated
PROPERTY AcquisitionDecides
