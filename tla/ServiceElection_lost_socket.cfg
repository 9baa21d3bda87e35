SPECIFICATION Spec
CONSTANTS
    Pid = {p1, p2, p3}
    Nothing = Nothing
    Stale = Stale
    Maintenance = Maintenance
    Reusable = {}
    HealthAttempts = 2
    ReacquireAttempts = 2
INVARIANT ServingIsReachable
