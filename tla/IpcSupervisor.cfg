SPECIFICATION FairSpec
CONSTANTS
    Supervisor = s
    Guest = {g}
    Listener = {l1, l2}
    None = None
    MaxRestarts = 4
    Window = 11
    MaxBackoff = 5
INVARIANTS
    TypeOK
    RebuildsAreRationed
    StopIsComplete
PROPERTIES
    GivesUpOnBurstsOnly
    ShutdownIsServed
CHECK_DEADLOCK FALSE
