SPECIFICATION Spec
CONSTANTS
    Service = {s1, s2}
    Address = {a1, a2}
    Off = Off
    Partial = Partial
    None = None
SYMMETRY ProxySymmetry
INVARIANTS
    TypeOK
    ModesExclude
    RepliesAreTrue
PROPERTY StopsAreDirect
