SPECIFICATION Spec
CONSTANTS
    p = p
    q = q
    s1 = s1
    s2 = s2
    u1 = u1
    u2 = u2
    Nothing = Nothing
    Dest <- MCDest
    Source <- MCSource
    Url <- MCUrl
    Timeless = {}
    Bundle <- MCBundleFew
    MaxVersion = 2
INVARIANTS
    AssetsAreDeclared
