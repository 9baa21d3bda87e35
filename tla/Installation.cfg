SPECIFICATION Spec
CONSTANTS
    Installer = {i1, i2}
    v1 = v1
    v2 = v2
    v3 = v3
    None = None
    Torn = Torn
    Version <- MCVersion
    Serves <- MCServes
SYMMETRY Symmetry
INVARIANTS
    TypeOK
    RegistrationHasBinary
    UpgradeIsBootable
    OutcomeHolds
