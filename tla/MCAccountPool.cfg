CONSTANTS
    Tokens = {t1, t2, t3}
    MaxAccounts = 3
    MaxClock = 3
SYMMETRY TokenSymmetry
SPECIFICATION Spec
INVARIANTS
    TypeOK
    TokensUnique
    DisabledConsistent
    LastUsedOrdered
PROPERTY RotationUpToOneSecond
