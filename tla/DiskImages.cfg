SPECIFICATION Spec
CONSTANTS
    Keys = {k1, k2}
    None = None
    MaxFiles = 3
    MaxEntries = 2
    MaxDamage = 2
    ZeroStamps = FALSE
INVARIANTS
    TypeOK
    RecoverFindsLastWrite
    HintsChangeNothing
CHECK_DEADLOCK FALSE
