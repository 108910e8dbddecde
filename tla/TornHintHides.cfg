SPECIFICATION Spec
CONSTANTS
    Keys = {k1, k2}
    None = None
    MaxFiles = 2
    MaxEntries = 1
    MaxDamage = 1
    ZeroStamps = TRUE
INVARIANTS
    RecoverFindsLastWrite
CHECK_DEADLOCK FALSE
