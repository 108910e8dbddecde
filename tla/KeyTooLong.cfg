SPECIFICATION Spec
CONSTANTS
    Base = 8
    CrcNum = 1
    Entries <- WithTooLong
    Capacity = 7
    FaultKinds = {}
    MaxEntries = 1
    MaxFaults = 0
INVARIANTS
    ScanFindsWhole
CHECK_DEADLOCK FALSE
