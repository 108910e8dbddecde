SPECIFICATION Spec
CONSTANTS
    Base = 8
    CrcNum = 1
    Entries <- SmallAndLarge
    Capacity = 7
    FaultKinds = {"flush", "fsync"}
    MaxEntries = 2
    MaxFaults = 1
INVARIANTS
    PublishedIsReadable
    ScanFindsWhole
    OffsetsAreRight
    RotIsContained
    HintsNeverLie
CHECK_DEADLOCK FALSE
