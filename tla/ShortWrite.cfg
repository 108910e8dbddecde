SPECIFICATION Spec
CONSTANTS
    Base = 8
    CrcNum = 1
    Entries <- OneOfEach
    Capacity = 7
    FaultKinds = {"direct"}
    MaxEntries = 2
    MaxFaults = 1
INVARIANTS
    PublishedIsReadable
CHECK_DEADLOCK FALSE
