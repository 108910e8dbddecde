SPECIFICATION Spec
CONSTANTS
    Base = 8
    CrcNum = 1
    Entries <- OneOfEach
    Capacity = 7
    FaultKinds = {}
    MaxEntries = 2
    MaxFaults = 0
INVARIANTS
    CutHintFails
CHECK_DEADLOCK FALSE
