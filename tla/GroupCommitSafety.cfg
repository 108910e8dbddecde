SPECIFICATION Spec
CONSTANTS
    Threads = {t1, t2, t3}
    NoThread = NoThread
    SyncOnPut = TRUE
    MaxFileSize = 3
    MaxWrites = 3
    MaxFiles = 3
SYMMETRY Symmetry
INVARIANTS
    TypeOK
    AckedIsDurable
    MarkedIsDurable
    RotatedIsDurable
    GenerationIsAppendOrder
    OneLeader
    NoLostWakeup
PROPERTIES
    DurableNeverRegresses
    LeaderIsCovered
    ImplementsDurableLog
