SPECIFICATION MergeSpec
CONSTANTS
    None = None
    w1 = w1
    w2 = w2
    m1 = m1
    m2 = m2
    r1 = r1
    Keys = {k1, k2}
    Threads = {w1, w2}
    Writers = {w1, w2}
    Readers = {}
    Syncers = {}
    Mergers = {}
    MayOverlap <- AllOverlap
    SyncOnPut = FALSE
    MaxFileSize = 2
    FlushBatch = 2
    Faults = {}
    MaxFaults = 0
    Crashes = {}
    MaxCrashes = 0
    MaxWrites = 2
    MaxFiles = 6
INVARIANTS
    RecoverMatchesKeydir
CHECK_DEADLOCK FALSE
