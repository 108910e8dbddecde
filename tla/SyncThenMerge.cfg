SPECIFICATION MergeSpec
CONSTANTS
    None = None
    w1 = w1
    w2 = w2
    m1 = m1
    m2 = m2
    r1 = r1
    Keys = {k1}
    Threads = {w1}
    Writers = {w1}
    Readers = {}
    Syncers = {w1}
    Mergers = {w1}
    MayOverlap <- NoOverlap
    SyncOnPut = FALSE
    MaxFileSize = 2
    FlushBatch = 2
    Faults = {}
    MaxFaults = 0
    Crashes = {}
    MaxCrashes = 0
    MaxWrites = 3
    MaxFiles = 6
INVARIANTS
    PromiseKept
CHECK_DEADLOCK FALSE
