SPECIFICATION MergeSpec
CONSTANTS
    None = None
    w1 = w1
    w2 = w2
    m1 = m1
    m2 = m2
    r1 = r1
    Keys = {k1, k2}
    Threads = {w1}
    Writers = {w1}
    Readers = {}
    Syncers = {}
    Mergers = {w1}
    MayOverlap <- NoOverlap
    SyncOnPut = TRUE
    MaxFileSize = 2
    FlushBatch = 2
    Faults = {"write"}
    MaxFaults = 1
    Crashes = {"kill", "power"}
    MaxCrashes = 1
    MaxWrites = 4
    MaxFiles = 6
INVARIANTS
    PromiseKept
CHECK_DEADLOCK FALSE
