SPECIFICATION MergeSpec
CONSTANTS
    None = None
    w1 = w1
    w2 = w2
    m1 = m1
    m2 = m2
    r1 = r1
    Keys = {k1, k2}
    Threads = {w1, m1, m2}
    Writers = {w1}
    Readers = {}
    Syncers = {}
    Mergers = {m1, m2}
    MayOverlap <- MergeDuringBoth
    SyncOnPut = FALSE
    MaxFileSize = 2
    FlushBatch = 3
    Faults = {}
    MaxFaults = 0
    Crashes = {}
    MaxCrashes = 0
    MaxWrites = 4
    MaxFiles = 7
INVARIANTS
    RemovesOnlyUnreferenced
CHECK_DEADLOCK FALSE
