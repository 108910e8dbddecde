SPECIFICATION MergeSpec
CONSTANTS
    None = None
    w1 = w1
    w2 = w2
    m1 = m1
    m2 = m2
    r1 = r1
    Keys = {k1, k2}
    Threads = {w1, m1, r1}
    Writers = {w1}
    Readers = {r1}
    Syncers = {}
    Mergers = {m1}
    MayOverlap <- AllOverlap
    SyncOnPut = FALSE
    MaxFileSize = 2
    FlushBatch = 2
    Faults = {"merge", "remove"}
    MaxFaults = 1
    Crashes = {}
    MaxCrashes = 0
    MaxWrites = 4
    MaxFiles = 3
INVARIANTS
    ActiveIsNewest
    DanglingWasInFlight
    NoLeakedHandle
PROPERTIES
    RepointKeepsValues
    NewFileIsFresh
CHECK_DEADLOCK FALSE
