SPECIFICATION MergeSpec
CONSTANTS
    None = None
    w1 = w1
    w2 = w2
    m1 = m1
    m2 = m2
    r1 = r1
    Keys = {k1, k2}
    Threads = {w1}
    Writers = {w1}
    Readers = {}
    Syncers = {w1}
    Mergers = {w1}
    MayOverlap <- NoOverlap
    SyncOnPut = FALSE
    MaxFileSize = 2
    FlushBatch = 1
    Faults = {}
    MaxFaults = 0
    Crashes = {"kill"}
    MaxCrashes = 1
    MaxWrites = 4
    MaxFiles = 6
INVARIANTS
    TypeOK
    RecoverMatchesKeydir
    PublishedIsFlushed
PROPERTIES
    ImplementsKvStore
CHECK_DEADLOCK FALSE
