SPECIFICATION HSpec
CONSTANTS
    None = None
    Keys = {k1, k2}
    Threads = {w1}
    Writers = {w1}
    Readers = {}
    Syncers = {}
    Mergers = {w1}
    MayOverlap = {}
    Sessions = {p1, p2}
    Viewers = {v1}
    SyncOnPut = FALSE
    MaxFileSize = 2
    FlushBatch = 2
    Faults = {}
    MaxFaults = 0
    Crashes = {"kill", "drop"}
    MaxCrashes = 1
    MaxWrites = 3
    MaxFiles = 5
INVARIANTS
    SessionSeesAll
    SnapshotIsConsistent
    ClosedIsDurable
CHECK_DEADLOCK FALSE
