SPECIFICATION Spec
CONSTANTS
    Threads = {t1, t2}
    NoThread = NoThread
    SyncOnPut = TRUE
    MaxFileSize = 2
    MaxWrites = 2
    MaxFiles = 2
INVARIANTS
    InFlightCoversWaiter
