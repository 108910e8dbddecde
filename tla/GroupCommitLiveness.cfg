SPECIFICATION FairSpec
CONSTANTS
    Threads = {t1, t2, t3}
    NoThread = NoThread
    SyncOnPut = TRUE
    MaxFileSize = 3
    MaxWrites = 3
    MaxFiles = 2
PROPERTIES
    EveryCallReturns
