SPECIFICATION Spec
CONSTANTS
    Repos = {r1, r2}
    Rkeys = {k1, k2}
    Texts = {a}
    NoPost = NoPost
    HISTORY_LEN = 2
    LOG_LEN = 1
    MERGE_INTERVAL_TICKS = 2
    Durations = {1, 3}
    MaxFrames = 2
    MaxOps = 2
    MaxTicks = 3
    MaxFailures = 1
PROPERTIES
    FrameIsSkippedWhole
CHECK_DEADLOCK FALSE
