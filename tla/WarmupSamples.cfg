SPECIFICATION Spec
CONSTANTS
    Workers = {w1, w2}
    Merger = merger
    BatchSize = 2
    Warmup = 1
    Duration = 2
    Interval = 1
    MergeEvery = 1
    CallsFail = TRUE
    MaxOps = 2
INVARIANTS
    OnlyAfterWarmup
CHECK_DEADLOCK FALSE
