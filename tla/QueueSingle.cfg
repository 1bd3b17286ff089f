SPECIFICATION FairSpec
CONSTANTS
    None = None
    Writes = {w1, w2, w3}
    Flushers = {f1}
    Producers = 2
    MaxSize = 1
    BatchLimit = 2
    MaxAttempts = 2
    MaxTries = 2
    MaxLapses = 0
    MaxCrashes = 0
INVARIANT SizeBound
PROPERTIES AttemptsGrow QueueDrains
CHECK_DEADLOCK FALSE
