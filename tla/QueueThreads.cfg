SPECIFICATION Spec
CONSTANTS
    None = None
    Writes = {w1, w2}
    Flushers = {f1, f2}
    Producers = 1
    MaxSize = 2
    BatchLimit = 2
    MaxAttempts = 2
    MaxTries = 1
    MaxLapses = 1
    MaxCrashes = 1
SYMMETRY FlusherSymmetry
INVARIANTS NoWriteLost AppliedOnce AckedIsNotDead
CHECK_DEADLOCK FALSE
