SPECIFICATION Spec
CONSTANTS
    None = None
    Req = {r1, r2}
    Keys = {k1, k2}
    Unit = 2
    Rate = 1
    Burst = 2
    Capacity = 1
    MaxBuckets = 3
    MaxTime = 3
SYMMETRY Symmetric
INVARIANTS TypeOK RateBound
PROPERTY RejectedForOwnTraffic
