SPECIFICATION Spec
CONSTANTS
    k1 = k1  k2 = k2  t1 = t1  t2 = t2
    None = None
    Req = {r1, r2}
    Keys = {k1, k2}
    Tokens = {t1}
    TokenKey <- OneToken
    BadTokens = {}
    FirstKeys = {k1}
    Admins = {}
    TTL = 1
    Overlap = 3
    MaxLag = 1
    MaxTime = 6
SYMMETRY ReqSymmetry
INVARIANT RotationIsImmediate
CHECK_DEADLOCK FALSE
