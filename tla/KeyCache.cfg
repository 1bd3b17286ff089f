SPECIFICATION Spec
CONSTANTS
    k1 = k1  k2 = k2  t1 = t1  t2 = t2
    None = None
    Req = {r1, r2}
    Keys = {k1, k2}
    Tokens = {t1, t2}
    TokenKey <- WrongToken
    BadTokens = {t2}
    FirstKeys = {k1}
    Admins = {k1}
    TTL = 1
    Overlap = 3
    MaxLag = 1
    MaxTime = 6
SYMMETRY ReqSymmetry
INVARIANTS RevocationTakesEffect ExpiryTakesEffect
CHECK_DEADLOCK FALSE
