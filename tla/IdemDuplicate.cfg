\* Expected to be violated: NoDuplicateWrites.
CONSTANTS
    Req = {r1, r2, r3}
    Keys = {k1}
    NoKey = NoKey
    Headers = {k1}
    SqlPayloads = {s1}
    RpcPayloads = {p1}
    ExecErrors = {"integrity_violation"}
    HandlersOutliveTTL = FALSE
SPECIFICATION Spec
CHECK_DEADLOCK FALSE
SYMMETRY ReqSymmetry
INVARIANT
    NoDuplicateWrites
