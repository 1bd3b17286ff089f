\* Three requests race for one key across the end of its window.
CONSTANTS
    Req = {r1, r2, r3}
    Keys = {k1}
    NoKey = NoKey
    Headers = {k1}
    SqlPayloads = {s1, s2}
    RpcPayloads = {p1}
    ExecErrors = {"internal"}
    HandlersOutliveTTL = TRUE
SPECIFICATION Spec
CHECK_DEADLOCK FALSE
SYMMETRY ReqSymmetry
INVARIANTS
    OneGrantPerWindow
    ReplayOfSameRequest
PROPERTY
    TerminalRowIsFinal
