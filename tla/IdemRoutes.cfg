\* Both routes, with and without a key, every kind of execution error.
CONSTANTS
    Req = {r1, r2}
    Keys = {k1}
    NoKey = NoKey
    Headers = {k1, NoKey}
    SqlPayloads = {s1, s2}
    RpcPayloads = {p1}
    ExecErrors = {"integrity_violation", "internal", "response_too_large"}
    HandlersOutliveTTL = TRUE
SPECIFICATION FairSpec
CHECK_DEADLOCK FALSE
INVARIANTS
    SqlReplayMatchesOriginal
    AnswerTellsTheTruth
    
PROPERTIES
    EveryRequestSettles
    NoKeyStaysPending
    ImplementsOnce
