SPECIFICATION FairSpec
CONSTANTS
    Unset = Unset
    Malformed = Malformed
    Calls = {r1, r2}
    Conns = {c1}
    Base = Base
    None = None
    Purger = Purger
    Envs <- MCEnvs
    ClientSets = {"path"}
INVARIANTS
    OwnSettings
    IdleReverts
    StopIsOrderly
PROPERTIES
    EveryCallEnds
    StopEnds
CHECK_DEADLOCK FALSE
