SPECIFICATION FairSpec
CONSTANTS
    Jobs = {j1}
    Attempts = {1, 2, 3}
    Requests <- MCRequests
    MaxStatementBytes = 2
    MaxStatementParams = 6
    MaxRows = 2
    MaxK = 6
INVARIANTS
    TypeOK
    KeyedRetryOnce
    SuccessIsTrue
    OnlyValidRuns
    BuiltStatementsFit
    AuditRowsAreTrue
PROPERTIES
    EveryCallAnswered
CHECK_DEADLOCK FALSE
