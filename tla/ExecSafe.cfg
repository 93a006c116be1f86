SPECIFICATION Safe
CONSTANTS
    s1 = s1
    s2 = s2
    s3 = s3
    x1 = x1
    x2 = x2
    x3 = x3
    NoSession = NoSession
    Starts <- MCStarts3
    ExecIds <- MCIds2
    IdOf <- MCReused3
    MaxExecSessions = 1
    MaxParallel = 2
    MaxOutput = 1
CHECK_DEADLOCK FALSE
INVARIANTS NoOrphan LimitBound TableEntriesOpen EndedHoldsNothing
PROPERTY ClosedForCause
