SPECIFICATION Spec
CONSTANTS
    s1 = s1
    s2 = s2
    s3 = s3
    x1 = x1
    x2 = x2
    x3 = x3
    NoSession = NoSession
    Starts <- MCStarts2
    ExecIds <- MCIds2
    IdOf <- MCUnique2
    MaxExecSessions = 1
    MaxParallel = 2
    MaxOutput = 1
CHECK_DEADLOCK FALSE
PROPERTY ExecEndEndsSession
