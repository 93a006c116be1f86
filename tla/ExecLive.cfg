SPECIFICATION MCSpec
CONSTANTS
    s1 = s1
    s2 = s2
    s3 = s3
    x1 = x1
    x2 = x2
    x3 = x3
    input = input
    resize = resize
    NoSession = NoSession
    Starts <- MCStarts2
    ExecIds <- MCIds2
    IdOf <- MCUnique2
    MaxExecSessions = 1
    MaxParallel = 2
    MaxOutput = 1
    Inputs <- MCInputs
    Resizes <- MCResizes
    TargetOf <- MCTargetOf
    MaxLookups = 2
CHECK_DEADLOCK FALSE
INVARIANT TerminalObeys
PROPERTIES KeepsPromise EndAfterReadyHonoured EndIsReported
