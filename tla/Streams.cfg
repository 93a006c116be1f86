\* Three requests, two with one id; room for one stream, two at once past the check.
SPECIFICATION Spec
CONSTANTS
    r1 = r1
    r2 = r2
    r3 = r3
    x1 = x1
    x2 = x2
    NoStream = NoStream
    Requests <- MCRequests
    RequestIds <- MCIds
    IdOf <- MCIdOf
    MaxStreamSessions = 1
    MaxParallel = 2
    MaxData = 1
CHECK_DEADLOCK FALSE
INVARIANTS TableIsRunning StreamLimitBound CancelledForCause
PROPERTIES KeepsPromise StopHonoured
