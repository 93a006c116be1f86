SPECIFICATION Spec
CONSTANTS
    MaxEvents = 3
    MaxStreams = 2
INVARIANTS AtMostOneAfterDone InOrderOnce NoGap
PROPERTY EndsWithRun
CHECK_DEADLOCK FALSE
