SPECIFICATION Spec
CONSTANTS
    MaxOutput = 2
    MaxInput = 2
    MaxStops = 1
INVARIANTS InOrder OutputComplete DrainedByShutdown
PROPERTIES RelayEnds ServeEnds StopEndsProcess
CHECK_DEADLOCK FALSE
