SPECIFICATION Safe
CONSTANTS
    MaxConns = 1
    MaxSignals = 1
    Loops = {"heartbeat"}
    Handlers = {}
CHECK_DEADLOCK FALSE
INVARIANT ExitIsClean
