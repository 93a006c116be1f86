SPECIFICATION Safe
CONSTANTS
    MaxConns = 2
    MaxSignals = 3
    Loops = {"heartbeat"}
    Handlers = {"handler"}
CHECK_DEADLOCK FALSE
INVARIANTS OthersToldToEnd SecondSignalStops OnlyLeftoversPrecedeHello
