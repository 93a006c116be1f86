SPECIFICATION Spec
CONSTANTS
    MaxConns = 2
    MaxSignals = 1
    Loops = {"heartbeat"}
    Handlers = {}
CHECK_DEADLOCK FALSE
PROPERTIES LossIsNoticed OldRunGivesWay
