SPECIFICATION Spec
CONSTANTS
    SockCap = 1
    QueueSize = 2
    MaxOut = 1
    MaxIn = 0
    MaxClose = 1
    Ends = {}
INVARIANTS DisconnectsOnce
CHECK_DEADLOCK FALSE
