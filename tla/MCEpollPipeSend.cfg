SPECIFICATION Spec
CONSTANTS
    SockCap = 1
    QueueSize = 2
    MaxOut = 1
    MaxIn = 1
    MaxClose = 0
    Ends = {"fin"}
INVARIANTS SendsEstablished
CHECK_DEADLOCK FALSE
