SPECIFICATION FairSpec
CONSTANTS
    MaxOut = 4
    MaxIn = 3
    QueueSize = 1
    SendSize = 2
INVARIANTS TypeOK SendTurn
PROPERTIES KeepsSession EndIsReported
CHECK_DEADLOCK FALSE
