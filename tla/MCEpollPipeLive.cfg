SPECIFICATION FairSpec
CONSTANTS
    SockCap = 1
    QueueSize = 1
    MaxOut = 3
    MaxIn = 1
    MaxClose = 1
    Ends = {"fin"}
PROPERTIES KeepsSession SentChunksLeave CloseIsReported DataIsShown FinIsReported
CHECK_DEADLOCK FALSE
