SPECIFICATION Spec
CONSTANTS
    SockCap = 2
    QueueSize = 2
    MaxOut = 4
    MaxIn = 2
    MaxClose = 2
    Ends = {"fin", "rst"}
INVARIANTS TypeOK StreamInOrder StreamIsWatched ReceiptAnnounced CloseFlushes
CHECK_DEADLOCK FALSE
