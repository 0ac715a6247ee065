SPECIFICATION FairSpec
CONSTANTS
    Lines = 3
    LogSize = 1
    Block = 1
    Workers = 2
    Events = 1
    MaxEvents = 2
    Names = {"m1"}
    MaxModules = 2
    None = None
INVARIANTS StreamsAccounted LinesInOrder WritesToFile EndedThreadsAreDone
PROPERTIES ShutdownEnds
CHECK_DEADLOCK FALSE
