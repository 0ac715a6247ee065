SPECIFICATION FairSpec
CONSTANTS
    Timers = {t1}
    Nodes = {n1, n2}
    NoTimer = NoTimer
    NoNode = NoNode
    Intervals = {4}
    Delays = {0, 3}
    Loops <- LoopsMixed
    Killable = {t1}
    Scale = 2
    MinInterval = 4
    S32 = 100
    ClockSteps = {1, 3}
    MaxNow = 8
INVARIANTS TypeOK EveryTimerIsAhead NeverEarly
PROPERTIES KeepsContract DueTimerRuns ProcessingEnds
