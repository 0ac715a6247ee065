SPECIFICATION FairSpec
CONSTANTS
    Timers = {t1}
    Nodes = {n1}
    NoTimer = NoTimer
    NoNode = NoNode
    Intervals = {4}
    Delays = {0}
    Loops <- LoopsForever
    Killable = {}
    Scale = 2
    MinInterval = 4
    S32 = 8
    ClockSteps = {2}
    MaxNow = 14
PROPERTIES DueTimerRuns
