SPECIFICATION FairSpec
CONSTANTS
    Client = {c1, c2}
    Sockets = 3
    Block = 1
    Ends = {"fin"}
    None = None
INVARIANTS PoolSound NoForeignPipe AnswerIsTrue
PROPERTIES AttemptIsAnswered BacklogIsAccepted
CHECK_DEADLOCK FALSE
