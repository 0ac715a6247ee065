SPECIFICATION Spec
CONSTANTS
    Client = {c1}
    Sockets = 1
    Block = 1
    Ends = {"fin"}
    None = None
INVARIANTS ConnectsOnce
CHECK_DEADLOCK FALSE
