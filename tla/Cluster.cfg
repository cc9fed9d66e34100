CONSTANTS
    Node = {1, 2}
    Self = 1
    Task = {t1, t2}
    Ops = {"heartbeat", "register", "remove", "failure", "switch", "elect", "discover"}
    MaxOps = 2
    MaxDelay = 2
SPECIFICATION FairSpec
CHECK_DEADLOCK FALSE
INVARIANTS
    ViewSound
PROPERTIES
    TickRemovesOverdue
    
