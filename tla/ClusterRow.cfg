CONSTANTS
    Node = {1, 2}
    Self = 1
    Task = {t1}
    Ops = {"heartbeat"}
    MaxOps = 3
    MaxDelay = 0
SPECIFICATION Spec
PROPERTIES
    ThreeInARow
