SPECIFICATION Spec
CONSTANTS
    w1 = w1
    w2 = w2
    a = a
    b = b
    Writers = {w1, w2}
    Series = {a, b}
    Samples = {1, 2, 3}
    Batches <- MCBatches
    MaxSeries = 2
    Threshold = 1
    QueueCap = 1
    WalEnabled = TRUE
    MaxFaults = 1
    MaxRestarts = 1
SYMMETRY MCSymmetry
INVARIANTS LoggedFirst NoDuplicates
PROPERTIES FlushRemovesOnlyCopied ImplementsLog
CHECK_DEADLOCK FALSE
