SPECIFICATION Spec
CONSTANTS
    w1 = w1
    w2 = w2
    a = a
    b = b
    Writers = {w1, w2}
    Series = {a, b}
    Samples = {1, 2, 3}
    Batches <- MCBatches
    MaxSeries = 2
    Threshold = 1
    QueueCap = 1
    WalEnabled = TRUE
    MaxFaults = 0
    MaxRestarts = 0
SYMMETRY MCSymmetry
PROPERTIES AckedFlushed
CHECK_DEADLOCK FALSE
