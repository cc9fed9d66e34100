SPECIFICATION FairSpec
CONSTANTS
    w1 = w1
    w2 = w2
    a = a
    b = b
    Writers = {w1, w2}
    Series = {a, b}
    Samples = {1, 2}
    Batches <- MCBatches
    MaxSeries = 1
    Threshold = 1
    QueueCap = 2
    WalEnabled = TRUE
    MaxFaults = 1
    MaxRestarts = 0
INVARIANTS HeadSound
PROPERTIES AllReturn
CHECK_DEADLOCK FALSE
