CONSTANTS
    w1 = w1
    w2 = w2
    s1 = s1
    s2 = s2
    f1 = f1
    f2 = f2
    Write = {w1, w2}
    Shard = {s1, s2}
    Follower = {f1, f2}
    Calls <- TwoCalls
    Worker = {k1, k2}
    QueueSize = 1
    MinReplicas = 2
    MaxRetries = 1
SPECIFICATION FairSpec
INVARIANTS
    TasksSound
    
    QueueBound
PROPERTIES
    TasksEnd
