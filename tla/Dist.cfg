SPECIFICATION MCSpec
CONSTANTS
  RNodes = {n1, n2, n3}
  n1 = n1
  n2 = n2
  n3 = n3
  MaxTerm = 2
  MaxRaftLog = 1
  QNodes = {"a", "b"}
  QIds = {1, 2}
  QShardCount = 2
  Queries <- MCQueries
  CacheSize = 1
  CacheTtl = 2
  HashOfNode <- MCHashOfNode
  HashOfKey <- MCHashOfKey
  QTime = 2
  QVersions = 1
  RingMax = 8
  RowMax = 1
  DNodes = {"a", "b", "c"}
  DShards = {"s", "t"}
  DWrites = {1, 2}
  ShardOfWrite <- MCShardOfWrite
  FirstPrimary <- MCFirstPrimary
  DAttempts = 2
  DHops = 3
  DFaults = 1
  DMoves = 1
  Node = {n1, n2, n3}
  ShardCount = 2
  RF = 2
  Task = {t1, t2}
  Ops <- AllOps
  MaxOps = 3
SYMMETRY Sym
INVARIANTS
  RaftSound
  CoordinatorSound
  WritesAccounted
  PlacementSound
  IndexComplete
CHECK_DEADLOCK FALSE
