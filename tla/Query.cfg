SPECIFICATION Spec
CONSTANTS
  Ids = {1, 2, 3}
  LabelsOf <- MCLabels
  Written <- MCWritten
  ChunkCapacity = 2
  MaxWrites = 3
  MinSeriesForParallel = 3
  ParallelSumAbove = 2
  MaxConcurrency = 2
  AskedPairs <- MCAskedPairs
  RealFn <- MCRealFn
  Metrics = {"m"}
  LabelNames = {"a", "b"}
  LabelValues_ = {"x"}
  RangeFunctions = {"rate"}
  Aggregators = {"sum"}
  DurationOf <- MCDurations
  NumberOf <- MCNumbers
  MaxDepth = 3
  PQueries <- MCPQueries
  Durations = {"5m", "1h"}
  FreqWindow = 2
  FreqThreshold = 2
  LowThreshold = 1
  MaxTracked = 1
  MaxAuto = 1
  Observation = 1
  Creators = {"c", "d"}
  Elsewhere = {2}
  PaTime = 3
  PaAsked = 2
  PaRules = 2
  CKeys = {"k", "l", "time()"}
  MaxSize = 1
  Ttl = 1
  EngineSize = 1
  Cacheable = {"k", "l"}
  Askers = {"a", "b"}
  CacheTime = 3
  CacheOps = 6
  StoreMax = 1
  NameLabel = "a"
  BatchSize = 2
  Clients = {"a", "b"}
  TaskIds = {1, 2}
  Widest = 2
  StatsNeeded = 2
  StatsKept = 2
  MaxQueries = 3
INVARIANTS
  ReadPathsAgree
  FunctionsSound
  
  
  
  CachesSound
CHECK_DEADLOCK FALSE
