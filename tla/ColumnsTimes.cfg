SPECIFICATION ColumnsSpec
CONSTANTS
  BatchSize = 2
  BufferEntries = 3
  AsyncSegment = 4
  AsyncWrites = 6
  AsyncRestarts = 1
  TierNames <- MCTierNames
  Retention <- MCRetention
  LoadedBlocks <- MCLoadedBlocks
  TierSeries = {"s"}
  MaxHour = 5
  TierWrites = 1
  TierReads = 2
  TierCapacity = 1
  QueueOfMigrations = 1
  DataFiles = {"a", "m"}
  MarkedFiles = {"m"}
  RetentionDays = 1
  MaxBackups = 2
  MaxDay = 2
  MaxVersion = 2
  BackupFaults = 1
  MaxEntries = 3
  SegmentEntries = 2
  MinKeep = 2
  MaxSegment = 1
  MaxFaults = 1
  MaxCrashes = 1
  MaxPowerFailures = 1
  DsTasks = 2
  DsLevels = 2
  Concurrency = 1
  DsRetries = 2
  PriorityOf <- MCPriority
  WordBytes = 3
  CTimes = {0, 10, 20, 30}
  CValues <- MCColumnValues
  CLabels <- MCColumnLabels
  BloomBits <- MCBloomBits
  CAdds = 3
  WordBits = 4
  BitIds = {0, 2, 5, 7, 9}
INVARIANTS
  TimesReadBack
CHECK_DEADLOCK FALSE
