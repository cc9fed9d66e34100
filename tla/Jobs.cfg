SPECIFICATION Spec
CONSTANTS
  Callers = {"c1", "c2"}
  MaxConnections = 2
  RpcRetries = 1
  RpcFaults = 1
  RpcCalls = 2
  CNodes = {"a", "b"}
  Rules = {"r1", "r2"}
  NodeTimeout = 1
  TaskTimeout = 1
  TaskRetries = 1
  AutoFailover = TRUE
  OldBlocks <- MCOldBlocks
  LateBlock <- MCLateBlock
  DamagedBlocks = {4}
  ColumnsOf <- MCColumnsOf
  LevelThreshold = 2
  MaxLevel = 1
  MaxMillis = 4
  CompactFaults = 1
  CommandLimit = 1
INVARIANTS
  CallsSound
  AssignmentsSound
  

  
CHECK_DEADLOCK FALSE
