SPECIFICATION Spec
CONSTANTS
  RuleFiles <- MCFiles
  PostedRules <- MCPosted
  RSeries = {"x", "y"}
  Window = 1
  PendingFor = 1
  ExpireAfter = 1
  RuleTime = 3
  RuleLoads = 3
  RuleSamples = 2
  RuleEvals = 2
  FedNodes <- MCNodes
  FirstNodes <- MCFirstNodes
  FedQueries <- MCFedQueries
  Rounds = 2
  Changes = 2
  Discoverers <- MCDiscoverers
  SdLoops = {1, 2}
  SdRounds = 2
  SdTargets = {"t1"}
  Targets <- MCTargets
  RWrites = 3
  QueueSize = 1
  BatchSize = 2
  MaxSends = 2
  RFaults = 2
  Bodies <- MCBodies
  ReadQueries <- MCReads
  StoreFails <- MCFails
  ExportTasks = {"e", "f"}
  ExportRoom = 1
INVARIANTS
  
  FederationSound
  
PROPERTIES
  ServerTasksEnd
CHECK_DEADLOCK FALSE
