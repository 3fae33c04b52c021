SPECIFICATION Spec
CONSTANTS
  IdBase = 2
  IdLimit = 2
  MaxTmpid = 4
  MaxWaiting = 7
  Jids = {"a", "b"}
  JidHash <- MCJidHash
  PrimeNumbers <- MCPrimeNumbers
  MaxRoster = 2
  RosterNull = RosterNull
  PrivJids = {"a", "b"}
  GroupNames = {"g", "h"}
  MaxVersion = 3
  UserCount = 3
  MaxSignals = 2
  MaxPacksBuffered = 1
  Sizes = {0, 1, 2}
  MaxRoom = 2
  MaxBytes = 4
  MaxLine = 2
  RecordSizes = {1, 3}
  MaxArrived = 6
  MaxSockets = 2
  IdNum = 3
  Patterns <- MCPatterns
  MaxUsers = 6
  Generators <- MCGenerators
  Groups <- MCGroups
  MaxTags = 2
  Lens = {0, 1, 3}
  NumSpace = {0, 2}
  Jobs <- MCJobs
  People = {"u", "v"}
  MaxMessages = 2
  StatSizes = {1, 3}
  Differences = {0, 5}
  MaxValues = 4
  Grain = 3
  Interval = 2
  MaxTime = 14
  Inc = 1
  Dec = 1
  MaxKarma = 3
  Penalty <- MCPenalty
  Restore = 2
  InitKarma = 2
  SimulatorInit <- MCSimulatorInit
  ResetMeter = TRUE
  ReadUnit = 1
  Heartbeat = 1
  Maxt = 2
  Maxp = 2
  Reads = {0, 1, 3}
  MaxClock = 6
  MaxBytesRead = 8
INVARIANTS
  AnswersMatched
  PrivRosterKept
  LeavesCleanly
  StartAsConfigured
PROPERTIES
  RosterKept
  SendsInOrder
  ReadsInOrder
  PatternsComputed
  CountsHold
CHECK_DEADLOCK FALSE
