SPECIFICATION LFairSpec
INVARIANT LTypeOK
INVARIANT StartedUnderManager
PROPERTY ImplementsCmdMgr
PROPERTY NothingSurvives
PROPERTY ShutdownCompletes
PROPERTY PeriodicRunsAgain
PROPERTY EndedTaskStartable
CONSTANTS
  p1 = p1
  p2 = p2
  e1 = e1
  e2 = e2
  e3 = e3
  Pids <- MCPids
  NoPid = NoPid
  Evs <- MCEvs
  NoEv = NoEv
  Configs <- OnePeriodic
  ExitCodes <- GoodOrBad
  MaxId = 1
  MaxRuns = 2
  MaxBorn = 2
  MaxFaults = 1
