SPECIFICATION TFairSpec
PROPERTY PipeDrained
PROPERTY OutputEndReleased
PROPERTY ImplementsCmdMgr
CONSTANTS
  p1 = p1
  p2 = p2
  e1 = e1
  e2 = e2
  Pids <- MCOnePid
  NoPid = NoPid
  Evs <- MCEvs
  NoEv = NoEv
  Configs <- Periodic
  ExitCodes = {0}
  MaxId = 1
  MaxRuns = 2
  MaxBorn = 1
  MaxFaults = 1
  MaxFd = 7
  MaxData = 1
  MaxPending = 1
  MaxAsked = 1
  Written = {"stdout"}
