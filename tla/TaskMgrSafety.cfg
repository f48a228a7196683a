SPECIFICATION TSpec
INVARIANT TTypeOK
INVARIANT OutputAttributed
INVARIANT InputReachesOwnTask
INVARIANT MissesOnlyOvertaken
SYMMETRY Symmetry
CONSTANTS
  p1 = p1
  p2 = p2
  e1 = e1
  e2 = e2
  Pids <- MCPids
  NoPid = NoPid
  Evs <- MCEvs
  NoEv = NoEv
  Configs <- Once
  ExitCodes = {0}
  MaxId = 2
  MaxRuns = 1
  MaxBorn = 1
  MaxFaults = 0
  MaxFd = 7
  MaxData = 0
  MaxPending = 3
  MaxAsked = 1
  Written = {}
