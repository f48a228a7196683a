SPECIFICATION Spec
INVARIANT TypeOK
INVARIANT RunningTableMatchesChildren
INVARIANT OneProcessPerTask
INVARIANT MappedEventPending
INVARIANT StatusTruthful
INVARIANT LiveScriptHasTask
INVARIANT PeriodicTaskArmed
SYMMETRY Symmetry
CONSTANTS
  p1 = p1
  p2 = p2
  e1 = e1
  e2 = e2
  e3 = e3
  e4 = e4
  Pids <- MCPids
  NoPid = NoPid
  Evs <- MCEvs
  NoEv = NoEv
  Configs <- AllKinds
  ExitCodes <- GoodOrBad
  MaxId = 2
  MaxRuns = 2
  MaxBorn = 2
  MaxFaults = 1
