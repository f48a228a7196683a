SPECIFICATION PSpec
INVARIANT OpenPageIsServed
CHECK_DEADLOCK FALSE
CONSTANTS
  t1 = t1
  t2 = t2
  h1 = h1
  h2 = h2
  h3 = h3
  g1 = g1
  Tasks <- MCTasks
  NoTask = NoTask
  Hdls <- MCHdls
  NoHdl = NoHdl
  MaxMsgs = 2
  Browsers <- MCBrowsers
  NoTab = NoTab
  PageTasks <- MCPageTasks
  OtherSets <- NoOthers
  MaxStarts = 1
  MaxCalls = 2
  MaxPageMsgs = 1
