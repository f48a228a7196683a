SPECIFICATION FairSpec
INVARIANT ChannelTypeOK
INVARIANT FillsAsTheLoop
INVARIANT NeverGarbled
INVARIANT ReadsOwnAnswer
INVARIANT SocketQuiet
PROPERTY ImplementsService
PROPERTY HolderIsAnswered
CHECK_DEADLOCK FALSE
CONSTANTS
  c1 = c1
  c2 = c2
  Clients <- MCClients
  NoClient = NoClient
  NoCall = NoCall
  MaxTask = 1
  BodyLen = 2
