SPECIFICATION FairStreamSpec
CONSTANTS
  p1 = p1
  p2 = p2
  c1 = c1
  c2 = c2
  Posts <- OnePost
  Closers <- TwoClosers
  Finalizers <- FirstCloser
  MaxSequence = 2
  TerminalEvents <- NoEvents
  Unstorable <- NoEvents
  Terminal <- MCTerminal
  RunOrigin = "platform"
  MaxBufferEntries = 2
  SharedStore = FALSE
  SinkMayExpire = FALSE
  MaxFaults = 1
  MaxAttempts = 4
  MaxLosses <- OneEach
INVARIANTS OneTerminalBroadcast AcceptedResultClosed
PROPERTIES FinishedRunIsComplete EveryRunCloses
CHECK_DEADLOCK FALSE
