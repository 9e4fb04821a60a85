SPECIFICATION FairStreamSpec
CONSTANTS
  p1 = p1
  p2 = p2
  c1 = c1
  c2 = c2
  Posts <- TwoPosts
  Closers <- NoClosers
  Finalizers <- NoClosers
  MaxSequence = 3
  TerminalEvents <- NoEvents
  Unstorable <- NoEvents
  Terminal <- MCTerminal
  RunOrigin = "platform"
  MaxBufferEntries = 2
  SharedStore = TRUE
  SinkMayExpire = FALSE
  MaxFaults = 0
  MaxAttempts = 3
  MaxLosses <- OneEach
INVARIANTS StreamTypeOK GapFree NothingStranded DeliveredIsKept
PROPERTIES EveryEventStored
CHECK_DEADLOCK FALSE
