SPECIFICATION StreamSpec
CONSTANTS
  p1 = p1
  p2 = p2
  c1 = c1
  c2 = c2
  Posts <- TwoPosts
  Closers <- NoClosers
  Finalizers <- NoClosers
  MaxSequence = 1
  TerminalEvents <- NoEvents
  Unstorable <- NoEvents
  Terminal <- MCTerminal
  RunOrigin = "platform"
  MaxBufferEntries = 2
  SharedStore = TRUE
  SinkMayExpire = FALSE
  MaxFaults = 1
  MaxAttempts = 2
  MaxLosses <- OneAnswer
PROPERTIES KeyReleasedInTime
CHECK_DEADLOCK FALSE
