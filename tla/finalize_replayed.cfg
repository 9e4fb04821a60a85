SPECIFICATION StreamSpec
CONSTANTS
  p1 = p1
  p2 = p2
  c1 = c1
  c2 = c2
  Posts <- TwoPosts
  Closers <- TwoClosers
  Finalizers <- TwoClosers
  MaxSequence = 1
  TerminalEvents <- NoEvents
  Unstorable <- NoEvents
  Terminal <- MCTerminal
  RunOrigin = "platform"
  MaxBufferEntries = 2
  SharedStore = TRUE
  SinkMayExpire = FALSE
  MaxFaults = 0
  MaxAttempts = 2
  MaxLosses <- OneAnswer
INVARIANTS FinalizeIdempotent
CHECK_DEADLOCK FALSE
