SPECIFICATION Spec
CONSTANTS
  p1 = p1
  p2 = p2
  c1 = c1
  Posts <- TwoPosts
  Closers <- OneCloser
  MaxSequence = 3
  TerminalEvents <- NoEvents
  Unstorable <- NoEvents
  Terminal <- MCTerminal
  RunOrigin = "platform"
  MaxBufferEntries = 2
  SharedStore = TRUE
  SinkMayExpire = FALSE
  MaxFaults = 0
PROPERTIES LostRaceMeansPersisted
