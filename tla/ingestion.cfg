SPECIFICATION FairSpec
CONSTANTS
  p1 = p1
  p2 = p2
  c1 = c1
  Posts <- OnePost
  Closers <- OneCloser
  MaxSequence = 3
  TerminalEvents <- ThirdEvent
  Unstorable <- SecondEvent
  Terminal <- MCTerminal
  RunOrigin = "remote"
  MaxBufferEntries = 1
  SharedStore = TRUE
  SinkMayExpire = TRUE
  MaxFaults = 2
INVARIANTS LogFollowsCounter AckedIsKept
PROPERTIES RequestsReturn ClosedRunIsFrozen ImplementsRunRecord
