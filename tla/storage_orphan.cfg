SPECIFICATION Spec
CONSTANTS
  w1 = w1  w2 = w2  p1 = p1  p2 = p2  f1 = f1
  Manifest = Manifest
  None = None
  Versions <- OneVersion
  RunFiles <- NoFiles
  Publishers <- OneWriter
  Replacers <- NoWriter
  Deleters <- NoWriter
  Passes <- OnePass
  MaxJobs = 2
  MaxFaults = 0
INVARIANTS NoSilentOrphan
CHECK_DEADLOCK FALSE
