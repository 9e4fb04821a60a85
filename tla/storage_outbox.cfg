SPECIFICATION FairOutboxSpec
CONSTANTS
  w1 = w1  w2 = w2  p1 = p1  p2 = p2  f1 = f1
  Manifest = Manifest
  None = None
  Versions <- OneVersion
  RunFiles <- OneFile
  Publishers <- OneWriter
  Replacers <- OtherWriter
  Deleters <- OtherWriter
  Passes <- TwoPasses
  MaxJobs = 1
  MaxFaults = 1
INVARIANTS OutboxTypeOK LiveRowHasBytes NoWorkspaceOrphan OneOwner
CHECK_DEADLOCK FALSE
PROPERTIES EveryJobCompletes
