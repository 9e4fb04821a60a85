SPECIFICATION FairTerminationSpec
CONSTANTS
  Closers <- OneCloser
  MaxFaults = 2
INVARIANTS TerminationTypeOK
PROPERTIES LauncherDefersToAborter EveryRunEnds TerminationImplementsRunRecord
CHECK_DEADLOCK FALSE
