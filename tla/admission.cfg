SPECIFICATION FairAdmissionSpec
CONSTANTS
  a1 = a1  a2 = a2  e1 = e1  o1 = o1  d1 = d1  k1 = k1  s1 = s1
  x1 = x1  w1 = w1  b1 = b1  i1 = i1
  agent = agent  other = other  f1 = f1  f2 = f2
  None = None
  Admissions <- TwoAdmissions
  Failures <- OneFailure
  OldRuns <- OneOldRun
  RunDeleters <- OneRunDeleter
  OrgDeleters <- OneOrgDeleter
  SpaceDeleters <- OneSpaceDeleter
  FileDeleters <- OneFileDeleter
  Sweepers <- OneSweeper
  Publishers <- OnePublisher
  ItemDeleters <- OneItemDeleter
  Packages <- BothPackages
  Files <- BothFiles
  Agent <- AgentOf
  Input <- InputOf
  Target <- TargetOf
  Producer <- ProducerOf
  Contained <- ContainedFiles
  Cap = 1
  MaxRequests = 5
INVARIANTS AdmissionTypeOK CapHolds NumbersUnique NothingBehindReservation InputsResolve NoFileSilentlyDropped KeyTakersNeverDeadlock
PROPERTIES ImplementsAdmissionRecord ActiveRunsAreKept RequestsAreAnswered
CHECK_DEADLOCK FALSE
