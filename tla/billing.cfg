SPECIFICATION FairBillingSpec
CONSTANTS
  r1 = r1  c1 = c1  s1 = s1  s2 = s2  d1 = d1
  Runs <- OneRun
  Calls <- OneCall
  System <- BillableRows
  Price <- PriceOf
  Context <- ContextOf
  Sweepers <- TwoSweepers
  Drainers <- OneDrainer
  ReplayWindow = 2
  BatchSize = 1
  MaxCost = 2
  MaxIds = 3
  MaxFaults = 1
INVARIANTS BillingTypeOK BilledIsFinal NoRowOutOfReach WonUsageIsKept DrainBillsAllDue
PROPERTIES EveryRowIsBilled ImplementsUsageRecord
CHECK_DEADLOCK FALSE
