SPECIFICATION FairEngineSpec
CONSTANTS
  Config <- Document
  Accepts <- AttrsAccepted
  Installed <- MCInstalled
  Desired <- Regular
  Plans <- Reconcile
  Execute <- ExecuteStep
  Undo <- RollbackStep
  Torn = Torn
  Down = Down
  Free = Free
  None = None
  Absent = Absent
  Refused = {"bad"}
  Err = Err
  ReportsFailure = TRUE
  MaxFlakes = 2
  MaxIOFaults = 1
  MaxVersion = 3
  MaxSyncs = 3
  Pushers = {p1}
  Pullers = {p1}
INVARIANTS
  SyncTypeOK
  DriftCheckKeepsService
  SyncedServesDesired
  PlanIsExecutable
  FailedPlanRestores
PROPERTIES
  SyncingEnds
CHECK_DEADLOCK FALSE
