SPECIFICATION EngineSpec
CONSTANTS
  Config <- Document
  Accepts <- AttrsAccepted
  Installed <- MCInstalled
  Desired <- Dropping
  Plans <- Reconcile
  Execute <- ExecuteStep
  Undo <- RollbackStep
  Torn = Torn
  Down = Down
  Free = Free
  None = None
  Absent = Absent
  Refused = {"bad"}
  Err = Err
  ReportsFailure = TRUE
  MaxFlakes = 0
  MaxIOFaults = 0
  MaxVersion = 1
  MaxSyncs = 3
  Pushers = {p1}
  Pullers = {}
INVARIANTS
  FailedApplyRestores
CHECK_DEADLOCK FALSE
