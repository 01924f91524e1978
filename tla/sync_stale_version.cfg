SPECIFICATION EngineSpec
CONSTANTS
  Config <- Document
  Accepts <- AttrsAccepted
  Installed <- MCInstalled
  Desired <- Regular
  Plans <- Reconcile
  Execute <- ExecuteStep
  Undo <- RollbackStep
  Torn = Torn
  Down = Down
  Free = Free
  None = None
  Absent = Absent
  Refused = {"bad"}
  Err = Err
  ReportsFailure = TRUE
  MaxFlakes = 0
  MaxIOFaults = 0
  MaxVersion = 2
  MaxSyncs = 2
  Pushers = {p1}
  Pullers = {q1}
PROPERTIES
  VersionNeverRegresses
CHECK_DEADLOCK FALSE
