SPECIFICATION ServerSpec
CONSTANTS
  Config <- Document
  Accepts <- MCAccepts
  Installed <- MCInstalled
  Op <- MCOp
  ClientEdit <- ClientOp
  Desired <- MCDesired
  Plans <- Reconcile
  Execute <- ExecuteStep
  Undo <- RollbackStep
  Torn = Torn
  Down = Down
  Free = Free
  Nil = Nil
  None = None
  Absent = Absent
  Err = Err
  ReportsFailure = TRUE
  MaxFlakes = 0
  MaxFaults = 0
  MaxIOFaults = 0
  MaxWrites = 2
  MaxVersion = 1
  MaxSyncs = 2
  MaxRestarts = 1
  Writers = {w1}
  Callbacks = {c1, c2}
  Timers = {t1, t2}
  Pushers = {}
  Pullers = {q1}
SYMMETRY Symmetry
INVARIANTS
  NoLostUpdate
  OnlyARestartForgets
  WholeWhenUnlocked
  SyncingMeansActive
  QuietAgentRunsDisk
PROPERTIES
  DamageIsKept
CHECK_DEADLOCK FALSE
