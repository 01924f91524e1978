SPECIFICATION FairSpec
CONSTANTS
  Config <- WideConfig
  Accepts <- Accepted
  Installed <- WideInstalled
  Op <- CreateOps
  ClientEdit <- TabledEdit
  Torn = Torn
  Down = Down
  Free = Free
  Nil = Nil
  Absent = Absent
  Err = Err
  ReportsFailure = TRUE
  MaxFlakes = 1
  MaxFaults = 1
  MaxWrites = 3
  Writers = {w1, w2}
  Callbacks = {c1, c2}
  Timers = {t1, t2}
INVARIANTS
  TypeOK
  NoLostUpdate
  NoForgottenReload
  RunsWhatIsOnDisk
  RollbackSparesNewerWrites
PROPERTIES
  ImplementsStore
  EventuallyReloaded
  RequestsAnswered
CHECK_DEADLOCK FALSE
