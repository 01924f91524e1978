SPECIFICATION Spec
CONSTANTS
  Requests = {r1, r2}
  Key = {k1, k2}
  Hash = {h1, h2}
  MaxKeys = 1
  TTL = 1
  None = None
  MaxTime = 2
  MaxArrivals = 4
SYMMETRY Symmetry
INVARIANTS
  TypeOK
  StoreBounded
  AnswersOwnRun
PROPERTIES
  KeptUntilExpiry
CHECK_DEADLOCK FALSE
