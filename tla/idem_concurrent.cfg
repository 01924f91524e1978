SPECIFICATION Spec
CONSTANTS
  Requests = {r1, r2}
  Key = {k1}
  Hash = {h1}
  MaxKeys = 1
  TTL = 1
  None = None
  MaxTime = 1
  MaxArrivals = 2
SYMMETRY Symmetry
INVARIANTS
  RetryGetsOriginal
CHECK_DEADLOCK FALSE
