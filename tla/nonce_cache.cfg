SPECIFICATION Spec
CONSTANTS
  Requests = {r1, r2}
  Nonces = {n1, n2, n3}
  MaxSize = 2
  TTL = 3
  Skew = 1
  ReadTimeout = 1
  None = None
  MaxTime = 5
  MaxArrivals = 4
SYMMETRY Symmetry
INVARIANTS
  QueueMatchesCache
  AcceptedOnce
CHECK_DEADLOCK FALSE
