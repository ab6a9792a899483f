SPECIFICATION Spec
CONSTANTS
  Concurrency = 2
  Message = {m1}
  Empty = {}
  Stopper = {s1}
  Registered = TRUE
  PrefetchCount = 2
  MaxLosses = 1
  None = None
INVARIANT StopIsClean
CHECK_DEADLOCK FALSE
