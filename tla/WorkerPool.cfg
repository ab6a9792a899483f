SPECIFICATION FairSpec
CONSTANTS
  Concurrency = 2
  Message = {m1, m2, m3, e}
  Empty = {e}
  Stopper = {s1, s2}
  Registered = TRUE
  PrefetchCount = 3
  MaxLosses = 2
  None = None
INVARIANTS TypeOK EveryMessageAccounted SurvivesFaults
PROPERTIES ImplementsConsumption StopEnds EveryMessageHandled
CHECK_DEADLOCK FALSE
