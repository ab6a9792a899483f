SPECIFICATION Spec
CONSTANTS
  User = {u1, u2}
  PoolSize = 2
  MaxDials = 5
  None = None
INVARIANT PooledAreWatched
