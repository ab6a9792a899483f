SPECIFICATION Spec
CONSTANTS
  User = {u1, u2, u3}
  PoolSize = 2
  MaxDials = 5
  None = None
SYMMETRY Symmetry
INVARIANTS TypeOK Exclusive NoLeak ConnectionsBounded
PROPERTY GoneStaysGone
