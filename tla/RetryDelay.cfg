SPECIFICATION Spec
CONSTANT MaxRetry = 120
INVARIANTS TypeOK IntervalReference
CHECK_DEADLOCK FALSE
