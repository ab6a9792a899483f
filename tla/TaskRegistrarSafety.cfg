SPECIFICATION Spec
CONSTANTS
  Task = {t1}
  Worker = {w1, w2}
  MsgId = {1, 2, 3, 4, 5, 6, 7}
  Configs <- AllConfigs
  Submissions <- Mixed
  RegisteredTasks <- Registered
  DelayOverflow = 50
  MaxFaults = 2
  None = None
SYMMETRY Symmetry
INVARIANTS TypeOK IndInv NoTaskLost AttemptsBounded
PROPERTIES RetriesAreDelayed ImplementsTaskQueue
CHECK_DEADLOCK FALSE
