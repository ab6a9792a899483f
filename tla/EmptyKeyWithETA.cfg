SPECIFICATION Spec
CONSTANTS
  Task = {t1}
  Worker = {w1}
  MsgId = {1, 2, 3, 4, 5}
  Configs <- TwoParkingQueues
  Submissions <- EmptyKeyWithETA
  RegisteredTasks <- Registered
  DelayOverflow = 50
  MaxFaults = 1
  None = None
INVARIANTS EmptyKeyIsDefaulted
CHECK_DEADLOCK FALSE
