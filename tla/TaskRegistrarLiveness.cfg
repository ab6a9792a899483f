SPECIFICATION FairSpec
CONSTANTS
  Task = {t1, t2}
  Worker = {w1}
  MsgId = {1, 2, 3, 4}
  Configs <- TwoParkingQueues
  Submissions <- Paired
  RegisteredTasks <- Registered
  DelayOverflow = 50
  MaxFaults = 1
  None = None
PROPERTIES EveryTaskSettles Quiesces
CHECK_DEADLOCK FALSE
