SPECIFICATION Spec
CONSTANTS
  Task = {t1}
  Worker = {w1}
  MsgId = {1, 2, 3, 4, 5}
  Configs <- TwoParkingQueues
  Submissions <- FiftyRetries
  RegisteredTasks <- Registered
  DelayOverflow = 50
  MaxFaults = 0
  None = None
PROPERTIES RetriesAreDelayed
CHECK_DEADLOCK FALSE
