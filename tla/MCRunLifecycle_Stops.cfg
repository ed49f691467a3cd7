SPECIFICATION FairSpec
CONSTANTS
  Task = {t1, t2, t3}
  Calls = {"resume", "cancel", "shutdown"}
  Polls = TRUE
  Browser = TRUE
  Faults = {}
  None = None
  Settled = Settled
PROPERTY OperationsStop
CHECK_DEADLOCK FALSE
