SPECIFICATION Spec
CONSTANTS
  Task = {t1, t2, t3}
  Calls = {"resume"}
  Polls = FALSE
  Browser = TRUE
  Faults = {"save"}
  None = None
  Settled = Settled
INVARIANTS
  OneDriver
CHECK_DEADLOCK FALSE
