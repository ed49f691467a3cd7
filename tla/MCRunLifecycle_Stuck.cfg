SPECIFICATION Spec
CONSTANTS
  Task = {t1, t2, t3}
  Calls = {"resume"}
  Polls = FALSE
  Browser = FALSE
  Faults = {"checkpoint"}
  None = None
  Settled = Settled
INVARIANTS
  NeverStuck
CHECK_DEADLOCK FALSE
