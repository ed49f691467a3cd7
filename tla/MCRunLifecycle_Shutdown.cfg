SPECIFICATION Spec
CONSTANTS
  Task = {t1, t2, t3}
  Calls = {"resume", "cancel", "collect", "shutdown"}
  Polls = TRUE
  Browser = TRUE
  Faults = {"save", "checkpoint", "lease"}
  None = None
  Settled = Settled
INVARIANTS
  TypeOK
  LeaseReturned
  NoneStuck
  ShutdownParks
CONSTRAINT OneFault
CHECK_DEADLOCK FALSE
