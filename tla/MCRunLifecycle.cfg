SPECIFICATION Spec
CONSTANTS
  Task = {t1, t2, t3, t4}
  Calls = {"resume", "cancel", "collect"}
  Polls = FALSE
  Browser = FALSE
  Faults = {"save", "checkpoint", "lease"}
  None = None
  Settled = Settled
INVARIANTS
  OneDriver
  RetainedIsDurable
  ChildDisposed
  CancelEnds
PROPERTIES
  RecordMovesForward
  PromptedByOwner
  ReleasedDurable
CHECK_DEADLOCK FALSE
