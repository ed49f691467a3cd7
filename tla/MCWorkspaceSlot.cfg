SPECIFICATION Spec
CONSTANTS
  Proc = {p1, p2}
  Run = {r1, r2}
  Task = {t1, t2, t3}
  Calls = {"continue", "apply", "retain", "discard"}
  MaxResults = 2
  MaxCommits = 1
  MaxErrors = 1
  MaxResets = 1
  None = None
INVARIANTS TypeOK TokenHolder PreparedNotInParent ResultReachable
PROPERTIES FateIsFinal SlotKept WorkSurvives
CONSTRAINT OneFault
CHECK_DEADLOCK FALSE
