SPECIFICATION Spec
CONSTANTS
  Proc = {p1}
  Run = {r1, r2}
  Task = {t1, t2, t3}
  Calls = {"continue"}
  MaxResults = 2
  MaxCommits = 0
  MaxErrors = 0
  MaxResets = 0
  None = None
PROPERTIES FinalizedFirst
CHECK_DEADLOCK FALSE
