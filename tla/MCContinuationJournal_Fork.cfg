CONSTANTS
  Proc = {p1, p2}
  Run = {r1}
  NoProc = NoProc
  NoRun = NoRun
  MaxSaves = 4
  MaxAcquires = 0
  MaxFaults = 0
  MaxExpiries = 1
SPECIFICATION Spec
SYMMETRY ProcSymmetry
INVARIANT LinearHistory
CHECK_DEADLOCK FALSE
