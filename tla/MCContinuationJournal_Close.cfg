CONSTANTS
  Proc = {p1, p2}
  Run = {r1}
  NoProc = NoProc
  NoRun = NoRun
  MaxSaves = 2
  MaxAcquires = 1
  MaxFaults = 1
  MaxExpiries = 1
SPECIFICATION FairSpec
PROPERTY CloseTerminates
CHECK_DEADLOCK FALSE
