CONSTANTS
  Proc = {p1, p2}
  Run = {r1}
  NoProc = NoProc
  NoRun = NoRun
  MaxSaves = 3
  MaxAcquires = 1
  MaxFaults = 1
  MaxExpiries = 1
SPECIFICATION Spec
SYMMETRY ProcSymmetry
INVARIANTS
  TypeOK
  LinearUnlessRolledBack
  HeadFollowsTranscript
  OwnerKnowsHead
  FrameContinuesHead
  ClosedHoldsNoLease
PROPERTIES
  LoadAdoptsHead
  ImplementsHistory
CHECK_DEADLOCK FALSE
