SPECIFICATION Spec
CONSTANTS
  Dialog = {d1, d2, d3}
  Bus = {bus}
  NoBus = NoBus
  Scope = {s1, s2, s3}
  Stmt = {w1, w2}
  Root = Root
  Outside = Outside
  Closing = Closing
  MaxFaults = 1
  Request = {r1, r2}
  NoId = NoId
  MaxGarbage = 1
  Key = {k1, k2}
  Box = {b1, b2, b3}
  NoBox = NoBox
  NoKey = NoKey
  MaxReloads = 1
  AgentRun = {a1, a2}
  Isolated = {a1}
  NoRun = NoRun
  MaxActive = 2
  MaxRetained = 1
  MaxUpdates = 2
  MaxUnsaved = 1
INVARIANTS TypesOK OneOnScreen ScreenAnnounced CommittedExactly NobodyForgotten NoneUnowned Told Accounted
PROPERTIES OwnAnswer EveryoneServed CallsAnswered AbortEnds
CONSTRAINT OneTrouble
CHECK_DEADLOCK FALSE
