SPECIFICATION SessionSpec
CONSTANTS
  Request = {r1}
  NoId = NoId
  MaxGarbage = 0
INVARIANT ExitOwnsErrors
CHECK_DEADLOCK FALSE
