CONSTANTS
  Users = {u1}
  Queries = {q1}
  Checks = {k1, k2}
  None = None
  MaxEvents = 3
  MaxCalls = 1
SPECIFICATION FairSpec
CHECK_DEADLOCK FALSE
PROPERTIES FailedRestoreSignsOut
