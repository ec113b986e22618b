CONSTANTS
  Users = {u1, u2}
  Queries = {q1}
  Checks = {k1, k2}
  None = None
  MaxEvents = 3
  MaxCalls = 2
SPECIFICATION FairSpec
CHECK_DEADLOCK FALSE
INVARIANT CredentialsWhole
PROPERTIES MixedOnlyByRetry RequestsSettle SpinnerEndsUnlessRefused
