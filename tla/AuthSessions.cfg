SPECIFICATION Spec
CONSTANTS
  r1 = r1
  r2 = r2
  Requests <- TheRequests
  Codes = {c}
  MaxTokens = 4
  FailedLogin = 1
  Window = 3
  BlockTime = 3
  MaxFailed = 5
  MaxOutages = 1
SYMMETRY AnyRequest
INVARIANTS
  TypeOK
  NothingIsSpentTwice
  FailuresBounded
PROPERTY ReuseRevokesLocked
CHECK_DEADLOCK FALSE
