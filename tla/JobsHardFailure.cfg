SPECIFICATION Spec
CONSTANTS
  w1 = w1
  w2 = w2
  host = host
  None = None
  Workers <- MCWorkers
  HostOf <- MCHostOf
  Jobs = {j1}
  Publishers = {p1}
  Sweepers = {s1}
  AutoRetry = FALSE
  MaxClaims = 1
  MaxMessages = 2
  MaxCrashes = 1
PROPERTIES
  HardFailureTerminalizes
CHECK_DEADLOCK FALSE
