SPECIFICATION FairSpec
CONSTANTS
  w1 = w1
  w2 = w2
  host = host
  None = None
  Workers <- MCWorkers
  HostOf <- MCHostOf
  Jobs = {j1}
  Publishers = {p1, p2}
  Sweepers = {s1, s2}
  AutoRetry = TRUE
  MaxClaims = 2
  MaxMessages = 5
  MaxCrashes = 2
INVARIANTS
  TypeOK
  GenerationsAreUnique
  OneRunPerJob
  DataLivesWithJob
  WaitingJobIsDue
PROPERTIES
  ImplementsStateMachine
  LeaseAlwaysEnds
  DueJobIsQueued
CHECK_DEADLOCK FALSE
