SPECIFICATION Spec
CONSTANTS
  a1 = a1
  b1 = b1
  a = a
  b = b
  NoJob = NoJob
  Jobs <- TwoJobs
  Users = {a, b}
  Owner <- OwnerOfTwo
  ActiveLimit = 1
  WaitLimit = 1
  WaitTime = 1
  MaxSequence = 2
  Requests = {r1}
  MaxFailures = 0
PROPERTIES
  PromotionCreatesOutbox
CHECK_DEADLOCK FALSE
