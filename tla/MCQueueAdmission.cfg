SPECIFICATION FairSpec
CONSTANTS
  a1 = a1
  a2 = a2
  b1 = b1
  c1 = c1
  d1 = d1
  e1 = e1
  a = a
  b = b
  c = c
  d = d
  e = e
  NoJob = NoJob
  Jobs <- MCJobs
  Users <- MCUsers
  Owner <- MCOwner
  ActiveLimit = 2
  WaitLimit = 2
  WaitTime = 2
  MaxSequence = 4
INVARIANTS
  TypeOK
  UsersMatchQueues
  WithinLimits
  NoIdleSlot
  WaitRecords
PROPERTIES
  NoOvertaking
  WaitBudgetNeverGrows
  EveryWaitEnds
