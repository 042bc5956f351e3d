SPECIFICATION FairSpec
CONSTANTS
  o1 = o1
  o2 = o2
  s = s
  Readers <- TheReaders
  Owners <- TheOwners
  Unsteady <- TheUnsteady
  Polls = {p}
  Moves = 2
  MaxGenerations = 2
INVARIANTS
  TypeOK
  AvailableIffCompleteRun
PROPERTIES
  PollsAgree
  ReleasedIsTaken
  ImplementsOneTimeResult
CHECK_DEADLOCK FALSE
