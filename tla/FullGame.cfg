SPECIFICATION FairSpec
CONSTANTS
  a = a
  b = b
  NoCaller = NoCaller
  Callers = {a, b}
  Games <- TheGames
  Outputs <- TheOutputs
  StartTimes = {0, 1}
  ScaleCentipawns = 100
  MaxMoves = 3
  MaxPositions = 4
  MaxPositionTime = 2
  MaxGameTime = 4
  CommandTimeout = 1
INVARIANTS
  TypeOK
  NothingLeftBehind
  ResultIsPrefix
  EngineTimeBounded
  ReportIsFair
PROPERTY EveryCallEnds
CHECK_DEADLOCK FALSE
