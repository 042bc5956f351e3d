SPECIFICATION Spec
CONSTANTS
  g1 = g1
  g2 = g2
  c1 = c1
  c2 = c2
  None = None
  LongId = LongId
  Games <- TheGames
  Calls <- TheCalls
SYMMETRY Interchangeable
INVARIANTS
  TypeOK
  IdsFromOneReceipt
PROPERTIES
  LiveIsLocked
  RestartKeepsSession
