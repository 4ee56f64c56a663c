CONSTANTS
  g1 = g1
  g2 = g2
  c1 = c1
  c2 = c2
  Games <- MCGames
  Chains <- MCChains
  MaxStreams = 2
  Window = 1
  Silence = 1
  LowPeriod = 1
  MaxRows = 2
SPECIFICATION Spec
INVARIANTS
  StatisticsAreOfOneStream
  HistoryIsOfTarget
PROPERTY StopEnds
