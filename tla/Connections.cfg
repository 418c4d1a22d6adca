SPECIFICATION ConnFairSpec
CONSTANTS
  c1 = c1
  c2 = c2
  m1 = m1
  m2 = m2
  None = None
  Ids = {i1, i2}
  Conns <- MCConns
  Sems <- MCSems
  Capacity <- MCCapacity
INVARIANTS
  ConnTypeOK
  SlotsMatchHolders
  GaugeMatches
PROPERTIES
  StopEndsConnections
