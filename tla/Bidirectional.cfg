SPECIFICATION FairSpec
CONSTANTS
  None = None
  Starts = {s1, s2}
  Stops = {c1}
  MaxErrors = 2
INVARIANTS
  BidirTypeOK
  StopStopsBoth
  RunningHasBoth
PROPERTIES
  ShutProxyEnds
  
