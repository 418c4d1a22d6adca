SPECIFICATION FairSpec
CONSTANTS
  s1 = s1
  s2 = s2
  c1 = c1
  None = None
  Starts <- TwoStarts
  Stops <- OneStop
  MaxErrors = 3
  MinBackoff = 4
  MaxBackoff = 12
INVARIANTS
  UdpTypeOK
  BackoffFollowsErrors
PROPERTIES
  
  
  StoppedStartReturns
