SPECIFICATION FairSpec
CONSTANTS
  None = None
  Starts = {s1, s2}
  Stops = {c1}
PROPERTIES
  StopReturns
