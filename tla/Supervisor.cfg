\* Run returns in the end, and goroutines may be left that send to it.
CHECK_DEADLOCK FALSE
SPECIFICATION FairSpec
CONSTANTS
  None = None
  Broken = Broken
  first = first
  moved = moved
  other = other
  First = first
  Files <- MCFiles
  Port <- MCPort
  Kind <- MCKind
  MaxStarts = 3
INVARIANTS
  SupTypeOK
  OneTunnelServes
  BoundAsLoaded
  StoppedWhenReturned

  
