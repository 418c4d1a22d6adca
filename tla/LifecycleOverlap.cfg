SPECIFICATION FairSpec
CONSTANTS
  s1 = s1
  s2 = s2
  s3 = s3
  c1 = c1
  c2 = c2
  None = None
  Starts <- ThreeStarts
  Stops <- OneStop
  MaxAcceptErrors = 2
  Discipline = "overlapping"
  CapturesDone = TRUE
  ExclusivePort = TRUE
  Limited = FALSE
INVARIANTS
  
  ClosedOnce
  NoOrphanListener
PROPERTIES
  StopReturns
  StopEndsStarts
  ImplementsContract
