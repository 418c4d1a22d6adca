SPECIFICATION Spec
CONSTANTS
  s1 = s1
  s2 = s2
  s3 = s3
  c1 = c1
  c2 = c2
  None = None
  Starts <- ThreeStarts
  Stops <- TwoStops
  MaxAcceptErrors = 2
  Discipline = "orderly"
  CapturesDone = FALSE
  ExclusivePort = FALSE
  Limited = TRUE
INVARIANTS
  ReturnedMeansClosed
  RunningMeansServing
  UptimeMeansServing
