SPECIFICATION FairSpec
CONSTANTS
  None = None
  Bad = Bad
  NaN = NaN
  NoI2CP = NoI2CP
  old = old
  new = new
  Starts = {s1, s2}
  Stops = {c1}
  Setters = {o1}
  Loaders = {l1}
  MaxAcceptErrors = 1
  Discipline = "sequential"
  CapturesDone = TRUE
  ExclusivePort = FALSE
  Limited = FALSE
  Forms <- MCForms
  Files <- MCFiles
  Initial <- MCInitial
INVARIANTS
  ConfigTypeOK
PROPERTIES
  ImplementsConfiguration
  OptionCallsReturn
