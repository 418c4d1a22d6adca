\* The requests are used up in the end, or a file that cannot be loaded keeps the
\* program from starting.
CHECK_DEADLOCK FALSE
SPECIFICATION Spec
CONSTANTS
  Tunnels = {t1, t2}
  Requests = {r1, r2, r3}
  Values = {v1, v2}
  Default = Default
  None = None
  Torn = Torn
  Serial = TRUE
  MaxCrashes = 2
INVARIANTS
  GroupTypeOK
  
  
  

  
