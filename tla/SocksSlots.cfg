SPECIFICATION Spec
CONSTANTS
  None = None
  Conns = {c1, c2}
  Sems <- TwoSems
  m1 = m1
  m2 = m2
  Capacity <- OneEach
INVARIANTS
  SlotReleased
