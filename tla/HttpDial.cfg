\* The dials are used up in the end.
CHECK_DEADLOCK FALSE
SPECIFICATION Spec
SYMMETRY Symmetry
CONSTANTS
  Dials = {d1, d2}
  Names = {n1, n2}
  Base32 = Base32
  Clearnet = Clearnet
  Urls = {u1, u2}
  Exits = {x1, x2}
  Empty = Empty
  None = None
  MaxEntries = 1
  MaxServices = 2
  MaxChanges = 2
INVARIANTS
  DialTypeOK
  CacheBounded
  AnswersAreOwn
  OutproxyAsAsked
