SPECIFICATION Spec
CONSTANTS
  Elems = {1, 2}
  InitialSize = 1
  SizeBound = 4
  OK = 0
  ENOENT = 2
  NONE = 0
  Lists = {l1, l2}
  Links = {e1, e2, e3}
  NULL = NULL
  Junk = Junk
INVARIANTS
  ArrayTypeOK
  ListTypeOK
  RingOrder
PROPERTIES
  ArrayIsSequence
CHECK_DEADLOCK FALSE
