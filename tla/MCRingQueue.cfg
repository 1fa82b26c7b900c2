SPECIFICATION FairSpec
CONSTANTS
  Threads = {t1, t2, t3}
  Elems = {a, b}
  NoElem = NoElem
  NoThread = NoThread
  Capacity = 3
  WordSize = 9
INVARIANTS
  TypeOK
  CopyInPlace
  QueueSizeExact
PROPERTIES
  FifoSpec
  LockReleased
