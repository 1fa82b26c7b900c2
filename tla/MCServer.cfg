SPECIFICATION Spec
CONSTANTS
  Receivers = {r1, r2}
  NumWorkers = 2
  QueueMax = 2
  MsgBound = 2
  NoMsg = NoMsg
SYMMETRY Symmetric
INVARIANTS
  TypeOK
  OneOwner
  ConnectionOrder
CHECK_DEADLOCK FALSE
