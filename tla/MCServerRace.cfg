SPECIFICATION Spec
CONSTANTS
  Receivers = {r1, r2}
  NumWorkers = 2
  QueueMax = 1
  MsgBound = 2
  NoMsg = NoMsg
INVARIANTS
  WorkerExists
CHECK_DEADLOCK FALSE
