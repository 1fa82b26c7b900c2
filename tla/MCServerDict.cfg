SPECIFICATION Spec
CONSTANTS
  Receivers = {r1}
  NumWorkers = 2
  QueueMax = 1
  MsgBound = 1
  NoMsg = NoMsg
INVARIANTS
  DictOutlivesWorkers
CHECK_DEADLOCK FALSE
