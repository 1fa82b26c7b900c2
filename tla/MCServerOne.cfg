SPECIFICATION FairSpec
CONSTANTS
  Receivers = {r1}
  NumWorkers = 3
  QueueMax = 2
  MsgBound = 5
  NoMsg = NoMsg
INVARIANTS
  RoundRobin
  WorkerExists
PROPERTIES
  QueuedIsHandled
CHECK_DEADLOCK FALSE
