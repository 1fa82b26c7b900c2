SPECIFICATION FairSpec
CONSTANTS
  Workers = {w1}
  QueueMax = 1
  PushBound = 3
  Clients = {c1, c2, c3}
  MaxFd = 3
  Backlog = 2
  Unused = Unused
  Listening = Listening
  Nobody = Nobody
INVARIANTS
  WorkerTypeOK
  StoppedIsQuiet
  LossIsExplained
  UsedWhileAllocated
  ListenerTypeOK
  SocketIsOwned
  ReceiversAreCreated
  ServingGoesOn
PROPERTIES
  StopReturns
  WaitingIsServed
CHECK_DEADLOCK FALSE
