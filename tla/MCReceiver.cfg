SPECIFICATION FairSpec
CONSTANTS
  HeaderLen = 4
  MsgLens = {20, 28}
  MaxFrames = 2
  NoByte <- NoMemory
INVARIANTS
  TypeOK
  FramesIntact
PROPERTIES
  FrameDelivered
  StopsOutsideBody
CHECK_DEADLOCK FALSE
