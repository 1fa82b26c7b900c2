SPECIFICATION FairSpec
CONSTANTS
  HeaderLen = 4
  MsgLens = {20}
  MaxFrames = 2
  NoByte <- NoMemory
PROPERTIES
  DownStopsThread
CHECK_DEADLOCK FALSE
