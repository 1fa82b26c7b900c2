SPECIFICATION Spec
CONSTANTS
  Messages <- Short
  Dictionary <- Codec
  MaxMessages = 1
INVARIANTS
  TypeOK
  AllDecoded
PROPERTIES
  ParseEnds
CHECK_DEADLOCK FALSE
