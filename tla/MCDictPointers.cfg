SPECIFICATION Spec
CONSTANTS
  Names <- Strings
  Documents <- Descending
  Rank <- Ranking
  InitialSize = 2
  MaxLoads = 1
INVARIANTS
  BuiltAsNamed
CHECK_DEADLOCK FALSE
