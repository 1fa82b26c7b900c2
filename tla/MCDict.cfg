SPECIFICATION Spec
CONSTANTS
  Names <- Strings
  Documents <- Files
  Rank <- Ranking
  InitialSize = 2
  MaxLoads = 2
INVARIANTS
  TypeOK
  LoadedAsDeclared
  GroupedRulesNamed
  LookupDecodes
PROPERTIES
  LoadEnds
CHECK_DEADLOCK FALSE
