CONSTANTS
  Var <- MCVar
  Clauses <- MCClauses
  Weight <- MCUnitWeight
  Projected <- MCProjected
  Learning = FALSE
  EquivSimp = TRUE
  MinPartition = 4
  MaxPartition = 5000
  CacheMode = "NT"
  Phases <- MCAllTrue
  NoAnswer = NoAnswer
SPECIFICATION Spec
INVARIANT ReturnsExact
CHECK_DEADLOCK FALSE
