CONSTANTS
  Var <- MCVar
  Clauses <- MCClauses
  Weight <- MCWeight
  Projected <- MCProjected
  Learning = TRUE
  EquivSimp = TRUE
  MinPartition = 10
  MaxPartition = 5000
  CacheMode = "NB"
  Phases <- MCBoth
  NoAnswer = NoAnswer
SPECIFICATION FairSpec
PROPERTIES
  CountCorrect
  Terminates
CHECK_DEADLOCK FALSE
