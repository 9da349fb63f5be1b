CONSTANTS
  Var <- MCVar
  Clauses <- MCStaleClauses
  Weight <- MCWeight
  Projected <- MCVar
  Learning = FALSE
  CacheMode = "NT"
  EquivSimp = TRUE
  ReduceFormula = TRUE
  MinPartition = 1
  MaxPartition = 5000
  Options <- MCOptions
  Queries <- MCQueries
  MaxQueries = 2
SPECIFICATION Spec
INVARIANT PlacesDefined
