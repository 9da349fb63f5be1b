CONSTANTS
  Var <- MCVar
  Clauses <- MCClauses
  Weight <- MCWeight
  Projected <- MCVar
  Learning = TRUE
  CacheMode = "NT"
  EquivSimp = TRUE
  ReduceFormula = TRUE
  MinPartition = 1
  MaxPartition = 5000
  Options <- MCOptions
  Queries <- MCQueries
  MaxQueries = 2
SPECIFICATION Spec
INVARIANTS
  ReturnsExact
  HitExact
  CutSeparates
  PrintedExact
PROPERTIES
  AnswersQueries
