CONSTANTS
  Var <- MCVar
  Clauses <- MCHardClauses
  Weight <- MCUnitWeight
  Projected <- MCVar
  Learning = TRUE
  EquivSimp = TRUE
  MinPartition = 4
  MaxPartition = 5000
  CacheMode = "NT"
  Phases <- MCAllTrue
  NoAnswer = NoAnswer
SPECIFICATION Spec
INVARIANTS
  ReturnsExact
  HitExact
  UnitsComplete
  UnitsPaired
  LocalSolveDecides
CHECK_DEADLOCK FALSE
