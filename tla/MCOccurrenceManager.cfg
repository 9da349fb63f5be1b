CONSTANTS
  Var <- MCVar
  NbClause = 3
  Lits <- MCLits
  FirstOf <- MCFirstOf
  SolverClauses <- MCLits
  ScoreActivity <- MCActivity
  Polarity <- MCPolarity
  Projected <- MCProjected
  MaxBatch = 2
  MaxFrames = 4
SPECIFICATION Spec
INVARIANTS
  IInv
  ListsAndCountersExact
  WatcherUnassigned
  ListUpdatesDefined
  CurrentClausesExact
  SelectionExact
PROPERTY UndoRestores
