CONSTANTS
  Var <- MCVar
  Clauses <- MCClauses
  Input <- MCInput
  Activities <- MCActivities
  Branches <- MCBranches
  Learning = TRUE
  RestartFirst = 1
  GarbagePercent = 10
  MaxReductions = 2
  MaxProbes = 2
  MaxBranches = 2
SPECIFICATION FairSpec
INVARIANTS
  ReferencesExact
  PropagationComplete
  Sound
  ClassesDetermined
PROPERTIES
  KeepsPromise
  Answers
