CONSTANTS
  Var = {1, 2, 3}
  Invocations <- MCInvocations
  None = None
  IntValues = 65536
SPECIFICATION Spec
INVARIANTS
  ProblemKept
  NothingToPropagate
  OthersAreSets
CHECK_DEADLOCK FALSE
