CONSTANTS
  Var = {1, 2, 3}
  Invocations <- MCSetInvocations
  None = None
  IntValues = 65536
SPECIFICATION Spec
INVARIANT RemovalsFind
CHECK_DEADLOCK FALSE
