CONSTANTS
  c1 = c1
  c2 = c2
  c3 = c3
  c4 = c4
  Idx = {c1, c2, c3, c4}
  Assigned = {4}
  Inputs <- MCInputs
  ByteBits = 2
  SizeBits = 10
  MaxCalls = 2
SYMMETRY Symmetry
SPECIFICATION Spec
INVARIANTS
  GroupsExact
  ScratchClean
  KeyExact
  FormExact
CHECK_DEADLOCK FALSE
