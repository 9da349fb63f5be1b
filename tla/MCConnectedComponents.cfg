CONSTANTS
  Vars <- MCVars
  Idx = {1, 2, 3, 4}
  VarsOf <- MCVarsOf
  MaxFrames = 3
SPECIFICATION FairSpec
INVARIANTS
  ComponentsExact
  ScratchClean
PROPERTY
  Ends
