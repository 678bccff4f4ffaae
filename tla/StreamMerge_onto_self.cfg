SPECIFICATION Spec
CONSTANTS
  Keys = {0, 1}
  EmptyKey = 0
  Inputs <- ThreeFiles
  Order <- Identity
  Targets = {1}
  MayFail = FALSE
INVARIANT
  SafeOntoSelf
CHECK_DEADLOCK FALSE
