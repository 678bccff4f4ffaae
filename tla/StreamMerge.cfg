SPECIFICATION FairSpec
CONSTANTS
  Keys = {0, 1}
  EmptyKey = 0
  Inputs <- SortedInputs
  Order <- Identity
  Targets = {0}
  MayFail = TRUE
INVARIANTS
  TypeOK
  HeapIsRight
PROPERTY
  ImplementsSort
CHECK_DEADLOCK FALSE
