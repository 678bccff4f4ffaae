SPECIFICATION FairSpec
CONSTANTS
  Keys = {1, 2}
  Jobs <- SortMany
  Orders <- ByNumber
  BufferSize = 1
  MaxRead = 2
  Batch = 2
  Faults = {"open", "read", "mktemp", "write", "filter", "merge", "alloc"}
  Paths <- NumberedPaths
  NoPath = 0
INVARIANTS
  TypeOK
  NoTempLeftAtExit
  MergeInputsIntact
  RunsHoldInput
PROPERTY
  ImplementsSort
CHECK_DEADLOCK FALSE
