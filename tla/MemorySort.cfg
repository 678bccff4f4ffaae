SPECIFICATION FairSpec
CONSTANTS
  Jobs <- ManyJobs
  MaxRead = 2
  MaxOffset = 15
  Threshold = 1
  DepthLimit = 2
  IovMax = 4
  BufferSize = 3
INVARIANTS
  TypeOK
  LinesAreRead
  RangesApart
  WritesTheSort
PROPERTY
  Terminates
CHECK_DEADLOCK FALSE
