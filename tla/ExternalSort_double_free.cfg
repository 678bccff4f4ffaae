SPECIFICATION Spec
CONSTANTS
  Keys = {1, 2}
  Jobs <- SortFour
  Orders <- ByNumber
  BufferSize = 1
  MaxRead = 2
  Batch = 2
  Faults = {"merge"}
  Paths <- NumberedPaths
  NoPath = 0
INVARIANT
  ErrorsExitNormally
CHECK_DEADLOCK FALSE
