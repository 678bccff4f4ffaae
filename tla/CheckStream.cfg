SPECIFICATION Spec
CONSTANTS
  Records <- SixRecords
  Files <- UpToThree
  Options <- SomeOptions
  Delim = 0
  Separator = 1
  Field = 2
  Reads = {1, 3}
  FirstCap = 2
  MayFail = TRUE
INVARIANTS
  TypeOK
  KeptKeyIsPrevious
  AgreesWithSort
CHECK_DEADLOCK FALSE
