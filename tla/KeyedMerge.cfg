SPECIFICATION FairSpec
CONSTANTS
  Texts = {1, 2, 3}
  Plain <- PlainOf
  Prepared <- PreparedOf
  Jobs <- SomeJobs
  IovMax = 4
  MayFail = TRUE
INVARIANTS
  TypeOK
  HeapIsRight
  VectorFits
PROPERTY
  ImplementsSort
CHECK_DEADLOCK FALSE
