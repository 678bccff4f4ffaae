SPECIFICATION Spec
CONSTANTS
  Lines = {1, 2, 3, 4, 5, 6}
  Fields <- ThreeFields
  Sorts <- SeveralSorts
  Threshold = 2
  DepthLimit = 3
INVARIANTS
  TypeOK
  RangesApart
  SortsByKeys
PROPERTY
  RangesDescend
