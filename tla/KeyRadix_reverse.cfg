SPECIFICATION Spec
CONSTANTS
  Lines = {1, 2, 3, 4, 5, 6}
  Fields <- ThreeFields
  Sorts <- SameKeysBackward
  Threshold = 2
  DepthLimit = 3
INVARIANT
  FirstComesFirst
