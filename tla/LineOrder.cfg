SPECIFICATION Spec
CONSTANTS
  Words <- MCWords
  Commands <- MCCommands
  NameLists <- MCNameLists
  MaxSize = 4095
  Inputs <- MCInputs
  Digest <- MCDigest
  Garbage <- MCGarbage
INVARIANTS
  TypeOK
  UnreadIntact
  ReadAsGiven
  OneOrdering
  SpansAreFields
  EnginesAgree
  OrderIsTotal
  NumbersByValue
