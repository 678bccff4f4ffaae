SPECIFICATION FairSpec
CONSTANTS
  Paths = {p1, p2, p3}
  NoPath = NoPath
  Signals = {SIGINT, SIGTERM}
  FirstCap = 1
INVARIANTS
  TypeOK
  LivePathsUnlessGrowing
  FirstSignalCleans
PROPERTY
  SignalEndsProcess
CHECK_DEADLOCK FALSE
