SPECIFICATION PoolFairSpec
CONSTANTS
  Count = 4
  Threads = 4
  MaxWorkers = 3
INVARIANTS
  PoolTypeOK
  TasksRunOnce
PROPERTIES
  ImplementsParallelFor
  Returns
CHECK_DEADLOCK FALSE
