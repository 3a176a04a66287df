SPECIFICATION Spec
CONSTANTS
  t1 = t1
  t2 = t2
  NoOne = NoOne
  Threads <- TwoThreads
  Flushers <- OneThread
  MaxCopies = 3
  MinConcurrent = 1
  PoolSize = 1
  MaxFlushes = 2
  CloseEarly = FALSE
INVARIANT TypeOK
PROPERTIES FlushCopies CallsReturn
CHECK_DEADLOCK FALSE
