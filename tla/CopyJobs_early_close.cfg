SPECIFICATION Spec
CONSTANTS
  t1 = t1
  t2 = t2
  NoOne = NoOne
  Threads <- OneThread
  Flushers <- OneThread
  MaxCopies = 2
  MinConcurrent = 1
  PoolSize = 1
  MaxFlushes = 1
  CloseEarly = TRUE
PROPERTY CallsReturn
CHECK_DEADLOCK FALSE
