SPECIFICATION Spec
CONSTANTS
  t1 = t1
  t2 = t2
  NoOne = NoOne
  Threads <- OneThread
  Flushers <- OneThread
  MaxCopies = 3
  MinConcurrent = 1
  PoolSize = 1
  MaxFlushes = 1
  CloseEarly = FALSE
INVARIANT NothingSwallowed
CHECK_DEADLOCK FALSE
