SPECIFICATION Spec
CONSTANTS
  c1 = c1
  c2 = c2
  w1 = w1
  w2 = w2
  s1 = s1
  s2 = s2
  t1 = t1
  t2 = t2
  NoThread = NoThread
  NoChunk = NoChunk
  NoFrame = NoFrame
  Clients <- TwoClients
  Workers <- OneWorker
  SourceChunks <- OneSource
  TargetChunks <- TwoTargets
  RemapSources <- RemapOne
  Requests <- RemappedByTwo
  MaxJobs = 4
  ReadsMayFail = FALSE
  PrepareMayFail = FALSE
  ClientsCancel = FALSE
  MayClose = FALSE
INVARIANT NoCircularWait
CHECK_DEADLOCK FALSE
