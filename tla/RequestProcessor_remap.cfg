SPECIFICATION FairSpec
CONSTANTS
  c1 = c1
  c2 = c2
  w1 = w1
  w2 = w2
  s1 = s1
  s2 = s2
  t1 = t1
  t2 = t2
  NoThread = NoThread
  NoChunk = NoChunk
  NoFrame = NoFrame
  Clients <- OneClient
  Workers <- TwoWorkers
  SourceChunks <- TwoSources
  TargetChunks <- TwoTargets
  RemapSources <- RemapOne
  Requests <- RemappedRequests
  MaxJobs = 4
  ReadsMayFail = TRUE
  PrepareMayFail = FALSE
  ClientsCancel = TRUE
  MayClose = FALSE
INVARIANT TypeOK
INVARIANT PinsExact
INVARIANT TakenOutIsQuiet
INVARIANT CompletedMeansRead
INVARIANT RemapTargetAlive
PROPERTY JobsFinish
CHECK_DEADLOCK FALSE
