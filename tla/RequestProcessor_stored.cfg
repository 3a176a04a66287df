SPECIFICATION FairSpec
CONSTANTS
  c1 = c1
  c2 = c2
  w1 = w1
  w2 = w2
  s1 = s1
  s2 = s2
  t1 = t1
  t2 = t2
  NoThread = NoThread
  NoChunk = NoChunk
  NoFrame = NoFrame
  Clients <- OneClient
  Workers <- TwoWorkers
  SourceChunks <- TwoSources
  TargetChunks <- NoChunks
  RemapSources <- NoRemap
  Requests <- StoredRequests
  MaxJobs = 2
  ReadsMayFail = TRUE
  PrepareMayFail = TRUE
  ClientsCancel = FALSE
  MayClose = TRUE
INVARIANT AccessorsStay
PROPERTY CloseEnds
CHECK_DEADLOCK FALSE
