SPECIFICATION FairSpec
CONSTANTS
  c1 = c1
  c2 = c2
  w1 = w1
  w2 = w2
  s1 = s1
  s2 = s2
  t1 = t1
  t2 = t2
  NoThread = NoThread
  NoChunk = NoChunk
  NoFrame = NoFrame
  Clients <- OneClient
  Workers <- OneWorker
  SourceChunks <- TwoSources
  TargetChunks <- NoChunks
  RemapSources <- NoRemap
  Requests <- OneBitRequest
  MaxJobs = 1
  ReadsMayFail = TRUE
  PrepareMayFail = FALSE
  ClientsCancel = FALSE
  MayClose = FALSE
PROPERTY JobsFinish
CHECK_DEADLOCK FALSE
