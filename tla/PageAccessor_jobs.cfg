SPECIFICATION FairSpec
CONSTANTS
  j1 = j1
  j2 = j2
  j3 = j3
  u1 = u1
  u2 = u2
  u3 = u3
  a = a
  b = b
  d = d
  p1 = p1
  p2 = p2
  p3 = p3
  NoPage = NoPage
  NoThread = NoThread
  NoData = NoData
  Failed = Failed
  Jobs <- ThreeJobs
  Users <- None
  Readers <- None
  Committers <- None
  Creators <- None
  Chunks <- OneChunk
  Neighbours <- NoNeighbours1
  Pages <- TwoPages
  InitialMaxPages = 1
  PageLimits <- Zero
  MaxWrites = 0
  MaxCalls = 2
  ReadsMayFail = TRUE
INVARIANT TypeOK
INVARIANT PinsExact
INVARIANT PreparationsExact
PROPERTY OthersReturn
CHECK_DEADLOCK FALSE
