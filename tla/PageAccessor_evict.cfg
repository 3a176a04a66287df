SPECIFICATION FairSpec
CONSTANTS
  j1 = j1
  j2 = j2
  j3 = j3
  u1 = u1
  u2 = u2
  u3 = u3
  a = a
  b = b
  d = d
  p1 = p1
  p2 = p2
  p3 = p3
  NoPage = NoPage
  NoThread = NoThread
  NoData = NoData
  Failed = Failed
  Jobs <- None
  Users <- TwoUsers
  Readers <- TwoUsers
  Committers <- None
  Creators <- None
  Chunks <- ThreeChunks
  Neighbours <- AllNeighbours3
  Pages <- ThreePages
  InitialMaxPages = 1
  PageLimits <- None
  MaxWrites = 2
  MaxCalls = 2
  ReadsMayFail = FALSE
INVARIANT LastWriteKept
INVARIANT ReadsSeeWrites
INVARIANT MarginsArrive
CHECK_DEADLOCK FALSE
