SPECIFICATION FairSpec
CONSTANTS
  j1 = j1
  j2 = j2
  j3 = j3
  u1 = u1
  u2 = u2
  u3 = u3
  a = a
  b = b
  d = d
  p1 = p1
  p2 = p2
  p3 = p3
  NoPage = NoPage
  NoThread = NoThread
  NoData = NoData
  Failed = Failed
  Jobs <- None
  Users <- TwoUsers
  Readers <- OneUser
  Committers <- JustSecond
  Creators <- OneUser
  Chunks <- TwoChunks
  Neighbours <- AllNeighbours2
  Pages <- ThreePages
  InitialMaxPages = 2
  PageLimits <- Zero
  MaxWrites = 3
  MaxCalls = 3
  ReadsMayFail = FALSE
PROPERTY CommitSaves
PROPERTY CallsReturn
CHECK_DEADLOCK FALSE
