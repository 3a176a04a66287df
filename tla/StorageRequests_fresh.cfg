SPECIFICATION FairSpec
CONSTANTS
  p1 = p1
  p2 = p2
  p3 = p3
  k1 = k1
  a = a
  b = b
  NoRequest = NoRequest
  Clients <- ThreePages
  CopyClients <- NoClient
  WriteClients <- OnePage
  Chunks <- OneChunk
  MaxWrites = 2
  MaxLeaks = 0
  MetadataResident = TRUE
  TransfersMayFail = TRUE
INVARIANT FreshRead
PROPERTY ReadersReturn
PROPERTY LoneWriterProceeds
