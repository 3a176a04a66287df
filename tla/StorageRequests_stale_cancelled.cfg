SPECIFICATION Spec
CONSTANTS
  p1 = p1
  p2 = p2
  p3 = p3
  k1 = k1
  a = a
  b = b
  NoRequest = NoRequest
  Clients <- TwoPages
  CopyClients <- NoClient
  WriteClients <- OnePage
  Chunks <- OneChunk
  MaxWrites = 1
  MaxLeaks = 0
  MetadataResident = TRUE
  TransfersMayFail = FALSE
INVARIANT NoStalePending
