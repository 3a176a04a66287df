SPECIFICATION Spec
CONSTANTS
  p1 = p1
  p2 = p2
  p3 = p3
  k1 = k1
  a = a
  b = b
  NoRequest = NoRequest
  Clients <- PagesAndCopyJob
  CopyClients <- CopyJob
  WriteClients <- TwoPages
  Chunks <- OneChunk
  MaxWrites = 3
  MaxLeaks = 1
  MetadataResident = FALSE
  TransfersMayFail = TRUE
SYMMETRY TwoPageSymmetry
INVARIANT TypeOK
INVARIANT RefCountExact
INVARIANT WritesSerialized
INVARIANT SingleFetch
CHECK_DEADLOCK FALSE
