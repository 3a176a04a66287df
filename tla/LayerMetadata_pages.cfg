SPECIFICATION Spec
CONSTANTS
  a = a
  b = b
  d = d
  p1 = p1
  p2 = p2
  h1 = h1
  NoPage = NoPage
  NoOne = NoOne
  Chunks <- MCChunks
  Pages <- MCPages
  PageOf <- MCPageOf
  PageLimit = 1
  CreateEmpty = FALSE
  StoredPages <- MCStored
  ReadChunks <- MCReader
  WriteChunks <- MCWriters
  Hashers <- MCHashers
  OneLoop = TRUE
  MaxWrites = 1
  MaxFaults = 2
  MaxFlushes = 2
  MaxHashes = 1
INVARIANTS TypeOK PagesExact EntriesKept FlushSaves FlushNotStuck
CHECK_DEADLOCK FALSE
