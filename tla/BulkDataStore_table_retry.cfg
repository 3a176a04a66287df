SPECIFICATION Spec
CONSTANTS
  NumLayers = 2
  NumChunks = 1
  EntriesPerPage = 1
  HeaderSize = 1
  TableEntrySize = 1
  DirectorySize = 2
  IndexPageSize = 1
  ChunkSize <- MCChunkSize
  FailingWrites <- MCTable
  MaxWrites = 1
  MaxAdds = 2
  MaxFlushes = 2
  MaxFaults = 1
  MaxCrashes = 1
  Lost = Lost
  Garbage = Garbage
  Absent = Absent
INVARIANT FlushSaves
CHECK_DEADLOCK FALSE
