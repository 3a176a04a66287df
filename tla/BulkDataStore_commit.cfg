SPECIFICATION Spec
CONSTANTS
  NumLayers = 2
  NumChunks = 2
  EntriesPerPage = 1
  HeaderSize = 1
  TableEntrySize = 1
  DirectorySize = 2
  IndexPageSize = 1
  ChunkSize <- MCChunkSize
  FailingWrites <- MCBelowTable
  MaxWrites = 2
  MaxAdds = 2
  MaxFlushes = 2
  MaxFaults = 1
  MaxCrashes = 1
  Lost = Lost
  Garbage = Garbage
  Absent = Absent
INVARIANTS TypeOK ExtentsDisjoint FlushSaves
PROPERTY KeepsPromise
CHECK_DEADLOCK FALSE
