CONSTANTS
  Threads = {0, 1}
  MAX_THREADS = 3
  Keys = {1, 2}
  TOMBSTONE = 9
  Hash <- MCHash
  InitCapacity = 2
  CHUNK_SIZE = 2
  Full = 1
  LongProbe = 1
  MaxTables = 2
SPECIFICATION FairSpec
CHECK_DEADLOCK FALSE
PROPERTIES WaitEnds
