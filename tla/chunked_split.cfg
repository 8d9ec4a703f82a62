CONSTANTS
  MaxRecv = 4
  MaxSend = 6
  MaxInt = 127
  MaxLong = 32767
  Chunkings <- ChunkingSet
  Junk <- JunkSet
SPECIFICATION Spec
INVARIANT Reassembled
CHECK_DEADLOCK FALSE
