CONSTANTS
  MaxRecv = 4
  MaxSend = 6
  MaxInt = 127
  MaxLong = 32767
  Chunkings <- ChunkingSet
  Junk <- JunkSet
SPECIFICATION FairSpec
INVARIANTS TypeOK ReassembledUnlessAligned NextResponseIntact SpinsOnlyWhenCut RecvHasRoom 
PROPERTY Returns
CHECK_DEADLOCK FALSE
