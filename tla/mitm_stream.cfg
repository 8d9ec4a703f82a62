CONSTANTS
  MaxRecv = 6
  MaxSend = 4
  MaxCalls = 3
  ServerHead <- HeadBytes
  Chunkings <- ChunkingSet
  Plain <- PlainSet
  MaxLength = 8
SPECIFICATION StreamSpec
INVARIANTS StreamTypeOK HeaderSeparated BodyReassembled NoNeedlessEnd
CHECK_DEADLOCK FALSE
