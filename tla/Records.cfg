SPECIFICATION RecordSpec
CONSTANTS
  c1 = c1
  c2 = c2
  c3 = c3
  NoCall = NoCall
  NoChunk = NoChunk
  Call = {c1, c2, c3}
  Chunks <- TwoLong
  MaxSeq = 3
INVARIANTS
  NonceUnique
PROPERTIES
  StreamKept
CHECK_DEADLOCK FALSE
