SPECIFICATION CacheSpec
CONSTANTS
  p1 = p1
  p2 = p2
  p3 = p3
  b1 = b1
  b2 = b2
  b3 = b3
  b4 = b4
  NoBlock = NoBlock
  Pc <- MCPc
  Buffer <- MCBuffer
  CodeLens <- MCCodeLens
  MaxBytes = 4
  UsedBound = 7
INVARIANTS
  CacheTypeOK
  OwnedOnce
  EvictableBlocks
  NeverUnderCounted
  WithinCapacity
PROPERTIES
  EvictsFromFront
  InsertReturns
