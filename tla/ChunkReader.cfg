SPECIFICATION FairSpec
CONSTANTS
  Base = 2
  MaxStream = 11
INVARIANTS
  ChunkFits
  GrowthBounded
  BufferIsMessage
PROPERTIES
  ReceiveReturns
