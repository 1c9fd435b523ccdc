SPECIFICATION Spec
CONSTANTS
  Base = 2
  Fragments <- SmallFragments
  MaxFragments = 3
  MaxMessages = 2
INVARIANTS
  ChunkFits
  WireIsFraming
