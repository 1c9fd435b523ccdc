SPECIFICATION Spec
CONSTANTS
  Blocks = {b1, b2, b3}
  NULL = NULL
  BlockSize = 5
  sep_alloc_threshold = 4
  Align = 2
  Lengths = {1, 3, 4}
  MaxObjects = 3
SYMMETRY BlockSymmetry
INVARIANTS
  Placed
  BlocksAccounted
  OnlyFailureIsStale
