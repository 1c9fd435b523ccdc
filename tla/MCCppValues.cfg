SPECIFICATION Spec
CONSTANTS
  Slots = {s1, s2, s3}
  Universe <- MCUniverse
  Scalars <- MCScalars
  Keys = {1, 2}
  Capacities = {1, 2}
  MaxCalls <- MCMaxCalls
INVARIANTS
  OneOwner
  EqualityLaws
PROPERTIES
  CopyIsFaithful
  FailedCopyCleansUp
  NothingLost
SYMMETRY AnySlots
CHECK_DEADLOCK FALSE
