SPECIFICATION Spec
CONSTANTS
  Messages <- MCMessages
  DamageBytes <- MCDamageBytes
  MaxLength = 40
  MaxCut = 2
CHECK_DEADLOCK FALSE
INVARIANTS
  RoundTrip
  StaysInMessage
  PrefixRefused
  PathsWalkable
