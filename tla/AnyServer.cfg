SPECIFICATION AnySpec
CONSTANTS
  MaxQid = 0
  MaxInFlight = 1
  MaxQueries = 2
  Versions = {1, 4}
  Codes = {"ClientError", "empty"}
INVARIANTS
  BadIffNoTransport
  QueryCountCoversExecution
PROPERTIES
  BadIsFinal
  ImplementsContract
