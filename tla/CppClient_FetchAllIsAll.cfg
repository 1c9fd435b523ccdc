SPECIFICATION Spec
CONSTANTS
  MaxQid = 2
  MaxInFlight = 2
  MaxQueries = 3
  Versions = {1, 4}
  Codes = {"ClientError", "other"}
INVARIANT FetchAllIsAll
