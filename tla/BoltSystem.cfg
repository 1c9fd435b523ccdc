SPECIFICATION FairSpec
CONSTANTS
  MaxQid = 2
  MaxInFlight = 2
  MaxQueries = 4
  Versions = {1, 4}
  Codes = {"ClientError"}
INVARIANTS
  InStep
  OneRequestOutstanding
  CountMatchesServer
  AutocommitMatchesServer
  RowsHaveColumns
PROPERTIES
  LostOnlyToEnvironment
  EndedWhole
  CallsReturn
