SPECIFICATION FairSpec
CONSTANTS
  Clients = {"c1"}
  Environments <- MCEnvironments
  MinSamples = 1
  RecoverProbes = 2
  RecoverQueries = 2
  MaxWindow = 2
  MaxChanges = 2
PROPERTY ReplacedFileIsReopened
CHECK_DEADLOCK FALSE
