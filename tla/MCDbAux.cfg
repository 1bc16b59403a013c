SPECIFICATION FairSpec
CONSTANTS
  Clients = {"c1", "c2"}
  Environments <- MCEnvironments
  MinSamples = 1
  RecoverProbes = 2
  RecoverQueries = 2
  MaxWindow = 2
  MaxChanges = 2
INVARIANT WorkerAndLoopAgree
CHECK_DEADLOCK FALSE
PROPERTY Recovers
