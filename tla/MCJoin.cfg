SPECIFICATION Spec
CONSTANTS
  MaxN = 4
  Clusters <- MCClusters
  Factor = 2
  Hash <- MCHash
  HashIb <- MCHashIb
  LeftInputs <- MCLeftInputs
  RightInputs <- MCRightInputs
INVARIANTS JoinsWholeBatches TakesOwnMessages ResultIsJoin
PROPERTY Terminates
