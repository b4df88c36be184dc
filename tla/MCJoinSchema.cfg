SPECIFICATION Spec
CONSTANTS
  MaxN = 2
  Clusters <- SchemaClusters
  Factor = 1
  Hash <- MCHash
  HashIb <- MCHashIb
  LeftInputs <- SchemaLeftInputs
  RightInputs <- SchemaRightInputs
INVARIANT ResultHasColumns
