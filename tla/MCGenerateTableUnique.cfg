SPECIFICATION Spec
CONSTANTS
  N = 2
  Grids = {1}
  BuildRows = 2
  ProbeRows = 2
  RandMax = 3
  KeyMax = 6
  UniqueKeys = {TRUE}
  Elsewhere <- MCElsewhere
INVARIANT KeysUnique
