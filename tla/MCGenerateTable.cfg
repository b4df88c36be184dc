SPECIFICATION Spec
CONSTANTS
  N = 2
  Grids = {1, 2}
  BuildRows = 2
  ProbeRows = 2
  RandMax = 3
  KeyMax = 6
  UniqueKeys = {TRUE, FALSE}
  Elsewhere <- MCElsewhere
INVARIANTS TypeOK LotteryConserved KernelOutcome RowsConserved
PROPERTY Terminates
