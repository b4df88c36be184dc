SPECIFICATION Spec
CONSTANTS
  N = 4
  Cols = 2
  TableSizes = {0, 1, 5, 7}
INVARIANTS Tiled Collected
PROPERTY Terminates
