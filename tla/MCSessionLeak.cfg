SPECIFICATION Spec
CONSTANTS
  N = 2
  Align = 2
  MsgSize = 3
  MaxBusy = 1
  Rounds = 1
  Sessions <- MCWarmup
INVARIANT WarmupGivesBack
