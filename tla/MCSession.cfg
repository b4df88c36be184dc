SPECIFICATION Spec
CONSTANTS
  N = 3
  Align = 2
  MsgSize = 3
  MaxBusy = 1
  Rounds = 2
  Sessions <- MCSessions
INVARIANTS ObjectsOutliveUse WorkersOutlivePeers TransfersOwned PoolBalanced
PROPERTIES ImplementsCommunicator Terminates
