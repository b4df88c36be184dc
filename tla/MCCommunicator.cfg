SPECIFICATION Spec
CONSTANTS
  N = 3
  Ranks <- MCRanks
  Peers <- MCPeers
  Payload <- MCPayload
  Rounds = 3
INVARIANTS Lockstep BoundedBacklog OwnRound
PROPERTY AllRoundsDone
CHECK_DEADLOCK FALSE
