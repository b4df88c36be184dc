--------------------------- MODULE MCCommunicator ---------------------------
(* Instance of Communicator for TLC: everyone talks to everyone else. *)
EXTENDS Communicator

CONSTANT N

MCRanks          == 0 .. N - 1
MCPeers(r)       == MCRanks \ {r}
MCPayload(s, d, k) == {<<s, d, k>>}
=============================================================================
