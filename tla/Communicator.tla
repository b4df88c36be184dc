---------------------------- MODULE Communicator ----------------------------
(***************************************************************************)
(* What the interface class Communicator promises its callers (start, send *)
(* recv, stop; src/src/communicator.hpp): between start and stop a rank    *)
(* sends one message to every peer and receives one from every peer; stop  *)
(* is "Blocked until all communication since the *start* has been          *)
(* completed", so when it returns, what the rank holds from each peer is   *)
(* what that peer sent in its own round of the same number.  There is no   *)
(* barrier: a peer may already be sending for the next round.              *)
(***************************************************************************)
EXTENDS Integers, Sequences

CONSTANTS
  Ranks,            \* the ranks of the communicator
  Peers(_),         \* whom a rank exchanges messages with
  Rounds,           \* start/stop pairs each rank makes
  Payload(_, _, _)  \* Payload(s, d, k): messages s may send d in round k

ASSUME RoundsAssumption == Rounds \in Nat
ASSUME PeersAssumption ==
  \A r \in Ranks : Peers(r) \subseteq Ranks /\ \A s \in Peers(r) : r \in Peers(s)

VARIABLES
  phase,  \* phase[r]: "open" between start and stop, "closed" outside
  rnd,    \* rnd[r]: start calls made
  sent,   \* sent[s][d]: the messages s has sent to d, one per round
  got     \* got[r]: when closed, the message received from every peer

vars == <<phase, rnd, sent, got>>

Nothing == <<>>

Init ==
  /\ phase = [r \in Ranks |-> "closed"]
  /\ rnd = [r \in Ranks |-> 0]
  /\ sent = [s \in Ranks |-> [d \in Ranks |-> <<>>]]
  /\ got = [r \in Ranks |-> Nothing]

\* Mutant: a round is started although the previous one was not stopped.
StartUnstopped(r) ==
  /\ rnd[r] < Rounds
  /\ phase' = [phase EXCEPT ![r] = "open"]
  /\ rnd' = [rnd EXCEPT ![r] = @ + 1]
  /\ got' = [got EXCEPT ![r] = Nothing]
  /\ sent' = sent

\* start(): until stop() returns the receive buffers hold nothing reliable.
Start(r) ==
  /\ phase[r] = "closed" /\ rnd[r] < Rounds
  /\ phase' = [phase EXCEPT ![r] = "open"]
  /\ rnd' = [rnd EXCEPT ![r] = @ + 1]
  /\ got' = [got EXCEPT ![r] = Nothing]
  /\ sent' = sent

\* Mutant: a peer may be sent a second message in one round.
SendTwice(r, d) ==
  /\ phase[r] = "open" /\ d \in Peers(r) /\ Len(sent[r][d]) <= rnd[r]
  /\ \E p \in Payload(r, d, rnd[r]) : sent' = [sent EXCEPT ![r][d] = Append(@, p)]
  /\ UNCHANGED <<phase, rnd, got>>

\* send(): one message per peer and round, in any order.
Send(r, d) ==
  /\ phase[r] = "open" /\ d \in Peers(r) /\ Len(sent[r][d]) < rnd[r]
  /\ \E p \in Payload(r, d, rnd[r]) : sent' = [sent EXCEPT ![r][d] = Append(@, p)]
  /\ UNCHANGED <<phase, rnd, got>>

\* Mutant: stop waits for what the rank receives but not for what it sends.
StopUnsent(r) ==
  /\ phase[r] = "open"
  /\ \A s \in Peers(r) : Len(sent[s][r]) >= rnd[r]
  /\ got' = [got EXCEPT ![r] = [s \in Peers(r) |-> sent[s][r][rnd[r]]]]
  /\ phase' = [phase EXCEPT ![r] = "closed"]
  /\ UNCHANGED <<rnd, sent>>

\* Mutant: stop waits until every peer has stopped.
StopAfterPeers(r) ==
  /\ phase[r] = "open"
  /\ \A s \in Peers(r) : Len(sent[r][s]) >= rnd[r] /\ rnd[s] >= rnd[r] /\ phase[s] = "closed"
  /\ got' = [got EXCEPT ![r] = [s \in Peers(r) |-> sent[s][r][rnd[r]]]]
  /\ phase' = [phase EXCEPT ![r] = "closed"]
  /\ UNCHANGED <<rnd, sent>>

\* stop() returns: all was sent, and every peer's message is here.
Stop(r) ==
  /\ phase[r] = "open"
  /\ \A s \in Peers(r) : Len(sent[r][s]) >= rnd[r] /\ Len(sent[s][r]) >= rnd[r]
  /\ got' = [got EXCEPT ![r] = [s \in Peers(r) |-> sent[s][r][rnd[r]]]]
  /\ phase' = [phase EXCEPT ![r] = "closed"]
  /\ UNCHANGED <<rnd, sent>>

Step(r) == Start(r) \/ (\E d \in Ranks : Send(r, d)) \/ Stop(r)

Next == \E r \in Ranks : Step(r)

\* No rank stops calling for good while its next call can return.
Fairness == \A r \in Ranks : WF_vars(Step(r))

Spec == Init /\ [][Next]_vars /\ Fairness

-----------------------------------------------------------------------------
Messages == UNION {Payload(s, d, k) : s \in Ranks, d \in Ranks, k \in 1 .. Rounds}

\* Every variable has its type: only messages of the interface are sent.
TypeOK ==
  /\ phase \in [Ranks -> {"open", "closed"}]
  /\ rnd \in [Ranks -> 0 .. Rounds]
  /\ sent \in [Ranks -> [Ranks -> Seq(Messages)]]
  /\ DOMAIN got = Ranks

\* stop() is a rendezvous: a rank that has returned from stop k times cannot
\* be followed by a peer that has not started round k, so two peers are never
\* more than one round apart.
Lockstep ==
  \A r \in Ranks : \A s \in Peers(r) :
    /\ rnd[r] <= rnd[s] + 1
    /\ phase[r] = "closed" => rnd[r] <= rnd[s]

\* What waits unreceived between two ranks is bounded by one round's message
\* beyond the round the receiver is in, whatever the speeds of the ranks.
BoundedBacklog ==
  \A r \in Ranks : \A s \in Peers(r) : Len(sent[s][r]) <= rnd[r] + 1

\* Messages carry no round: a receiver counts its own rounds and takes the
\* messages of a peer in order.  What stop() gives it is nevertheless what the
\* peer was called to send in its round of the same number, because no stop()
\* returns, and no next round begins, before the own messages are out.
OwnRound ==
  \A r \in Ranks : (phase[r] = "closed" /\ rnd[r] > 0) =>
    \A s \in Peers(r) : got[r][s] \in Payload(s, r, rnd[r])

\* Every rank gets through all its rounds: no stop() waits forever.
AllRoundsDone == <>(\A r \in Ranks : phase[r] = "closed" /\ rnd[r] = Rounds)
=============================================================================
