------------------------- MODULE CommunicatorProofs -------------------------
(***************************************************************************)
(* Proofs about the interface Communicator, for any ranks, any symmetric   *)
(* relation of peers, any number of rounds and any messages.               *)
(***************************************************************************)
EXTENDS Communicator, TLAPS

\* What a rank has sent to a peer is at most its open round behind.
SentInv ==
  \A r \in Ranks : \A d \in Peers(r) :
    /\ rnd[r] - 1 <= Len(sent[r][d]) /\ Len(sent[r][d]) <= rnd[r]
    /\ phase[r] = "closed" => Len(sent[r][d]) = rnd[r]

\* What a rank has been sent covers every round it has closed.
RecvInv ==
  \A r \in Ranks : \A s \in Peers(r) :
    /\ rnd[r] - 1 <= Len(sent[s][r])
    /\ phase[r] = "closed" => rnd[r] <= Len(sent[s][r])

\* The k-th message from a rank to a peer is of the sender's round k.
RoundInv ==
  \A s \in Ranks : \A d \in Peers(s) : \A k \in 1 .. Len(sent[s][d]) :
    sent[s][d][k] \in Payload(s, d, k)

\* Outside start/stop a rank holds its peers' messages in order.
HeldInv ==
  \A r \in Ranks : (phase[r] = "closed" /\ rnd[r] > 0) =>
    \A s \in Peers(r) : got[r][s] = sent[s][r][rnd[r]]

IInv == TypeOK /\ SentInv /\ RecvInv /\ RoundInv /\ HeldInv

\* The inductive invariant holds before the first start().
LEMMA InitIInv == Init => IInv
BY RoundsAssumption, PeersAssumption
   DEF Init, IInv, TypeOK, SentInv, RecvInv, RoundInv, HeldInv

\* A Send appends to one queue and leaves all else alone.
LEMMA SendQueues ==
  ASSUME TypeOK, NEW r \in Ranks, NEW d \in Ranks, Send(r, d)
  PROVE  /\ TypeOK'
         /\ d \in Peers(r) /\ phase[r] = "open"
         /\ Len(sent[r][d]) < rnd[r]
         /\ Len(sent'[r][d]) = Len(sent[r][d]) + 1
         /\ \A k \in 1 .. Len(sent[r][d]) : sent'[r][d][k] = sent[r][d][k]
         /\ sent'[r][d][Len(sent[r][d]) + 1] \in Payload(r, d, rnd[r])
         /\ \A s, t \in Ranks : (s # r \/ t # d) => sent'[s][t] = sent[s][t]
<1>1. PICK p \in Payload(r, d, rnd[r]) : sent' = [sent EXCEPT ![r][d] = Append(@, p)]
  BY DEF Send
<1>2. rnd[r] \in 0 .. Rounds /\ sent[r][d] \in Seq(Messages) /\ Len(sent[r][d]) < rnd[r]
  BY DEF TypeOK, Send
<1>3. rnd[r] \in 1 .. Rounds
  BY <1>2, RoundsAssumption
<1>4. p \in Messages
  BY <1>1, <1>3 DEF Messages
<1>5. Append(sent[r][d], p) \in Seq(Messages)
  BY <1>2, <1>4
<1>6. TypeOK'
  BY <1>1, <1>5 DEF TypeOK, Send
<1>7. QED
  BY <1>1, <1>2, <1>4, <1>6 DEF TypeOK, Send

\* start, send and stop of any rank preserve the inductive invariant.
LEMMA NextIInv == IInv /\ [Next]_vars => IInv'
<1> SUFFICES ASSUME IInv, [Next]_vars PROVE IInv'
  OBVIOUS
<1> USE RoundsAssumption, PeersAssumption
<1>1. CASE UNCHANGED vars
  BY <1>1 DEF IInv, TypeOK, SentInv, RecvInv, RoundInv, HeldInv, vars
<1>2. ASSUME NEW r \in Ranks, Start(r) PROVE IInv'
  <2>1. TypeOK'
    BY <1>2 DEF IInv, TypeOK, Start
  <2>2. SentInv'
    <3> SUFFICES ASSUME NEW t \in Ranks, NEW e \in Peers(t)
                 PROVE  /\ rnd'[t] - 1 <= Len(sent'[t][e]) /\ Len(sent'[t][e]) <= rnd'[t]
                        /\ phase'[t] = "closed" => Len(sent'[t][e]) = rnd'[t]
      BY DEF SentInv
    <3>1. e \in Ranks /\ rnd[t] \in 0 .. Rounds /\ Len(sent[t][e]) \in Nat
      BY DEF IInv, TypeOK
    <3>2. /\ rnd[t] - 1 <= Len(sent[t][e]) /\ Len(sent[t][e]) <= rnd[t]
          /\ phase[t] = "closed" => Len(sent[t][e]) = rnd[t]
      BY DEF IInv, SentInv
    <3>3. QED
      BY <1>2, <3>1, <3>2 DEF IInv, TypeOK, Start
  <2>3. RecvInv'
    <3> SUFFICES ASSUME NEW t \in Ranks, NEW s \in Peers(t)
                 PROVE  /\ rnd'[t] - 1 <= Len(sent'[s][t])
                        /\ phase'[t] = "closed" => rnd'[t] <= Len(sent'[s][t])
      BY DEF RecvInv
    <3>1. s \in Ranks /\ rnd[t] \in 0 .. Rounds /\ Len(sent[s][t]) \in Nat
      BY DEF IInv, TypeOK
    <3>2. /\ rnd[t] - 1 <= Len(sent[s][t])
          /\ phase[t] = "closed" => rnd[t] <= Len(sent[s][t])
      BY DEF IInv, RecvInv
    <3>3. QED
      BY <1>2, <3>1, <3>2 DEF IInv, TypeOK, Start
  <2>4. HeldInv'
    BY <1>2 DEF IInv, TypeOK, HeldInv, Start
  <2>5. RoundInv'
    BY <1>2 DEF IInv, RoundInv, Start
  <2>6. QED
    BY <2>1, <2>2, <2>3, <2>4, <2>5 DEF IInv
<1>3. ASSUME NEW r \in Ranks, NEW d \in Ranks, Send(r, d) PROVE IInv'
  <2>1. TypeOK
    BY DEF IInv
  <2>2. TypeOK'
    BY <2>1, <1>3, SendQueues
  <2>3. UNCHANGED <<phase, rnd, got>>
    BY <1>3 DEF Send
  <2>4. /\ d \in Peers(r) /\ phase[r] = "open" /\ Len(sent[r][d]) < rnd[r]
        /\ Len(sent'[r][d]) = Len(sent[r][d]) + 1
        /\ \A k \in 1 .. Len(sent[r][d]) : sent'[r][d][k] = sent[r][d][k]
    BY <2>1, <1>3, SendQueues
  <2>5. \A s, t \in Ranks : (s # r \/ t # d) => sent'[s][t] = sent[s][t]
    BY <2>1, <1>3, SendQueues
  <2>6. SentInv'
    <3> SUFFICES ASSUME NEW t \in Ranks, NEW e \in Peers(t)
                 PROVE  /\ rnd'[t] - 1 <= Len(sent'[t][e]) /\ Len(sent'[t][e]) <= rnd'[t]
                        /\ phase'[t] = "closed" => Len(sent'[t][e]) = rnd'[t]
      BY DEF SentInv
    <3>1. e \in Ranks /\ rnd[t] \in 0 .. Rounds /\ Len(sent[t][e]) \in Nat
      BY DEF IInv, TypeOK
    <3>2. /\ rnd[t] - 1 <= Len(sent[t][e]) /\ Len(sent[t][e]) <= rnd[t]
          /\ phase[t] = "closed" => Len(sent[t][e]) = rnd[t]
      BY DEF IInv, SentInv
    <3>3. CASE t = r /\ e = d
      BY <2>3, <2>4, <3>1, <3>2, <3>3
    <3>4. CASE ~(t = r /\ e = d)
      <4>1. sent'[t][e] = sent[t][e]
        BY <2>5, <3>1, <3>4
      <4>2. QED
        BY <2>3, <3>2, <4>1
    <3>5. QED
      BY <3>3, <3>4
  <2>7. RecvInv'
    <3> SUFFICES ASSUME NEW t \in Ranks, NEW s \in Peers(t)
                 PROVE  /\ rnd'[t] - 1 <= Len(sent'[s][t])
                        /\ phase'[t] = "closed" => rnd'[t] <= Len(sent'[s][t])
      BY DEF RecvInv
    <3>1. s \in Ranks /\ rnd[t] \in 0 .. Rounds /\ Len(sent[s][t]) \in Nat
      BY DEF IInv, TypeOK
    <3>2. /\ rnd[t] - 1 <= Len(sent[s][t])
          /\ phase[t] = "closed" => rnd[t] <= Len(sent[s][t])
      BY DEF IInv, RecvInv
    <3>3. CASE s = r /\ t = d
      BY <2>3, <2>4, <3>1, <3>2, <3>3
    <3>4. CASE ~(s = r /\ t = d)
      <4>1. sent'[s][t] = sent[s][t]
        BY <2>5, <3>1, <3>4
      <4>2. QED
        BY <2>3, <3>2, <4>1
    <3>5. QED
      BY <3>3, <3>4
  <2>8. HeldInv'
    <3> SUFFICES ASSUME NEW t \in Ranks, phase[t] = "closed", rnd[t] > 0,
                        NEW s \in Peers(t)
                 PROVE  got[t][s] = sent'[s][t][rnd[t]]
      BY <2>3 DEF HeldInv
    <3>1. got[t][s] = sent[s][t][rnd[t]] /\ s \in Ranks
      BY DEF IInv, HeldInv
    <3>2. rnd[t] \in 1 .. Len(sent[s][t])
      BY <3>1 DEF IInv, RecvInv, TypeOK
    <3>3. sent'[s][t][rnd[t]] = sent[s][t][rnd[t]]
      <4>1. CASE s = r /\ t = d
        BY <2>4, <3>2, <4>1
      <4>2. CASE ~(s = r /\ t = d)
        BY <2>5, <3>1, <4>2
      <4>3. QED
        BY <4>1, <4>2
    <3>4. QED
      BY <3>1, <3>3
  <2>9. RoundInv'
    <3> SUFFICES ASSUME NEW t \in Ranks, NEW e \in Peers(t), NEW k \in 1 .. Len(sent'[t][e])
                 PROVE  sent'[t][e][k] \in Payload(t, e, k)
      BY DEF RoundInv
    <3>1. e \in Ranks /\ rnd[t] \in 0 .. Rounds /\ Len(sent[t][e]) \in Nat
      BY DEF IInv, TypeOK
    <3>2. \A j \in 1 .. Len(sent[t][e]) : sent[t][e][j] \in Payload(t, e, j)
      BY DEF IInv, RoundInv
    <3>3. CASE t = r /\ e = d
      <4>1. CASE k \in 1 .. Len(sent[t][e])
        BY <2>4, <3>2, <3>3, <4>1
      <4>2. CASE k \notin 1 .. Len(sent[t][e])
        <5>1. k = Len(sent[t][e]) + 1
          BY <2>4, <3>1, <3>3, <4>2
        <5>2. rnd[t] - 1 <= Len(sent[t][e])
          BY DEF IInv, SentInv
        <5>3. k = rnd[t]
          BY <2>4, <3>1, <3>3, <5>1, <5>2
        <5>4. sent'[t][e][k] \in Payload(t, e, rnd[t])
          BY <2>1, <1>3, <3>3, <5>1, SendQueues
        <5>5. QED
          BY <5>3, <5>4
      <4>3. QED
        BY <4>1, <4>2
    <3>4. CASE ~(t = r /\ e = d)
      <4>1. sent'[t][e] = sent[t][e]
        BY <2>5, <3>1, <3>4
      <4>2. QED
        BY <3>2, <4>1
    <3>5. QED
      BY <3>3, <3>4
  <2>10. QED
    BY <2>2, <2>6, <2>7, <2>8, <2>9 DEF IInv
<1>4. ASSUME NEW r \in Ranks, Stop(r) PROVE IInv'
  <2>1. TypeOK'
    BY <1>4 DEF IInv, TypeOK, Stop
  <2>2. SentInv'
    <3> SUFFICES ASSUME NEW t \in Ranks, NEW e \in Peers(t)
                 PROVE  /\ rnd'[t] - 1 <= Len(sent'[t][e]) /\ Len(sent'[t][e]) <= rnd'[t]
                        /\ phase'[t] = "closed" => Len(sent'[t][e]) = rnd'[t]
      BY DEF SentInv
    <3>1. e \in Ranks /\ rnd[t] \in 0 .. Rounds /\ Len(sent[t][e]) \in Nat
      BY DEF IInv, TypeOK
    <3>2. /\ rnd[t] - 1 <= Len(sent[t][e]) /\ Len(sent[t][e]) <= rnd[t]
          /\ phase[t] = "closed" => Len(sent[t][e]) = rnd[t]
      BY DEF IInv, SentInv
    <3>3. QED
      BY <1>4, <3>1, <3>2 DEF IInv, TypeOK, Stop
  <2>3. RecvInv'
    <3> SUFFICES ASSUME NEW t \in Ranks, NEW s \in Peers(t)
                 PROVE  /\ rnd'[t] - 1 <= Len(sent'[s][t])
                        /\ phase'[t] = "closed" => rnd'[t] <= Len(sent'[s][t])
      BY DEF RecvInv
    <3>1. s \in Ranks /\ rnd[t] \in 0 .. Rounds /\ Len(sent[s][t]) \in Nat
      BY DEF IInv, TypeOK
    <3>2. /\ rnd[t] - 1 <= Len(sent[s][t])
          /\ phase[t] = "closed" => rnd[t] <= Len(sent[s][t])
      BY DEF IInv, RecvInv
    <3>3. QED
      BY <1>4, <3>1, <3>2 DEF IInv, TypeOK, Stop
  <2>4. HeldInv'
    BY <1>4 DEF IInv, TypeOK, HeldInv, Stop
  <2>5. RoundInv'
    BY <1>4 DEF IInv, RoundInv, Stop
  <2>6. QED
    BY <2>1, <2>2, <2>3, <2>4, <2>5 DEF IInv
<1>5. QED
  BY <1>1, <1>2, <1>3, <1>4 DEF Next, Step

\* The inductive invariant holds in every reachable state.
LEMMA SpecIInv == Spec => []IInv
BY InitIInv, NextIInv, PTL DEF Spec

\* Peers are never more than one round apart, and a rank that has returned
\* from stop() knows that every peer has started the round.
THEOREM LockstepInvariant == Spec => []Lockstep
<1>1. IInv => Lockstep
  <2> SUFFICES ASSUME IInv, NEW r \in Ranks, NEW s \in Peers(r)
               PROVE  /\ rnd[r] <= rnd[s] + 1
                      /\ phase[r] = "closed" => rnd[r] <= rnd[s]
    BY DEF Lockstep
  <2>1. s \in Ranks /\ r \in Peers(s)
    BY PeersAssumption
  <2>2. rnd[r] \in Int /\ rnd[s] \in Int /\ Len(sent[s][r]) \in Int
    BY <2>1, RoundsAssumption DEF IInv, TypeOK
  <2>3. Len(sent[s][r]) <= rnd[s]
    BY <2>1 DEF IInv, SentInv
  <2>4. rnd[r] - 1 <= Len(sent[s][r]) /\ (phase[r] = "closed" => rnd[r] <= Len(sent[s][r]))
    BY DEF IInv, RecvInv
  <2>5. QED
    BY <2>2, <2>3, <2>4
<1>2. QED
  BY <1>1, SpecIInv, PTL

\* At most one message per pair of ranks waits beyond the receiver's round,
\* so what the network must hold does not grow with the number of rounds.
THEOREM BacklogInvariant == Spec => []BoundedBacklog
<1>1. IInv /\ Lockstep => BoundedBacklog
  <2> SUFFICES ASSUME IInv, Lockstep, NEW r \in Ranks, NEW s \in Peers(r)
               PROVE  Len(sent[s][r]) <= rnd[r] + 1
    BY DEF BoundedBacklog
  <2>1. s \in Ranks /\ r \in Peers(s)
    BY PeersAssumption
  <2>2. rnd[r] \in Int /\ rnd[s] \in Int /\ Len(sent[s][r]) \in Int
    BY <2>1, RoundsAssumption DEF IInv, TypeOK
  <2>3. Len(sent[s][r]) <= rnd[s] /\ rnd[s] <= rnd[r] + 1
    BY <2>1 DEF IInv, SentInv, Lockstep
  <2>4. QED
    BY <2>2, <2>3
<1>2. QED
  BY <1>1, SpecIInv, LockstepInvariant, PTL

\* What stop() gives a rank from a peer is a message of the peer's own round
\* of that number, although nothing in the message says so: the sender cannot
\* have begun a later round before it had sent the message of this one, and
\* the receiver takes the messages of a pair in the order of their rounds.
THEOREM OwnRoundInvariant == Spec => []OwnRound
<1>1. IInv => OwnRound
  <2> SUFFICES ASSUME IInv, NEW r \in Ranks, phase[r] = "closed", rnd[r] > 0,
                      NEW s \in Peers(r)
               PROVE  got[r][s] \in Payload(s, r, rnd[r])
    BY DEF OwnRound
  <2>1. s \in Ranks /\ r \in Peers(s)
    BY PeersAssumption
  <2>2. rnd[r] \in 0 .. Rounds /\ Len(sent[s][r]) \in Nat
    BY <2>1 DEF IInv, TypeOK
  <2>3. rnd[r] \in 1 .. Len(sent[s][r])
    BY <2>2, RoundsAssumption DEF IInv, RecvInv
  <2>4. sent[s][r][rnd[r]] \in Payload(s, r, rnd[r])
    BY <2>1, <2>3 DEF IInv, RoundInv
  <2>5. got[r][s] = sent[s][r][rnd[r]]
    BY DEF IInv, HeldInv
  <2>6. QED
    BY <2>4, <2>5
<1>2. QED
  BY <1>1, SpecIInv, PTL
=============================================================================
