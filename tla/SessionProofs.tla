---------------------------- MODULE SessionProofs ----------------------------
(***************************************************************************)
(* Proofs about Session, for every set of programs, number of ranks,       *)
(* number of exchanges and size of a message: whatever the communicator    *)
(* and the registration method, and however the ranks and UCX interleave,  *)
(* a call finds the objects it uses, no worker is destroyed while a peer   *)
(* may still send to it, UCX only touches blocks that are still allocated  *)
(* and unchanged, and the pool gets back all but what warmup_all_to_all    *)
(* forgets.                                                                *)
(*                                                                         *)
(* The invariant has four parts: where every rank is in its program, which *)
(* decides the objects it has (ControlInv, with LeaveInv for the barrier); *)
(* what it has sent (AllSent); what UCX holds for it: messages under way,  *)
(* receives posted, requests pending (UcxInv); and which blocks it has     *)
(* allocated and how many bytes they are (BlocksInv, BuffersInv).          *)
(*                                                                         *)
(* With what the messages say, wherever they are (ValInv), it also shows   *)
(* that the exchanges are rounds of the interface Communicator.            *)
(***************************************************************************)
EXTENDS Session, FiniteSetTheorems, SequenceTheorems, WellFoundedInduction, TLAPS
-----------------------------------------------------------------------------
(***************************************************************************)
(* The inductive invariant.                                                *)
(***************************************************************************)
\* The exchanges of the program: none when setup throws.
R == IF kind = "unknown" THEN 0 ELSE session.rounds

Ls == Len(SetupCalls(kind))
Lx == Len(ExchangeCalls(kind))
Ld == Len(DestroyCalls(kind))

\* Where the calls of exchange k + 1, or those of destroy, begin.
Base(k) == Ls + k * Lx

\* Where a rank is in its program: k is the exchange it is in.
AtSetup(i, k)      == k = 0 /\ i \in 1 .. Ls
AtStart(i, k)      == k \in 0 .. R - 1 /\ i = Base(k) + 1
AtCall(i, k, o)    == k \in 1 .. R /\ o \in 2 .. Lx /\ i = Base(k - 1) + o
AtDestroy(i, k, o) == k = R /\ o \in 1 .. Ld + 1 /\ i = Base(R) + o

Site(i, k) ==
  \/ AtSetup(i, k) \/ AtStart(i, k)
  \/ \E o \in 2 .. Lx : AtCall(i, k, o)
  \/ \E o \in 1 .. Ld + 1 : AtDestroy(i, k, o)

WhereInv(r) == Site(ip[r], rnd[r])

CallAt(i) == IF i <= Len(Program) THEN Program[i] ELSE "end"

\* The objects of a rank follow from its next call.
ExchangeSet == {"start", "send", "recv", "launch", "stop", "free"}
Objects     == {"context", "comm", "registered", "pool"}

During(o) ==
  CASE o = "context" ->
         ExchangeSet \cup
         (IF kind = "buffer" THEN {"connect", "cache", "uncache", "close", "barrier"}
          ELSE {"registered", "pool", "deletePool", "deleteRegistered", "destroyNccl", "close", "barrier"}
               \cup (IF kind = "nccl" THEN {} ELSE {"connect"}))
    [] o = "comm" ->
         ExchangeSet \cup {"registered", "cache", "uncache", "close", "barrier", "deletePool", "deleteRegistered",
                           "destroyNccl", "deleteComm"}
                     \cup (IF kind = "buffer" THEN {} ELSE {"pool"})
    [] o = "registered" ->
         IF kind = "preregistered" THEN ExchangeSet \cup {"pool", "deletePool", "deleteRegistered"} ELSE {}
    [] o = "pool" ->
         ExchangeSet \cup {"deletePool"}
                     \cup (IF kind = "buffer" THEN {"worker", "connect", "cache", "uncache", "close", "barrier"} ELSE {})

ObjectsInv(r) ==
  /\ alive[r] \subseteq Objects
  /\ \A o \in Objects : o \in alive[r] <=> NextCall(r) \in During(o)
  /\ handles[r] \subseteq {"pool", "cache"}
  /\ "cache" \in handles[r] <=> kind = "buffer" /\ NextCall(r) \in ExchangeSet \cup {"uncache"}
  /\ "pool" \in handles[r] <=> kind = "preregistered" /\ NextCall(r) \in ExchangeSet \cup {"deletePool"}

\* An exchange is under way.
Under(r) == NextCall(r) \in {"send", "recv", "launch", "stop", "free"}

\* The peer a rank sends to next, and those it has not yet sent to.
Sending(r)   == ip[r] - Base(rnd[r] - 1) - 1
Index(r, d)  == IF d < r THEN d + 1 ELSE d
Unsent(r, d) == NextCall(r) = "send" /\ Index(r, d) >= Sending(r)

IsSeq(q) == q \in Seq({q[i] : i \in DOMAIN q})

SentInv(s, d) ==
  /\ IsSeq(sent[s][d])
  /\ Len(sent[s][d]) = IF s = d THEN 0 ELSE IF Unsent(s, d) THEN rnd[s] - 1 ELSE rnd[s]

\* The blocks a rank has: those the exchanges have leaked, those of this one.
Leaked(r, k) == {"send", "recv"} \X (r + 1 .. N - 1) \X (1 .. k)
Finishing(r) == NextCall(r) \in {"launch", "stop", "free"}
Own(r) ==
  IF Under(r)
  THEN Leaked(r, rnd[r] - 1) \cup {SendBlock(d, rnd[r]) : d \in Peers(r)}
       \cup (IF session.probing /\ ~Finishing(r) THEN {} ELSE {RecvBlock(s, rnd[r]) : s \in Peers(r)})
  ELSE Leaked(r, rnd[r])
Comms(r) == IF Under(r) /\ NextCall(r) # "free" /\ kind = "nccl"
            THEN {CommBlock(i) : i \in 1 .. Len(commBuffers[r])} ELSE {}
Caches(r) == IF "cache" \in handles[r] THEN {CacheBlock} ELSE {}

BlocksInv(r) ==
  /\ DOMAIN blocks[r] = Own(r) \cup Comms(r) \cup Caches(r)
  /\ inUse[r] = MsgSize * Cardinality(Own(r)) + Aligned(MsgSize) * Cardinality(Comms(r))
                + CacheSize * Cardinality(Caches(r))

BuffersInv(r) ==
  kind = "nccl" /\ Under(r) =>
    /\ IsSeq(commBuffers[r])
    /\ \A j \in DOMAIN commBuffers[r] : commBuffers[r][j] = [blk |-> CommBlock(j), size |-> MsgSize]

\* The exchanges r has received from s.
Awaited(r, s) == \E i \in DOMAIN posted[r] : posted[r][i].tag = Tag(ReservedTag, s)
Received(r, s) ==
  IF NextCall(r) \in {"send", "recv"} \/ (NextCall(r) = "stop" /\ Awaited(r, s)) THEN rnd[r] - 1 ELSE rnd[r]

Handles(r) == {pending[r][i] : i \in DOMAIN pending[r]}
Moving(r) == NextCall(r) \in {"send", "recv", "stop"}

\* What is between s and d: one message of each exchange d has not received.
Flying(s, d, k, m) ==
  /\ m.req = <<"send", SendBlock(d, k)>>
  /\ m.req \in Handles(s) \ done[s]
  /\ Moving(s) /\ k = rnd[s]
  /\ m.val = Read(s, m.ref)

IsMessage(s, d, k, m) == m = [tag |-> Tag(ReservedTag, s), val |-> m.val, ref |-> SendBlock(d, k), req |-> m.req]

NetInv(s, d) ==
  IF Unbuffered /\ s # d
  THEN /\ IsSeq(net[s][d])
       /\ Len(net[s][d]) = Len(sent[s][d]) - Received(d, s)
       /\ \A j \in DOMAIN net[s][d] :
            /\ IsMessage(s, d, Received(d, s) + j, net[s][d][j])
            /\ net[s][d][j].req # NoRequest => Flying(s, d, Received(d, s) + j, net[s][d][j])
  ELSE net[s][d] = <<>>

Post(r, s) == [tag |-> Tag(ReservedTag, s), req |-> <<"recv", RecvBlock(s, rnd[r])>>, dst |-> RecvBlock(s, rnd[r])]

PostedInv(r) ==
  /\ IsSeq(posted[r])
  /\ posted[r] # <<>> => Unbuffered /\ NextCall(r) = "stop"
  /\ \A i \in DOMAIN posted[r] : \E s \in Peers(r) :
       /\ posted[r][i] = Post(r, s)
       /\ Post(r, s).req \in Handles(r) \ done[r]
  /\ \A i, j \in DOMAIN posted[r] : posted[r][i] = posted[r][j] => i = j

RequestsInv(r) ==
  /\ done[r] # {} => Moving(r) /\ Unbuffered
  /\ IsSeq(pending[r]) /\ done[r] \subseteq Handles(r)
  /\ Moving(r) /\ Unbuffered => \A q \in Handles(r) :
       \/ q = NoRequest
       \/ \E d \in Peers(r) : q = <<"send", SendBlock(d, rnd[r])>> /\ ~Unsent(r, d)
       \/ \E s \in Peers(r) : q = <<"recv", RecvBlock(s, rnd[r])>> /\ NextCall(r) = "stop"

TypeInv ==
  /\ session \in Sessions
  /\ ip \in [Ranks -> Nat \ {0}] /\ rnd \in [Ranks -> Nat]
  /\ DOMAIN alive = Ranks /\ DOMAIN handles = Ranks /\ DOMAIN blocks = Ranks /\ DOMAIN inUse = Ranks
  /\ DOMAIN posted = Ranks /\ DOMAIN pending = Ranks /\ DOMAIN done = Ranks /\ DOMAIN commBuffers = Ranks
  /\ DOMAIN net = Ranks /\ DOMAIN sent = Ranks
  /\ \A r \in Ranks : DOMAIN net[r] = Ranks /\ DOMAIN sent[r] = Ranks

\* A set of numbers that is not empty has a smallest element.
LEMMA SmallestExists ==
  ASSUME NEW S, S \subseteq Nat, S # {}
  PROVE  \E x \in S : \A y \in S : x <= y
<1>1. PICK x \in S : \A y \in S : ~ (<<y, x>> \in OpToRel(<, Nat))
  BY NatLessThanWellFounded, WFMin
<1>2. ASSUME NEW y \in S PROVE x <= y
  <2>1. x \in Nat /\ y \in Nat
    OBVIOUS
  <2>2. ~ (y < x)
    BY <1>1, <2>1, Zenon DEF OpToRel
  <2>3. QED
    BY <2>1, <2>2
<1>3. QED
  BY <1>2

\* A sum over a finite set whose summands are all c.
LEMMA EqualBytes ==
  ASSUME NEW f, NEW c \in Nat, IsFiniteSet(DOMAIN f), \A b \in DOMAIN f : f[b] = c
  PROVE  Bytes(f) = c * Cardinality(DOMAIN f)
<1> DEFINE S == DOMAIN f
           Fold(h) == h = [s \in SUBSET S |->
                             IF s = {} THEN 0
                             ELSE f[CHOOSE x \in s : TRUE] + h[s \ {CHOOSE x \in s : TRUE}]]
           H == CHOOSE h : Fold(h)
           g == [s \in SUBSET S |-> c * Cardinality(s)]
<1>1. Bytes(f) = H[S]
  BY Zenon DEF Bytes, MapThenSumSet, MapThenFoldSet
<1>2. \A s \in SUBSET S : IsFiniteSet(s) /\ Cardinality(s) \in Nat
  BY FS_Subset, FS_CardinalityType
<1>3. \A s \in SUBSET S : s # {} =>
        LET x == CHOOSE x \in s : TRUE IN
        /\ x \in S /\ s \ {x} \in SUBSET S
        /\ Cardinality(s) = Cardinality(s \ {x}) + 1
  <2> TAKE s \in SUBSET S
  <2> HAVE s # {}
  <2> DEFINE x == CHOOSE x \in s : TRUE
  <2>1. x \in s
    OBVIOUS
  <2> HIDE DEF x
  <2>2. Cardinality(s \ {x}) = Cardinality(s) - 1
    BY <1>2, <2>1, FS_RemoveElement
  <2>3. QED
    BY <1>2, <2>1, <2>2 DEF x
<1>4. Fold(g)
  <2>1. \A s \in SUBSET S : c * Cardinality(s) =
          IF s = {} THEN 0
          ELSE f[CHOOSE x \in s : TRUE] + g[s \ {CHOOSE x \in s : TRUE}]
    <3> TAKE s \in SUBSET S
    <3>1. CASE s = {}
      BY <3>1, FS_EmptySet
    <3>2. CASE s # {}
      <4> DEFINE x == CHOOSE x \in s : TRUE
      <4>1. x \in S /\ s \ {x} \in SUBSET S /\ Cardinality(s) = Cardinality(s \ {x}) + 1
        BY <1>3, <3>2
      <4> HIDE DEF x
      <4>2. g[s \ {x}] = c * Cardinality(s \ {x}) /\ f[x] = c
        BY <4>1
      <4>3. Cardinality(s \ {x}) \in Nat
        BY <1>2, <4>1
      <4> HIDE DEF g
      <4>4. c * Cardinality(s) = c + c * Cardinality(s \ {x})
        BY <4>1, <4>3, SMT
      <4>5. QED
        BY <3>2, <4>2, <4>4 DEF x
    <3>3. QED
      BY <3>1, <3>2
  <2>2. QED
    BY <2>1, Zenon
<1>5. Fold(H)
  BY <1>4, Zenon
<1> HIDE DEF H
<1> DEFINE Wrong == {n \in Nat : \E s \in SUBSET S : Cardinality(s) = n /\ H[s] # c * n}
<1>6. Wrong = {}
  <2> SUFFICES ASSUME Wrong # {} PROVE FALSE
    OBVIOUS
  <2>1. PICK n \in Wrong : \A m \in Wrong : n <= m
    BY SmallestExists
  <2>2. PICK s \in SUBSET S : Cardinality(s) = n /\ H[s] # c * n
    OBVIOUS
  <2>3. H[s] = IF s = {} THEN 0 ELSE f[CHOOSE x \in s : TRUE] + H[s \ {CHOOSE x \in s : TRUE}]
    BY <1>5
  <2>4. CASE s = {}
    BY <2>2, <2>3, <2>4, FS_EmptySet
  <2>5. CASE s # {}
    <3> DEFINE x == CHOOSE x \in s : TRUE
               t == s \ {x}
    <3>1. x \in S /\ t \in SUBSET S /\ n = Cardinality(t) + 1 /\ Cardinality(t) \in Nat
      BY <1>2, <1>3, <2>2, <2>5
    <3>2. H[s] = f[x] + H[t]
      BY <2>3, <2>5
    <3> HIDE DEF x, t
    <3>3. Cardinality(t) \notin Wrong
      BY <2>1, <3>1
    <3>4. H[t] = c * Cardinality(t)
      BY <3>1, <3>3
    <3>5. c * n = c + c * Cardinality(t)
      BY <3>1, SMT
    <3>6. QED
      BY <2>2, <3>1, <3>2, <3>4, <3>5
  <2>6. QED
    BY <2>4, <2>5
<1>7. QED
  BY <1>1, <1>2, <1>6

\* The parts of a concatenation.
IsJoined(x, a, b) ==
  /\ Len(x) = Len(a) + Len(b)
  /\ \A i \in 1 .. Len(a) : x[i] = a[i]
  /\ \A i \in 1 .. Len(b) : x[Len(a) + i] = b[i]

\* The concatenation of two sequences is one, and holds the elements of both in order.
LEMMA Joined ==
  ASSUME NEW S, NEW a \in Seq(S), NEW b \in Seq(S), NEW x, x = a \o b
  PROVE  x \in Seq(S) /\ IsJoined(x, a, b)
<1>1. Len(a) \in Nat /\ Len(b) \in Nat
  OBVIOUS
<1>2. /\ a \o b \in Seq(S) /\ Len(a \o b) = Len(a) + Len(b)
      /\ \A i \in 1 .. Len(a) + Len(b) : (a \o b)[i] = IF i <= Len(a) THEN a[i] ELSE b[i - Len(a)]
  BY ConcatProperties
<1>3. QED
  BY <1>1, <1>2 DEF IsJoined

Names == {"worker", "connect", "registered", "pool", "cache", "throw", "start", "send", "recv", "launch",
          "stop", "free", "uncache", "close", "barrier", "deletePool", "deleteRegistered", "destroyNccl",
          "deleteComm"}

\* The names of the calls, one by one.
LEMMA Named ==
  /\ "worker" \in Names /\ "connect" \in Names /\ "registered" \in Names /\ "pool" \in Names
  /\ "cache" \in Names /\ "throw" \in Names /\ "start" \in Names /\ "send" \in Names
  /\ "recv" \in Names /\ "launch" \in Names /\ "stop" \in Names /\ "free" \in Names
  /\ "uncache" \in Names /\ "close" \in Names /\ "barrier" \in Names /\ "deletePool" \in Names
  /\ "deleteRegistered" \in Names /\ "destroyNccl" \in Names /\ "deleteComm" \in Names
BY DEF Names

Kinds == {"nccl", "buffer", "preregistered", "none", "unknown"}

\* The calls of setup and of destroy are sequences.
LEMMA SetupIs ==
  ASSUME NEW k \in Kinds
  PROVE  /\ SetupCalls(k) \in Seq(Names) /\ Len(SetupCalls(k)) \in Nat
         /\ DestroyCalls(k) \in Seq(Names) /\ Len(DestroyCalls(k)) \in Nat
<1>1. CASE k = "nccl"
  <2>1. SetupCalls(k) \in Seq(Names) /\ Len(SetupCalls(k)) \in Nat
    BY <1>1, Named DEF SetupCalls
  <2>2. DestroyCalls(k) \in Seq(Names) /\ Len(DestroyCalls(k)) \in Nat
    BY <1>1, Named DEF DestroyCalls
  <2>3. QED
    BY <2>1, <2>2
<1>2. CASE k = "buffer"
  <2>1. SetupCalls(k) \in Seq(Names) /\ Len(SetupCalls(k)) \in Nat
    BY <1>2, Named DEF SetupCalls
  <2>2. DestroyCalls(k) \in Seq(Names) /\ Len(DestroyCalls(k)) \in Nat
    BY <1>2, Named DEF DestroyCalls
  <2>3. QED
    BY <2>1, <2>2
<1>3. CASE k = "preregistered"
  <2>1. SetupCalls(k) \in Seq(Names) /\ Len(SetupCalls(k)) \in Nat
    BY <1>3, Named DEF SetupCalls
  <2>2. DestroyCalls(k) \in Seq(Names) /\ Len(DestroyCalls(k)) \in Nat
    BY <1>3, Named DEF DestroyCalls
  <2>3. QED
    BY <2>1, <2>2
<1>4. CASE k = "none"
  <2>1. SetupCalls(k) \in Seq(Names) /\ Len(SetupCalls(k)) \in Nat
    BY <1>4, Named DEF SetupCalls
  <2>2. DestroyCalls(k) \in Seq(Names) /\ Len(DestroyCalls(k)) \in Nat
    BY <1>4, Named DEF DestroyCalls
  <2>3. QED
    BY <2>1, <2>2
<1>5. CASE k = "unknown"
  <2>1. SetupCalls(k) \in Seq(Names) /\ Len(SetupCalls(k)) \in Nat
    BY <1>5, Named DEF SetupCalls
  <2>2. DestroyCalls(k) \in Seq(Names) /\ Len(DestroyCalls(k)) \in Nat
    BY <1>5, Named DEF DestroyCalls
  <2>3. QED
    BY <2>1, <2>2
<1>6. QED
  BY <1>1, <1>2, <1>3, <1>4, <1>5 DEF Kinds

\* The calls of an exchange, one by one.
LEMMA ExchangeIs ==
  ASSUME NEW k \in Kinds
  PROVE  /\ ExchangeCalls(k) \in Seq(Names)
         /\ Len(ExchangeCalls(k)) = N + (IF k = "nccl" THEN 4 ELSE 3)
         /\ ExchangeCalls(k)[1] = "start"
         /\ \A i \in 2 .. N : ExchangeCalls(k)[i] = "send"
         /\ ExchangeCalls(k)[N + 1] = "recv"
         /\ k = "nccl" => ExchangeCalls(k)[N + 2] = "launch" /\ ExchangeCalls(k)[N + 3] = "stop"
                          /\ ExchangeCalls(k)[N + 4] = "free"
         /\ k # "nccl" => ExchangeCalls(k)[N + 2] = "stop" /\ ExchangeCalls(k)[N + 3] = "free"
<1> DEFINE a == <<"start">>
           b == [i \in 1 .. N - 1 |-> "send"]
           c == <<"recv">>
           d == IF k = "nccl" THEN <<"launch">> ELSE <<>>
           e == <<"stop", "free">>
           n == IF k = "nccl" THEN 1 ELSE 0
<1>1. N \in Nat /\ N >= 1
  BY NAssumption
<1>2. a \in Seq(Names) /\ Len(a) = 1 /\ a[1] = "start"
  BY Named
<1>3. b \in Seq(Names) /\ Len(b) = N - 1 /\ \A i \in 1 .. N - 1 : b[i] = "send"
  BY <1>1, Named
<1>4. c \in Seq(Names) /\ Len(c) = 1 /\ c[1] = "recv"
  BY Named
<1>5. d \in Seq(Names) /\ Len(d) = n /\ (k = "nccl" => d[1] = "launch")
  BY Named
<1>6. e \in Seq(Names) /\ Len(e) = 2 /\ e[1] = "stop" /\ e[2] = "free"
  BY Named
<1>7. ExchangeCalls(k) = a \o b \o c \o d \o e
  BY DEF ExchangeCalls
<1>8. n \in {0, 1} /\ (k = "nccl" <=> n = 1)
  OBVIOUS
<1> DEFINE ab == a \o b
           abc == ab \o c
           abcd == abc \o d
           x == abcd \o e
<1>9. ab = a \o b /\ abc = ab \o c /\ abcd = abc \o d /\ x = abcd \o e
  OBVIOUS
<1> HIDE DEF a, b, c, d, e, n, ab, abc, abcd, x
<1>10. ab \in Seq(Names) /\ IsJoined(ab, a, b)
  BY <1>2, <1>3, <1>9, Joined
<1>11. abc \in Seq(Names) /\ IsJoined(abc, ab, c)
  BY <1>4, <1>9, <1>10, Joined
<1>12. abcd \in Seq(Names) /\ IsJoined(abcd, abc, d)
  BY <1>5, <1>9, <1>11, Joined
<1>13. x \in Seq(Names) /\ IsJoined(x, abcd, e)
  BY <1>6, <1>9, <1>12, Joined
<1>14. Len(ab) = N /\ ab[1] = "start" /\ \A i \in 2 .. N : ab[i] = "send"
  <2>1. Len(ab) = 1 + (N - 1) /\ ab[1] = a[1] /\ \A i \in 1 .. N - 1 : ab[1 + i] = b[i]
    BY <1>2, <1>3, <1>10 DEF IsJoined
  <2>2. ASSUME NEW i \in 2 .. N PROVE ab[i] = "send"
    <3>1. i - 1 \in 1 .. N - 1 /\ ab[1 + (i - 1)] = b[i - 1] /\ 1 + (i - 1) = i
      BY <1>1, <2>1
    <3>2. QED
      BY <3>1, <1>3
  <2>3. QED
    BY <1>1, <1>2, <2>1, <2>2
<1>15. Len(abc) = N + 1 /\ (\A i \in 1 .. N : abc[i] = ab[i]) /\ abc[N + 1] = "recv"
  BY <1>4, <1>11, <1>14 DEF IsJoined
<1>16. Len(abcd) = N + 1 + n /\ (\A i \in 1 .. N + 1 : abcd[i] = abc[i]) /\ (n = 1 => abcd[N + 2] = "launch")
  <2>1. Len(abcd) = N + 1 + n /\ (\A i \in 1 .. N + 1 : abcd[i] = abc[i])
        /\ \A i \in 1 .. n : abcd[N + 1 + i] = d[i]
    BY <1>5, <1>12, <1>15 DEF IsJoined
  <2>2. n = 1 => abcd[N + 1 + 1] = "launch"
    BY <1>5, <1>8, <2>1
  <2>3. N + 1 + 1 = N + 2
    BY <1>1
  <2>4. QED
    BY <2>1, <2>2, <2>3
<1>17. Len(x) = N + 3 + n /\ (\A i \in 1 .. N + 1 + n : x[i] = abcd[i])
       /\ x[N + n + 2] = "stop" /\ x[N + n + 3] = "free"
  <2>1. Len(x) = N + 1 + n + 2 /\ (\A i \in 1 .. N + 1 + n : x[i] = abcd[i])
        /\ \A i \in 1 .. 2 : x[N + 1 + n + i] = e[i]
    BY <1>6, <1>13, <1>16 DEF IsJoined
  <2>2. x[N + 1 + n + 1] = "stop" /\ x[N + 1 + n + 2] = "free"
    BY <1>6, <2>1
  <2>3. N + 1 + n + 1 = N + n + 2 /\ N + 1 + n + 2 = N + n + 3 /\ N + 1 + n + 2 = N + 3 + n
    BY <1>1, <1>8
  <2>4. QED
    BY <2>1, <2>2, <2>3
<1>18. x = ExchangeCalls(k)
  BY <1>7 DEF ab, abc, abcd, x
<1>19. QED
  <2> DEFINE X == ExchangeCalls(k)
  <2> HIDE DEF X
  <2>1. X \in Seq(Names) /\ Len(X) = N + 3 + n /\ (\A i \in 1 .. N + 1 + n : X[i] = abcd[i])
       /\ X[N + n + 2] = "stop" /\ X[N + n + 3] = "free"
    BY <1>13, <1>17, <1>18 DEF X
  <2>2. \A i \in 1 .. N : X[i] = ab[i]
    BY <1>1, <1>8, <1>15, <1>16, <2>1
  <2>3. X[1] = "start" /\ \A i \in 2 .. N : X[i] = "send"
    BY <1>1, <1>14, <2>2
  <2>4. X[N + 1] = "recv"
    BY <1>1, <1>8, <1>15, <1>16, <2>1
  <2>5. k = "nccl" => X[N + 2] = "launch" /\ X[N + 3] = "stop" /\ X[N + 4] = "free"
    <3>1. ASSUME k = "nccl" PROVE X[N + 2] = "launch" /\ X[N + 3] = "stop" /\ X[N + 4] = "free"
      <4>1. n = 1 /\ N + n + 2 = N + 3 /\ N + n + 3 = N + 4 /\ N + 2 \in 1 .. N + 1 + n
        BY <1>1, <1>8, <3>1
      <4>2. QED
        BY <1>16, <2>1, <4>1
    <3>2. QED
      BY <3>1
  <2>6. k # "nccl" => X[N + 2] = "stop" /\ X[N + 3] = "free"
    <3>1. ASSUME k # "nccl" PROVE X[N + 2] = "stop" /\ X[N + 3] = "free"
      <4>1. n = 0 /\ N + n + 2 = N + 2 /\ N + n + 3 = N + 3
        BY <1>1, <1>8, <3>1
      <4>2. QED
        BY <2>1, <4>1
    <3>2. QED
      BY <3>1
  <2>7. Len(X) = N + (IF k = "nccl" THEN 4 ELSE 3)
    BY <1>1, <1>8, <2>1
  <2>8. QED
    BY <2>1, <2>3, <2>4, <2>5, <2>6, <2>7 DEF X

\* Induction over 0 .. n for a set: the set of the numbers that have a property.
LEMMA Climb ==
  ASSUME NEW n \in Nat, NEW S, 0 \in S, \A i \in 0 .. n - 1 : i \in S => i + 1 \in S
  PROVE  \A i \in 0 .. n : i \in S
<1> SUFFICES ASSUME NEW k \in 0 .. n, k \notin S
             PROVE  FALSE
  OBVIOUS
<1> DEFINE T == {i \in 0 .. n : i \notin S}
<1>1. T \subseteq Nat /\ T # {}
  OBVIOUS
<1> HIDE DEF T
<1>2. PICK x \in T : \A y \in T : ~ (<<y, x>> \in OpToRel(<, Nat))
  BY <1>1, NatLessThanWellFounded, WFMin
<1>3. \A y \in T : ~ (y < x)
  BY <1>1, <1>2 DEF OpToRel
<1>4. x \in 0 .. n /\ x \notin S /\ x # 0
  BY DEF T
<1>5. x - 1 \in 0 .. n - 1 /\ x - 1 < x /\ x - 1 + 1 = x
  BY <1>4
<1>6. x - 1 \notin T
  BY <1>3, <1>5
<1> QED BY <1>4, <1>5, <1>6 DEF T

\* n copies of x, one after the other.
IsChain(y, n, x) ==
  /\ Len(y) = n * Len(x)
  /\ \A k \in 1 .. n : \A o \in 1 .. Len(x) : y[(k - 1) * Len(x) + o] = x[o]

Chain(g, m, x) == g = [n \in 0 .. m |-> IF n = 0 THEN <<>> ELSE g[n - 1] \o x]

\* The recursive function that appends the calls of an exchange m times exists.
LEMMA ChainExists ==
  ASSUME NEW m \in Nat, NEW x
  PROVE  \E g : Chain(g, m, x)
<1> DEFINE Good == {n \in 0 .. m : \E g : Chain(g, n, x)}
<1>1. 0 \in Good
  <2>1. Chain([n \in 0 .. 0 |-> <<>>], 0, x)
    BY DEF Chain
  <2>2. QED
    BY <2>1
<1>2. ASSUME NEW n \in 0 .. m - 1, n \in Good PROVE n + 1 \in Good
  <2>1. PICK g : Chain(g, n, x)
    BY <1>2
  <2> DEFINE h == [j \in 0 .. n + 1 |-> IF j = n + 1 THEN g[n] \o x ELSE g[j]]
  <2>2. n \in Nat /\ n + 1 \in 0 .. m
    OBVIOUS
  <2>3. \A j \in 0 .. n : g[j] = IF j = 0 THEN <<>> ELSE g[j - 1] \o x
    BY <2>1 DEF Chain
  <2>4. ASSUME NEW j \in 0 .. n + 1 PROVE h[j] = IF j = 0 THEN <<>> ELSE h[j - 1] \o x
    <3>1. CASE j = n + 1
      <4>1. j # 0 /\ j - 1 = n /\ h[j] = g[n] \o x /\ h[n] = g[n]
        BY <2>2, <3>1
      <4> HIDE DEF h
      <4>2. QED
        BY <4>1
    <3>2. CASE j # n + 1
      <4>1. j \in 0 .. n /\ (j # 0 => j - 1 \in 0 .. n)
        BY <2>2, <3>2
      <4>2. h[j] = g[j] /\ (j # 0 => h[j - 1] = g[j - 1])
        BY <2>2, <4>1
      <4> HIDE DEF h
      <4>3. QED
        BY <2>3, <4>1, <4>2
    <3>3. QED
      BY <3>1, <3>2
  <2>5. Chain(h, n + 1, x)
    <3>1. h = [j \in 0 .. n + 1 |-> h[j]]
      OBVIOUS
    <3> HIDE DEF h
    <3>2. [j \in 0 .. n + 1 |-> h[j]] = [j \in 0 .. n + 1 |-> IF j = 0 THEN <<>> ELSE h[j - 1] \o x]
      BY <2>4, Zenon
    <3>3. QED
      BY <3>1, <3>2, Zenon DEF Chain
  <2>6. QED
    BY <2>2, <2>5
<1>3. \A n \in 0 .. m : n \in Good
  <2> HIDE DEF Good
  <2>1. QED
    BY <1>1, <1>2, Climb
<1>4. QED
  BY <1>3

\* Its n-th value is the calls of n exchanges, one exchange after the other.
LEMMA ChainIs ==
  ASSUME NEW S, NEW x \in Seq(S), NEW m \in Nat, NEW g, Chain(g, m, x), NEW n \in 0 .. m
  PROVE  g[n] \in Seq(S) /\ IsChain(g[n], n, x)
<1> DEFINE L == Len(x)
           Good == {j \in 0 .. m : g[j] \in Seq(S) /\ IsChain(g[j], j, x)}
<1>1. L \in Nat
  OBVIOUS
<1>2. \A j \in 0 .. m : g[j] = IF j = 0 THEN <<>> ELSE g[j - 1] \o x
  BY DEF Chain
<1>3. 0 \in Good
  <2>1. g[0] = <<>> /\ 0 * L = 0
    BY <1>1, <1>2
  <2>2. <<>> \in Seq(S) /\ Len(<<>>) = 0 * L
    BY <2>1
  <2>3. IsChain(<<>>, 0, x)
    BY <2>2 DEF IsChain
  <2>4. g[0] \in Seq(S) /\ IsChain(g[0], 0, x) /\ 0 \in 0 .. m
    BY <2>1, <2>2, <2>3
  <2>5. QED
    BY <2>4
<1>4. ASSUME NEW j \in 0 .. m - 1, j \in Good PROVE j + 1 \in Good
  <2> DEFINE a == g[j]
             b == g[j + 1]
  <2>1. j \in Nat /\ j + 1 \in 0 .. m /\ j + 1 # 0 /\ (j + 1) - 1 = j
    OBVIOUS
  <2>2. a \in Seq(S) /\ IsChain(a, j, x)
    BY <1>4
  <2>3. b = a \o x
    BY <1>2, <2>1
  <2> HIDE DEF a, b
  <2>4. b \in Seq(S) /\ IsJoined(b, a, x)
    BY <2>2, <2>3, Joined
  <2>5. Len(b) = (j + 1) * L
    <3>1. Len(b) = j * L + L
      BY <2>2, <2>4 DEF IsChain, IsJoined
    <3>2. QED
      BY <1>1, <2>1, <3>1
  <2>6. ASSUME NEW k \in 1 .. j + 1, NEW o \in 1 .. L PROVE b[(k - 1) * L + o] = x[o]
    <3>1. CASE k = j + 1
      <4>1. b[Len(a) + o] = x[o] /\ Len(a) = j * L
        BY <2>2, <2>4 DEF IsChain, IsJoined
      <4>2. k - 1 = j
        BY <2>1, <3>1
      <4>3. QED
        BY <4>1, <4>2
    <3>2. CASE k # j + 1
      <4>1. k \in 1 .. j /\ k - 1 \in Nat /\ k - 1 <= j - 1
        BY <2>1, <3>2
      <4>2. a[(k - 1) * L + o] = x[o] /\ Len(a) = j * L
        BY <2>2, <4>1 DEF IsChain
      <4>3. (k - 1) * L + o \in 1 .. j * L
        <5>1. j - k \in Nat
          BY <2>1, <4>1
        <5>2. (j - k) * L \in Nat /\ (k - 1) * L \in Nat
          BY <1>1, <4>1, <5>1
        <5>3. j * L = (k - 1) * L + L + (j - k) * L
          BY <1>1, <2>1, <4>1
        <5>4. QED
          BY <1>1, <5>2, <5>3
      <4>4. b[(k - 1) * L + o] = a[(k - 1) * L + o]
        BY <2>4, <4>2, <4>3 DEF IsJoined
      <4>5. QED
        BY <4>2, <4>4
    <3>3. QED
      BY <3>1, <3>2
  <2>7. b \in Seq(S) /\ IsChain(b, j + 1, x)
    BY <2>4, <2>5, <2>6 DEF IsChain
  <2>8. QED
    BY <2>1, <2>7 DEF b
<1>5. \A j \in 0 .. m : j \in Good
  <2> HIDE DEF Good
  <2>1. QED
    BY <1>3, <1>4, Climb
<1>6. QED
  BY <1>5
\* The calls of a program, by their place in it.
Placed ==
  /\ R \in Nat /\ Ls \in Nat /\ Lx \in Nat /\ Ld \in Nat
  /\ Len(Program) = Base(R) + Ld
  /\ \A i \in 1 .. Ls : Program[i] = SetupCalls(kind)[i]
  /\ \A k \in 0 .. R - 1 : \A o \in 1 .. Lx : Program[Base(k) + o] = ExchangeCalls(kind)[o]
  /\ \A o \in 1 .. Ld : Program[Base(R) + o] = DestroyCalls(kind)[o]

\* What a session is made of has its types.
LEMMA KindIs ==
  ASSUME session \in Sessions
  PROVE  kind \in Kinds /\ session.rounds \in 0 .. Rounds /\ Rounds \in Nat
<1>1. session \in [kind : {"nccl", "buffer", "preregistered", "none", "unknown"},
                   probing : BOOLEAN, rounds : 0 .. Rounds]
  BY SessionAssumption
<1>2. QED
  BY <1>1, SizeAssumption DEF kind, Kinds

\* Where setup, each exchange and destroy are in a program.
LEMMA ProgramIs ==
  ASSUME session \in Sessions
  PROVE  Placed
<1> DEFINE S == SetupCalls(kind)
           X == ExchangeCalls(kind)
           D == DestroyCalls(kind)
           E == CHOOSE g : Chain(g, Rounds, X)
           y == E[R]
           a == S \o y
           p == a \o D
<1>1. kind \in Kinds /\ session.rounds \in 0 .. Rounds /\ Rounds \in Nat
  BY KindIs
<1>2. S \in Seq(Names) /\ Ls \in Nat /\ Len(S) = Ls
  BY <1>1, SetupIs DEF Ls
<1>3. D \in Seq(Names) /\ Ld \in Nat /\ Len(D) = Ld
  BY <1>1, SetupIs DEF Ld
<1>4. X \in Seq(Names) /\ Lx \in Nat /\ Len(X) = Lx
  <2>1. X \in Seq(Names)
    BY <1>1, ExchangeIs
  <2> HIDE DEF X
  <2>2. Len(X) \in Nat
    BY <2>1
  <2>3. QED
    BY <2>1, <2>2 DEF X, Lx
<1>5. R \in 0 .. Rounds
  BY <1>1 DEF R
<1>6. Chain(E, Rounds, X)
  <2>1. \E g : Chain(g, Rounds, X)
    BY <1>1, ChainExists
  <2>2. QED
    BY <2>1, Zenon
<1>7. Program = p
  <2>1. Program = LET exchanges == CHOOSE g : g = [n \in 0 .. Rounds |-> IF n = 0 THEN <<>> ELSE g[n - 1] \o ExchangeCalls(session.kind)]
                  IN  IF session.kind = "unknown" THEN SetupCalls(session.kind)
                      ELSE SetupCalls(session.kind) \o exchanges[session.rounds] \o DestroyCalls(session.kind)
    BY Zenon DEF Program, Programs
  <2>2. Program = IF kind = "unknown" THEN S ELSE S \o E[session.rounds] \o D
    BY <2>1, Zenon DEF Chain, kind
  <2>3. CASE kind # "unknown"
    BY <2>2, <2>3 DEF R
  <2>4. CASE kind = "unknown"
    <3>1. R = 0 /\ D = <<>> /\ Program = S
      BY <2>2, <2>4 DEF R, DestroyCalls
    <3>2. y = <<>>
      <4> HIDE DEF E
      <4>1. E[0] = <<>>
        BY <1>1, <1>6 DEF Chain
      <4>2. QED
        BY <3>1, <4>1
    <3> HIDE DEF y, S, D
    <3>3. S \o <<>> = S
      BY <1>2, ConcatEmptySeq
    <3>4. QED
      BY <3>1, <3>2, <3>3
  <2>5. QED
    BY <2>3, <2>4
<1>8. a = S \o y /\ p = a \o D
  OBVIOUS
<1> HIDE DEF E, S, X, D
<1>9. y \in Seq(Names) /\ IsChain(y, R, X)
  BY <1>1, <1>4, <1>5, <1>6, ChainIs
<1> HIDE DEF y, a, p
<1>10. a \in Seq(Names) /\ IsJoined(a, S, y)
  BY <1>2, <1>8, <1>9, Joined
<1>11. p \in Seq(Names) /\ IsJoined(p, a, D)
  BY <1>3, <1>8, <1>10, Joined
<1>12. R \in Nat
  BY <1>5
<1>13. R * Lx \in Nat
  BY <1>4, <1>12
<1>14. Len(y) = R * Lx /\ Len(a) = Ls + R * Lx
  BY <1>2, <1>4, <1>9, <1>10 DEF IsChain, IsJoined
<1>15. Len(p) = Base(R) + Ld
  BY <1>3, <1>11, <1>14 DEF IsJoined, Base
<1>16. \A i \in 1 .. Ls + R * Lx : p[i] = a[i]
  BY <1>11, <1>14 DEF IsJoined
<1>17. \A i \in 1 .. Ls : p[i] = S[i]
  BY <1>2, <1>10, <1>13, <1>16 DEF IsJoined
<1>18. \A k \in 0 .. R - 1 : \A o \in 1 .. Lx : p[Base(k) + o] = X[o]
  <2> TAKE k \in 0 .. R - 1
  <2> TAKE o \in 1 .. Lx
  <2>1. k + 1 \in 1 .. R /\ (k + 1) - 1 = k
    BY <1>12
  <2>2. y[k * Lx + o] = X[o]
    <3>1. y[((k + 1) - 1) * Lx + o] = X[o]
      BY <1>4, <1>9, <2>1 DEF IsChain
    <3>2. QED
      BY <2>1, <3>1
  <2>3. k * Lx \in Nat /\ k * Lx + o \in 1 .. R * Lx
    <3>1. R - 1 - k \in Nat /\ k \in Nat
      BY <1>12
    <3>2. (R - 1 - k) * Lx \in Nat /\ k * Lx \in Nat
      BY <1>4, <3>1
    <3>3. R * Lx = k * Lx + Lx + (R - 1 - k) * Lx
      BY <1>4, <1>12, <3>1
    <3>4. QED
      BY <1>4, <3>2, <3>3
  <2>4. a[Ls + (k * Lx + o)] = y[k * Lx + o]
    BY <1>2, <1>10, <1>14, <2>3 DEF IsJoined
  <2>5. Ls + (k * Lx + o) \in 1 .. Ls + R * Lx /\ Base(k) + o = Ls + (k * Lx + o)
    BY <1>2, <2>3, <1>13 DEF Base
  <2>6. QED
    BY <1>16, <2>2, <2>4, <2>5
<1>19. \A o \in 1 .. Ld : p[Base(R) + o] = D[o]
  BY <1>3, <1>11, <1>14 DEF IsJoined, Base
<1>20. QED
  BY <1>2, <1>3, <1>4, <1>7, <1>12, <1>15, <1>17, <1>18, <1>19 DEF Placed, S, X, D

\* The exchanges begin one after the other.
LEMMA Bases ==
  ASSUME session \in Sessions
  PROVE  /\ Base(0) = Ls /\ Ls \in Nat
         /\ \A k \in Nat : Base(k) \in Nat /\ Base(k + 1) = Base(k) + Lx
         /\ \A k, j \in Nat : k <= j => Base(k) <= Base(j)
<1>1. Ls \in Nat /\ Lx \in Nat
  BY ProgramIs DEF Placed
<1>2. Base(0) = Ls
  BY <1>1 DEF Base
<1>3. ASSUME NEW k \in Nat PROVE Base(k) \in Nat /\ Base(k + 1) = Base(k) + Lx
  <2>1. k * Lx \in Nat /\ (k + 1) * Lx = k * Lx + Lx
    BY <1>1
  <2>2. QED
    BY <1>1, <2>1 DEF Base
<1>4. ASSUME NEW k \in Nat, NEW j \in Nat, k <= j PROVE Base(k) <= Base(j)
  <2>1. j - k \in Nat
    BY <1>4
  <2>2. (j - k) * Lx \in Nat /\ k * Lx \in Nat
    BY <1>1, <2>1
  <2>3. j * Lx = k * Lx + (j - k) * Lx
    BY <1>1
  <2>4. QED
    BY <1>1, <2>2, <2>3 DEF Base
<1>5. QED
  BY <1>1, <1>2, <1>3, <1>4

SetupSet   == {"worker", "connect", "registered", "pool", "cache", "throw"}
UnderSet   == {"send", "recv", "launch", "stop", "free"}
DestroySet == {"uncache", "close", "barrier", "deletePool", "deleteRegistered", "destroyNccl",
               "deleteComm", "end"}

\* The call at each place.
LEMMA CallIs ==
  ASSUME session \in Sessions, NEW i, NEW k
  PROVE  /\ AtSetup(i, k) => CallAt(i) = SetupCalls(kind)[i]
         /\ AtStart(i, k) => CallAt(i) = "start"
         /\ \A o : AtCall(i, k, o) => CallAt(i) = ExchangeCalls(kind)[o]
         /\ \A o : AtDestroy(i, k, o) =>
              CallAt(i) = IF o = Ld + 1 THEN "end" ELSE DestroyCalls(kind)[o]
<1>1. Placed
  BY ProgramIs
<1>2. Base(0) = Ls /\ R \in Nat /\ Ld \in Nat /\ Lx \in Nat /\ Ls \in Nat
  BY <1>1, Bases DEF Placed
<1>3. Len(Program) = Base(R) + Ld /\ Base(R) \in Nat
  BY <1>1, <1>2, Bases DEF Placed
<1>4. \A j \in 0 .. R - 1 : Base(j) + Lx <= Base(R) /\ Base(j) \in Nat
  <2> TAKE j \in 0 .. R - 1
  <2>1. j \in Nat /\ j + 1 \in Nat /\ j + 1 <= R
    BY <1>2
  <2>2. Base(j + 1) <= Base(R) /\ Base(j + 1) = Base(j) + Lx /\ Base(j) \in Nat
    BY <1>2, <2>1, Bases
  <2>3. QED
    BY <2>2
<1>5. ASSUME AtSetup(i, k) PROVE CallAt(i) = SetupCalls(kind)[i]
  <2>1. i \in 1 .. Ls
    BY <1>5 DEF AtSetup
  <2>2. Base(0) <= Base(R)
    BY <1>2, Bases
  <2>3. i <= Len(Program)
    BY <1>2, <1>3, <2>1, <2>2
  <2>4. QED
    BY <1>1, <2>1, <2>3 DEF CallAt, Placed
<1>6. Lx >= 1 /\ ExchangeCalls(kind)[1] = "start"
  BY KindIs, ExchangeIs, NAssumption DEF Lx
<1>7. ASSUME AtStart(i, k) PROVE CallAt(i) = "start"
  <2>1. k \in 0 .. R - 1 /\ i = Base(k) + 1
    BY <1>7 DEF AtStart
  <2>2. i <= Len(Program)
    BY <1>2, <1>3, <1>4, <1>6, <2>1
  <2>3. Program[Base(k) + 1] = ExchangeCalls(kind)[1]
    BY <1>1, <1>2, <1>6, <2>1 DEF Placed
  <2>4. QED
    BY <1>6, <2>1, <2>2, <2>3 DEF CallAt
<1>8. ASSUME NEW o, AtCall(i, k, o) PROVE CallAt(i) = ExchangeCalls(kind)[o]
  <2>1. k - 1 \in 0 .. R - 1 /\ i = Base(k - 1) + o /\ o \in 1 .. Lx
    BY <1>2, <1>8 DEF AtCall
  <2>2. i <= Len(Program)
    <3>1. PICK x, y, l : x = Base(k - 1) /\ y = Base(R) /\ l = Len(Program)
      OBVIOUS
    <3>2. x + Lx <= y /\ x \in Nat /\ y \in Nat /\ l = y + Ld /\ Lx \in Nat /\ Ld \in Nat
      BY <1>2, <1>3, <1>4, <2>1, <3>1
    <3>3. i = x + o /\ o \in 1 .. Lx
      BY <2>1, <3>1
    <3>4. i <= l
      BY <3>2, <3>3
    <3>5. QED
      BY <3>1, <3>4
  <2>3. Program[Base(k - 1) + o] = ExchangeCalls(kind)[o]
    BY <1>1, <2>1 DEF Placed
  <2>4. QED
    BY <2>1, <2>2, <2>3 DEF CallAt
<1>9. ASSUME NEW o, AtDestroy(i, k, o)
      PROVE  CallAt(i) = IF o = Ld + 1 THEN "end" ELSE DestroyCalls(kind)[o]
  <2>1. k = R /\ o \in 1 .. Ld + 1 /\ i = Base(R) + o
    BY <1>9 DEF AtDestroy
  <2>2. CASE o = Ld + 1
    <3>1. ~(i <= Len(Program))
      BY <1>2, <1>3, <2>1, <2>2
    <3>2. QED
      BY <2>2, <3>1 DEF CallAt
  <2>3. CASE o # Ld + 1
    <3>1. o \in 1 .. Ld /\ i <= Len(Program)
      BY <1>2, <1>3, <2>1, <2>3
    <3>2. QED
      BY <1>1, <2>1, <2>3, <3>1 DEF CallAt, Placed
  <2>4. QED
    BY <2>2, <2>3
<1>10. QED
  BY <1>5, <1>7, <1>8, <1>9
\* From one place to the next.
LEMMA Onward ==
  ASSUME session \in Sessions, NEW i, NEW k
  PROVE  /\ AtSetup(i, k) => \/ i < Ls /\ AtSetup(i + 1, k)
                             \/ i = Ls /\ (AtStart(i + 1, k) \/ AtDestroy(i + 1, k, 1))
         /\ AtStart(i, k) => AtCall(i + 1, k + 1, 2)
         /\ \A o : AtCall(i, k, o) => \/ o < Lx /\ AtCall(i + 1, k, o + 1)
                                      \/ o = Lx /\ (AtStart(i + 1, k) \/ AtDestroy(i + 1, k, 1))
         /\ \A o : AtDestroy(i, k, o) => o = Ld + 1 \/ AtDestroy(i + 1, k, o + 1)
<1>1. R \in Nat /\ Ld \in Nat /\ Lx \in Nat /\ Ls \in Nat
  BY ProgramIs DEF Placed
<1>2. Base(0) = Ls /\ \A j \in Nat : Base(j) \in Nat /\ Base(j + 1) = Base(j) + Lx
  BY Bases
<1>3. Lx >= 2
  BY KindIs, ExchangeIs, NAssumption DEF Lx
<1>4. ASSUME AtSetup(i, k)
      PROVE  \/ i < Ls /\ AtSetup(i + 1, k)
             \/ i = Ls /\ (AtStart(i + 1, k) \/ AtDestroy(i + 1, k, 1))
  <2>1. k = 0 /\ i \in 1 .. Ls
    BY <1>4 DEF AtSetup
  <2>2. CASE i < Ls
    BY <1>1, <2>1, <2>2 DEF AtSetup
  <2>3. CASE i = Ls /\ R = 0
    BY <1>1, <1>2, <2>1, <2>3 DEF AtDestroy
  <2>4. CASE i = Ls /\ R # 0
    BY <1>1, <1>2, <2>1, <2>4 DEF AtStart
  <2>5. QED
    BY <1>1, <2>1, <2>2, <2>3, <2>4
<1>5. ASSUME AtStart(i, k) PROVE AtCall(i + 1, k + 1, 2)
  <2>1. k \in 0 .. R - 1 /\ i = Base(k) + 1
    BY <1>5 DEF AtStart
  <2>2. k + 1 \in 1 .. R /\ (k + 1) - 1 = k /\ 2 \in 2 .. Lx /\ i + 1 = Base(k) + 2
    BY <1>1, <1>2, <1>3, <2>1
  <2>3. QED
    BY <2>2 DEF AtCall
<1>6. ASSUME NEW o, AtCall(i, k, o)
      PROVE  \/ o < Lx /\ AtCall(i + 1, k, o + 1)
             \/ o = Lx /\ (AtStart(i + 1, k) \/ AtDestroy(i + 1, k, 1))
  <2>1. k \in 1 .. R /\ o \in 2 .. Lx /\ i = Base(k - 1) + o
    BY <1>6 DEF AtCall
  <2>2. k - 1 \in Nat /\ (k - 1) + 1 = k /\ k \in Nat
    BY <1>1, <2>1
  <2>3. Base(k - 1) \in Nat /\ Base(k) = Base(k - 1) + Lx
    BY <1>2, <2>2
  <2>4. CASE o < Lx
    <3>1. o + 1 \in 2 .. Lx /\ i + 1 = Base(k - 1) + (o + 1)
      BY <1>1, <2>1, <2>3, <2>4
    <3>2. QED
      BY <2>1, <2>4, <3>1 DEF AtCall
  <2>5. CASE o = Lx
    <3>1. i + 1 = Base(k) + 1
      BY <1>1, <2>1, <2>3, <2>5
    <3>2. CASE k = R
      BY <1>1, <2>5, <3>1, <3>2 DEF AtDestroy
    <3>3. CASE k # R
      BY <1>1, <2>1, <2>5, <3>1, <3>3 DEF AtStart
    <3>4. QED
      BY <3>2, <3>3
  <2>6. QED
    BY <1>1, <2>1, <2>4, <2>5
<1>7. ASSUME NEW o, AtDestroy(i, k, o) PROVE o = Ld + 1 \/ AtDestroy(i + 1, k, o + 1)
  <2>1. k = R /\ o \in 1 .. Ld + 1 /\ i = Base(R) + o /\ Base(R) \in Nat
    BY <1>1, <1>2, <1>7 DEF AtDestroy
  <2>2. CASE o # Ld + 1
    <3>1. o + 1 \in 1 .. Ld + 1 /\ i + 1 = Base(R) + (o + 1)
      BY <1>1, <2>1, <2>2
    <3>2. QED
      BY <2>1, <3>1 DEF AtDestroy
  <2>3. QED
    BY <2>2
<1>8. QED
  BY <1>4, <1>5, <1>6, <1>7

\* A place is known by its call.
LEMMA SetupNames ==
  ASSUME NEW c \in Kinds, NEW i \in 1 .. Len(SetupCalls(c))
  PROVE  SetupCalls(c)[i] \in SetupSet
<1>1. CASE c = "nccl"
  BY <1>1 DEF SetupCalls, SetupSet
<1>2. CASE c = "buffer"
  BY <1>2 DEF SetupCalls, SetupSet
<1>3. CASE c = "preregistered"
  BY <1>3 DEF SetupCalls, SetupSet
<1>4. CASE c = "none"
  BY <1>4 DEF SetupCalls, SetupSet
<1>5. CASE c = "unknown"
  BY <1>5 DEF SetupCalls, SetupSet
<1>6. QED
  BY <1>1, <1>2, <1>3, <1>4, <1>5 DEF Kinds

\* The calls of destroy are among those listed in DestroySet.
LEMMA DestroyNames ==
  ASSUME NEW c \in Kinds, NEW i \in 1 .. Len(DestroyCalls(c))
  PROVE  DestroyCalls(c)[i] \in DestroySet
<1>1. CASE c = "nccl"
  BY <1>1 DEF DestroyCalls, DestroySet
<1>2. CASE c = "buffer"
  BY <1>2 DEF DestroyCalls, DestroySet
<1>3. CASE c = "preregistered"
  BY <1>3 DEF DestroyCalls, DestroySet
<1>4. CASE c = "none"
  BY <1>4 DEF DestroyCalls, DestroySet
<1>5. CASE c = "unknown"
  BY <1>5 DEF DestroyCalls, DestroySet
<1>6. QED
  BY <1>1, <1>2, <1>3, <1>4, <1>5 DEF Kinds

\* The calls of an exchange but for start are among those listed in UnderSet.
LEMMA ExchangeNames ==
  ASSUME NEW c \in Kinds, NEW i \in 2 .. Len(ExchangeCalls(c))
  PROVE  ExchangeCalls(c)[i] \in UnderSet
<1> DEFINE X == ExchangeCalls(c)
<1>1. N \in Nat /\ N >= 1
  BY NAssumption
<1>2. /\ Len(X) = N + (IF c = "nccl" THEN 4 ELSE 3)
      /\ \A j \in 2 .. N : X[j] = "send"
      /\ X[N + 1] = "recv"
      /\ c = "nccl" => X[N + 2] = "launch" /\ X[N + 3] = "stop" /\ X[N + 4] = "free"
      /\ c # "nccl" => X[N + 2] = "stop" /\ X[N + 3] = "free"
  BY ExchangeIs
<1>3. i \in 2 .. Len(X)
  OBVIOUS
<1> HIDE DEF X
<1>4. i \in 2 .. N \/ i = N + 1 \/ i = N + 2 \/ i = N + 3 \/ (i = N + 4 /\ c = "nccl")
  BY <1>1, <1>2, <1>3
<1>5. X[i] \in {"send", "recv", "launch", "stop", "free"}
  BY <1>2, <1>4
<1>6. QED
  BY <1>5 DEF UnderSet, X

\* No call belongs to two parts of a program.
LEMMA SetsDisjoint ==
  /\ SetupSet \cap UnderSet = {} /\ SetupSet \cap DestroySet = {} /\ UnderSet \cap DestroySet = {}
  /\ "start" \notin SetupSet /\ "start" \notin UnderSet /\ "start" \notin DestroySet
BY DEF SetupSet, UnderSet, DestroySet

\* A call is made in one part of the program: its name tells which.
LEMMA Locate ==
  ASSUME session \in Sessions, NEW i, NEW k, Site(i, k)
  PROVE  /\ CallAt(i) \in SetupSet \cup {"start"} \cup UnderSet \cup DestroySet
         /\ CallAt(i) \in SetupSet => AtSetup(i, k)
         /\ CallAt(i) = "start" => AtStart(i, k)
         /\ CallAt(i) \in UnderSet => \E o \in 2 .. Lx : AtCall(i, k, o)
         /\ CallAt(i) \in DestroySet => \E o \in 1 .. Ld + 1 : AtDestroy(i, k, o)
<1>1. kind \in Kinds /\ Ld \in Nat
  BY KindIs, ProgramIs DEF Placed
<1>2. AtSetup(i, k) => CallAt(i) \in SetupSet
  <2>1. AtSetup(i, k) => i \in 1 .. Len(SetupCalls(kind))
    BY DEF AtSetup, Ls
  <2>2. QED
    BY <1>1, <2>1, CallIs, SetupNames
<1>3. \A o \in 2 .. Lx : AtCall(i, k, o) => CallAt(i) \in UnderSet
  <2> TAKE o \in 2 .. Lx
  <2> HAVE AtCall(i, k, o)
  <2>1. CallAt(i) = ExchangeCalls(kind)[o]
    BY CallIs
  <2>2. o \in 2 .. Len(ExchangeCalls(kind))
    BY DEF Lx
  <2>3. QED
    BY <1>1, <2>1, <2>2, ExchangeNames
<1>4. \A o \in 1 .. Ld + 1 : AtDestroy(i, k, o) => CallAt(i) \in DestroySet
  <2> TAKE o \in 1 .. Ld + 1
  <2> HAVE AtDestroy(i, k, o)
  <2>1. CASE o = Ld + 1
    BY <2>1, CallIs DEF DestroySet
  <2>2. CASE o # Ld + 1
    <3>1. o \in 1 .. Len(DestroyCalls(kind))
      BY <1>1, <2>2 DEF Ld
    <3>2. CallAt(i) = DestroyCalls(kind)[o]
      BY <2>2, CallIs
    <3>3. QED
      BY <1>1, <3>1, <3>2, DestroyNames
  <2>3. QED
    BY <2>1, <2>2
<1>5. AtStart(i, k) => CallAt(i) = "start"
  BY CallIs
<1>6. QED
  BY <1>2, <1>3, <1>4, <1>5, SetsDisjoint, Zenon DEF Site

\* The calls a kind of session makes, and what may come after a call.
Permitted(c) ==
  /\ kind = "unknown" => c \in {"throw", "end"}
  /\ c = "throw" => kind = "unknown"
  /\ c \in {"worker", "close", "barrier"} => kind \in {"buffer", "preregistered", "none"}
  /\ c = "registered" => kind = "preregistered"
  /\ c \in {"cache", "uncache"} => kind = "buffer"
  /\ c \in {"launch", "destroyNccl"} => kind = "nccl"

FirstDestroy == IF kind = "unknown" THEN "end" ELSE IF kind = "buffer" THEN "uncache" ELSE "deletePool"

Follows(c, d) ==
  /\ c = "worker" => d = "connect"
  /\ c = "connect" => d = IF kind = "buffer" THEN "cache" ELSE IF kind = "preregistered" THEN "registered" ELSE "pool"
  /\ c = "registered" => d = "pool"
  /\ c = "pool" => (kind = "buffer" /\ d = "worker") \/ (kind # "buffer" /\ d \in {"start", "deletePool"})
  /\ c = "cache" => d \in {"start", "uncache"}
  /\ c = "throw" => d = "end"
  /\ c = "start" => d \in {"send", "recv"}
  /\ c = "send" => d \in {"send", "recv"}
  /\ c = "recv" => d = IF kind = "nccl" THEN "launch" ELSE "stop"
  /\ c = "launch" => d = "stop"
  /\ c = "stop" => d = "free"
  /\ c = "free" => d \in {"start", FirstDestroy}
  /\ c = "uncache" => d = "close"
  /\ c = "close" => d = "barrier"
  /\ c = "barrier" => d = IF kind = "buffer" THEN "deletePool" ELSE "deleteComm"
  /\ c = "deletePool" => d = "deleteRegistered"
  /\ c = "deleteRegistered" => d = IF kind = "nccl" THEN "destroyNccl" ELSE IF kind = "buffer" THEN "deleteComm" ELSE "close"
  /\ c = "destroyNccl" => d = "deleteComm"
  /\ c = "deleteComm" => d = "end"

\* Setup and destroy, call by call.
LEMMA SetupOrder ==
  ASSUME session \in Sessions, NEW i \in 1 .. Ls, NEW d,
         d = IF i < Ls THEN SetupCalls(kind)[i + 1] ELSE d,
         i = Ls => d = FirstDestroy \/ (kind # "unknown" /\ d = "start")
  PROVE  Permitted(SetupCalls(kind)[i]) /\ Follows(SetupCalls(kind)[i], d)
<1>1. kind \in Kinds
  BY KindIs
<1>2. CASE kind = "nccl"
  <2>1. SetupCalls(kind) = <<"connect", "pool">>
    BY <1>2 DEF SetupCalls
  <2>2. Ls = 2
    BY <2>1 DEF Ls
  <2>3. QED
    BY <1>2, <2>1, <2>2 DEF Permitted, Follows, FirstDestroy
<1>3. CASE kind = "buffer"
  <2>1. SetupCalls(kind) = <<"pool", "worker", "connect", "cache">>
    BY <1>3 DEF SetupCalls
  <2>2. Ls = 4
    BY <2>1 DEF Ls
  <2>3. QED
    BY <1>3, <2>1, <2>2 DEF Permitted, Follows, FirstDestroy
<1>4. CASE kind = "preregistered"
  <2>1. SetupCalls(kind) = <<"worker", "connect", "registered", "pool">>
    BY <1>4 DEF SetupCalls
  <2>2. Ls = 4
    BY <2>1 DEF Ls
  <2>3. QED
    BY <1>4, <2>1, <2>2 DEF Permitted, Follows, FirstDestroy
<1>5. CASE kind = "none"
  <2>1. SetupCalls(kind) = <<"worker", "connect", "pool">>
    BY <1>5 DEF SetupCalls
  <2>2. Ls = 3
    BY <2>1 DEF Ls
  <2>3. QED
    BY <1>5, <2>1, <2>2 DEF Permitted, Follows, FirstDestroy
<1>6. CASE kind = "unknown"
  <2>1. SetupCalls(kind) = <<"throw">>
    BY <1>6 DEF SetupCalls
  <2>2. Ls = 1
    BY <2>1 DEF Ls
  <2>3. QED
    BY <1>6, <2>1, <2>2 DEF Permitted, Follows, FirstDestroy
<1>7. QED
  BY <1>1, <1>2, <1>3, <1>4, <1>5, <1>6 DEF Kinds

\* The calls of destroy follow each other as Follows has them.
LEMMA DestroyOrder ==
  ASSUME session \in Sessions, NEW o \in 1 .. Ld, NEW d,
         d = IF o < Ld THEN DestroyCalls(kind)[o + 1] ELSE "end"
  PROVE  Permitted(DestroyCalls(kind)[o]) /\ Follows(DestroyCalls(kind)[o], d)
         /\ DestroyCalls(kind)[1] = FirstDestroy
<1>1. kind \in Kinds
  BY KindIs
<1>2. CASE kind = "nccl"
  <2>1. DestroyCalls(kind) = <<"deletePool", "deleteRegistered", "destroyNccl", "deleteComm">>
    BY <1>2 DEF DestroyCalls
  <2>2. Ld = 4
    BY <2>1 DEF Ld
  <2>3. QED
    BY <1>2, <2>1, <2>2 DEF Permitted, Follows, FirstDestroy
<1>3. CASE kind = "buffer"
  <2>1. DestroyCalls(kind) = <<"uncache", "close", "barrier", "deletePool", "deleteRegistered", "deleteComm">>
    BY <1>3 DEF DestroyCalls
  <2>2. Ld = 6
    BY <2>1 DEF Ld
  <2>3. QED
    BY <1>3, <2>1, <2>2 DEF Permitted, Follows, FirstDestroy
<1>4. CASE kind \in {"preregistered", "none"}
  <2>1. DestroyCalls(kind) = <<"deletePool", "deleteRegistered", "close", "barrier", "deleteComm">>
    BY <1>4 DEF DestroyCalls
  <2>2. Ld = 5
    BY <2>1 DEF Ld
  <2>3. QED
    BY <1>4, <2>1, <2>2 DEF Permitted, Follows, FirstDestroy
<1>5. CASE kind = "unknown"
  <2>1. Ld = 0
    BY <1>5 DEF DestroyCalls, Ld
  <2>2. QED
    BY <2>1
<1>6. QED
  BY <1>1, <1>2, <1>3, <1>4, <1>5 DEF Kinds

\* The call after the last exchange is the first of destroy.
LEMMA DestroyBegins ==
  ASSUME session \in Sessions, NEW i, NEW k, AtDestroy(i, k, 1)
  PROVE  CallAt(i) = FirstDestroy
<1>1. kind \in Kinds /\ Ld \in Nat
  BY KindIs, ProgramIs DEF Placed
<1>2. CASE Ld = 0
  <2>1. CallAt(i) = "end"
    <3>1. CallAt(i) = IF 1 = Ld + 1 THEN "end" ELSE DestroyCalls(kind)[1]
      BY CallIs
    <3>2. QED
      BY <1>2, <3>1
  <2>2. kind = "unknown"
    <3>1. kind # "unknown" => Ld > 0
      BY <1>1 DEF Ld, DestroyCalls, Kinds
    <3>2. QED
      BY <1>2, <3>1
  <2>3. QED
    BY <2>1, <2>2 DEF FirstDestroy
<1>3. CASE Ld # 0
  <2>1. 1 \in 1 .. Ld
    BY <1>1, <1>3
  <2>2. CallAt(i) = DestroyCalls(kind)[1]
    <3>1. CallAt(i) = IF 1 = Ld + 1 THEN "end" ELSE DestroyCalls(kind)[1]
      BY CallIs
    <3>2. QED
      BY <1>1, <1>3, <3>1
  <2>3. QED
    BY <2>1, <2>2, DestroyOrder
<1>4. QED
  BY <1>2, <1>3
\* Which place of an exchange a call has, and what comes next.
LEMMA ExchangeOrder ==
  ASSUME session \in Sessions, NEW k, NEW i, NEW o, AtCall(i, k, o)
  PROVE  /\ o \in 2 .. N => CallAt(i) = "send"
         /\ o = N + 1 => CallAt(i) = "recv"
         /\ CallAt(i) = "send" => o \in 2 .. N /\ AtCall(i + 1, k, o + 1)
         /\ CallAt(i) = "recv" => o = N + 1
         /\ CallAt(i) = "free" => o = Lx
         /\ Permitted(CallAt(i)) /\ Follows(CallAt(i), CallAt(i + 1))
<1> DEFINE X == ExchangeCalls(kind)
           c == CallAt(i)
           d == CallAt(i + 1)
<1>1. N \in Nat /\ N >= 1 /\ kind \in Kinds
  BY NAssumption, KindIs
<1>2. /\ Lx = N + (IF kind = "nccl" THEN 4 ELSE 3)
      /\ \A j \in 2 .. N : X[j] = "send"
      /\ X[N + 1] = "recv"
      /\ kind = "nccl" => X[N + 2] = "launch" /\ X[N + 3] = "stop" /\ X[N + 4] = "free"
      /\ kind # "nccl" => X[N + 2] = "stop" /\ X[N + 3] = "free"
  BY <1>1, ExchangeIs DEF Lx
<1>3. o \in 2 .. Lx /\ k \in 1 .. R
  BY DEF AtCall
<1>4. c = X[o]
  BY CallIs
<1>5. o < Lx => AtCall(i + 1, k, o + 1) /\ d = X[o + 1]
  <2>1. o < Lx => AtCall(i + 1, k, o + 1)
    <3>1. Lx \in Nat /\ o \in Nat
      BY <1>3, ProgramIs DEF Placed
    <3>2. \/ o < Lx /\ AtCall(i + 1, k, o + 1)
          \/ o = Lx /\ (AtStart(i + 1, k) \/ AtDestroy(i + 1, k, 1))
      BY Onward
    <3>3. QED
      BY <3>1, <3>2
  <2>2. AtCall(i + 1, k, o + 1) => d = X[o + 1]
    BY CallIs
  <2>3. QED
    BY <2>1, <2>2
<1>6. o = Lx => d \in {"start", FirstDestroy}
  <2>1. o = Lx => AtStart(i + 1, k) \/ AtDestroy(i + 1, k, 1)
    BY <1>1, <1>3, Onward
  <2>2. AtStart(i + 1, k) => d = "start"
    BY CallIs
  <2>3. AtDestroy(i + 1, k, 1) => d = FirstDestroy
    BY DestroyBegins
  <2>4. QED
    BY <2>1, <2>2, <2>3
<1>7. kind # "unknown"
  BY <1>3 DEF R
<1> HIDE DEF X, c, d
<1>8. CASE o \in 2 .. N
  <2>1. c = "send" /\ o < Lx
    BY <1>1, <1>2, <1>3, <1>4, <1>8
  <2>2. o + 1 \in 2 .. N \/ o + 1 = N + 1
    BY <1>1, <1>8
  <2>3. d \in {"send", "recv"}
    BY <1>2, <1>5, <2>1, <2>2
  <2>4. Permitted(c) /\ Follows(c, d)
    BY <1>7, <2>1, <2>3 DEF Permitted, Follows
  <2>5. QED
    BY <1>1, <1>5, <1>8, <2>1, <2>4 DEF c, d
<1>9. CASE o = N + 1
  <2>1. c = "recv" /\ o < Lx /\ o + 1 = N + 2 /\ o \notin 2 .. N
    BY <1>1, <1>2, <1>3, <1>4, <1>9
  <2>2. d = IF kind = "nccl" THEN "launch" ELSE "stop"
    BY <1>2, <1>5, <2>1
  <2>3. Permitted(c) /\ Follows(c, d)
    BY <1>7, <2>1, <2>2 DEF Permitted, Follows
  <2>4. QED
    BY <1>9, <2>1, <2>3 DEF c, d
<1>10. CASE o = N + 2 /\ kind = "nccl"
  <2>1. c = "launch" /\ o < Lx /\ o + 1 = N + 3 /\ o \notin 2 .. N /\ o # N + 1
    BY <1>1, <1>2, <1>3, <1>4, <1>10
  <2>2. d = "stop"
    BY <1>2, <1>5, <1>10, <2>1
  <2>3. Permitted(c) /\ Follows(c, d)
    BY <1>10, <2>1, <2>2 DEF Permitted, Follows
  <2>4. QED
    BY <2>1, <2>3 DEF c, d
<1>11. CASE (o = N + 2 /\ kind # "nccl") \/ (o = N + 3 /\ kind = "nccl")
  <2>1. c = "stop" /\ o < Lx /\ o \notin 2 .. N /\ o # N + 1
    BY <1>1, <1>2, <1>3, <1>4, <1>11
  <2>2. d = "free"
    <3>1. CASE kind = "nccl"
      <4>1. o + 1 = N + 4
        BY <1>1, <1>11, <3>1
      <4>2. QED
        BY <1>2, <1>5, <2>1, <3>1, <4>1
    <3>2. CASE kind # "nccl"
      <4>1. o + 1 = N + 3
        BY <1>1, <1>11, <3>2
      <4>2. QED
        BY <1>2, <1>5, <2>1, <3>2, <4>1
    <3>3. QED
      BY <3>1, <3>2
  <2>3. Permitted(c) /\ Follows(c, d)
    BY <1>7, <2>1, <2>2 DEF Permitted, Follows
  <2>4. QED
    BY <2>1, <2>3 DEF c, d
<1>12. CASE o = Lx
  <2>1. c = "free" /\ o \notin 2 .. N /\ o # N + 1
    BY <1>1, <1>2, <1>3, <1>4, <1>12
  <2>2. Permitted(c) /\ Follows(c, d)
    BY <1>6, <1>7, <1>12, <2>1 DEF Permitted, Follows
  <2>3. QED
    BY <1>12, <2>1, <2>2 DEF c, d
<1>13. QED
  BY <1>1, <1>2, <1>3, <1>8, <1>9, <1>10, <1>11, <1>12

\* From one call to the next.
LEMMA Succession ==
  ASSUME session \in Sessions, NEW i, NEW k, Site(i, k), CallAt(i) # "end"
  PROVE  /\ Permitted(CallAt(i)) /\ Follows(CallAt(i), CallAt(i + 1))
         /\ Site(i + 1, IF CallAt(i) = "start" THEN k + 1 ELSE k)
<1> DEFINE c == CallAt(i)
           d == CallAt(i + 1)
<1>1. kind \in Kinds /\ Ld \in Nat /\ Ls \in Nat /\ R \in Nat /\ Lx \in Nat
  BY KindIs, ProgramIs DEF Placed
<1>2. CASE AtSetup(i, k)
  <2>1. i \in 1 .. Ls
    BY <1>2 DEF AtSetup
  <2>2. c = SetupCalls(kind)[i]
    BY <1>2, CallIs
  <2>3. c # "start"
    <3>1. c \in SetupSet
      BY <1>1, <2>1, <2>2, SetupNames DEF Ls
    <3>2. QED
      BY <3>1, SetsDisjoint
  <2>4. \/ i < Ls /\ AtSetup(i + 1, k)
        \/ i = Ls /\ (AtStart(i + 1, k) \/ AtDestroy(i + 1, k, 1))
    BY <1>2, Onward
  <2>5. i < Ls => d = SetupCalls(kind)[i + 1]
    <3>1. AtSetup(i + 1, k) => d = SetupCalls(kind)[i + 1]
      BY CallIs
    <3>2. QED
      BY <2>1, <2>4, <3>1
  <2>6. i = Ls => d = FirstDestroy \/ (kind # "unknown" /\ d = "start")
    <3>1. AtStart(i + 1, k) => kind # "unknown" /\ d = "start"
      <4>1. AtStart(i + 1, k) => d = "start"
        BY CallIs
      <4>2. AtStart(i + 1, k) => kind # "unknown"
        BY DEF AtStart, R
      <4>3. QED
        BY <4>1, <4>2
    <3>2. AtDestroy(i + 1, k, 1) => d = FirstDestroy
      BY DestroyBegins
    <3>3. QED
      BY <2>1, <2>4, <3>1, <3>2
  <2>7. Permitted(c) /\ Follows(c, d)
    <3> HIDE DEF d
    <3>1. Permitted(SetupCalls(kind)[i]) /\ Follows(SetupCalls(kind)[i], d)
      BY <2>1, <2>5, <2>6, SetupOrder
    <3>2. QED
      BY <2>2, <3>1
  <2>8. Site(i + 1, k)
    <3>1. 1 \in 1 .. Ld + 1
      BY <1>1
    <3>2. QED
      BY <2>4, <3>1 DEF Site
  <2>9. QED
    BY <2>3, <2>7, <2>8
<1>3. CASE AtStart(i, k)
  <2>1. c = "start"
    BY <1>3, CallIs
  <2>2. AtCall(i + 1, k + 1, 2)
    BY <1>3, Onward
  <2>3. d \in {"send", "recv"}
    <3>1. N \in Nat /\ N >= 1
      BY NAssumption
    <3>2. 2 \in 2 .. N \/ 2 = N + 1
      BY <3>1
    <3>3. QED
      BY <2>2, <3>2, ExchangeOrder
  <2>4. kind # "unknown"
    BY <1>3 DEF AtStart, R
  <2>5. Permitted(c) /\ Follows(c, d)
    <3> HIDE DEF c, d
    <3>1. QED
      BY <2>1, <2>3, <2>4 DEF Permitted, Follows
  <2>6. 2 \in 2 .. Lx
    BY <2>2 DEF AtCall
  <2>7. QED
    BY <2>1, <2>2, <2>5, <2>6 DEF Site
<1>4. ASSUME NEW o \in 2 .. Lx, AtCall(i, k, o)
      PROVE  Permitted(c) /\ Follows(c, d) /\ Site(i + 1, IF c = "start" THEN k + 1 ELSE k)
  <2>1. Permitted(c) /\ Follows(c, d)
    BY <1>4, ExchangeOrder
  <2>2. c # "start"
    <3>1. c = ExchangeCalls(kind)[o]
      BY <1>4, CallIs
    <3>2. c \in UnderSet
      BY <1>1, <3>1, ExchangeNames DEF Lx
    <3>3. QED
      BY <3>2, SetsDisjoint
  <2>3. \/ o < Lx /\ AtCall(i + 1, k, o + 1)
        \/ o = Lx /\ (AtStart(i + 1, k) \/ AtDestroy(i + 1, k, 1))
    BY <1>4, Onward
  <2>4. Site(i + 1, k)
    <3>1. 1 \in 1 .. Ld + 1 /\ (o < Lx => o + 1 \in 2 .. Lx)
      BY <1>1
    <3>2. QED
      BY <2>3, <3>1 DEF Site
  <2>5. QED
    BY <2>1, <2>2, <2>4
<1>5. ASSUME NEW o \in 1 .. Ld + 1, AtDestroy(i, k, o)
      PROVE  Permitted(c) /\ Follows(c, d) /\ Site(i + 1, IF c = "start" THEN k + 1 ELSE k)
  <2>1. c = IF o = Ld + 1 THEN "end" ELSE DestroyCalls(kind)[o]
    BY <1>5, CallIs
  <2>2. o \in 1 .. Ld /\ c = DestroyCalls(kind)[o]
    BY <1>1, <2>1
  <2>3. AtDestroy(i + 1, k, o + 1)
    BY <1>1, <1>5, <2>2, Onward
  <2>4. d = IF o + 1 = Ld + 1 THEN "end" ELSE DestroyCalls(kind)[o + 1]
    BY <2>3, CallIs
  <2>5. d = IF o < Ld THEN DestroyCalls(kind)[o + 1] ELSE "end"
    BY <1>1, <2>2, <2>4
  <2>6. Permitted(c) /\ Follows(c, d)
    <3> HIDE DEF d
    <3>1. Permitted(DestroyCalls(kind)[o]) /\ Follows(DestroyCalls(kind)[o], d)
      BY <2>2, <2>5, DestroyOrder
    <3>2. QED
      BY <2>2, <3>1
  <2>7. c # "start"
    <3>1. c \in DestroySet
      BY <1>1, <2>2, DestroyNames DEF Ld
    <3>2. QED
      BY <3>1, SetsDisjoint
  <2>8. Site(i + 1, k)
    <3>1. o + 1 \in 1 .. Ld + 1
      BY <1>1, <2>2
    <3>2. QED
      BY <2>3, <3>1 DEF Site
  <2>9. QED
    BY <2>6, <2>7, <2>8
<1>6. QED
  BY <1>2, <1>3, <1>4, <1>5 DEF Site

-----------------------------------------------------------------------------
(***************************************************************************)
(* A call.                                                                 *)
(***************************************************************************)
\* What an action does to the place of a rank.
Arrive(r, k) == session' = session /\ ip' = [ip EXCEPT ![r] = @ + 1] /\ rnd' = [rnd EXCEPT ![r] = k]

\* Where a rank arrives is decided by its new position and round alone.
LEMMA There ==
  ASSUME session' = session, NEW r, NEW i, NEW k, ip'[r] = i, rnd'[r] = k
  PROVE  /\ Site(i, k) => WhereInv(r)'
         /\ NextCall(r)' = CallAt(i)
         /\ Sending(r)' = i - Base(k - 1) - 1
         /\ kind' = kind /\ R' = R
<1>1. kind' = kind /\ R' = R /\ Ls' = Ls /\ Lx' = Lx /\ Ld' = Ld
  BY DEF kind, R, Ls, Lx, Ld
<1>2. Program' = Program
  BY DEF Program
<1>3. NextCall(r)' = CallAt(i)
  BY <1>2 DEF NextCall, CallAt
<1>4. \A j : (Ls + j * Lx)' = Ls + j * Lx
  BY <1>1
<1>5. Sending(r)' = i - Base(k - 1) - 1
  BY <1>1 DEF Sending, Base
<1>6. Site(i, k) => WhereInv(r)'
  BY <1>1, Zenon DEF WhereInv, Site, AtSetup, AtStart, AtCall, AtDestroy, Base
<1>7. QED
  BY <1>1, <1>3, <1>5, <1>6

\* Ranks that do not move.
LEMMA Waits ==
  ASSUME TypeInv, NEW r \in Ranks, session' = session, ip'[r] = ip[r], rnd'[r] = rnd[r], WhereInv(r)
  PROVE  WhereInv(r)' /\ NextCall(r)' = NextCall(r) /\ Sending(r)' = Sending(r)
<1>1. Site(ip[r], rnd[r])
  BY DEF WhereInv
<1>2. NextCall(r) = CallAt(ip[r])
  BY DEF NextCall, CallAt
<1>3. QED
  BY <1>1, <1>2, There DEF Sending

\* A rank that makes its next call.
LEMMA Moves ==
  ASSUME TypeInv, NEW r \in Ranks, NextCall(r) # "end", WhereInv(r),
         Arrive(r, IF NextCall(r) = "start" THEN rnd[r] + 1 ELSE rnd[r])
  PROVE  /\ WhereInv(r)' /\ Permitted(NextCall(r)) /\ Follows(NextCall(r), NextCall(r)')
         /\ kind' = kind /\ R' = R
         /\ NextCall(r) # "start" => rnd'[r] = rnd[r]
         /\ NextCall(r) = "start" => rnd'[r] = rnd[r] + 1
<1> DEFINE i == ip[r] + 1
           k == IF NextCall(r) = "start" THEN rnd[r] + 1 ELSE rnd[r]
<1>1. session' = session /\ ip'[r] = i /\ rnd'[r] = k
  BY DEF Arrive, TypeInv
<1>2. Site(ip[r], rnd[r]) /\ session \in Sessions
  BY DEF WhereInv, TypeInv
<1>3. NextCall(r) = CallAt(ip[r])
  BY DEF NextCall, CallAt
<1>4. Permitted(NextCall(r)) /\ Follows(NextCall(r), CallAt(i)) /\ Site(i, k)
  BY <1>2, <1>3, Succession
<1> HIDE DEF i
<1>5. NextCall(r)' = CallAt(i) /\ WhereInv(r)' /\ kind' = kind /\ R' = R
  <2> HIDE DEF k
  <2>1. QED
    BY <1>1, <1>4, There
<1>6. QED
  BY <1>1, <1>4, <1>5

\* The exchange a rank is in.
LEMMA RoundIs ==
  ASSUME TypeInv, NEW r \in Ranks, WhereInv(r)
  PROVE  /\ R \in Nat /\ rnd[r] \in 0 .. R
         /\ NextCall(r) \in SetupSet \cup {"start"} \cup UnderSet \cup DestroySet
         /\ NextCall(r) \in SetupSet => rnd[r] = 0
         /\ NextCall(r) = "start" => rnd[r] < R
         /\ NextCall(r) \in UnderSet => rnd[r] >= 1
         /\ NextCall(r) \in DestroySet => rnd[r] = R
<1>1. Site(ip[r], rnd[r]) /\ session \in Sessions /\ NextCall(r) = CallAt(ip[r])
  BY DEF WhereInv, TypeInv, NextCall, CallAt
<1>2. R \in Nat
  BY <1>1, ProgramIs DEF Placed
<1>3. rnd[r] \in 0 .. R
  BY <1>1, <1>2 DEF Site, AtSetup, AtStart, AtCall, AtDestroy
<1>4. NextCall(r) \in SetupSet => rnd[r] = 0
  BY <1>1, Locate DEF AtSetup
<1>5. NextCall(r) = "start" => rnd[r] < R
  <2>1. NextCall(r) = "start" => AtStart(ip[r], rnd[r])
    BY <1>1, Locate
  <2>2. QED
    BY <1>2, <2>1 DEF AtStart
<1>6. NextCall(r) \in UnderSet => rnd[r] >= 1
  <2>1. NextCall(r) \in UnderSet => \E o \in 2 .. Lx : AtCall(ip[r], rnd[r], o)
    BY <1>1, Locate
  <2>2. QED
    BY <1>2, <2>1 DEF AtCall
<1>7. NextCall(r) \in DestroySet => rnd[r] = R
  BY <1>1, Locate DEF AtDestroy
<1>8. QED
  BY <1>1, <1>2, <1>3, <1>4, <1>5, <1>6, <1>7, Locate

\* The sends of an exchange, one by one.
LEMMA SendingIs ==
  ASSUME TypeInv, NEW r \in Ranks, WhereInv(r), NextCall(r) = "send"
  PROVE  Sending(r) \in 1 .. N - 1
<1>1. Site(ip[r], rnd[r]) /\ session \in Sessions /\ CallAt(ip[r]) = "send" /\ "send" \in UnderSet
  BY DEF WhereInv, TypeInv, NextCall, CallAt, UnderSet
<1>2. PICK o \in 2 .. Lx : AtCall(ip[r], rnd[r], o)
  BY <1>1, Locate
<1>3. o \in 2 .. N /\ ip[r] = Base(rnd[r] - 1) + o /\ rnd[r] \in 1 .. R
  BY <1>1, <1>2, ExchangeOrder DEF AtCall
<1>4. R \in Nat
  BY <1>1, ProgramIs DEF Placed
<1>5. Base(rnd[r] - 1) \in Nat
  BY <1>1, <1>3, <1>4, Bases
<1>6. QED
  BY <1>3, <1>5, NAssumption DEF Sending

\* After start comes the send to the first peer, or recv when there is none.
LEMMA FirstSend ==
  ASSUME TypeInv, NEW r \in Ranks, WhereInv(r), NextCall(r) = "start", Arrive(r, rnd[r] + 1)
  PROVE  /\ NextCall(r)' = "send" => Sending(r)' = 1
         /\ NextCall(r)' = "recv" => N = 1
<1> DEFINE i == ip[r] + 1
           k == rnd[r] + 1
<1>1. Site(ip[r], rnd[r]) /\ session \in Sessions /\ CallAt(ip[r]) = "start"
  BY DEF WhereInv, TypeInv, NextCall, CallAt
<1>2. AtCall(i, k, 2)
  BY <1>1, Locate, Onward
<1>3. session' = session /\ ip'[r] = i /\ rnd'[r] = k
  BY DEF Arrive, TypeInv
<1>4. R \in Nat /\ N \in Nat
  BY <1>1, ProgramIs, NAssumption DEF Placed
<1>5. Base(k - 1) \in Nat /\ i = Base(k - 1) + 2
  <2>1. k \in 1 .. R /\ i = Base(k - 1) + 2
    BY <1>2 DEF AtCall
  <2>2. QED
    BY <1>1, <1>4, <2>1, Bases
<1> HIDE DEF i, k
<1>6. NextCall(r)' = CallAt(i) /\ Sending(r)' = i - Base(k - 1) - 1
  BY <1>3, There
<1>7. CallAt(i) = "recv" => 2 = N + 1
  BY <1>1, <1>2, ExchangeOrder
<1>8. QED
  BY <1>4, <1>5, <1>6, <1>7

\* After a send comes the send to the next peer, or recv after the last.
LEMMA SendAgain ==
  ASSUME TypeInv, NEW r \in Ranks, WhereInv(r), NextCall(r) = "send", Arrive(r, rnd[r])
  PROVE  /\ NextCall(r)' = "send" => Sending(r)' = Sending(r) + 1
         /\ NextCall(r)' = "recv" => Sending(r) = N - 1
<1> DEFINE i == ip[r] + 1
           k == rnd[r]
<1>1. Site(ip[r], rnd[r]) /\ session \in Sessions /\ CallAt(ip[r]) = "send" /\ "send" \in UnderSet
  BY DEF WhereInv, TypeInv, NextCall, CallAt, UnderSet
<1>2. PICK o \in 2 .. Lx : AtCall(ip[r], k, o)
  BY <1>1, Locate
<1>3. o \in 2 .. N /\ AtCall(i, k, o + 1)
  BY <1>1, <1>2, ExchangeOrder
<1>4. session' = session /\ ip'[r] = i /\ rnd'[r] = k
  BY DEF Arrive, TypeInv
<1>5. R \in Nat /\ N \in Nat
  BY <1>1, ProgramIs, NAssumption DEF Placed
<1>6. Base(k - 1) \in Nat /\ ip[r] = Base(k - 1) + o
  <2>1. k \in 1 .. R /\ ip[r] = Base(k - 1) + o
    BY <1>2 DEF AtCall
  <2>2. QED
    BY <1>1, <1>5, <2>1, Bases
<1>7. Sending(r) = o - 1
  BY <1>3, <1>6 DEF Sending
<1>8. i - Base(k - 1) - 1 = o
  BY <1>3, <1>6
<1> HIDE DEF i, k
<1>9. NextCall(r)' = CallAt(i) /\ Sending(r)' = i - Base(k - 1) - 1
  BY <1>4, There
<1>10. CallAt(i) = "recv" => o + 1 = N + 1
  BY <1>1, <1>3, ExchangeOrder
<1>11. QED
  BY <1>3, <1>5, <1>7, <1>8, <1>9, <1>10

-----------------------------------------------------------------------------
(***************************************************************************)
(* The objects.                                                            *)
(***************************************************************************)
Gains(c, o) ==
  \/ c = "worker" /\ o = "context"
  \/ c = "connect" /\ o \in {"context", "comm"}
  \/ c = "registered" /\ o = "registered"
  \/ c = "pool" /\ o = "pool"

Loses(c, o) ==
  \/ c \in {"barrier", "destroyNccl"} /\ o = "context"
  \/ c = "deletePool" /\ o = "pool"
  \/ c = "deleteRegistered" /\ o = "registered"
  \/ c = "deleteComm" /\ o = "comm"

Registers(c, h)   == (c = "pool" /\ kind = "preregistered" /\ h = "pool") \/ (c = "cache" /\ h = "cache")
Deregisters(c, h) == (c = "deletePool" /\ h = "pool") \/ (c = "uncache" /\ h = "cache")

\* What a call makes and deletes leads from During to During.
LEMMA Lifetimes ==
  ASSUME session \in Sessions, NEW c \in SetupSet \cup {"start"} \cup UnderSet \cup DestroySet, c # "end",
         NEW d, Permitted(c), Follows(c, d), NEW o \in Objects
  PROVE  d \in During(o) <=> Gains(c, o) \/ (c \in During(o) /\ ~Loses(c, o))
<1>1. kind \in {"nccl", "buffer", "preregistered", "none", "unknown"}
  BY KindIs DEF Kinds
<1>2. CASE o = "context"
  <2>1. CASE kind = "nccl"
    BY <1>2, <2>1 DEF During, Gains, Loses, Follows, Permitted, FirstDestroy, ExchangeSet, SetupSet, UnderSet, DestroySet
  <2>2. CASE kind = "buffer"
    BY <1>2, <2>2 DEF During, Gains, Loses, Follows, Permitted, FirstDestroy, ExchangeSet, SetupSet, UnderSet, DestroySet
  <2>3. CASE kind = "preregistered"
    BY <1>2, <2>3 DEF During, Gains, Loses, Follows, Permitted, FirstDestroy, ExchangeSet, SetupSet, UnderSet, DestroySet
  <2>4. CASE kind = "none"
    BY <1>2, <2>4 DEF During, Gains, Loses, Follows, Permitted, FirstDestroy, ExchangeSet, SetupSet, UnderSet, DestroySet
  <2>5. CASE kind = "unknown"
    BY <1>2, <2>5 DEF During, Gains, Loses, Follows, Permitted, FirstDestroy, ExchangeSet, SetupSet, UnderSet, DestroySet
  <2>6. QED
    BY <1>1, <2>1, <2>2, <2>3, <2>4, <2>5
<1>3. CASE o = "comm"
  <2>1. CASE kind = "nccl"
    BY <1>3, <2>1 DEF During, Gains, Loses, Follows, Permitted, FirstDestroy, ExchangeSet, SetupSet, UnderSet, DestroySet
  <2>2. CASE kind = "buffer"
    BY <1>3, <2>2 DEF During, Gains, Loses, Follows, Permitted, FirstDestroy, ExchangeSet, SetupSet, UnderSet, DestroySet
  <2>3. CASE kind = "preregistered"
    BY <1>3, <2>3 DEF During, Gains, Loses, Follows, Permitted, FirstDestroy, ExchangeSet, SetupSet, UnderSet, DestroySet
  <2>4. CASE kind = "none"
    BY <1>3, <2>4 DEF During, Gains, Loses, Follows, Permitted, FirstDestroy, ExchangeSet, SetupSet, UnderSet, DestroySet
  <2>5. CASE kind = "unknown"
    BY <1>3, <2>5 DEF During, Gains, Loses, Follows, Permitted, FirstDestroy, ExchangeSet, SetupSet, UnderSet, DestroySet
  <2>6. QED
    BY <1>1, <2>1, <2>2, <2>3, <2>4, <2>5
<1>4. CASE o = "registered"
  <2>1. CASE kind = "nccl"
    BY <1>4, <2>1 DEF During, Gains, Loses, Follows, Permitted, FirstDestroy, ExchangeSet, SetupSet, UnderSet, DestroySet
  <2>2. CASE kind = "buffer"
    BY <1>4, <2>2 DEF During, Gains, Loses, Follows, Permitted, FirstDestroy, ExchangeSet, SetupSet, UnderSet, DestroySet
  <2>3. CASE kind = "preregistered"
    BY <1>4, <2>3 DEF During, Gains, Loses, Follows, Permitted, FirstDestroy, ExchangeSet, SetupSet, UnderSet, DestroySet
  <2>4. CASE kind = "none"
    BY <1>4, <2>4 DEF During, Gains, Loses, Follows, Permitted, FirstDestroy, ExchangeSet, SetupSet, UnderSet, DestroySet
  <2>5. CASE kind = "unknown"
    BY <1>4, <2>5 DEF During, Gains, Loses, Follows, Permitted, FirstDestroy, ExchangeSet, SetupSet, UnderSet, DestroySet
  <2>6. QED
    BY <1>1, <2>1, <2>2, <2>3, <2>4, <2>5
<1>5. CASE o = "pool"
  <2>1. CASE kind = "nccl"
    BY <1>5, <2>1 DEF During, Gains, Loses, Follows, Permitted, FirstDestroy, ExchangeSet, SetupSet, UnderSet, DestroySet
  <2>2. CASE kind = "buffer"
    BY <1>5, <2>2 DEF During, Gains, Loses, Follows, Permitted, FirstDestroy, ExchangeSet, SetupSet, UnderSet, DestroySet
  <2>3. CASE kind = "preregistered"
    BY <1>5, <2>3 DEF During, Gains, Loses, Follows, Permitted, FirstDestroy, ExchangeSet, SetupSet, UnderSet, DestroySet
  <2>4. CASE kind = "none"
    BY <1>5, <2>4 DEF During, Gains, Loses, Follows, Permitted, FirstDestroy, ExchangeSet, SetupSet, UnderSet, DestroySet
  <2>5. CASE kind = "unknown"
    BY <1>5, <2>5 DEF During, Gains, Loses, Follows, Permitted, FirstDestroy, ExchangeSet, SetupSet, UnderSet, DestroySet
  <2>6. QED
    BY <1>1, <2>1, <2>2, <2>3, <2>4, <2>5
<1>6. QED
  BY <1>2, <1>3, <1>4, <1>5 DEF Objects

\* Memory is registered exactly between the calls that register and deregister it.
LEMMA Registrations ==
  ASSUME session \in Sessions, NEW c \in SetupSet \cup {"start"} \cup UnderSet \cup DestroySet, c # "end",
         NEW d, Permitted(c), Follows(c, d)
  PROVE  /\ kind = "buffer" /\ d \in ExchangeSet \cup {"uncache"} <=>
              Registers(c, "cache") \/ (kind = "buffer" /\ c \in ExchangeSet \cup {"uncache"} /\ ~Deregisters(c, "cache"))
         /\ kind = "preregistered" /\ d \in ExchangeSet \cup {"deletePool"} <=>
              Registers(c, "pool") \/ (kind = "preregistered" /\ c \in ExchangeSet \cup {"deletePool"} /\ ~Deregisters(c, "pool"))
<1>1. kind \in {"nccl", "buffer", "preregistered", "none", "unknown"}
  BY KindIs DEF Kinds
<1>2. kind = "buffer" /\ d \in ExchangeSet \cup {"uncache"} <=>
        Registers(c, "cache") \/ (kind = "buffer" /\ c \in ExchangeSet \cup {"uncache"} /\ ~Deregisters(c, "cache"))
  <2>1. CASE kind = "buffer"
    BY <2>1 DEF Registers, Deregisters, Follows, Permitted, FirstDestroy, ExchangeSet, SetupSet, UnderSet, DestroySet
  <2>2. CASE kind # "buffer"
    BY <2>2 DEF Registers, Permitted
  <2>3. QED
    BY <2>1, <2>2
<1>3. kind = "preregistered" /\ d \in ExchangeSet \cup {"deletePool"} <=>
        Registers(c, "pool") \/ (kind = "preregistered" /\ c \in ExchangeSet \cup {"deletePool"} /\ ~Deregisters(c, "pool"))
  <2>1. CASE kind = "preregistered"
    BY <2>1 DEF Registers, Deregisters, Follows, Permitted, FirstDestroy, ExchangeSet, SetupSet, UnderSet, DestroySet
  <2>2. CASE kind # "preregistered"
    BY <2>2 DEF Registers
  <2>3. QED
    BY <2>1, <2>2
<1>4. QED
  BY <1>2, <1>3

\* What a call does to the objects and to the registered memory of its rank.
Handled(r) ==
  LET c == NextCall(r) IN
  /\ DOMAIN alive' = Ranks /\ DOMAIN handles' = Ranks
  /\ \A s \in Ranks \ {r} : alive'[s] = alive[s] /\ handles'[s] = handles[s]
  /\ \A o : o \in alive'[r] <=> Gains(c, o) \/ (o \in alive[r] /\ ~Loses(c, o))
  /\ \A h : h \in handles'[r] <=> Registers(c, h) \/ (h \in handles[r] /\ ~Deregisters(c, h))

\* A call that arrives at the next one leaves the objects the next one uses.
LEMMA ObjectsStep ==
  ASSUME TypeInv, NEW r \in Ranks, NextCall(r) # "end", WhereInv(r), ObjectsInv(r), Handled(r),
         Arrive(r, IF NextCall(r) = "start" THEN rnd[r] + 1 ELSE rnd[r])
  PROVE  ObjectsInv(r)'
<1> DEFINE c == NextCall(r)
           d == NextCall(r)'
<1>1. /\ Permitted(c) /\ Follows(c, d) /\ kind' = kind
      /\ c \in SetupSet \cup {"start"} \cup UnderSet \cup DestroySet /\ c # "end"
      /\ session \in Sessions
  BY Moves, RoundIs DEF TypeInv
<1>2. /\ \A o : o \in alive'[r] <=> Gains(c, o) \/ (o \in alive[r] /\ ~Loses(c, o))
      /\ \A h : h \in handles'[r] <=> Registers(c, h) \/ (h \in handles[r] /\ ~Deregisters(c, h))
  BY DEF Handled
<1>3. /\ \A o \in Objects : o \in alive[r] <=> c \in During(o)
      /\ "cache" \in handles[r] <=> kind = "buffer" /\ c \in ExchangeSet \cup {"uncache"}
      /\ "pool" \in handles[r] <=> kind = "preregistered" /\ c \in ExchangeSet \cup {"deletePool"}
  BY DEF ObjectsInv
<1>4. \A o \in Objects : (During(o))' = During(o)
  BY <1>1 DEF During
<1> HIDE DEF c, d
<1>5. \A o \in Objects : o \in alive'[r] <=> d \in During(o)
  <2> TAKE o \in Objects
  <2>1. d \in During(o) <=> Gains(c, o) \/ (c \in During(o) /\ ~Loses(c, o))
    BY <1>1, Lifetimes
  <2>2. QED
    BY <1>2, <1>3, <2>1
<1>6. /\ kind = "buffer" /\ d \in ExchangeSet \cup {"uncache"} <=>
              Registers(c, "cache") \/ (kind = "buffer" /\ c \in ExchangeSet \cup {"uncache"} /\ ~Deregisters(c, "cache"))
      /\ kind = "preregistered" /\ d \in ExchangeSet \cup {"deletePool"} <=>
              Registers(c, "pool") \/ (kind = "preregistered" /\ c \in ExchangeSet \cup {"deletePool"} /\ ~Deregisters(c, "pool"))
  BY <1>1, Registrations
<1>7. /\ "cache" \in handles'[r] <=> kind = "buffer" /\ d \in ExchangeSet \cup {"uncache"}
      /\ "pool" \in handles'[r] <=> kind = "preregistered" /\ d \in ExchangeSet \cup {"deletePool"}
  BY <1>2, <1>3, <1>6
<1>8. alive'[r] \subseteq Objects /\ handles'[r] \subseteq {"pool", "cache"}
  BY <1>2 DEF Gains, Registers, Objects, ObjectsInv
<1>9. QED
  BY <1>1, <1>4, <1>5, <1>7, <1>8 DEF ObjectsInv, d
-----------------------------------------------------------------------------
(***************************************************************************)
(* Which call every action makes.                                          *)
(***************************************************************************)
Steps(r) ==
  /\ NextCall(r) # "end" /\ Handled(r)
  /\ Arrive(r, IF NextCall(r) = "start" THEN rnd[r] + 1 ELSE rnd[r])

\* Each call of setup moves the rank on and makes the objects of that call.
LEMMA SetupSteps ==
  ASSUME TypeInv, NEW r \in Ranks, Setup(r)
  PROVE  Steps(r)
<1> USE DEF TypeInv, Steps, Handled, Arrive, Gains, Loses, Registers, Deregisters, Do, user, Create
<1>1. CASE Worker(r)
  BY <1>1 DEF Worker
<1>2. CASE Connect(r)
  BY <1>2 DEF Connect
<1>3. CASE Registered(r)
  BY <1>3 DEF Registered
<1>4. CASE Pool(r)
  BY <1>4 DEF Pool, NewPool
<1>5. CASE Cache(r)
  BY <1>5 DEF Cache
<1>6. CASE Throw(r)
  BY <1>6 DEF Throw, memVars
<1>7. QED
  BY <1>1, <1>2, <1>3, <1>4, <1>5, <1>6 DEF Setup

\* Each call of destroy moves the rank on and deletes the objects of that call.
LEMMA DestroySteps ==
  ASSUME TypeInv, NEW r \in Ranks, Destroy(r)
  PROVE  Steps(r)
<1> USE DEF TypeInv, Steps, Handled, Arrive, Gains, Loses, Registers, Deregisters, Do, user, Delete
<1>1. CASE Uncache(r)
  BY <1>1 DEF Uncache
<1>2. CASE Close(r)
  BY <1>2 DEF Close, memVars
<1>3. CASE Barrier(r)
  BY <1>3 DEF Barrier
<1>4. CASE DestroyNccl(r)
  BY <1>4 DEF DestroyNccl
<1>5. CASE PoolDeleted(r)
  BY <1>5 DEF PoolDeleted, DeletePool
<1>6. CASE Deleted(r)
  BY <1>6 DEF Deleted
<1>7. QED
  BY <1>1, <1>2, <1>3, <1>4, <1>5, <1>6 DEF Destroy

Keeps == UNCHANGED <<alive, handles>>

\* Each call of an exchange moves the rank on, but for the progress UCX makes in stop.
LEMMA WarmupSteps ==
  ASSUME TypeInv, NEW r \in Ranks, Warmup(r)
  PROVE  \/ Progress(r) /\ UNCHANGED <<session, ip, rnd, alive, handles>>
         \/ Steps(r) /\ Keeps
<1> DEFINE c == NextCall(r)
<1>1. ASSUME c \in {"start", "send", "recv", "launch", "stop", "free"}, Do(r, c), Keeps, session' = session,
             rnd' = IF c = "start" THEN [rnd EXCEPT ![r] = @ + 1] ELSE rnd
      PROVE  Steps(r)
  BY <1>1 DEF TypeInv, Steps, Handled, Arrive, Gains, Loses, Registers, Deregisters, Do, Keeps
<1> USE DEF Keeps, Do, user
<1>2. CASE Start(r)
  BY <1>1, <1>2 DEF Start
<1>3. CASE Send(r)
  <2>1. c = "send" /\ session' = session /\ rnd' = rnd /\ Do(r, c)
    BY <1>3 DEF Send
  <2>2. Keeps
    BY <1>3 DEF Send, NcclSend, memVars
  <2>3. QED
    BY <1>1, <2>1, <2>2
<1>4. CASE Recv(r)
  <2>1. c = "recv" /\ session' = session /\ rnd' = rnd /\ Do(r, c)
    BY <1>4 DEF Recv
  <2>2. Keeps
    <3>1. CASE kind = "nccl"
      BY <1>4, <3>1 DEF Recv, NcclRecvs
    <3>2. CASE kind # "nccl" /\ session.probing
      BY <1>4, <3>2 DEF Recv
    <3>3. CASE kind # "nccl" /\ ~session.probing
      BY <1>4, <3>3 DEF Recv, memVars
    <3>4. QED
      BY <3>1, <3>2, <3>3
  <2>3. QED
    BY <1>1, <2>1, <2>2
<1>5. CASE Launch(r)
  BY <1>1, <1>5 DEF Launch, NcclLaunch, memVars
<1>6. CASE Stop(r)
  <2>1. c = "stop" /\ session' = session /\ rnd' = rnd /\ Do(r, c)
    BY <1>6 DEF Stop
  <2>2. Keeps
    BY <1>6 DEF Stop, NcclStop, BufferStop, memVars
  <2>3. QED
    BY <1>1, <2>1, <2>2
<1>7. CASE Progress(r)
  BY <1>7 DEF Progress, UcxDeliver, UcxFlush, memVars
<1>8. CASE Free(r)
  BY <1>1, <1>8 DEF Free
<1>9. QED
  BY <1>2, <1>3, <1>4, <1>5, <1>6, <1>7, <1>8 DEF Warmup
Shape ==
  /\ DOMAIN alive = Ranks /\ DOMAIN handles = Ranks /\ DOMAIN blocks = Ranks /\ DOMAIN inUse = Ranks
  /\ DOMAIN posted = Ranks /\ DOMAIN pending = Ranks /\ DOMAIN done = Ranks /\ DOMAIN commBuffers = Ranks
  /\ DOMAIN net = Ranks /\ DOMAIN sent = Ranks
  /\ \A r \in Ranks : DOMAIN net[r] = Ranks /\ DOMAIN sent[r] = Ranks

\* The functions keep their domains.
LEMMA ShapeStep ==
  ASSUME Shape, NEW r \in Ranks, RankStep(r)
  PROVE  Shape'
<1> USE DEF user, comms, hist, ucxVars, ncclVars, memVars
<1>1. CASE Setup(r)
  <2>1. UNCHANGED <<comms, user>>
    BY <1>1 DEF Setup, Worker, Connect, Registered, Pool, Cache, Throw
  <2>2. DOMAIN alive' = Ranks /\ DOMAIN handles' = Ranks /\ DOMAIN blocks' = Ranks /\ DOMAIN inUse' = Ranks
    BY <1>1 DEF Setup, Worker, Connect, Registered, Pool, Cache, Throw, Create, NewPool, Allocate, Shape
  <2>3. QED
    BY <2>1, <2>2 DEF Shape
<1>2. CASE Destroy(r)
  <2>1. UNCHANGED <<comms, user>>
    BY <1>2 DEF Destroy, Uncache, Close, Barrier, DestroyNccl, PoolDeleted, Deleted
  <2>2. DOMAIN alive' = Ranks /\ DOMAIN handles' = Ranks /\ DOMAIN blocks' = Ranks /\ DOMAIN inUse' = Ranks
    BY <1>2 DEF Destroy, Uncache, Close, Barrier, DestroyNccl, PoolDeleted, Deleted, Delete, DeletePool, Deallocate, Shape
  <2>3. QED
    BY <2>1, <2>2 DEF Shape
<1>3. CASE Start(r)
  BY <1>3 DEF Start, Shape, Allocate, UcxStart, NcclStart
<1>4. CASE Send(r)
  BY <1>4 DEF Send, Shape, Allocate, UcxSend, NcclSend
<1>5. CASE Recv(r)
  <2>1. CASE kind = "nccl"
    BY <1>5, <2>1 DEF Recv, Shape, Allocate, UcxRecvs, NcclRecvs, Unbuffered
  <2>2. CASE kind # "nccl" /\ session.probing
    BY <1>5, <2>2 DEF Recv, Shape, Allocate, UcxRecvs
  <2>3. CASE kind # "nccl" /\ ~session.probing
    BY <1>5, <2>3 DEF Recv, Shape, UcxRecvs
  <2>4. QED
    BY <2>1, <2>2, <2>3
<1>6. CASE Launch(r)
  BY <1>6 DEF Launch, Shape, NcclLaunch
<1>7. CASE Stop(r)
  BY <1>7 DEF Stop, Shape, NcclStop, BufferStop, UcxStop
<1>8. CASE Progress(r)
  <2>1. CASE UcxDeliver(r)
    BY <1>8, <2>1 DEF Progress, Shape, UcxDeliver, Completed
  <2>2. CASE UcxFlush(r)
    BY <1>8, <2>2 DEF Progress, Shape, UcxFlush, Completed
  <2>3. QED
    BY <1>8, <2>1, <2>2 DEF Progress
<1>9. CASE Free(r)
  BY <1>9 DEF Free, Shape, Deallocate
<1>10. QED
  BY <1>1, <1>2, <1>3, <1>4, <1>5, <1>6, <1>7, <1>8, <1>9 DEF RankStep, Warmup

\* Where the ranks are, and the objects they have.
ControlInv == TypeInv /\ \A r \in Ranks : WhereInv(r) /\ ObjectsInv(r)

\* A step keeps the control part of the invariant and disturbs no other rank's.
LEMMA ControlStep ==
  ASSUME ControlInv, NEW r \in Ranks, RankStep(r)
  PROVE  /\ ControlInv' /\ session' = session /\ kind' = kind /\ R' = R
         /\ \A s \in Ranks \ {r} : NextCall(s)' = NextCall(s) /\ rnd'[s] = rnd[s] /\ Sending(s)' = Sending(s)
         /\ \/ /\ Progress(r) /\ UNCHANGED <<session, ip, rnd, alive, handles>>
               /\ NextCall(r)' = NextCall(r) /\ Sending(r)' = Sending(r)
            \/ Steps(r)
<1>1. TypeInv /\ Shape /\ WhereInv(r) /\ ObjectsInv(r)
  BY DEF ControlInv, TypeInv, Shape
<1>2. Shape'
  BY <1>1, ShapeStep
<1>3. \/ Progress(r) /\ UNCHANGED <<session, ip, rnd, alive, handles>>
      \/ Steps(r)
  BY <1>1, SetupSteps, WarmupSteps, DestroySteps DEF RankStep
<1>4. session' = session /\ \A s \in Ranks \ {r} : ip'[s] = ip[s] /\ rnd'[s] = rnd[s]
                                                /\ alive'[s] = alive[s] /\ handles'[s] = handles[s]
  <2>1. CASE UNCHANGED <<session, ip, rnd, alive, handles>>
    BY <2>1
  <2>2. CASE Steps(r)
    BY <1>1, <2>2 DEF Steps, Arrive, Handled, TypeInv
  <2>3. QED
    BY <1>3, <2>1, <2>2
<1>5. TypeInv'
  <2>1. ip' \in [Ranks -> Nat \ {0}] /\ rnd' \in [Ranks -> Nat]
    BY <1>1, <1>3 DEF Steps, Arrive, TypeInv
  <2>2. QED
    BY <1>1, <1>2, <1>4, <2>1 DEF TypeInv, Shape
<1>6. kind' = kind /\ R' = R
  BY <1>4 DEF kind, R
<1>7. \A o : (During(o))' = During(o)
  BY <1>6 DEF During
<1>8. ASSUME NEW s \in Ranks, ip'[s] = ip[s], rnd'[s] = rnd[s], alive'[s] = alive[s], handles'[s] = handles[s]
      PROVE  WhereInv(s)' /\ ObjectsInv(s)' /\ NextCall(s)' = NextCall(s) /\ Sending(s)' = Sending(s)
  <2>1. WhereInv(s) /\ ObjectsInv(s)
    BY DEF ControlInv
  <2>2. WhereInv(s)' /\ NextCall(s)' = NextCall(s) /\ Sending(s)' = Sending(s)
    BY <1>1, <1>4, <1>8, <2>1, Waits
  <2>3. ObjectsInv(s)'
    BY <1>6, <1>7, <1>8, <2>1, <2>2 DEF ObjectsInv
  <2>4. QED
    BY <2>2, <2>3
<1>9. \A s \in Ranks \ {r} : WhereInv(s)' /\ ObjectsInv(s)' /\ NextCall(s)' = NextCall(s) /\ Sending(s)' = Sending(s)
  BY <1>4, <1>8
<1>10. CASE Progress(r) /\ UNCHANGED <<session, ip, rnd, alive, handles>>
  <2>1. WhereInv(r)' /\ ObjectsInv(r)' /\ NextCall(r)' = NextCall(r) /\ Sending(r)' = Sending(r)
    BY <1>8, <1>10
  <2>2. QED
    BY <1>4, <1>5, <1>6, <1>9, <1>10, <2>1 DEF ControlInv
<1>11. CASE Steps(r)
  <2>1. WhereInv(r)'
    BY <1>1, <1>11, Moves DEF Steps
  <2>2. ObjectsInv(r)'
    BY <1>1, <1>11, ObjectsStep DEF Steps
  <2>3. QED
    BY <1>4, <1>5, <1>6, <1>9, <1>11, <2>1, <2>2 DEF ControlInv
<1>12. QED
  BY <1>3, <1>10, <1>11

\* The next call is one the communicator in use can make.
LEMMA Allowed ==
  ASSUME TypeInv, NEW r \in Ranks, WhereInv(r), NextCall(r) # "end"
  PROVE  Permitted(NextCall(r))
<1>1. Site(ip[r], rnd[r]) /\ session \in Sessions /\ NextCall(r) = CallAt(ip[r])
  BY DEF WhereInv, TypeInv, NextCall, CallAt
<1>2. QED
  BY <1>1, Succession

\* The control part holds when the processes start.
LEMMA ControlInit ==
  ASSUME Init
  PROVE  ControlInv
<1> USE DEF Init, MemInit, UcxInit, NcclInit
<1>1. TypeInv
  BY DEF TypeInv
<1>2. kind \in Kinds
  BY KindIs
<1>3. Ls \in Nat /\ Ls >= 1 /\ SetupCalls(kind)[1] =
        IF kind = "nccl" THEN "connect" ELSE IF kind = "buffer" THEN "pool" ELSE IF kind = "unknown" THEN "throw"
        ELSE "worker"
  BY <1>2 DEF Ls, SetupCalls, Kinds
<1>4. AtSetup(1, 0)
  BY <1>3 DEF AtSetup
<1>5. ASSUME NEW r \in Ranks PROVE WhereInv(r) /\ ObjectsInv(r)
  <2>1. ip[r] = 1 /\ rnd[r] = 0 /\ alive[r] = {} /\ handles[r] = {}
    BY <1>5
  <2>2. WhereInv(r)
    BY <1>4, <2>1 DEF WhereInv, Site
  <2>3. NextCall(r) = SetupCalls(kind)[1]
    <3>1. CallAt(1) = SetupCalls(kind)[1]
      BY <1>4, CallIs
    <3>2. QED
      BY <2>1, <3>1 DEF NextCall, CallAt
  <2>4. ObjectsInv(r)
    <3> DEFINE c == NextCall(r)
    <3>1. c = IF kind = "nccl" THEN "connect" ELSE IF kind = "buffer" THEN "pool" ELSE IF kind = "unknown" THEN "throw"
              ELSE "worker"
      BY <1>3, <2>3
    <3> HIDE DEF c
    <3>2. c \notin During("context") /\ c \notin During("comm") /\ c \notin During("registered") /\ c \notin During("pool")
      <4>1. c \notin During("context")
        BY <3>1 DEF During, ExchangeSet
      <4>2. c \notin During("comm")
        BY <3>1 DEF During, ExchangeSet
      <4>3. c \notin During("registered")
        BY <3>1 DEF During, ExchangeSet
      <4>4. c \notin During("pool")
        BY <3>1 DEF During, ExchangeSet
      <4>5. QED
        BY <4>1, <4>2, <4>3, <4>4
    <3>3. c \notin ExchangeSet \cup {"uncache"} /\ c \notin ExchangeSet \cup {"deletePool"}
      BY <3>1 DEF ExchangeSet
    <3>4. \A o \in Objects : o \in alive[r] <=> c \in During(o)
      BY <2>1, <3>2 DEF Objects
    <3>5. QED
      BY <2>1, <3>3, <3>4 DEF ObjectsInv, c
  <2>5. QED
    BY <2>2, <2>4
<1>6. QED
  BY <1>1, <1>5 DEF ControlInv

\* The control part is strong enough for ObjectsOutliveUse.
LEMMA ObjectsUsed ==
  ASSUME ControlInv
  PROVE  ObjectsOutliveUse
<1> SUFFICES ASSUME NEW r \in Ranks
             PROVE  Needs(r) \subseteq alive[r] /\ (handles[r] # {} => "context" \in alive[r])
  BY DEF ObjectsOutliveUse
<1> DEFINE c == NextCall(r)
<1>1. TypeInv /\ WhereInv(r) /\ ObjectsInv(r)
  BY DEF ControlInv
<1>2. c \in SetupSet \cup {"start"} \cup UnderSet \cup DestroySet /\ kind \in Kinds
  <2>1. session \in Sessions
    BY <1>1 DEF TypeInv
  <2>2. QED
    BY <1>1, <2>1, RoundIs, KindIs
<1>3. c # "end" => Permitted(c)
  BY <1>1, Allowed
<1>4. /\ \A o \in Objects : o \in alive[r] <=> c \in During(o)
      /\ handles[r] \subseteq {"pool", "cache"}
      /\ "cache" \in handles[r] <=> kind = "buffer" /\ c \in ExchangeSet \cup {"uncache"}
      /\ "pool" \in handles[r] <=> kind = "preregistered" /\ c \in ExchangeSet \cup {"deletePool"}
  BY <1>1 DEF ObjectsInv
<1>5. Needs(r) = CASE c = "pool" /\ kind = "preregistered" -> {"registered", "context"}
    [] c = "registered"                     -> {"context"}
    [] c \in {"cache", "uncache"}           -> {"pool", "context"}
    [] c \in {"start", "send", "recv", "launch", "stop"} -> {"pool", "context"}
    [] c = "free"                           -> {"pool"}
    [] c = "deletePool" -> {"pool"} \cup (IF "pool" \in handles[r] THEN {"registered", "context"} ELSE {})
    [] c \in {"close", "barrier", "destroyNccl"} -> {"context"}
    [] c = "deleteComm"                     -> {"comm"}
    [] OTHER                                -> {}
  BY Zenon DEF Needs, c
<1> HIDE DEF c
<1>6. ASSUME NEW o \in Needs(r) PROVE o \in Objects /\ c \in During(o)
  <2> USE DEF SetupSet, UnderSet, DestroySet
  <2>1. CASE c = "pool"
    BY <1>5, <1>6, <2>1 DEF Objects, During
  <2>2. CASE c = "registered"
    BY <1>3, <1>5, <1>6, <2>2 DEF Objects, During, Permitted
  <2>3. CASE c \in {"cache", "uncache"}
    BY <1>3, <1>5, <1>6, <2>3 DEF Objects, During, Permitted
  <2>4. CASE c \in {"start", "send", "recv", "launch", "stop", "free"}
    <3>1. o \in {"pool", "context"}
      BY <1>5, <1>6, <2>4
    <3>2. c \in ExchangeSet
      BY <2>4 DEF ExchangeSet
    <3>3. QED
      BY <3>1, <3>2 DEF Objects, During
  <2>5. CASE c = "deletePool"
    <3>1. o = "pool" \/ (kind = "preregistered" /\ o \in {"registered", "context"})
      BY <1>4, <1>5, <1>6, <2>5
    <3>2. QED
      BY <2>5, <3>1 DEF Objects, During
  <2>6. CASE c \in {"close", "barrier", "destroyNccl"}
    BY <1>3, <1>5, <1>6, <2>6 DEF Objects, During, Permitted
  <2>7. CASE c = "deleteComm"
    BY <1>5, <1>6, <2>7 DEF Objects, During
  <2>8. CASE c \in {"worker", "connect", "throw", "deleteRegistered", "end"}
    BY <1>5, <1>6, <2>8
  <2>9. QED
    BY <1>2, <2>1, <2>2, <2>3, <2>4, <2>5, <2>6, <2>7, <2>8
<1>7. Needs(r) \subseteq alive[r]
  BY <1>4, <1>6
<1>8. handles[r] # {} => "context" \in alive[r]
  <2>1. "cache" \in handles[r] => c \in During("context")
    BY <1>4 DEF During
  <2>2. "pool" \in handles[r] => c \in During("context")
    BY <1>4 DEF During
  <2>3. QED
    BY <1>4, <2>1, <2>2 DEF Objects
<1>9. QED
  BY <1>7, <1>8

-----------------------------------------------------------------------------
(***************************************************************************)
(* Leaving.                                                                *)
(***************************************************************************)
LeaveInv(r) ==
  /\ Past(r, "barrier") => NextCall(r) \in DestroySet /\ \A s \in Ranks : Past(s, "close")
  /\ NextCall(r) = "barrier" => ip[r] - 1 \in 1 .. Len(Program) /\ Program[ip[r] - 1] = "close"

\* A barrier is entered from close only, and destroy is never left.
LEMMA BarrierAfter ==
  ASSUME NEW c \in SetupSet \cup {"start"} \cup UnderSet \cup DestroySet, c # "end", NEW d, Follows(c, d)
  PROVE  /\ d = "barrier" => c = "close"
         /\ c \in DestroySet => d \in DestroySet
<1>1. kind = "buffer" \/ kind # "buffer"
  OBVIOUS
<1>2. c \in SetupSet \cup {"start"} \cup UnderSet => d # "barrier"
  BY DEF Follows, SetupSet, UnderSet, FirstDestroy
<1>3. c \in DestroySet => d \in DestroySet
  BY DEF Follows, DestroySet
<1>4. c \in DestroySet => (d = "barrier" => c = "close")
  BY DEF Follows, DestroySet
<1>5. QED
  BY <1>2, <1>3, <1>4

\* The calls a rank is past are those it was past and the one it has made.
LEMMA PastGrows ==
  ASSUME TypeInv, NEW r \in Ranks, NextCall(r) # "end", Arrive(r, rnd'[r]), NEW c
  PROVE  Past(r, c)' <=> Past(r, c) \/ NextCall(r) = c
<1>1. Program' = Program /\ ip'[r] = ip[r] + 1
  BY DEF Arrive, Program, TypeInv
<1>2. NextCall(r) = Program[ip[r]]
  BY DEF NextCall
<1>3. Past(r, c)' <=> \E i \in 1 .. (ip[r] + 1) - 1 : Program[i] = c
  BY <1>1 DEF Past
<1>4. ip[r] \in Nat /\ ip[r] >= 1
  BY DEF TypeInv
<1>5. 1 .. (ip[r] + 1) - 1 = (1 .. ip[r] - 1) \cup {ip[r]}
  BY <1>4
<1>6. QED
  BY <1>2, <1>3, <1>5 DEF Past

\* A rank past the barrier has found every rank past close: a step keeps this.
LEMMA LeaveStep ==
  ASSUME ControlInv, \A s \in Ranks : LeaveInv(s), NEW r \in Ranks, RankStep(r)
  PROVE  \A s \in Ranks : LeaveInv(s)'
<1>1. /\ ControlInv' /\ session' = session
      /\ \A s \in Ranks \ {r} : NextCall(s)' = NextCall(s)
      /\ \/ Progress(r) /\ UNCHANGED <<session, ip, rnd, alive, handles>> /\ NextCall(r)' = NextCall(r)
         \/ Steps(r)
  BY ControlStep
<1>2. Program' = Program
  BY <1>1 DEF Program
<1>3. TypeInv /\ WhereInv(r)
  BY DEF ControlInv
<1>4. CASE UNCHANGED ip /\ NextCall(r)' = NextCall(r)
  <2>1. \A s \in Ranks : NextCall(s)' = NextCall(s) /\ ip'[s] = ip[s]
    BY <1>1, <1>4
  <2>2. \A s \in Ranks : \A c : Past(s, c)' <=> Past(s, c)
    BY <1>2, <1>4 DEF Past
  <2>3. QED
    BY <1>2, <2>1, <2>2 DEF LeaveInv
<1>5. CASE Steps(r)
  <2> DEFINE c == NextCall(r)
             d == NextCall(r)'
  <2>1. Arrive(r, IF NextCall(r) = "start" THEN rnd[r] + 1 ELSE rnd[r]) /\ c # "end"
    BY <1>5 DEF Steps
  <2>2. Follows(c, d) /\ c \in SetupSet \cup {"start"} \cup UnderSet \cup DestroySet
    BY <1>3, <2>1, Moves, RoundIs
  <2>3. (d = "barrier" => c = "close") /\ (c \in DestroySet => d \in DestroySet)
    <3> HIDE DEF c, d
    <3>1. QED
      BY <2>1, <2>2, BarrierAfter DEF c
  <2>4. Arrive(r, rnd'[r])
    BY <1>3, <2>1 DEF Arrive, TypeInv
  <2>5. \A e : Past(r, e)' <=> Past(r, e) \/ c = e
    BY <1>3, <2>1, <2>4, PastGrows
  <2>6. \A s \in Ranks \ {r} : ip'[s] = ip[s] /\ NextCall(s)' = NextCall(s)
    BY <1>1, <1>3, <2>4 DEF Arrive, TypeInv
  <2>7. \A s \in Ranks \ {r} : \A e : Past(s, e)' <=> Past(s, e)
    BY <1>2, <2>6 DEF Past
  <2>8. ip'[r] = ip[r] + 1 /\ ip[r] \in Nat /\ ip[r] >= 1 /\ \A s \in Ranks : ip[s] \in Nat
    BY <1>3, <2>4 DEF Arrive, TypeInv
  <2>9. ip[r] <= Len(Program) /\ Program[ip[r]] = c /\ Len(Program) \in Nat
    <3>1. session \in Sessions
      BY <1>3 DEF TypeInv
    <3>2. Len(Program) \in Nat
      BY <3>1, ProgramIs DEF Placed
    <3>3. QED
      BY <2>1, <3>2 DEF NextCall
  <2>10. ASSUME NEW s \in Ranks \ {r} PROVE LeaveInv(s)'
    <3>1. LeaveInv(s) /\ NextCall(s)' = NextCall(s) /\ ip'[s] = ip[s]
      BY <2>6
    <3>2. Past(s, "barrier")' => NextCall(s)' \in DestroySet /\ \A t \in Ranks : Past(t, "close")'
      <4>1. \A t \in Ranks : Past(t, "close") => Past(t, "close")'
        BY <2>5, <2>7
      <4>2. QED
        BY <2>7, <3>1, <4>1 DEF LeaveInv
    <3>3. QED
      BY <1>2, <3>1, <3>2 DEF LeaveInv
  <2>11. LeaveInv(r)'
    <3>1. d = "barrier" => ip'[r] - 1 \in 1 .. Len(Program) /\ Program[ip'[r] - 1] = "close"
      BY <2>3, <2>8, <2>9
    <3>2. ASSUME Past(r, "barrier") PROVE d \in DestroySet /\ \A t \in Ranks : Past(t, "close")'
      <4>1. \A t \in Ranks : Past(t, "close") => Past(t, "close")'
        BY <2>5, <2>7
      <4>2. QED
        BY <2>3, <3>2, <4>1 DEF LeaveInv
    <3>3. ASSUME c = "barrier" PROVE d \in DestroySet /\ \A t \in Ranks : Past(t, "close")'
      <4>1. c \in DestroySet
        BY <3>3 DEF DestroySet
      <4>2. Collective(r)
        <5>1. Barrier(r)
          <6> USE DEF NextCall, Do
          <6>1. c = "barrier"
            BY <3>3
          <6>2. ~Setup(r)
            BY <6>1 DEF Setup, Worker, Connect, Registered, Pool, Cache, Throw
          <6>3. ~Warmup(r) \/ Progress(r)
            BY <6>1 DEF Warmup, Start, Send, Recv, Launch, Stop, Free
          <6>4. ~Progress(r)
            BY <6>1 DEF Progress
          <6>5. Destroy(r) => Barrier(r)
            BY <6>1 DEF Destroy, Uncache, Close, DestroyNccl, PoolDeleted, Deleted
          <6>6. QED
            BY <6>2, <6>3, <6>4, <6>5 DEF RankStep
        <5>2. QED
          BY <5>1 DEF Barrier
      <4>3. ip[r] - 1 \in 1 .. Len(Program) /\ Program[ip[r] - 1] = "close"
        BY <3>3 DEF LeaveInv
      <4>4. ASSUME NEW t \in Ranks PROVE Past(t, "close")
        <5>1. ip[t] >= ip[r] /\ ip[t] \in Nat
          BY <2>8, <4>2 DEF Collective
        <5>2. ip[r] - 1 \in 1 .. ip[t] - 1
          BY <2>8, <4>3, <5>1
        <5>3. QED
          BY <4>3, <5>2 DEF Past
      <4>5. QED
        BY <2>3, <2>5, <2>7, <4>1, <4>4
    <3>4. Past(r, "barrier")' => d \in DestroySet /\ \A t \in Ranks : Past(t, "close")'
      BY <2>5, <3>2, <3>3
    <3>5. QED
      BY <1>2, <3>1, <3>4 DEF LeaveInv
  <2>12. QED
    BY <2>10, <2>11
<1>6. QED
  BY <1>1, <1>4, <1>5

-----------------------------------------------------------------------------
(***************************************************************************)
(* Sequences.                                                              *)
(***************************************************************************)
LEMMA SeqIs ==
  ASSUME NEW T, NEW q \in Seq(T)
  PROVE  IsSeq(q) /\ DOMAIN q = 1 .. Len(q) /\ Len(q) \in Nat
<1> DEFINE V == {q[i] : i \in DOMAIN q}
<1>1. DOMAIN q = 1 .. Len(q) /\ Len(q) \in Nat /\ q \in [1 .. Len(q) -> T]
  OBVIOUS
<1>2. q \in [1 .. Len(q) -> V]
  BY <1>1
<1> HIDE DEF V
<1>3. q \in Seq(V)
  BY <1>1, <1>2
<1>4. QED
  BY <1>1, <1>3 DEF IsSeq, V

\* The domain of a sequence.
LEMMA IsSeqDomain ==
  ASSUME NEW q, IsSeq(q)
  PROVE  DOMAIN q = 1 .. Len(q) /\ Len(q) \in Nat
BY SeqIs DEF IsSeq

Appended(a, q, x) ==
  /\ IsSeq(a) /\ Len(a) = Len(q) + 1 /\ a[Len(q) + 1] = x
  /\ \A i \in 1 .. Len(q) : a[i] = q[i]

\* What a sequence holds after Append.
LEMMA AppendIs ==
  ASSUME NEW q, IsSeq(q), NEW x
  PROVE  Appended(Append(q, x), q, x)
<1> DEFINE V == {q[i] : i \in DOMAIN q} \cup {x}
<1>1. q \in Seq({q[i] : i \in DOMAIN q})
  BY DEF IsSeq
<1>2. {q[i] : i \in DOMAIN q} \subseteq V /\ x \in V
  OBVIOUS
<1> HIDE DEF V
<1>3. q \in Seq(V)
  BY <1>1, <1>2
<1>4. /\ Append(q, x) \in Seq(V) /\ Len(Append(q, x)) = Len(q) + 1
      /\ \A i \in 1 .. Len(q) : Append(q, x)[i] = q[i]
      /\ Append(q, x)[Len(q) + 1] = x
  BY <1>2, <1>3, AppendProperties
<1>5. IsSeq(Append(q, x))
  BY <1>4, SeqIs
<1>6. QED
  BY <1>4, <1>5 DEF Appended

\* What a concatenation holds.
LEMMA JoinIs ==
  ASSUME NEW a, IsSeq(a), NEW b, IsSeq(b)
  PROVE  IsSeq(a \o b) /\ IsJoined(a \o b, a, b)
<1> DEFINE A == {a[i] : i \in DOMAIN a}
           B == {b[i] : i \in DOMAIN b}
           x == a \o b
<1>1. a \in Seq(A) /\ b \in Seq(B)
  BY DEF IsSeq
<1> HIDE DEF A, B
<1>2. a \in Seq(A \cup B) /\ b \in Seq(A \cup B) /\ x = a \o b
  BY <1>1
<1> HIDE DEF x
<1>3. x \in Seq(A \cup B) /\ IsJoined(x, a, b)
  BY <1>2, Joined
<1>4. IsSeq(x)
  BY <1>3, SeqIs
<1>5. QED
  BY <1>3, <1>4 DEF x

Dropped(e, q, i) ==
  /\ IsSeq(e) /\ Len(e) = Len(q) - 1
  /\ \A j \in 1 .. Len(e) : e[j] = IF j < i THEN q[j] ELSE q[j + 1]

\* What a sequence holds once an element is taken out.
LEMMA DropIs ==
  ASSUME NEW q, IsSeq(q), NEW i \in DOMAIN q
  PROVE  Dropped(Drop(q, i), q, i)
<1> DEFINE V == {q[k] : k \in DOMAIN q}
           a == SubSeq(q, 1, i - 1)
           b == SubSeq(q, i + 1, Len(q))
           x == a \o b
<1>1. q \in Seq(V)
  BY DEF IsSeq
<1> HIDE DEF V
<1>2. i \in 1 .. Len(q) /\ Len(q) \in Nat
  BY <1>1
<1>3. /\ a \in Seq(V)
      /\ Len(a) = i - 1
      /\ \A j \in 1 .. i - 1 : a[j] = q[j]
  <2>1. 1 \in 1 .. Len(q) + 1 /\ i - 1 \in 1 - 1 .. Len(q)
    BY <1>2
  <2>2. \A k \in 1 .. i - 1 : q[k] \in V
    BY <1>1, <1>2
  <2>3. a = [k \in 1 .. (i - 1) - 1 + 1 |-> q[k + 1 - 1]]
    BY <1>1, <1>2, <2>1, SubSeqProperties
  <2>4. (i - 1) - 1 + 1 = i - 1 /\ \A k \in 1 .. i - 1 : k + 1 - 1 = k
    BY <1>2
  <2>5. a = [k \in 1 .. i - 1 |-> q[k]]
    BY <2>3, <2>4
  <2> HIDE DEF a
  <2>6. a \in [1 .. i - 1 -> V] /\ i - 1 \in Nat
    BY <1>2, <2>2, <2>5
  <2>7. a \in Seq(V) /\ Len(a) = i - 1
    BY <2>6
  <2>8. QED
    BY <2>5, <2>7
<1>4. /\ b \in Seq(V)
      /\ Len(b) = Len(q) - i
      /\ \A j \in 1 .. Len(q) - i : b[j] = q[i + j]
  <2>1. i + 1 \in 1 .. Len(q) + 1 /\ Len(q) \in (i + 1) - 1 .. Len(q)
    BY <1>2
  <2>2. \A k \in 1 .. Len(q) - i : q[i + k] \in V
    BY <1>1, <1>2
  <2>3. b = [k \in 1 .. Len(q) - (i + 1) + 1 |-> q[k + (i + 1) - 1]]
    BY <1>1, <1>2, <2>1, SubSeqProperties
  <2>4. Len(q) - (i + 1) + 1 = Len(q) - i /\ \A k \in 1 .. Len(q) - i : k + (i + 1) - 1 = i + k
    BY <1>2
  <2>5. b = [k \in 1 .. Len(q) - i |-> q[i + k]]
    BY <2>3, <2>4
  <2> HIDE DEF b
  <2>6. b \in [1 .. Len(q) - i -> V] /\ Len(q) - i \in Nat
    BY <1>2, <2>2, <2>5
  <2>7. b \in Seq(V) /\ Len(b) = Len(q) - i
    BY <2>6
  <2>8. QED
    BY <2>5, <2>7
<1>5. x = a \o b /\ x = Drop(q, i)
  BY DEF Drop
<1> HIDE DEF a, b, x
<1>6. x \in Seq(V) /\ IsJoined(x, a, b)
  BY <1>3, <1>4, <1>5, Joined
<1>7. Len(x) = Len(q) - 1
  BY <1>2, <1>3, <1>4, <1>6 DEF IsJoined
<1>8. ASSUME NEW j \in 1 .. Len(x) PROVE x[j] = IF j < i THEN q[j] ELSE q[j + 1]
  <2>1. CASE j < i
    <3>1. j \in 1 .. i - 1
      BY <1>2, <2>1
    <3>2. QED
      BY <1>3, <1>6, <2>1, <3>1 DEF IsJoined
  <2>2. CASE ~(j < i)
    <3>1. j - (i - 1) \in 1 .. Len(q) - i /\ (i - 1) + (j - (i - 1)) = j /\ i + (j - (i - 1)) = j + 1
      BY <1>2, <1>7, <2>2
    <3>2. x[(i - 1) + (j - (i - 1))] = b[j - (i - 1)]
      BY <1>3, <1>4, <1>6, <3>1 DEF IsJoined
    <3>3. b[j - (i - 1)] = q[i + (j - (i - 1))]
      BY <1>4, <3>1
    <3>4. x[j] = q[j + 1]
      BY <3>1, <3>2, <3>3
    <3>5. QED
      BY <2>2, <3>4
  <2>3. QED
    BY <2>1, <2>2
<1>9. IsSeq(x)
  BY <1>6, SeqIs
<1>10. QED
  BY <1>5, <1>7, <1>8, <1>9 DEF Dropped

-----------------------------------------------------------------------------
(***************************************************************************)
(* The calls outside an exchange, and those of one.                        *)
(***************************************************************************)
Followed(r) ==
  /\ NextCall(r) # "end" /\ NextCall(r) \in SetupSet \cup {"start"} \cup UnderSet \cup DestroySet
  /\ Permitted(NextCall(r)) /\ Follows(NextCall(r), NextCall(r)')
  /\ rnd'[r] = IF NextCall(r) = "start" THEN rnd[r] + 1 ELSE rnd[r]

\* The call a rank arrives at is one that follows the call it has made.
LEMMA StepFollows ==
  ASSUME ControlInv, NEW r \in Ranks, Steps(r)
  PROVE  Followed(r)
<1>1. TypeInv /\ WhereInv(r)
  BY DEF ControlInv
<1>2. QED
  BY <1>1, Moves, RoundIs DEF Steps, Followed

Outside(r) ==
  /\ NextCall(r) \in (SetupSet \cup DestroySet) \ {"end"}
  /\ NextCall(r)' \notin UnderSet /\ rnd'[r] = rnd[r]
  /\ UNCHANGED <<comms, user>>

\* A call of setup or destroy is not followed by one inside an exchange.
LEMMA OutsideNext ==
  ASSUME NEW c \in (SetupSet \cup DestroySet) \ {"end"}, NEW d, Follows(c, d)
  PROVE  d \notin UnderSet
BY DEF Follows, SetupSet, DestroySet, UnderSet, FirstDestroy

\* Calls of setup and destroy touch no messages.
LEMMA OutsideIs ==
  ASSUME ControlInv, NEW r \in Ranks, Setup(r) \/ Destroy(r)
  PROVE  Steps(r) /\ Followed(r) /\ Outside(r)
<1>1. TypeInv
  BY DEF ControlInv
<1>2. Steps(r)
  BY <1>1, SetupSteps, DestroySteps
<1>3. Followed(r)
  BY <1>2, StepFollows
<1>4. NextCall(r) \in (SetupSet \cup DestroySet) \ {"end"} /\ UNCHANGED <<comms, user>>
  <2>1. CASE Setup(r)
    BY <2>1 DEF Setup, Worker, Connect, Registered, Pool, Cache, Throw, Do, SetupSet
  <2>2. CASE Destroy(r)
    BY <2>2 DEF Destroy, Uncache, Close, Barrier, DestroyNccl, PoolDeleted, Deleted, Do, DestroySet
  <2>3. QED
    BY <2>1, <2>2
<1>5. NextCall(r)' \notin UnderSet
  BY <1>3, <1>4, OutsideNext DEF Followed
<1>6. rnd' = rnd
  BY <1>4 DEF user
<1>7. QED
  BY <1>2, <1>3, <1>4, <1>5, <1>6 DEF Outside

\* The calls of an exchange, with what comes next.
LEMMA InsideIs ==
  ASSUME ControlInv, NEW r \in Ranks, Warmup(r), ~Progress(r)
  PROVE  /\ Steps(r) /\ Followed(r) /\ Keeps
         /\ NextCall(r) = "start" \/ NextCall(r) \in UnderSet
         /\ Start(r) => NextCall(r) = "start" /\ NextCall(r)' \in {"send", "recv"} /\ rnd'[r] = rnd[r] + 1
         /\ Send(r)  => NextCall(r) = "send" /\ NextCall(r)' \in {"send", "recv"}
         /\ Recv(r)  => NextCall(r) = "recv" /\ NextCall(r)' = IF kind = "nccl" THEN "launch" ELSE "stop"
         /\ Launch(r) => NextCall(r) = "launch" /\ NextCall(r)' = "stop" /\ kind = "nccl"
         /\ Stop(r)  => NextCall(r) = "stop" /\ NextCall(r)' = "free"
         /\ Free(r)  => NextCall(r) = "free" /\ NextCall(r)' \in {"start", FirstDestroy}
         /\ ~Start(r) => NextCall(r) # "start" /\ rnd' = rnd
<1>1. TypeInv
  BY DEF ControlInv
<1>2. Steps(r) /\ Followed(r) /\ Keeps
  BY <1>1, WarmupSteps, StepFollows
<1>3. Follows(NextCall(r), NextCall(r)') /\ Permitted(NextCall(r))
  BY <1>2 DEF Followed
<1>4. Start(r) => NextCall(r) = "start"
  BY DEF Start, Do
<1>5. Send(r) => NextCall(r) = "send" /\ rnd' = rnd
  BY DEF Send, Do
<1>6. Recv(r) => NextCall(r) = "recv" /\ rnd' = rnd
  BY DEF Recv, Do, user
<1>7. Launch(r) => NextCall(r) = "launch" /\ rnd' = rnd
  BY DEF Launch, Do, user
<1>8. Stop(r) => NextCall(r) = "stop" /\ rnd' = rnd
  BY DEF Stop, Do
<1>9. Free(r) => NextCall(r) = "free" /\ rnd' = rnd
  BY DEF Free, Do, user
<1>10. Start(r) \/ Send(r) \/ Recv(r) \/ Launch(r) \/ Stop(r) \/ Free(r)
  BY DEF Warmup
<1>11. NextCall(r) = "start" \/ NextCall(r) \in UnderSet
  BY <1>4, <1>5, <1>6, <1>7, <1>8, <1>9, <1>10 DEF UnderSet
<1> DEFINE c == NextCall(r)
           d == NextCall(r)'
<1>12. /\ c = "start" => d \in {"send", "recv"}
       /\ c = "send" => d \in {"send", "recv"}
       /\ c = "recv" => d = IF kind = "nccl" THEN "launch" ELSE "stop"
       /\ c = "launch" => d = "stop" /\ kind = "nccl"
       /\ c = "stop" => d = "free"
       /\ c = "free" => d \in {"start", FirstDestroy}
  <2>1. Follows(c, d) /\ Permitted(c)
    BY <1>3
  <2> HIDE DEF c, d
  <2>2. QED
    BY <2>1, Zenon DEF Follows, Permitted
<1>13. c = "start" => rnd'[r] = rnd[r] + 1
  BY <1>2 DEF Followed
<1> HIDE DEF d
<1>14. QED
  BY <1>2, <1>4, <1>5, <1>6, <1>7, <1>8, <1>9, <1>10, <1>11, <1>12, <1>13 DEF d

\* The loops over the other ranks.
LEMMA NthIs ==
  ASSUME NEW r \in Ranks
  PROVE  /\ \A i \in 1 .. N - 1 : Nth(r, i) \in Peers(r) /\ Index(r, Nth(r, i)) = i
         /\ \A d \in Peers(r) : Index(r, d) \in 1 .. N - 1 /\ Nth(r, Index(r, d)) = d
BY NAssumption DEF Nth, Index, Peers, Ranks

-----------------------------------------------------------------------------
(***************************************************************************)
(* What has been sent.                                                     *)
(***************************************************************************)
AllSent == \A s, d \in Ranks : SentInv(s, d)

\* A step that leaves a sender's count and its place leaves SentInv.
LEMMA SentKept ==
  ASSUME NEW s \in Ranks, NEW d \in Ranks, SentInv(s, d), sent'[s][d] = sent[s][d],
         s = d \/ (rnd'[s] = rnd[s] /\ (Unsent(s, d)' <=> Unsent(s, d)))
  PROVE  SentInv(s, d)'
BY DEF SentInv, IsSeq

\* The send a rank makes is the one to the next of the other ranks.
LEMMA SendTo ==
  ASSUME ControlInv, AllSent, NEW r \in Ranks, NextCall(r) = "send", NEW i \in 1 .. N - 1,
         \A j \in 1 .. N - 1 : Len(sent[r][Nth(r, j)]) = rnd[r] - (IF j < i THEN 0 ELSE 1)
  PROVE  i = Sending(r)
<1>1. TypeInv /\ WhereInv(r)
  BY DEF ControlInv
<1>2. Sending(r) \in 1 .. N - 1 /\ N \in Nat /\ rnd[r] \in Nat
  BY <1>1, SendingIs, NAssumption DEF TypeInv
<1>3. ASSUME NEW j \in 1 .. N - 1
      PROVE  Len(sent[r][Nth(r, j)]) = IF j >= Sending(r) THEN rnd[r] - 1 ELSE rnd[r]
  <2>1. Nth(r, j) \in Peers(r) /\ Index(r, Nth(r, j)) = j
    BY NthIs
  <2>2. Nth(r, j) \in Ranks /\ Nth(r, j) # r
    BY <2>1 DEF Peers
  <2>3. SentInv(r, Nth(r, j))
    BY <2>2 DEF AllSent
  <2>4. QED
    BY <2>1, <2>2, <2>3 DEF SentInv, Unsent
<1>4. CASE i < Sending(r)
  <2>1. Len(sent[r][Nth(r, i)]) = rnd[r] /\ Len(sent[r][Nth(r, i)]) = rnd[r] - 1
    BY <1>2, <1>3, <1>4
  <2>2. QED
    BY <1>2, <2>1
<1>5. CASE i > Sending(r)
  <2>1. Len(sent[r][Nth(r, Sending(r))]) = rnd[r] - 1 /\ Len(sent[r][Nth(r, Sending(r))]) = rnd[r]
    BY <1>2, <1>3, <1>5
  <2>2. QED
    BY <1>2, <2>1
<1>6. QED
  BY <1>2, <1>4, <1>5

\* What a step does to the histories of what has been sent.
LEMMA SendIs ==
  ASSUME ControlInv, AllSent, NEW r \in Ranks, Send(r)
  PROVE  \E d \in Peers(r) :
           /\ d = Nth(r, Sending(r)) /\ Index(r, d) = Sending(r) /\ Unsent(r, d)
           /\ sent' = [sent EXCEPT ![r][d] = Append(@, Read(r, SendBlock(d, rnd[r])))]
           /\ IF Unbuffered THEN UcxSend(r, d, SendBlock(d, rnd[r])) ELSE UNCHANGED ucxVars
           /\ IF kind = "nccl" THEN NcclSend(r, d, SendBlock(d, rnd[r]), MsgSize)
              ELSE UNCHANGED <<memVars, ncclVars>>
<1>1. PICK i \in 1 .. N - 1 :
        /\ \A j \in 1 .. N - 1 : Len(sent[r][Nth(r, j)]) = rnd[r] - (IF j < i THEN 0 ELSE 1)
        /\ Do(r, "send")
        /\ sent' = [sent EXCEPT ![r][Nth(r, i)] = Append(@, Read(r, SendBlock(Nth(r, i), rnd[r])))]
        /\ IF Unbuffered THEN UcxSend(r, Nth(r, i), SendBlock(Nth(r, i), rnd[r])) ELSE UNCHANGED ucxVars
        /\ IF kind = "nccl" THEN NcclSend(r, Nth(r, i), SendBlock(Nth(r, i), rnd[r]), MsgSize)
           ELSE UNCHANGED <<memVars, ncclVars>>
  BY Zenon DEF Send
<1>2. NextCall(r) = "send"
  BY <1>1 DEF Do
<1>3. i = Sending(r)
  BY <1>1, <1>2, SendTo
<1>4. Nth(r, i) \in Peers(r) /\ Index(r, Nth(r, i)) = i
  BY NthIs
<1>5. TypeInv /\ WhereInv(r)
  BY DEF ControlInv
<1>6. Sending(r) \in 1 .. N - 1 /\ N \in Nat
  BY <1>2, <1>5, SendingIs, NAssumption
<1>7. Unsent(r, Nth(r, i))
  BY <1>2, <1>3, <1>4, <1>6 DEF Unsent
<1> DEFINE d == Nth(r, i)
<1>8. /\ d = Nth(r, Sending(r)) /\ Index(r, d) = Sending(r) /\ Unsent(r, d)
      /\ sent' = [sent EXCEPT ![r][d] = Append(@, Read(r, SendBlock(d, rnd[r])))]
      /\ IF Unbuffered THEN UcxSend(r, d, SendBlock(d, rnd[r])) ELSE UNCHANGED ucxVars
      /\ IF kind = "nccl" THEN NcclSend(r, d, SendBlock(d, rnd[r]), MsgSize)
         ELSE UNCHANGED <<memVars, ncclVars>>
  BY <1>1, <1>3, <1>4, <1>7
<1>9. d \in Peers(r)
  BY <1>4
<1> HIDE DEF d
<1>10. QED
  BY <1>8, <1>9

\* Only send changes what has been sent.
LEMMA NotSending ==
  ASSUME ControlInv, NEW r \in Ranks, RankStep(r), ~Send(r)
  PROVE  sent' = sent
BY DEF RankStep, Setup, Warmup, Destroy, Worker, Connect, Registered, Pool, Cache, Throw, Start, Recv, Launch, Stop,
       Progress, Free, Uncache, Close, Barrier, DestroyNccl, PoolDeleted, Deleted, user, hist

\* Whom a rank has not sent to, before and after its step.
LEMMA UnsentIs ==
  ASSUME ControlInv, NEW r \in Ranks, RankStep(r), NEW d \in Peers(r)
  PROVE  /\ Progress(r) \/ Outside(r) => (Unsent(r, d)' <=> Unsent(r, d)) /\ rnd'[r] = rnd[r]
         /\ Start(r) => ~Unsent(r, d) /\ Unsent(r, d)' /\ rnd'[r] = rnd[r] + 1
         /\ Send(r) => (Unsent(r, d)' <=> Unsent(r, d) /\ d # Nth(r, Sending(r))) /\ rnd'[r] = rnd[r]
         /\ Recv(r) \/ Launch(r) \/ Stop(r) \/ Free(r) => ~Unsent(r, d) /\ ~Unsent(r, d)' /\ rnd'[r] = rnd[r]
<1>1. TypeInv /\ WhereInv(r)
  BY DEF ControlInv
<1>2. Index(r, d)' = Index(r, d)
  BY DEF Index
<1>3. Index(r, d) \in 1 .. N - 1 /\ Nth(r, Index(r, d)) = d /\ N \in Nat /\ N # 1
  <2>1. Index(r, d) \in 1 .. N - 1 /\ Nth(r, Index(r, d)) = d
    BY NthIs
  <2>2. QED
    BY <2>1, NAssumption
<1>4. Progress(r) => NextCall(r) \in {"stop", "close"} /\ UNCHANGED <<ip, rnd>> /\ NextCall(r)' = NextCall(r)
  <2>1. Progress(r) => NextCall(r) \in {"stop", "close"} /\ UNCHANGED <<ip, rnd, session>>
    BY DEF Progress, user
  <2>2. Progress(r) => NextCall(r)' = NextCall(r)
    BY <1>1, <2>1, Waits
  <2>3. QED
    BY <2>1, <2>2
<1>5. Progress(r) => (Unsent(r, d)' <=> Unsent(r, d)) /\ rnd'[r] = rnd[r]
  BY <1>4 DEF Unsent
<1>6. Outside(r) => (Unsent(r, d)' <=> Unsent(r, d)) /\ rnd'[r] = rnd[r]
  BY DEF Unsent, Outside, SetupSet, DestroySet, UnderSet
<1>7. ASSUME Start(r) \/ Send(r) \/ Recv(r) \/ Launch(r) \/ Stop(r) \/ Free(r)
      PROVE  Warmup(r) /\ ~Progress(r)
  <2>1. ip' = [ip EXCEPT ![r] = @ + 1]
    BY <1>7 DEF Start, Send, Recv, Launch, Free, Stop, Do
  <2>2. ip'[r] # ip[r]
    BY <1>1, <2>1 DEF TypeInv
  <2>3. ~Progress(r)
    BY <1>4, <2>2
  <2>4. QED
    BY <1>7, <2>3 DEF Warmup
<1>8. ASSUME Start(r)
      PROVE  ~Unsent(r, d) /\ Unsent(r, d)' /\ rnd'[r] = rnd[r] + 1
  <2>1. Steps(r) /\ NextCall(r) = "start" /\ NextCall(r)' \in {"send", "recv"} /\ rnd'[r] = rnd[r] + 1
    BY <1>7, <1>8, InsideIs
  <2>2. Arrive(r, rnd[r] + 1)
    BY <2>1 DEF Steps
  <2>3. (NextCall(r)' = "send" => Sending(r)' = 1) /\ (NextCall(r)' = "recv" => N = 1)
    BY <1>1, <2>1, <2>2, FirstSend
  <2>4. QED
    BY <1>2, <1>3, <2>1, <2>3 DEF Unsent
<1>9. ASSUME Send(r)
      PROVE  (Unsent(r, d)' <=> Unsent(r, d) /\ d # Nth(r, Sending(r))) /\ rnd'[r] = rnd[r]
  <2>1. Steps(r) /\ NextCall(r) = "send" /\ NextCall(r)' \in {"send", "recv"} /\ rnd'[r] = rnd[r]
    <3>1. Send(r) => NextCall(r) = "send" /\ rnd' = rnd
      BY DEF Send, Do
    <3>2. QED
      BY <1>7, <1>9, <3>1, InsideIs
  <2>2. Arrive(r, rnd[r])
    BY <2>1 DEF Steps
  <2>3. (NextCall(r)' = "send" => Sending(r)' = Sending(r) + 1) /\ (NextCall(r)' = "recv" => Sending(r) = N - 1)
    BY <1>1, <2>1, <2>2, SendAgain
  <2>4. Sending(r) \in 1 .. N - 1
    BY <1>1, <2>1, SendingIs
  <2>5. d # Nth(r, Sending(r)) <=> Index(r, d) # Sending(r)
    <3>1. Index(r, Nth(r, Sending(r))) = Sending(r)
      BY <2>4, NthIs
    <3>2. QED
      BY <1>3, <3>1
  <2>6. Unsent(r, d) <=> Index(r, d) >= Sending(r)
    BY <2>1 DEF Unsent
  <2>7. CASE NextCall(r)' = "send"
    <3>1. Unsent(r, d)' <=> Index(r, d) >= Sending(r) + 1
      BY <1>2, <2>3, <2>7 DEF Unsent
    <3>2. QED
      BY <1>3, <2>1, <2>4, <2>5, <2>6, <3>1
  <2>8. CASE NextCall(r)' = "recv"
    <3>1. ~Unsent(r, d)'
      BY <2>8 DEF Unsent
    <3>2. QED
      BY <1>3, <2>1, <2>3, <2>5, <2>6, <2>8, <3>1
  <2>9. QED
    BY <2>1, <2>7, <2>8
<1>10. ASSUME Recv(r) \/ Launch(r) \/ Stop(r) \/ Free(r)
       PROVE  ~Unsent(r, d) /\ ~Unsent(r, d)' /\ rnd'[r] = rnd[r]
  <2>1. NextCall(r) # "send"
    BY <1>10 DEF Recv, Launch, Stop, Free, Do
  <2>2. rnd' = rnd
    BY <1>10 DEF Recv, Launch, Stop, Free, user
  <2>3. Follows(NextCall(r), NextCall(r)') /\ NextCall(r) \in {"recv", "launch", "stop", "free"}
    <3>1. Followed(r)
      BY <1>7, <1>10, InsideIs
    <3>2. QED
      BY <1>10, <3>1 DEF Followed, Recv, Launch, Stop, Free, Do
  <2>4. NextCall(r)' # "send"
    BY <2>3 DEF Follows, FirstDestroy
  <2>5. QED
    BY <2>1, <2>2, <2>4 DEF Unsent
<1>11. QED
  BY <1>5, <1>6, <1>8, <1>9, <1>10

\* The steps of a rank, sorted by what they do to messages.
LEMMA AllSteps ==
  ASSUME ControlInv, NEW r \in Ranks, RankStep(r)
  PROVE  Progress(r) \/ Outside(r) \/ Start(r) \/ Send(r) \/ Recv(r) \/ Launch(r) \/ Stop(r) \/ Free(r)
BY OutsideIs DEF RankStep, Warmup

\* What has been sent to whom follows from where the sender is: a step keeps this.
LEMMA SentStep ==
  ASSUME ControlInv, AllSent, NEW r \in Ranks, RankStep(r)
  PROVE  AllSent'
<1> SUFFICES ASSUME NEW s \in Ranks, NEW d \in Ranks PROVE SentInv(s, d)'
  BY DEF AllSent
<1>1. SentInv(s, d)
  BY DEF AllSent
<1>2. \A t \in Ranks \ {r} : NextCall(t)' = NextCall(t) /\ rnd'[t] = rnd[t] /\ Sending(t)' = Sending(t)
  BY ControlStep
<1>3. TypeInv
  BY DEF ControlInv
<1>4. CASE s # r \/ s = d
  <2>1. sent'[s][d] = sent[s][d]
    <3>1. CASE Send(r)
      <4>1. PICK x \in Peers(r) : sent' = [sent EXCEPT ![r][x] = Append(@, Read(r, SendBlock(x, rnd[r])))]
        BY <3>1, SendIs
      <4>2. QED
        BY <1>3, <1>4, <4>1 DEF Peers, TypeInv
    <3>2. CASE ~Send(r)
      BY <3>2, NotSending
    <3>3. QED
      BY <3>1, <3>2
  <2>2. s = d \/ (rnd'[s] = rnd[s] /\ (Unsent(s, d)' <=> Unsent(s, d)))
    BY <1>2, <1>4 DEF Unsent, Index
  <2>3. QED
    BY <1>1, <2>1, <2>2, SentKept
<1>5. CASE s = r /\ s # d
  <2>1. d \in Peers(r) /\ rnd[r] \in Nat
    BY <1>3, <1>5 DEF Peers, TypeInv
  <2>2. CASE Send(r)
    <3>1. PICK x \in Peers(r) : x = Nth(r, Sending(r)) /\ Unsent(r, x)
                               /\ sent' = [sent EXCEPT ![r][x] = Append(@, Read(r, SendBlock(x, rnd[r])))]
      BY <2>2, SendIs
    <3>2. (Unsent(r, d)' <=> Unsent(r, d) /\ d # x) /\ rnd'[r] = rnd[r]
      BY <2>1, <2>2, <3>1, UnsentIs
    <3>3. CASE d = x
      <4> DEFINE q == sent[r][d]
                 e == Read(r, SendBlock(x, rnd[r]))
      <4>1. sent'[r][d] = Append(q, e)
        BY <1>3, <2>1, <3>1, <3>3 DEF TypeInv
      <4>2. IsSeq(q) /\ Len(q) = rnd[r] - 1
        BY <1>1, <1>5, <3>1, <3>3 DEF SentInv
      <4> HIDE DEF q, e
      <4>3. IsSeq(Append(q, e)) /\ Len(Append(q, e)) = Len(q) + 1
        BY <4>2, AppendIs DEF Appended
      <4>4. IsSeq(sent'[r][d]) /\ Len(sent'[r][d]) = rnd[r]
        BY <2>1, <4>1, <4>2, <4>3
      <4>5. QED
        BY <1>5, <3>2, <3>3, <4>4 DEF SentInv, IsSeq
    <3>4. CASE d # x
      <4>1. sent'[r][d] = sent[r][d]
        BY <1>3, <2>1, <3>1, <3>4 DEF TypeInv
      <4>2. QED
        BY <1>1, <1>5, <3>2, <3>4, <4>1, SentKept
    <3>5. QED
      BY <3>3, <3>4
  <2>3. CASE ~Send(r)
    <3>1. sent'[s][d] = sent[s][d]
      BY <2>3, NotSending
    <3>2. CASE Start(r)
      <4>1. ~Unsent(r, d) /\ Unsent(r, d)' /\ rnd'[r] = rnd[r] + 1
        BY <2>1, <3>2, UnsentIs
      <4>2. QED
        BY <1>1, <1>5, <2>1, <3>1, <4>1 DEF SentInv, IsSeq
    <3>3. CASE ~Start(r)
      <4>1. rnd'[r] = rnd[r] /\ (Unsent(r, d)' <=> Unsent(r, d))
        <5>1. Progress(r) \/ Outside(r) \/ Recv(r) \/ Launch(r) \/ Stop(r) \/ Free(r)
          BY <2>3, <3>3, AllSteps
        <5>2. QED
          BY <2>1, <5>1, UnsentIs
      <4>2. QED
        BY <1>1, <1>5, <3>1, <4>1, SentKept
    <3>4. QED
      BY <3>2, <3>3
  <2>4. QED
    BY <2>2, <2>3
<1>6. QED
  BY <1>4, <1>5

-----------------------------------------------------------------------------
(***************************************************************************)
(* The requests of UCX.                                                    *)
(***************************************************************************)
UcxInv == (\A s, d \in Ranks : NetInv(s, d)) /\ \A r \in Ranks : PostedInv(r) /\ RequestsInv(r)

\* Requests and blocks of different calls have different names.
LEMMA Distinct ==
  /\ \A b : <<"send", b>> # NoRequest /\ <<"recv", b>> # NoRequest
  /\ \A a, b : <<"send", a>> # <<"recv", b>>
  /\ \A a, b : <<"send", a>> = <<"send", b>> => a = b
  /\ \A a, b : <<"recv", a>> = <<"recv", b>> => a = b
  /\ \A d, e, k, l : SendBlock(d, k) = SendBlock(e, l) => d = e /\ k = l
  /\ \A d, e, k, l : RecvBlock(d, k) = RecvBlock(e, l) => d = e /\ k = l
  /\ \A d, e, k, l : SendBlock(d, k) # RecvBlock(e, l)
BY DEF NoRequest, SendBlock, RecvBlock

\* The tag of a message names its sender.
LEMMA TagIs ==
  ASSUME NEW s \in Ranks, NEW t \in Ranks, Tag(ReservedTag, s) = Tag(ReservedTag, t)
  PROVE  s = t
BY NAssumption DEF Tag, ReservedTag, Ranks

\* The fields of a message.
LEMMA MessageIs ==
  ASSUME NEW s, NEW d, NEW k, NEW m, IsMessage(s, d, k, m)
  PROVE  m.tag = Tag(ReservedTag, s) /\ m.ref = SendBlock(d, k)
<1> DEFINE v == m.val
           q == m.req
           t == Tag(ReservedTag, s)
           b == SendBlock(d, k)
<1>1. m = [tag |-> t, val |-> v, ref |-> b, req |-> q]
  BY DEF IsMessage
<1> HIDE DEF v, q, t, b
<1>2. m.tag = t /\ m.ref = b
  BY <1>1
<1>3. QED
  BY <1>2 DEF t, b

\* A receive meets the next message of its source.
Delivers(r, s, i) ==
  LET m == net[s][r][1]
      v == IF m.req = NoRequest THEN m.val ELSE Read(s, m.ref)
  IN
  /\ NextCall(r) = "stop" /\ Unbuffered
  /\ posted[r][i] = Post(r, s) /\ net[s][r] # <<>>
  /\ blocks' = [blocks EXCEPT ![r] = Write(@, Only(RecvBlock(s, rnd[r]), v))]
  /\ net' = [net EXCEPT ![s][r] = Drop(@, 1)]
  /\ posted' = [posted EXCEPT ![r] = Drop(@, i)]
  /\ done' = Completed(Completed(done, s, m.req), r, Post(r, s).req)
  /\ UNCHANGED <<alive, handles, inUse, pending>>

\* UCX delivers the message of a peer into the receive that was posted for it.
LEMMA DeliverIs ==
  ASSUME ControlInv, UcxInv, NEW r \in Ranks, Unbuffered, NextCall(r) = "stop", UcxDeliver(r)
  PROVE  \E s \in Peers(r) : \E i \in DOMAIN posted[r] : Delivers(r, s, i)
<1>1. PICK tag \in {posted[r][i].tag : i \in DOMAIN posted[r]}, s \in Ranks :
        \E i \in FirstWith(posted[r], tag), j \in FirstWith(net[s][r], tag) :
          LET m == net[s][r][j]
              p == posted[r][i]
              v == IF m.req = NoRequest THEN m.val ELSE Read(s, m.ref)
          IN
          /\ blocks' = [blocks EXCEPT ![r] = Write(@, Only(p.dst, v))]
          /\ net' = [net EXCEPT ![s][r] = Drop(@, j)]
          /\ posted' = [posted EXCEPT ![r] = Drop(@, i)]
          /\ done' = Completed(Completed(done, s, m.req), r, p.req)
          /\ UNCHANGED <<alive, handles, inUse, pending>>
  BY Zenon DEF UcxDeliver
<1>2. PICK i \in FirstWith(posted[r], tag), j \in FirstWith(net[s][r], tag) :
          LET m == net[s][r][j]
              p == posted[r][i]
              v == IF m.req = NoRequest THEN m.val ELSE Read(s, m.ref)
          IN
          /\ blocks' = [blocks EXCEPT ![r] = Write(@, Only(p.dst, v))]
          /\ net' = [net EXCEPT ![s][r] = Drop(@, j)]
          /\ posted' = [posted EXCEPT ![r] = Drop(@, i)]
          /\ done' = Completed(Completed(done, s, m.req), r, p.req)
          /\ UNCHANGED <<alive, handles, inUse, pending>>
  BY <1>1
<1>3. i \in DOMAIN posted[r] /\ posted[r][i].tag = tag
  BY <1>2 DEF FirstWith
<1>4. PICK t \in Peers(r) : posted[r][i] = Post(r, t)
  BY <1>3 DEF UcxInv, PostedInv
<1>5. tag = Tag(ReservedTag, t) /\ t \in Ranks /\ t # r
  BY <1>3, <1>4 DEF Post, Peers
<1>6. NetInv(s, r)
  BY DEF UcxInv
<1>7. j \in DOMAIN net[s][r] /\ net[s][r][j].tag = tag /\ \A k \in 1 .. j - 1 : net[s][r][k].tag # tag
  BY <1>2 DEF FirstWith
<1>8. s # r
  BY <1>6, <1>7 DEF NetInv
<1>9. /\ IsSeq(net[s][r])
      /\ \A k \in DOMAIN net[s][r] : IsMessage(s, r, Received(r, s) + k, net[s][r][k])
  BY <1>6, <1>8 DEF NetInv
<1>10. \A k \in DOMAIN net[s][r] : net[s][r][k].tag = Tag(ReservedTag, s)
  BY <1>9, MessageIs
<1>11. s = t
  BY <1>5, <1>7, <1>10, TagIs
<1>12. j = 1
  <2>1. DOMAIN net[s][r] = 1 .. Len(net[s][r]) /\ Len(net[s][r]) \in Nat
    BY <1>9, IsSeqDomain
  <2>2. j > 1 => 1 \in 1 .. j - 1 /\ 1 \in DOMAIN net[s][r]
    BY <1>7, <2>1
  <2>3. QED
    BY <1>7, <1>10, <2>1, <2>2
<1>13. net[s][r] # <<>>
  BY <1>7
<1>14. posted[r][i].dst = RecvBlock(s, rnd[r])
  BY <1>4, <1>11 DEF Post
<1>15. Delivers(r, s, i)
  BY <1>2, <1>4, <1>11, <1>12, <1>13, <1>14 DEF Delivers
<1>16. QED
  BY <1>3, <1>5, <1>11, <1>15 DEF Peers

\* The contents of a send in progress are taken.
Flushes(r, d, j) ==
  LET m == net[r][d][j] IN
  /\ m.req # NoRequest
  /\ \A x, y \in Ranks : x # r \/ y # d => net'[x][y] = net[x][y]
  /\ IsSeq(net'[r][d]) /\ Len(net'[r][d]) = Len(net[r][d])
  /\ \A k \in DOMAIN net[r][d] : k # j => net'[r][d][k] = net[r][d][k]
  /\ \A k : IsMessage(r, d, k, m) => IsMessage(r, d, k, net'[r][d][j])
  /\ net'[r][d][j].req = NoRequest /\ net'[r][d][j].val = Read(r, m.ref)
  /\ done' = Completed(done, r, m.req)
  /\ UNCHANGED <<memVars, posted, pending>>

\* What a sequence holds once an element is replaced.
LEMMA ReplaceIs ==
  ASSUME NEW q, IsSeq(q), NEW j \in DOMAIN q, NEW m
  PROVE  /\ IsSeq([q EXCEPT ![j] = m]) /\ Len([q EXCEPT ![j] = m]) = Len(q)
         /\ [q EXCEPT ![j] = m][j] = m
         /\ \A k \in DOMAIN q : k # j => [q EXCEPT ![j] = m][k] = q[k]
<1> DEFINE V == {q[i] : i \in DOMAIN q} \cup {m}
           e == [q EXCEPT ![j] = m]
<1>1. q \in Seq({q[i] : i \in DOMAIN q})
  BY DEF IsSeq
<1>2. q \in [1 .. Len(q) -> V] /\ Len(q) \in Nat /\ m \in V
  BY <1>1
<1> HIDE DEF V
<1>3. e \in [1 .. Len(q) -> V] /\ e[j] = m /\ \A k \in DOMAIN q : k # j => e[k] = q[k]
  BY <1>2
<1> HIDE DEF e
<1>4. e \in Seq(V) /\ Len(e) = Len(q)
  BY <1>2, <1>3
<1>5. IsSeq(e)
  BY <1>4, SeqIs
<1>6. QED
  BY <1>3, <1>4, <1>5 DEF e

Revised(e, m, v, q) == e = [[m EXCEPT !.val = v] EXCEPT !.req = q]

\* Recording its value and request leaves a message what it was.
LEMMA RecordIs ==
  ASSUME NEW s, NEW d, NEW k, NEW m, IsMessage(s, d, k, m), NEW v, NEW q,
         NEW e, Revised(e, m, v, q)
  PROVE  e.req = q /\ e.val = v /\ \A l : IsMessage(s, d, l, m) => IsMessage(s, d, l, e)
<1> DEFINE w == m.val
           p == m.req
           t == Tag(ReservedTag, s)
           b == SendBlock(d, k)
<1>1. m = [tag |-> t, val |-> w, ref |-> b, req |-> p]
  BY DEF IsMessage
<1> HIDE DEF w, p, t, b
<1>2. e = [tag |-> t, val |-> v, ref |-> b, req |-> q]
  <2>1. [m EXCEPT !.val = v] = [tag |-> t, val |-> v, ref |-> b, req |-> p]
    <3>1. [[tag |-> t, val |-> w, ref |-> b, req |-> p] EXCEPT !.val = v] = [tag |-> t, val |-> v, ref |-> b, req |-> p]
      OBVIOUS
    <3>2. QED
      BY <1>1, <3>1, Zenon
  <2>2. [[tag |-> t, val |-> v, ref |-> b, req |-> p] EXCEPT !.req = q] = [tag |-> t, val |-> v, ref |-> b, req |-> q]
    OBVIOUS
  <2>3. e = [[m EXCEPT !.val = v] EXCEPT !.req = q]
    BY DEF Revised
  <2>4. QED
    BY <2>1, <2>2, <2>3, Zenon
<1>3. e.req = q /\ e.val = v
  BY <1>2
<1>4. ASSUME NEW l, IsMessage(s, d, l, m) PROVE IsMessage(s, d, l, e)
  <2>1. SendBlock(d, l) = b
    <3>1. m.ref = SendBlock(d, l) /\ m.ref = SendBlock(d, k)
      BY <1>4, MessageIs
    <3>2. QED
      BY <3>1 DEF b
  <2>2. QED
    BY <1>2, <1>3, <2>1, Zenon DEF IsMessage, t
<1>5. QED
  BY <1>3, <1>4

\* UCX reads a message that waits in its sender's memory.
LEMMA FlushIs ==
  ASSUME ControlInv, UcxInv, NEW r \in Ranks, UcxFlush(r)
  PROVE  Unbuffered /\ \E d \in Peers(r) : \E j \in DOMAIN net[r][d] : Flushes(r, d, j)
<1>1. PICK d \in Ranks : \E j \in DOMAIN net[r][d] :
        LET m == net[r][d][j] IN
        /\ m.req # NoRequest
        /\ net' = [net EXCEPT ![r][d][j].val = Read(r, m.ref), ![r][d][j].req = NoRequest]
        /\ done' = Completed(done, r, m.req)
        /\ UNCHANGED <<memVars, posted, pending>>
  BY DEF UcxFlush
<1>2. PICK j \in DOMAIN net[r][d] :
        LET m == net[r][d][j] IN
        /\ m.req # NoRequest
        /\ net' = [net EXCEPT ![r][d][j].val = Read(r, m.ref), ![r][d][j].req = NoRequest]
        /\ done' = Completed(done, r, m.req)
        /\ UNCHANGED <<memVars, posted, pending>>
  BY <1>1
<1>3. NetInv(r, d)
  BY DEF UcxInv
<1>4. Unbuffered /\ r # d
  BY <1>2, <1>3 DEF NetInv
<1>5. IsSeq(net[r][d]) /\ \E k : IsMessage(r, d, k, net[r][d][j])
  BY <1>3, <1>4 DEF NetInv
<1> DEFINE q == net[r][d]
           m == net[r][d][j]
           v == Read(r, m.ref)
           e == [[m EXCEPT !.val = v] EXCEPT !.req = NoRequest]
<1>6. DOMAIN net = Ranks /\ DOMAIN net[r] = Ranks
  BY DEF ControlInv, TypeInv
<1>7. net' = [net EXCEPT ![r][d][j].val = v, ![r][d][j].req = NoRequest]
  BY <1>2
<1>8. /\ \A x, y \in Ranks : x # r \/ y # d => net'[x][y] = net[x][y]
      /\ net'[r][d] = [q EXCEPT ![j] = e]
  <2> HIDE DEF v
  <2>1. \A x, y \in Ranks : x # r \/ y # d => net'[x][y] = net[x][y]
    BY <1>6, <1>7
  <2>2. net'[r][d] = [q EXCEPT ![j] = e]
    BY <1>6, <1>7
  <2>3. QED
    BY <2>1, <2>2
<1>9. e.req = NoRequest /\ e.val = v /\ \A k : IsMessage(r, d, k, m) => IsMessage(r, d, k, e)
  <2>1. PICK k : IsMessage(r, d, k, m)
    BY <1>5
  <2>2. PICK mm, vv, ee : mm = m /\ vv = v /\ ee = e /\ Revised(ee, mm, vv, NoRequest)
    BY DEF Revised
  <2> HIDE DEF m, v, e
  <2>3. IsMessage(r, d, k, mm)
    BY <2>1, <2>2
  <2>4. ee.req = NoRequest /\ ee.val = vv /\ \A l : IsMessage(r, d, l, mm) => IsMessage(r, d, l, ee)
    BY <2>2, <2>3, RecordIs
  <2>5. QED
    BY <2>2, <2>4
<1> HIDE DEF e
<1>10. /\ IsSeq([q EXCEPT ![j] = e]) /\ Len([q EXCEPT ![j] = e]) = Len(q)
       /\ [q EXCEPT ![j] = e][j] = e
       /\ \A k \in DOMAIN q : k # j => [q EXCEPT ![j] = e][k] = q[k]
  BY <1>5, ReplaceIs
<1>11. Flushes(r, d, j)
  BY <1>2, <1>8, <1>9, <1>10 DEF Flushes
<1>12. QED
  BY <1>4, <1>11 DEF Peers

\* Allocation does not change the blocks that exist.
LEMMA ReadAllocated ==
  ASSUME DOMAIN blocks = Ranks, NEW r \in Ranks, NEW new, Allocate(r, new), NEW b, b \notin DOMAIN new
  PROVE  Read(r, b)' = Read(r, b)
BY DEF Allocate, Read, With

\* A write changes the block it is made to and no other.
LEMMA ReadWritten ==
  ASSUME DOMAIN blocks = Ranks, NEW r \in Ranks, NEW c, NEW v, blocks' = [blocks EXCEPT ![r] = Write(@, Only(c, v))],
         NEW b, b # c
  PROVE  Read(r, b)' = Read(r, b) /\ DOMAIN blocks'[r] = DOMAIN blocks[r]
BY DEF Write, Read, Only

\* The calls of an unbuffered UCX communicator, and all others.
Quiet(r) ==
  /\ UNCHANGED <<ucxVars, sent, rnd>>
  /\ NextCall(r) \notin {"send", "recv", "stop"} /\ NextCall(r)' \notin {"send", "recv", "stop"}

Starts(r) ==
  /\ UNCHANGED <<net, posted, done, sent>> /\ pending' = [pending EXCEPT ![r] = <<>>]
  /\ NextCall(r) = "start" /\ NextCall(r)' \in {"send", "recv"} /\ rnd'[r] = rnd[r] + 1

Sends(r, d) ==
  /\ UNCHANGED <<blocks, posted, done, rnd>>
  /\ NextCall(r) = "send" /\ NextCall(r)' \in {"send", "recv"}
  /\ Unsent(r, d) /\ ~Unsent(r, d)' /\ \A e \in Peers(r) : ~Unsent(r, e) => ~Unsent(r, e)'
  /\ sent' = [sent EXCEPT ![r][d] = Append(@, Read(r, SendBlock(d, rnd[r])))]
  /\ \E req \in {NoRequest, <<"send", SendBlock(d, rnd[r])>>} :
       /\ net' = [net EXCEPT ![r][d] =
                    Append(@, [tag |-> Tag(ReservedTag, r), val |-> Read(r, SendBlock(d, rnd[r])),
                               ref |-> SendBlock(d, rnd[r]), req |-> req])]
       /\ pending' = [pending EXCEPT ![r] = Append(@, req)]

Receives(r) ==
  /\ UNCHANGED <<net, done, sent, rnd>>
  /\ NextCall(r) = "recv" /\ NextCall(r)' = "stop"
  /\ \A d, k : Read(r, SendBlock(d, k))' = Read(r, SendBlock(d, k))
  /\ posted' = [posted EXCEPT ![r] = @ \o [i \in 1 .. N - 1 |-> Post(r, Nth(r, i))]]
  /\ pending' = [pending EXCEPT ![r] = @ \o [i \in 1 .. N - 1 |-> Post(r, Nth(r, i)).req]]

Stops(r) ==
  /\ UNCHANGED <<net, posted, pending, sent, rnd>>
  /\ NextCall(r) = "stop" /\ NextCall(r)' = "free"
  /\ Finished(r) /\ done' = [done EXCEPT ![r] = @ \ Handles(r)]

\* The other calls of an exchange are not progress of UCX.
LEMMA NotProgress ==
  ASSUME TypeInv, NEW r \in Ranks, Start(r) \/ Send(r) \/ Recv(r) \/ Launch(r) \/ Stop(r) \/ Free(r)
  PROVE  Warmup(r) /\ ~Progress(r)
<1>1. ip' = [ip EXCEPT ![r] = @ + 1]
  BY DEF Start, Send, Recv, Launch, Free, Stop, Do
<1>2. ip'[r] # ip[r]
  BY <1>1 DEF TypeInv
<1>3. QED
  BY <1>2 DEF Progress, Warmup

\* The steps of a rank, sorted by what they do to messages and requests of UCX.
LEMMA UcxSteps ==
  ASSUME ControlInv, AllSent, NEW r \in Ranks, RankStep(r), Unbuffered
  PROVE  \/ Progress(r) \/ Quiet(r) \/ Starts(r) \/ (\E d \in Peers(r) : Sends(r, d))
         \/ Receives(r) \/ Stops(r)
<1>1. TypeInv /\ kind \in {"none", "preregistered"}
  BY DEF ControlInv, Unbuffered
<1>2. CASE Outside(r)
  BY <1>2 DEF Outside, Quiet, SetupSet, DestroySet, UnderSet, comms, user, hist
<1>3. CASE Start(r)
  <2>1. NextCall(r) = "start" /\ NextCall(r)' \in {"send", "recv"} /\ rnd'[r] = rnd[r] + 1
    BY <1>1, <1>3, NotProgress, InsideIs
  <2>2. QED
    BY <1>3, <2>1 DEF Start, UcxStart, Starts
<1>4. CASE Send(r)
  <2>1. NextCall(r) = "send" /\ NextCall(r)' \in {"send", "recv"} /\ rnd' = rnd
    <3>1. Send(r) => NextCall(r) = "send" /\ rnd' = rnd
      BY DEF Send, Do
    <3>2. QED
      BY <1>1, <1>4, <3>1, NotProgress, InsideIs
  <2>2. PICK d \in Peers(r) :
           /\ d = Nth(r, Sending(r)) /\ Index(r, d) = Sending(r) /\ Unsent(r, d)
           /\ sent' = [sent EXCEPT ![r][d] = Append(@, Read(r, SendBlock(d, rnd[r])))]
           /\ IF Unbuffered THEN UcxSend(r, d, SendBlock(d, rnd[r])) ELSE UNCHANGED ucxVars
           /\ IF kind = "nccl" THEN NcclSend(r, d, SendBlock(d, rnd[r]), MsgSize)
              ELSE UNCHANGED <<memVars, ncclVars>>
    BY <1>4, SendIs
  <2>3. \A e \in Peers(r) : Unsent(r, e)' <=> Unsent(r, e) /\ e # d
    BY <1>4, <2>2, UnsentIs
  <2>4. UcxSend(r, d, SendBlock(d, rnd[r])) /\ blocks' = blocks
    BY <1>1, <2>2 DEF memVars
  <2>5. Sends(r, d)
    BY <2>1, <2>2, <2>3, <2>4 DEF Sends, UcxSend
  <2>6. QED
    BY <2>5
<1>5. CASE Recv(r)
  <2>1. NextCall(r) = "recv" /\ NextCall(r)' = "stop" /\ rnd' = rnd /\ sent' = sent
    <3>1. Recv(r) => rnd' = rnd /\ sent' = sent
      BY DEF Recv, user, hist
    <3>2. QED
      BY <1>1, <1>5, <3>1, NotProgress, InsideIs
  <2> DEFINE dst == [s \in Peers(r) |-> RecvBlock(s, rnd[r])]
  <2>2. UcxRecvs(r, Others(r), dst)
    BY <1>1, <1>5 DEF Recv
  <2>3. DOMAIN Others(r) = 1 .. N - 1 /\ \A i \in 1 .. N - 1 : Others(r)[i] = Nth(r, i) /\ dst[Nth(r, i)] = RecvBlock(Nth(r, i), rnd[r])
    BY NthIs DEF Others
  <2>4. \A d, k : Read(r, SendBlock(d, k))' = Read(r, SendBlock(d, k))
    <3>1. CASE session.probing
      <4>1. Allocate(r, NewRecvBlocks(r, rnd[r]))
        BY <1>1, <1>5, <3>1 DEF Recv
      <4>2. DOMAIN NewRecvBlocks(r, rnd[r]) = {RecvBlock(s, rnd[r]) : s \in Peers(r)}
        BY DEF NewRecvBlocks
      <4>3. \A d, k : SendBlock(d, k) \notin DOMAIN NewRecvBlocks(r, rnd[r])
        BY <4>2 DEF SendBlock, RecvBlock
      <4>4. DOMAIN blocks = Ranks
        BY <1>1 DEF TypeInv
      <4>5. QED
        BY <4>1, <4>3, <4>4, ReadAllocated
    <3>2. CASE ~session.probing
      <4>1. blocks' = blocks
        BY <1>1, <1>5, <3>2 DEF Recv, memVars
      <4>2. QED
        BY <4>1 DEF Read
    <3>3. QED
      BY <3>1, <3>2
  <2> HIDE DEF dst
  <2>5. UNCHANGED <<net, done>>
    BY <2>2 DEF UcxRecvs
  <2>6. posted' = [posted EXCEPT ![r] = @ \o [i \in 1 .. N - 1 |-> Post(r, Nth(r, i))]]
    BY <2>2, <2>3 DEF UcxRecvs, Post
  <2>7. pending' = [pending EXCEPT ![r] = @ \o [i \in 1 .. N - 1 |-> Post(r, Nth(r, i)).req]]
    BY <2>2, <2>3 DEF UcxRecvs, Post
  <2>8. QED
    BY <2>1, <2>4, <2>5, <2>6, <2>7 DEF Receives
<1>6. CASE Stop(r)
  <2>1. NextCall(r) = "stop" /\ NextCall(r)' = "free" /\ rnd' = rnd /\ sent' = sent
    <3>1. Stop(r) => rnd' = rnd /\ sent' = sent
      BY DEF Stop
    <3>2. QED
      BY <1>1, <1>6, <3>1, NotProgress, InsideIs
  <2>2. UcxStop(r)
    BY <1>1, <1>6 DEF Stop
  <2>3. QED
    BY <2>1, <2>2 DEF Stops, UcxStop, Handles
<1>7. CASE Free(r)
  <2>1. NextCall(r) = "free" /\ NextCall(r)' \in {"start", FirstDestroy}
    BY <1>1, <1>7, NotProgress, InsideIs
  <2>2. UNCHANGED <<ucxVars, sent, rnd>>
    BY <1>7 DEF Free, comms, user, hist
  <2>3. QED
    BY <2>1, <2>2 DEF Quiet, FirstDestroy
<1>8. CASE Launch(r)
  <2>1. kind = "nccl"
    BY <1>1, <1>8, NotProgress, InsideIs
  <2>2. QED
    BY <1>1, <2>1
<1>9. QED
  BY <1>2, <1>3, <1>4, <1>5, <1>6, <1>7, <1>8, AllSteps

\* A message under way stays so when its sender's block and request stay.
LEMMA FlyingKept ==
  ASSUME NEW s, NEW d, Handles(s) \subseteq Handles(s)', Moving(s) => Moving(s)', rnd'[s] = rnd[s],
         \A k : <<"send", SendBlock(d, k)>> \in done'[s] => <<"send", SendBlock(d, k)>> \in done[s],
         \A k : Read(s, SendBlock(d, k))' = Read(s, SendBlock(d, k)),
         NEW k, NEW m, IsMessage(s, d, k, m), Flying(s, d, k, m)
  PROVE  Flying(s, d, k, m)'
<1>1. m.ref = SendBlock(d, k)
  BY MessageIs
<1>2. Read(s, m.ref)' = Read(s, m.ref)
  <2>1. Read(s, SendBlock(d, k))' = Read(s, SendBlock(d, k))
    OBVIOUS
  <2>2. QED
    BY <1>1, <2>1 DEF Read
<1>3. /\ m.req = <<"send", SendBlock(d, k)>>
      /\ m.req \in Handles(s) /\ m.req \notin done[s]
      /\ k = rnd[s] /\ m.val = Read(s, m.ref)
  BY DEF Flying
<1>4. m.req \notin done'[s]
  BY <1>3
<1>5. QED
  BY <1>2, <1>3, <1>4 DEF Flying

\* What is between two ranks stays as it is.
Unmoved(s, d) ==
  /\ net'[s][d] = net[s][d] /\ sent'[s][d] = sent[s][d]
  /\ Received(d, s)' = Received(d, s)

\* The messages of a sender that no step moves stay as NetInv has them.
LEMMA NetKept ==
  ASSUME kind' = kind, NEW s, NEW d, NetInv(s, d), Unmoved(s, d),
         \A k, m : IsMessage(s, d, k, m) /\ Flying(s, d, k, m) => Flying(s, d, k, m)'
  PROVE  NetInv(s, d)'
<1>1. Unbuffered' <=> Unbuffered
  BY DEF Unbuffered
<1>2. CASE Unbuffered /\ s # d
  <2>0. PICK q, b : q = net[s][d] /\ b = Received(d, s)
    OBVIOUS
  <2>1. net'[s][d] = q /\ Received(d, s)' = b
    BY <2>0 DEF Unmoved
  <2>2. \A j \in DOMAIN q : /\ IsMessage(s, d, b + j, q[j])
                            /\ q[j].req # NoRequest => Flying(s, d, b + j, q[j])
    BY <1>2, <2>0 DEF NetInv
  <2>3. IsSeq(q) /\ Len(q) = Len(sent[s][d]) - b
    BY <1>2, <2>0 DEF NetInv
  <2>4. \A j \in DOMAIN q : q[j].req # NoRequest => Flying(s, d, b + j, q[j])'
    BY <2>2
  <2>5. \A j \in DOMAIN q : IsMessage(s, d, b + j, q[j])'
    BY <2>2 DEF IsMessage, Tag, ReservedTag, SendBlock
  <2>6. IsSeq(q)' /\ Len(net'[s][d]) = Len(sent'[s][d]) - b
    BY <2>1, <2>3 DEF Unmoved, IsSeq
  <2>7. QED
    BY <1>1, <1>2, <2>1, <2>4, <2>5, <2>6 DEF NetInv
<1>3. CASE ~(Unbuffered /\ s # d)
  <2>1. net[s][d] = <<>>
    BY <1>3 DEF NetInv
  <2>2. net'[s][d] = <<>>
    BY <2>1 DEF Unmoved
  <2>3. QED
    BY <1>1, <1>3, <2>2 DEF NetInv
<1>4. QED
  BY <1>2, <1>3

\* A rank that does not act keeps its requests.
LEMMA RequestsKept ==
  ASSUME kind' = kind, NEW x \in Ranks, PostedInv(x), RequestsInv(x),
         posted'[x] = posted[x], pending'[x] = pending[x], done'[x] = done[x], rnd'[x] = rnd[x],
         NextCall(x)' = NextCall(x), Sending(x)' = Sending(x)
  PROVE  PostedInv(x)' /\ RequestsInv(x)'
<1>1. Unbuffered' <=> Unbuffered
  BY DEF Unbuffered
<1>2. Handles(x)' = Handles(x)
  BY DEF Handles
<1>3. \A s : Post(x, s)' = Post(x, s)
  BY DEF Post, Tag, ReservedTag, RecvBlock
<1>4. \A d : Unsent(x, d)' <=> Unsent(x, d)
  BY DEF Unsent, Index
<1>5. PostedInv(x)'
  <2>1. IsSeq(posted[x])'
    BY DEF PostedInv, IsSeq
  <2>2. QED
    BY <1>1, <1>2, <1>3, <2>1 DEF PostedInv
<1>6. RequestsInv(x)'
  <2>1. IsSeq(pending[x])'
    BY DEF RequestsInv, IsSeq
  <2>2. Moving(x)' <=> Moving(x)
    BY DEF Moving
  <2>3. \A d : <<"send", SendBlock(d, rnd[x])>>' = <<"send", SendBlock(d, rnd[x])>>
    BY DEF SendBlock
  <2>4. \A d : <<"recv", RecvBlock(d, rnd[x])>>' = <<"recv", RecvBlock(d, rnd[x])>>
    BY DEF RecvBlock
  <2>5. QED
    BY <1>1, <1>2, <1>4, <2>1, <2>2, <2>3, <2>4 DEF RequestsInv
<1>7. QED
  BY <1>5, <1>6

\* A rank's step leaves the memory of the other ranks alone.
LEMMA MemoryMine ==
  ASSUME ControlInv, NEW r \in Ranks, RankStep(r), NEW x \in Ranks \ {r}
  PROVE  blocks'[x] = blocks[x] /\ inUse'[x] = inUse[x] /\ commBuffers'[x] = commBuffers[x]
<1> USE DEF user, comms, hist, ucxVars, ncclVars, memVars, ControlInv, TypeInv
<1>1. CASE Setup(r)
  BY <1>1 DEF Setup, Worker, Connect, Registered, Pool, Cache, Throw, Create, NewPool, Allocate
<1>2. CASE Destroy(r)
  BY <1>2 DEF Destroy, Uncache, Close, Barrier, DestroyNccl, PoolDeleted, Deleted, Delete, DeletePool, Deallocate
<1>3. CASE Start(r)
  BY <1>3 DEF Start, Allocate, NcclStart
<1>4. CASE Send(r)
  BY <1>4 DEF Send, Allocate, NcclSend
<1>5. CASE Recv(r)
  <2>1. CASE kind = "nccl"
    BY <1>5, <2>1 DEF Recv, Allocate, NcclRecvs, Unbuffered
  <2>2. CASE kind # "nccl" /\ session.probing
    BY <1>5, <2>2 DEF Recv, Allocate
  <2>3. CASE kind # "nccl" /\ ~session.probing
    BY <1>5, <2>3 DEF Recv
  <2>4. QED
    BY <2>1, <2>2, <2>3
<1>6. CASE Launch(r)
  BY <1>6 DEF Launch, NcclLaunch
<1>7. CASE Stop(r)
  BY <1>7 DEF Stop, NcclStop, BufferStop
<1>8. CASE Progress(r)
  <2>1. CASE UcxDeliver(r)
    BY <1>8, <2>1 DEF Progress, UcxDeliver
  <2>2. CASE UcxFlush(r)
    BY <1>8, <2>2 DEF Progress, UcxFlush
  <2>3. QED
    BY <1>8, <2>1, <2>2 DEF Progress
<1>9. CASE Free(r)
  BY <1>9 DEF Free, Deallocate
<1>10. QED
  BY <1>1, <1>2, <1>3, <1>4, <1>5, <1>6, <1>7, <1>8, <1>9 DEF RankStep, Warmup

\* What a call of r leaves alone.
Local(r) ==
  \A x \in Ranks \ {r} :
    /\ posted'[x] = posted[x] /\ pending'[x] = pending[x] /\ done'[x] = done[x]
    /\ net'[x] = net[x] /\ sent'[x] = sent[x]

\* A step that is local to a rank leaves the messages and requests of the others.
LEMMA OthersKept ==
  ASSUME ControlInv, UcxInv, NEW r \in Ranks, RankStep(r), Local(r),
         \A s \in Peers(r) : Received(r, s)' = Received(r, s)
  PROVE  /\ \A x \in Ranks \ {r} : PostedInv(x)' /\ RequestsInv(x)'
         /\ \A s \in Ranks \ {r} : \A d \in Ranks : NetInv(s, d)'
         /\ \A d \in Ranks \ {r} : Received(d, r)' = Received(d, r)
<1>1. kind' = kind /\ \A x \in Ranks \ {r} : NextCall(x)' = NextCall(x) /\ rnd'[x] = rnd[x] /\ Sending(x)' = Sending(x)
  BY ControlStep
<1>2. ASSUME NEW x \in Ranks \ {r} PROVE PostedInv(x)' /\ RequestsInv(x)'
  <2>1. PostedInv(x) /\ RequestsInv(x)
    BY DEF UcxInv
  <2>2. QED
    BY <1>1, <2>1, RequestsKept DEF Local
<1>3. ASSUME NEW x \in Ranks \ {r}, NEW s PROVE Received(x, s)' = Received(x, s)
  <2>1. Awaited(x, s)' <=> Awaited(x, s)
    BY DEF Awaited, Local, Tag, ReservedTag
  <2>2. QED
    BY <1>1, <2>1 DEF Received
<1>4. ASSUME NEW s \in Ranks \ {r}, NEW d \in Ranks PROVE NetInv(s, d)'
  <2>1. NetInv(s, d)
    BY DEF UcxInv
  <2>2. Received(d, s)' = Received(d, s)
    BY <1>3 DEF Peers
  <2>3. Unmoved(s, d)
    BY <2>2 DEF Unmoved, Local
  <2>4. Handles(s)' = Handles(s) /\ done'[s] = done[s] /\ (Moving(s)' <=> Moving(s)) /\ rnd'[s] = rnd[s]
    BY <1>1 DEF Local, Handles, Moving
  <2>5. \A k : Read(s, SendBlock(d, k))' = Read(s, SendBlock(d, k))
    BY MemoryMine DEF Read, SendBlock
  <2>6. \A k, m : IsMessage(s, d, k, m) /\ Flying(s, d, k, m) => Flying(s, d, k, m)'
    BY <2>4, <2>5, FlyingKept
  <2>7. QED
    BY <1>1, <2>1, <2>3, <2>6, NetKept
<1>5. QED
  BY <1>2, <1>3, <1>4

\* What is left to show of a call.
LEMMA UcxAssemble ==
  ASSUME ControlInv, UcxInv, NEW r \in Ranks, RankStep(r), Local(r),
         \A s \in Peers(r) : Received(r, s)' = Received(r, s),
         PostedInv(r)', RequestsInv(r)', \A d \in Peers(r) : NetInv(r, d)', net'[r][r] = net[r][r]
  PROVE  UcxInv'
<1>1. NetInv(r, r)'
  BY DEF UcxInv, NetInv
<1>2. QED
  BY <1>1, OthersKept DEF UcxInv, Peers

\* A step that moves no message keeps UcxInv.
LEMMA QuietKept ==
  ASSUME ControlInv, UcxInv, NEW r \in Ranks, RankStep(r), Quiet(r), Unbuffered
  PROVE  UcxInv'
<1>1. kind' = kind
  BY ControlStep
<1>2. Local(r)
  BY DEF Local, Quiet, ucxVars
<1>3. \A s : Received(r, s)' = Received(r, s)
  BY DEF Received, Quiet
<1>4. ~Moving(r) /\ ~Moving(r)' /\ posted'[r] = posted[r] /\ pending'[r] = pending[r] /\ done'[r] = done[r]
  BY DEF Quiet, Moving, ucxVars
<1>5. PostedInv(r) /\ RequestsInv(r)
  BY DEF UcxInv
<1>6. posted[r] = <<>> /\ done[r] = {}
  BY <1>4, <1>5 DEF PostedInv, RequestsInv, Quiet
<1>7. PostedInv(r)'
  BY <1>4, <1>5, <1>6 DEF PostedInv, IsSeq
<1>8. RequestsInv(r)'
  BY <1>4, <1>5, <1>6 DEF RequestsInv, IsSeq, Handles
<1>9. ASSUME NEW d \in Peers(r) PROVE NetInv(r, d)'
  <2>1. NetInv(r, d)
    BY DEF UcxInv, Peers
  <2>2. Received(d, r)' = Received(d, r)
    BY <1>2, <1>3, OthersKept DEF Peers
  <2>3. Unmoved(r, d)
    BY <2>2 DEF Unmoved, Quiet, ucxVars
  <2>4. \A k, m : ~Flying(r, d, k, m)
    BY <1>4 DEF Flying
  <2>5. QED
    BY <1>1, <2>1, <2>3, <2>4, NetKept
<1>10. QED
  BY <1>2, <1>3, <1>7, <1>8, <1>9, UcxAssemble DEF Quiet, ucxVars

\* So does start.
LEMMA StartsKept ==
  ASSUME ControlInv, UcxInv, NEW r \in Ranks, RankStep(r), Starts(r), Unbuffered
  PROVE  UcxInv'
<1>1. kind' = kind /\ TypeInv
  BY ControlStep DEF ControlInv
<1>2. Local(r)
  BY <1>1 DEF Local, Starts, TypeInv
<1>3. \A s : Received(r, s)' = Received(r, s)
  <2>1. rnd[r] \in Nat
    BY <1>1 DEF TypeInv
  <2>2. QED
    BY <2>1 DEF Received, Starts
<1>4. ~Moving(r) /\ posted'[r] = posted[r] /\ pending'[r] = <<>> /\ done'[r] = done[r]
  BY <1>1 DEF Starts, Moving, TypeInv
<1>5. PostedInv(r) /\ RequestsInv(r)
  BY DEF UcxInv
<1>6. posted[r] = <<>> /\ done[r] = {}
  BY <1>4, <1>5 DEF PostedInv, RequestsInv, Starts
<1>7. PostedInv(r)'
  BY <1>4, <1>5, <1>6 DEF PostedInv, IsSeq
<1>8. RequestsInv(r)'
  <2>1. IsSeq(pending[r])' /\ Handles(r)' = {}
    BY <1>4 DEF IsSeq, Handles
  <2>2. QED
    BY <1>4, <1>6, <2>1 DEF RequestsInv
<1>9. ASSUME NEW d \in Peers(r) PROVE NetInv(r, d)'
  <2>1. NetInv(r, d)
    BY DEF UcxInv, Peers
  <2>2. Received(d, r)' = Received(d, r)
    BY <1>2, <1>3, OthersKept DEF Peers
  <2>3. Unmoved(r, d)
    BY <2>2 DEF Unmoved, Starts
  <2>4. \A k, m : ~Flying(r, d, k, m)
    BY <1>4 DEF Flying
  <2>5. QED
    BY <1>1, <2>1, <2>3, <2>4, NetKept
<1>10. QED
  BY <1>2, <1>3, <1>7, <1>8, <1>9, UcxAssemble DEF Starts

\* So does a send: its message joins the end of its channel, and refers to a block the sender keeps.
LEMMA SendsKept ==
  ASSUME ControlInv, AllSent, UcxInv, NEW r \in Ranks, RankStep(r), NEW d \in Peers(r), Sends(r, d), Unbuffered
  PROVE  UcxInv'
<1>1. kind' = kind /\ TypeInv /\ (Unbuffered' <=> Unbuffered)
  BY ControlStep DEF ControlInv, Unbuffered
<1> DEFINE b == SendBlock(d, rnd[r])
           v == Read(r, b)
<1>2. PICK req \in {NoRequest, <<"send", b>>} :
       /\ net' = [net EXCEPT ![r][d] = Append(@, [tag |-> Tag(ReservedTag, r), val |-> v, ref |-> b, req |-> req])]
       /\ pending' = [pending EXCEPT ![r] = Append(@, req)]
  BY DEF Sends
<1>3. /\ UNCHANGED <<blocks, posted, done, rnd>>
      /\ NextCall(r) = "send" /\ NextCall(r)' \in {"send", "recv"}
      /\ Unsent(r, d) /\ ~Unsent(r, d)' /\ \A e \in Peers(r) : ~Unsent(r, e) => ~Unsent(r, e)'
      /\ sent' = [sent EXCEPT ![r][d] = Append(@, v)]
  BY DEF Sends
<1>4. d \in Ranks /\ d # r
  BY DEF Peers
<1>5. Local(r)
  BY <1>1, <1>2, <1>3 DEF Local, TypeInv
<1>6. \A s : Received(r, s)' = Received(r, s)
  BY <1>3 DEF Received
<1>7. PostedInv(r) /\ RequestsInv(r) /\ posted[r] = <<>> /\ posted'[r] = <<>>
  BY <1>3 DEF UcxInv, PostedInv
<1>8. Moving(r) /\ Moving(r)'
  BY <1>3 DEF Moving
<1>9. IsSeq(pending[r]) /\ IsSeq(pending'[r]) /\ Handles(r)' = Handles(r) \cup {req}
  <2> DEFINE q == pending[r]
             e == Append(q, req)
  <2>1. IsSeq(q)
    BY <1>7 DEF RequestsInv
  <2>2. pending'[r] = e
    BY <1>1, <1>2 DEF TypeInv
  <2>3. Appended(e, q, req)
    BY <2>1, AppendIs
  <2>4. DOMAIN q = 1 .. Len(q) /\ Len(q) \in Nat /\ DOMAIN e = 1 .. Len(e)
    BY <2>1, <2>3, IsSeqDomain DEF Appended
  <2> HIDE DEF q, e
  <2>5. {e[i] : i \in DOMAIN e} = {q[i] : i \in DOMAIN q} \cup {req}
    <3>1. DOMAIN e = 1 .. Len(q) + 1 /\ e[Len(q) + 1] = req /\ \A i \in 1 .. Len(q) : e[i] = q[i]
      BY <2>3, <2>4 DEF Appended
    <3>2. \A x : x \in {e[i] : i \in DOMAIN e} => x \in {q[i] : i \in DOMAIN q} \cup {req}
      BY <2>4, <3>1
    <3>3. \A x : x \in {q[i] : i \in DOMAIN q} \cup {req} => x \in {e[i] : i \in DOMAIN e}
      BY <2>4, <3>1
    <3>4. QED
      BY <3>2, <3>3
  <2>6. QED
    BY <2>1, <2>2, <2>3, <2>5 DEF Appended, Handles, q
<1>10. PostedInv(r)'
  BY <1>7 DEF PostedInv, IsSeq
<1>11. \A q \in Handles(r) :
         \/ q = NoRequest
         \/ \E e \in Peers(r) : q = <<"send", SendBlock(e, rnd[r])>> /\ ~Unsent(r, e)
  BY <1>3, <1>7, <1>8 DEF RequestsInv
<1>12. RequestsInv(r)'
  <2>1. ASSUME NEW q \in Handles(r)'
        PROVE  \/ q = NoRequest
               \/ \E e \in Peers(r) : q = <<"send", SendBlock(e, rnd[r])>> /\ ~Unsent(r, e)'
    <3>1. CASE q \in Handles(r)
      BY <1>3, <1>11, <3>1
    <3>2. CASE q = req
      BY <1>2, <1>3, <3>2
    <3>3. QED
      BY <1>9, <3>1, <3>2
  <2>2. done'[r] \subseteq Handles(r)'
    BY <1>3, <1>7, <1>9 DEF RequestsInv
  <2>3. IsSeq(pending[r])'
    BY <1>9 DEF IsSeq
  <2>4. rnd'[r] = rnd[r]
    BY <1>3
  <2>5. QED
    BY <1>1, <1>8, <2>1, <2>2, <2>3, <2>4 DEF RequestsInv, SendBlock
<1>13. <<"send", b>> \notin done[r]
  <2>1. <<"send", b>> \notin Handles(r)
    BY <1>3, <1>11, Distinct
  <2>2. QED
    BY <1>7, <2>1 DEF RequestsInv
<1>14. \A e, k, m : IsMessage(r, e, k, m) /\ Flying(r, e, k, m) => Flying(r, e, k, m)'
  <2>1. \A k, e : Read(r, SendBlock(e, k))' = Read(r, SendBlock(e, k))
    BY <1>3 DEF Read, SendBlock
  <2>2. Handles(r) \subseteq Handles(r)' /\ done'[r] = done[r] /\ rnd'[r] = rnd[r]
    BY <1>3, <1>9
  <2>3. QED
    BY <1>8, <2>1, <2>2, FlyingKept
<1>15. ASSUME NEW e \in Peers(r), e # d PROVE NetInv(r, e)'
  <2>1. NetInv(r, e)
    BY DEF UcxInv, Peers
  <2>2. Received(e, r)' = Received(e, r)
    BY <1>5, <1>6, OthersKept DEF Peers
  <2>3. Unmoved(r, e)
    BY <1>1, <1>2, <1>3, <1>15, <2>2 DEF Unmoved, TypeInv, Peers
  <2>4. QED
    BY <1>1, <1>14, <2>1, <2>3, NetKept
<1>16. NetInv(r, d)'
  <2>1. PICK m : m = [tag |-> Tag(ReservedTag, r), val |-> v, ref |-> b, req |-> req]
    OBVIOUS
  <2>2. PICK k, c, q : k = rnd[r] /\ c = Received(d, r) /\ q = net[r][d]
    OBVIOUS
  <2>3. k \in Nat /\ rnd'[r] = k
    BY <1>1, <1>3, <2>2 DEF TypeInv
  <2>4. Received(d, r)' = c
    BY <1>4, <1>5, <1>6, <2>2, OthersKept
  <2>5. net'[r][d] = Append(q, m)
    BY <1>1, <1>2, <1>4, <2>1, <2>2 DEF TypeInv
  <2>6. /\ IsSeq(q) /\ Len(q) = Len(sent[r][d]) - c
        /\ \A j \in DOMAIN q : /\ IsMessage(r, d, c + j, q[j])
                               /\ q[j].req # NoRequest => Flying(r, d, c + j, q[j])
    <3>1. NetInv(r, d)
      BY <1>4 DEF UcxInv
    <3>2. QED
      BY <1>4, <2>2, <3>1 DEF NetInv
  <2>7. Len(sent[r][d]) = k - 1 /\ IsSeq(sent[r][d])
    <3>1. SentInv(r, d)
      BY <1>4 DEF AllSent
    <3>2. QED
      BY <1>3, <1>4, <2>2, <3>1 DEF SentInv
  <2>8. Len(sent'[r][d]) = k
    <3>1. sent'[r][d] = Append(sent[r][d], v)
      BY <1>1, <1>3, <1>4 DEF TypeInv
    <3>2. Len(Append(sent[r][d], v)) = Len(sent[r][d]) + 1
      BY <2>7, AppendIs DEF Appended
    <3>3. QED
      BY <2>3, <2>7, <3>1, <3>2
  <2>9. Appended(Append(q, m), q, m)
    BY <2>6, AppendIs
  <2>10. Len(q) \in Nat /\ DOMAIN q = 1 .. Len(q) /\ DOMAIN Append(q, m) = 1 .. Len(Append(q, m))
    BY <2>6, <2>9, IsSeqDomain DEF Appended
  <2>11. c \in Int /\ c + (Len(q) + 1) = k
    <3>1. c \in Int
      BY <1>1, <1>4, <2>2 DEF Received, TypeInv
    <3>2. QED
      BY <2>3, <2>6, <2>7, <2>10, <3>1
  <2>12. IsMessage(r, d, k, m)' /\ IsMessage(r, d, k, m)
    <3>1. m.val = v /\ m.req = req /\ b = SendBlock(d, k)
      BY <2>1, <2>2
    <3>2. IsMessage(r, d, k, m)
      BY <2>1, <3>1 DEF IsMessage
    <3>3. QED
      BY <3>2 DEF IsMessage, Tag, ReservedTag, SendBlock
  <2>13. m.req # NoRequest => Flying(r, d, k, m)'
    <3>1. m.val = v /\ m.req = req /\ m.ref = b /\ b = SendBlock(d, k)
      BY <2>1, <2>2
    <3>2. v = Read(r, m.ref)'
      <4>1. v = Read(r, m.ref)
        BY <3>1
      <4>2. QED
        BY <1>3, <4>1 DEF Read
    <3>3. m.req # NoRequest => m.req = <<"send", SendBlock(d, k)>> /\ m.req \in Handles(r)' /\ m.req \notin done'[r]
      BY <1>2, <1>3, <1>9, <1>13, <3>1
    <3>4. QED
      BY <1>8, <2>3, <3>1, <3>2, <3>3 DEF Flying, SendBlock
  <2>14. ASSUME NEW j \in 1 .. Len(q) + 1
         PROVE  LET e == Append(q, m)[j] IN
                /\ IsMessage(r, d, c + j, e)'
                /\ e.req # NoRequest => Flying(r, d, c + j, e)'
    <3>1. CASE j = Len(q) + 1
      <4>1. Append(q, m)[j] = m /\ c + j = k
        BY <2>9, <2>11, <3>1 DEF Appended
      <4>2. QED
        BY <2>12, <2>13, <4>1
    <3>2. CASE j # Len(q) + 1
      <4>1. j \in DOMAIN q /\ Append(q, m)[j] = q[j]
        BY <2>9, <2>10, <3>2 DEF Appended
      <4>2. IsMessage(r, d, c + j, q[j]) /\ (q[j].req # NoRequest => Flying(r, d, c + j, q[j])')
        BY <1>14, <2>6, <4>1
      <4>3. IsMessage(r, d, c + j, q[j])'
        BY <4>2 DEF IsMessage, Tag, ReservedTag, SendBlock
      <4>4. QED
        BY <4>1, <4>2, <4>3
    <3>3. QED
      BY <3>1, <3>2
  <2>15. IsSeq(net[r][d])' /\ Len(net'[r][d]) = k - c /\ DOMAIN net'[r][d] = 1 .. Len(q) + 1
    BY <2>3, <2>5, <2>9, <2>10, <2>11 DEF Appended, IsSeq
  <2>16. QED
    BY <1>1, <1>4, <2>4, <2>5, <2>8, <2>14, <2>15 DEF NetInv
<1>17. \A e \in Peers(r) : NetInv(r, e)'
  BY <1>15, <1>16
<1>18. net'[r][r] = net[r][r]
  BY <1>1, <1>2, <1>4 DEF TypeInv
<1>19. QED
  BY <1>5, <1>6, <1>10, <1>12, <1>17, <1>18, UcxAssemble

\* So does recv: a receive is posted for every peer, into a block of this round.
LEMMA ReceivesKept ==
  ASSUME ControlInv, UcxInv, NEW r \in Ranks, RankStep(r), Receives(r), Unbuffered
  PROVE  UcxInv'
<1>1. kind' = kind /\ TypeInv /\ (Unbuffered' <=> Unbuffered)
  BY ControlStep DEF ControlInv, Unbuffered
<1>2. /\ UNCHANGED <<net, done, sent, rnd>>
      /\ NextCall(r) = "recv" /\ NextCall(r)' = "stop"
      /\ \A d, k : Read(r, SendBlock(d, k))' = Read(r, SendBlock(d, k))
  BY DEF Receives
<1>3. Local(r)
  BY <1>1 DEF Local, Receives, TypeInv
<1>4. PostedInv(r) /\ RequestsInv(r) /\ posted[r] = <<>> /\ N \in Nat /\ N >= 1
  BY <1>2, NAssumption DEF UcxInv, PostedInv
<1>5. Moving(r) /\ Moving(r)'
  BY <1>2 DEF Moving
<1>6. PICK p, e : p = [i \in 1 .. N - 1 |-> Post(r, Nth(r, i))] /\ e = [i \in 1 .. N - 1 |-> Post(r, Nth(r, i)).req]
  OBVIOUS
<1>7. IsSeq(p) /\ IsSeq(e) /\ Len(p) = N - 1 /\ Len(e) = N - 1
  <2>1. p \in Seq({Post(r, Nth(r, i)) : i \in 1 .. N - 1}) /\ e \in Seq({Post(r, Nth(r, i)).req : i \in 1 .. N - 1})
    BY <1>4, <1>6
  <2>2. Len(p) = N - 1 /\ Len(e) = N - 1
    BY <1>4, <1>6
  <2>3. QED
    BY <2>1, <2>2, SeqIs
<1>8. posted'[r] = <<>> \o p /\ pending'[r] = pending[r] \o e
  BY <1>1, <1>4, <1>6 DEF Receives, TypeInv
<1>9. IsSeq(posted'[r]) /\ DOMAIN posted'[r] = 1 .. N - 1 /\ \A i \in 1 .. N - 1 : posted'[r][i] = Post(r, Nth(r, i))
  <2>1. IsSeq(<<>>)
    BY DEF IsSeq
  <2>2. IsSeq(<<>> \o p) /\ IsJoined(<<>> \o p, <<>>, p)
    BY <1>7, <2>1, JoinIs
  <2>3. PICK x : x = <<>> \o p
    OBVIOUS
  <2>4. Len(x) = N - 1 /\ \A i \in 1 .. N - 1 : x[i] = p[i]
    <3>1. IsJoined(x, <<>>, p)
      BY <2>2, <2>3
    <3>2. Len(x) = 0 + (N - 1) /\ \A i \in 1 .. N - 1 : x[0 + i] = p[i]
      BY <1>7, <3>1 DEF IsJoined
    <3>3. QED
      BY <1>4, <3>2
  <2>5. IsSeq(x)
    BY <2>2, <2>3
  <2>6. DOMAIN x = 1 .. N - 1
    BY <2>4, <2>5, IsSeqDomain
  <2>7. QED
    BY <1>6, <1>8, <2>3, <2>4, <2>5, <2>6
<1>10. /\ IsSeq(pending'[r])
       /\ \A q : q \in Handles(r)' <=> q \in Handles(r) \/ \E s \in Peers(r) : q = <<"recv", RecvBlock(s, rnd[r])>>
  <2>1. PICK a, x : a = pending[r] /\ x = a \o e
    OBVIOUS
  <2>2. IsSeq(a)
    BY <1>4, <2>1 DEF RequestsInv
  <2>3. IsSeq(x) /\ IsJoined(x, a, e)
    BY <1>7, <2>1, <2>2, JoinIs
  <2>4. DOMAIN a = 1 .. Len(a) /\ Len(a) \in Nat /\ DOMAIN x = 1 .. Len(x)
    BY <2>2, <2>3, IsSeqDomain
  <2>5. Len(x) = Len(a) + (N - 1) /\ (\A i \in 1 .. Len(a) : x[i] = a[i]) /\ \A i \in 1 .. N - 1 : x[Len(a) + i] = e[i]
    BY <1>7, <2>3 DEF IsJoined
  <2>6. \A i \in 1 .. N - 1 : e[i] = <<"recv", RecvBlock(Nth(r, i), rnd[r])>>
    BY <1>6 DEF Post
  <2>7. ASSUME NEW s \in Peers(r) PROVE \E i \in 1 .. N - 1 : Nth(r, i) = s
    BY NthIs
  <2>8. \A i \in 1 .. N - 1 : Nth(r, i) \in Peers(r)
    BY NthIs
  <2>9. ASSUME NEW q PROVE q \in {x[i] : i \in DOMAIN x} <=> q \in {a[i] : i \in DOMAIN a} \/ \E i \in 1 .. N - 1 : q = e[i]
    <3>1. ASSUME NEW i \in DOMAIN x PROVE x[i] \in {a[k] : k \in DOMAIN a} \/ \E k \in 1 .. N - 1 : x[i] = e[k]
      <4>1. CASE i <= Len(a)
        BY <2>4, <2>5, <4>1
      <4>2. CASE ~(i <= Len(a))
        <5>1. i - Len(a) \in 1 .. N - 1 /\ Len(a) + (i - Len(a)) = i
          BY <1>4, <2>4, <2>5, <4>2
        <5>2. QED
          BY <2>5, <5>1
      <4>3. QED
        BY <4>1, <4>2
    <3>2. \A k \in DOMAIN a : k \in DOMAIN x /\ x[k] = a[k]
      BY <1>4, <2>4, <2>5
    <3>3. \A k \in 1 .. N - 1 : Len(a) + k \in DOMAIN x /\ x[Len(a) + k] = e[k]
      BY <1>4, <2>4, <2>5
    <3>4. QED
      BY <3>1, <3>2, <3>3
  <2>10. Handles(r)' = {x[i] : i \in DOMAIN x} /\ Handles(r) = {a[i] : i \in DOMAIN a}
    BY <1>8, <2>1 DEF Handles
  <2>11. \A q : q \in Handles(r)' <=> q \in Handles(r) \/ \E i \in 1 .. N - 1 : q = e[i]
    BY <2>9, <2>10
  <2>12. \A q : (\E i \in 1 .. N - 1 : q = e[i]) <=> \E s \in Peers(r) : q = <<"recv", RecvBlock(s, rnd[r])>>
    BY <2>6, <2>7, <2>8
  <2>13. QED
    BY <1>8, <2>1, <2>3, <2>11, <2>12
<1>11. \A q \in Handles(r) :
         \/ q = NoRequest
         \/ \E d \in Peers(r) : q = <<"send", SendBlock(d, rnd[r])>>
  BY <1>2, <1>4, <1>5 DEF RequestsInv
<1>12. PostedInv(r)'
  <2>1. \A s : Post(r, s)' = Post(r, s)
    BY <1>2 DEF Post, Tag, ReservedTag, RecvBlock
  <2>2. \A s \in Peers(r) : Post(r, s).req \in Handles(r)' \ done'[r]
    <3>1. \A s \in Peers(r) : Post(r, s).req = <<"recv", RecvBlock(s, rnd[r])>>
      BY DEF Post
    <3>2. \A s : <<"recv", RecvBlock(s, rnd[r])>> \notin Handles(r)
      BY <1>11, Distinct
    <3>3. done[r] \subseteq Handles(r)
      BY <1>4 DEF RequestsInv
    <3>4. QED
      BY <1>2, <1>10, <3>1, <3>2, <3>3
  <2>3. \A i \in 1 .. N - 1 : Nth(r, i) \in Peers(r) /\ posted'[r][i] = Post(r, Nth(r, i))
    BY <1>9, NthIs
  <2>4. ASSUME NEW i \in 1 .. N - 1, NEW j \in 1 .. N - 1, posted'[r][i] = posted'[r][j] PROVE i = j
    <3>1. Post(r, Nth(r, i)).tag = Post(r, Nth(r, j)).tag
      BY <1>9, <2>4
    <3>2. Tag(ReservedTag, Nth(r, i)) = Tag(ReservedTag, Nth(r, j))
      BY <3>1 DEF Post
    <3>3. Nth(r, i) = Nth(r, j)
      BY <2>3, <3>2, TagIs DEF Peers
    <3>4. QED
      BY <3>3, NthIs
  <2>5. IsSeq(posted[r])'
    BY <1>9 DEF IsSeq
  <2>6. QED
    BY <1>1, <1>2, <1>9, <2>1, <2>2, <2>3, <2>4, <2>5 DEF PostedInv
<1>13. RequestsInv(r)'
  <2>1. \A d : ~Unsent(r, d)'
    BY <1>2 DEF Unsent
  <2>2. \A d : <<"send", SendBlock(d, rnd[r])>>' = <<"send", SendBlock(d, rnd[r])>>
    BY <1>2 DEF SendBlock
  <2>3. \A d : <<"recv", RecvBlock(d, rnd[r])>>' = <<"recv", RecvBlock(d, rnd[r])>>
    BY <1>2 DEF RecvBlock
  <2>4. done'[r] \subseteq Handles(r)' /\ IsSeq(pending[r])'
    BY <1>2, <1>4, <1>10 DEF RequestsInv, IsSeq
  <2>5. QED
    BY <1>1, <1>2, <1>5, <1>10, <1>11, <2>1, <2>2, <2>3, <2>4 DEF RequestsInv
<1>14. \A s \in Peers(r) : Received(r, s)' = Received(r, s)
  <2> TAKE s \in Peers(r)
  <2>1. PICK i \in 1 .. N - 1 : Nth(r, i) = s
    BY NthIs
  <2>2. posted'[r][i].tag = Tag(ReservedTag, s) /\ i \in DOMAIN posted'[r]
    <3>1. posted'[r][i] = Post(r, s) /\ i \in DOMAIN posted'[r]
      BY <1>9, <2>1
    <3>2. Post(r, s).tag = Tag(ReservedTag, s)
      BY DEF Post
    <3>3. QED
      BY <3>1, <3>2
  <2>3. Awaited(r, s)'
    BY <2>2 DEF Awaited, Tag, ReservedTag
  <2>4. QED
    BY <1>2, <2>3 DEF Received
<1>15. ASSUME NEW d \in Peers(r) PROVE NetInv(r, d)'
  <2>1. NetInv(r, d)
    BY DEF UcxInv, Peers
  <2>2. Received(d, r)' = Received(d, r)
    BY <1>3, <1>14, OthersKept DEF Peers
  <2>3. Unmoved(r, d)
    BY <1>2, <2>2 DEF Unmoved
  <2>4. \A k, m : IsMessage(r, d, k, m) /\ Flying(r, d, k, m) => Flying(r, d, k, m)'
    <3>1. Handles(r) \subseteq Handles(r)'
      BY <1>10
    <3>2. QED
      BY <1>2, <1>5, <3>1, FlyingKept
  <2>5. QED
    BY <1>1, <2>1, <2>3, <2>4, NetKept
<1>16. QED
  BY <1>2, <1>3, <1>12, <1>13, <1>14, <1>15, UcxAssemble

\* So does the return of stop, and nothing was left posted then.
LEMMA StopsKept ==
  ASSUME ControlInv, UcxInv, NEW r \in Ranks, RankStep(r), Stops(r), Unbuffered
  PROVE  UcxInv' /\ posted[r] = <<>>
<1>1. kind' = kind /\ TypeInv
  BY ControlStep DEF ControlInv
<1>2. /\ UNCHANGED <<net, posted, pending, sent, rnd>>
      /\ NextCall(r) = "stop" /\ NextCall(r)' = "free"
      /\ done'[r] = done[r] \ Handles(r)
  BY <1>1 DEF Stops, TypeInv
<1>3. Local(r)
  BY <1>1 DEF Local, Stops, TypeInv
<1>4. \A q \in Handles(r) : q \in done[r] \/ q = NoRequest
  BY DEF Stops, Finished, Handles
<1>5. PostedInv(r) /\ RequestsInv(r)
  BY DEF UcxInv
<1>6. posted[r] = <<>>
  <2>1. ASSUME NEW i \in DOMAIN posted[r] PROVE FALSE
    <3>1. PICK s \in Peers(r) : Post(r, s).req \in Handles(r) \ done[r]
      BY <1>5 DEF PostedInv
    <3>2. Post(r, s).req = <<"recv", RecvBlock(s, rnd[r])>>
      BY DEF Post
    <3>3. QED
      BY <1>4, <3>1, <3>2, Distinct
  <2>2. IsSeq(posted[r])
    BY <1>5 DEF PostedInv
  <2>3. DOMAIN posted[r] = 1 .. Len(posted[r]) /\ Len(posted[r]) \in Nat
    BY <2>2, IsSeqDomain
  <2>4. Len(posted[r]) = 0
    <3>1. Len(posted[r]) > 0 => 1 \in DOMAIN posted[r]
      BY <2>3
    <3>2. QED
      BY <2>1, <2>3, <3>1
  <2>5. QED
    BY <2>2, <2>4 DEF IsSeq
<1>7. \A s : Received(r, s)' = Received(r, s)
  BY <1>2, <1>6 DEF Received, Awaited
<1>8. PostedInv(r)'
  BY <1>2, <1>6 DEF PostedInv, IsSeq
<1>9. RequestsInv(r)'
  <2>1. done'[r] = {}
    BY <1>2, <1>5 DEF RequestsInv
  <2>2. ~Moving(r)'
    BY <1>2 DEF Moving
  <2>3. IsSeq(pending[r])'
    BY <1>2, <1>5 DEF RequestsInv, IsSeq
  <2>4. QED
    BY <2>1, <2>2, <2>3 DEF RequestsInv
<1>10. ASSUME NEW d \in Peers(r) PROVE NetInv(r, d)'
  <2>1. NetInv(r, d)
    BY DEF UcxInv, Peers
  <2>2. Received(d, r)' = Received(d, r)
    BY <1>3, <1>7, OthersKept DEF Peers
  <2>3. Unmoved(r, d)
    BY <1>2, <2>2 DEF Unmoved
  <2>4. \A k, m : ~Flying(r, d, k, m)
    BY <1>4, Distinct DEF Flying
  <2>5. QED
    BY <1>1, <2>1, <2>3, <2>4, NetKept
<1>11. QED
  BY <1>2, <1>3, <1>6, <1>7, <1>8, <1>9, <1>10, UcxAssemble

\* Progress of UCX moves no rank on.
LEMMA ProgressIs ==
  ASSUME ControlInv, NEW r \in Ranks, Progress(r)
  PROVE  /\ rnd' = rnd /\ sent' = sent /\ kind' = kind /\ (Unbuffered' <=> Unbuffered)
         /\ \A x \in Ranks : NextCall(x)' = NextCall(x) /\ Sending(x)' = Sending(x)
<1>1. session' = session /\ ip' = ip /\ rnd' = rnd /\ sent' = sent
  BY DEF Progress, user, hist
<1>2. TypeInv /\ \A x \in Ranks : WhereInv(x)
  BY DEF ControlInv
<1>3. \A x \in Ranks : NextCall(x)' = NextCall(x) /\ Sending(x)' = Sending(x)
  BY <1>1, <1>2, Waits
<1>4. kind' = kind /\ (Unbuffered' <=> Unbuffered)
  BY <1>1 DEF kind, Unbuffered
<1>5. QED
  BY <1>1, <1>3, <1>4

\* A request that completes is one that stop waits for.
LEMMA RequestsGrow ==
  ASSUME ControlInv, NEW r \in Ranks, Progress(r), NEW x \in Ranks, RequestsInv(x), pending'[x] = pending[x],
         done'[x] \subseteq Handles(x), done'[x] # {} => Moving(x) /\ Unbuffered
  PROVE  RequestsInv(x)'
<1>1. /\ rnd'[x] = rnd[x] /\ kind' = kind /\ (Unbuffered' <=> Unbuffered)
      /\ NextCall(x)' = NextCall(x) /\ Sending(x)' = Sending(x)
  BY ProgressIs
<1>2. Handles(x)' = Handles(x)
  BY DEF Handles
<1>3. \A d : Unsent(x, d)' <=> Unsent(x, d)
  BY <1>1 DEF Unsent, Index
<1>4. IsSeq(pending[x])'
  BY DEF RequestsInv, IsSeq
<1>5. Moving(x)' <=> Moving(x)
  BY <1>1 DEF Moving
<1>6. \A d : <<"send", SendBlock(d, rnd[x])>>' = <<"send", SendBlock(d, rnd[x])>>
  BY <1>1 DEF SendBlock
<1>7. \A d : <<"recv", RecvBlock(d, rnd[x])>>' = <<"recv", RecvBlock(d, rnd[x])>>
  BY <1>1 DEF RecvBlock
<1>8. QED
  BY <1>1, <1>2, <1>3, <1>4, <1>5, <1>6, <1>7 DEF RequestsInv

\* A receive stays posted until it is complete.
LEMMA PostedKept ==
  ASSUME ControlInv, NEW r \in Ranks, Progress(r), NEW x \in Ranks, PostedInv(x),
         posted'[x] = posted[x], pending'[x] = pending[x],
         \A s : <<"recv", RecvBlock(s, rnd[x])>> \in done'[x] => <<"recv", RecvBlock(s, rnd[x])>> \in done[x]
  PROVE  PostedInv(x)'
<1>1. /\ rnd'[x] = rnd[x] /\ kind' = kind /\ (Unbuffered' <=> Unbuffered)
      /\ NextCall(x)' = NextCall(x)
  BY ProgressIs
<1>2. Handles(x)' = Handles(x)
  BY DEF Handles
<1>3. \A s : Post(x, s)' = Post(x, s)
  BY <1>1 DEF Post, Tag, ReservedTag, RecvBlock
<1>4. IsSeq(posted[x])'
  BY DEF PostedInv, IsSeq
<1>5. \A s : Post(x, s).req = <<"recv", RecvBlock(s, rnd[x])>>
  BY DEF Post
<1>6. \A s : Post(x, s).req \notin done[x] => Post(x, s).req \notin done'[x]
  BY <1>5
<1>7. QED
  BY <1>1, <1>2, <1>3, <1>4, <1>6 DEF PostedInv

\* A message that UCX has read out of its sender's block keeps UcxInv.
LEMMA FlushesKept ==
  ASSUME ControlInv, UcxInv, NEW r \in Ranks, Progress(r), Unbuffered, NEW d \in Peers(r), NEW j \in DOMAIN net[r][d],
         Flushes(r, d, j)
  PROVE  UcxInv'
<1>1. /\ rnd' = rnd /\ sent' = sent /\ kind' = kind /\ (Unbuffered' <=> Unbuffered)
      /\ \A x \in Ranks : NextCall(x)' = NextCall(x) /\ Sending(x)' = Sending(x)
  BY ProgressIs
<1>2. d \in Ranks /\ d # r
  BY DEF Peers
<1>3. PICK m, c, q : m = net[r][d][j] /\ c = Received(d, r) /\ q = net[r][d]
  OBVIOUS
<1>4. /\ m.req # NoRequest
      /\ \A x, y \in Ranks : x # r \/ y # d => net'[x][y] = net[x][y]
      /\ IsSeq(net'[r][d]) /\ Len(net'[r][d]) = Len(q)
      /\ \A k \in DOMAIN q : k # j => net'[r][d][k] = q[k]
      /\ \A k : IsMessage(r, d, k, m) => IsMessage(r, d, k, net'[r][d][j])
      /\ net'[r][d][j].req = NoRequest
      /\ done' = [done EXCEPT ![r] = @ \cup ({m.req} \ {NoRequest})]
      /\ UNCHANGED <<blocks, posted, pending>>
  BY <1>3, Zenon DEF Flushes, Completed, memVars
<1>5. /\ IsSeq(q) /\ Len(q) = Len(sent[r][d]) - c
      /\ \A k \in DOMAIN q : /\ IsMessage(r, d, c + k, q[k])
                             /\ q[k].req # NoRequest => Flying(r, d, c + k, q[k])
  <2>1. NetInv(r, d)
    BY <1>2 DEF UcxInv
  <2>2. QED
    BY <1>2, <1>3, <2>1 DEF NetInv
<1>6. Flying(r, d, c + j, m) /\ j \in DOMAIN q
  BY <1>3, <1>4, <1>5
<1>7. m.req = <<"send", SendBlock(d, c + j)>> /\ m.req \in Handles(r) /\ Moving(r) /\ c + j = rnd[r]
  BY <1>6 DEF Flying
<1>8. /\ \A x \in Ranks \ {r} : done'[x] = done[x]
      /\ done'[r] = done[r] \cup {m.req}
  BY <1>4 DEF ControlInv, TypeInv
<1>9. ASSUME NEW x \in Ranks PROVE PostedInv(x)' /\ RequestsInv(x)'
  <2>1. PostedInv(x) /\ RequestsInv(x)
    BY DEF UcxInv
  <2>2. PostedInv(x)'
    <3>1. \A s : <<"recv", RecvBlock(s, rnd[x])>> \in done'[x] => <<"recv", RecvBlock(s, rnd[x])>> \in done[x]
      BY <1>7, <1>8, Distinct
    <3>2. posted'[x] = posted[x] /\ pending'[x] = pending[x]
      BY <1>4
    <3>3. QED
      BY <2>1, <3>1, <3>2, PostedKept
  <2>3. RequestsInv(x)'
    <3>1. done'[x] \subseteq Handles(x) /\ (done'[x] # {} => Moving(x) /\ Unbuffered)
      <4>1. done[x] \subseteq Handles(x) /\ (done[x] # {} => Moving(x) /\ Unbuffered)
        BY <2>1 DEF RequestsInv
      <4>2. QED
        BY <1>7, <1>8, <4>1
    <3>2. pending'[x] = pending[x]
      BY <1>4
    <3>3. QED
      BY <2>1, <3>1, <3>2, RequestsGrow
  <2>4. QED
    BY <2>2, <2>3
<1>10. \A x \in Ranks : \A y : Received(x, y)' = Received(x, y)
  BY <1>1, <1>4 DEF Received, Awaited, Tag, ReservedTag
<1>11. \A x \in Ranks : Handles(x)' = Handles(x) /\ (Moving(x)' <=> Moving(x)) /\ rnd'[x] = rnd[x]
  BY <1>1, <1>4 DEF Handles, Moving
<1>12. ASSUME NEW x \in Ranks, NEW y \in Ranks, x # r \/ y # d PROVE NetInv(x, y)'
  <2>1. NetInv(x, y)
    BY DEF UcxInv
  <2>2. Unmoved(x, y)
    BY <1>1, <1>4, <1>10, <1>12 DEF Unmoved
  <2>3. \A k : <<"send", SendBlock(y, k)>> \in done'[x] => <<"send", SendBlock(y, k)>> \in done[x]
    BY <1>7, <1>8, <1>12, Distinct
  <2>4. \A k : Read(x, SendBlock(y, k))' = Read(x, SendBlock(y, k))
    BY <1>4 DEF Read, SendBlock
  <2>5. \A k, e : IsMessage(x, y, k, e) /\ Flying(x, y, k, e) => Flying(x, y, k, e)'
    BY <1>11, <2>3, <2>4, FlyingKept
  <2>6. QED
    BY <1>1, <2>1, <2>2, <2>5, NetKept
<1>13. NetInv(r, d)'
  <2>1. DOMAIN net'[r][d] = DOMAIN q /\ DOMAIN q = 1 .. Len(q)
    BY <1>4, <1>5, IsSeqDomain
  <2>2. Received(d, r)' = c
    BY <1>2, <1>3, <1>10
  <2>3. c \in Int
    BY <1>2, <1>3 DEF Received, ControlInv, TypeInv
  <2>4. ASSUME NEW k \in DOMAIN q
        PROVE  IsMessage(r, d, c + k, net'[r][d][k]) /\ net'[r][d][k].req = NoRequest
    <3>1. CASE k = j
      BY <1>3, <1>4, <1>5, <3>1
    <3>2. CASE k # j
      <4>1. net'[r][d][k] = q[k] /\ IsMessage(r, d, c + k, q[k])
        BY <1>4, <1>5, <3>2
      <4>2. ~Flying(r, d, c + k, q[k])
        <5>1. Flying(r, d, c + k, q[k]) => c + k = rnd[r]
          BY DEF Flying
        <5>2. c + k # c + j
          BY <1>6, <2>1, <2>3, <3>2
        <5>3. QED
          BY <1>7, <5>1, <5>2
      <4>3. QED
        BY <1>5, <4>1, <4>2
    <3>3. QED
      BY <3>1, <3>2
  <2>5. PICK p : p = net'[r][d]
    OBVIOUS
  <2>6. \A k \in DOMAIN p : IsMessage(r, d, c + k, p[k])' /\ p[k].req = NoRequest
    <3>1. \A k \in DOMAIN p : IsMessage(r, d, c + k, p[k]) /\ p[k].req = NoRequest
      BY <2>1, <2>4, <2>5
    <3>2. QED
      BY <3>1 DEF IsMessage, Tag, ReservedTag, SendBlock
  <2>7. IsSeq(net[r][d])' /\ Len(net'[r][d]) = Len(sent'[r][d]) - c
    BY <1>1, <1>4, <1>5 DEF IsSeq
  <2>8. QED
    BY <1>1, <1>2, <2>2, <2>5, <2>6, <2>7 DEF NetInv
<1>14. QED
  BY <1>9, <1>12, <1>13 DEF UcxInv

\* A message that UCX has delivered keeps UcxInv.
LEMMA DeliversKept ==
  ASSUME ControlInv, UcxInv, NEW r \in Ranks, Progress(r), NEW s \in Peers(r), NEW i \in DOMAIN posted[r], Delivers(r, s, i)
  PROVE  UcxInv'
<1>1. /\ rnd' = rnd /\ sent' = sent /\ kind' = kind /\ (Unbuffered' <=> Unbuffered)
      /\ \A x \in Ranks : NextCall(x)' = NextCall(x) /\ Sending(x)' = Sending(x)
  BY ProgressIs
<1>2. s \in Ranks /\ s # r /\ TypeInv
  BY DEF Peers, ControlInv
<1>3. PICK m, c, q, v : /\ m = net[s][r][1] /\ c = Received(r, s) /\ q = net[s][r]
                        /\ v = IF m.req = NoRequest THEN m.val ELSE Read(s, m.ref)
  OBVIOUS
<1>4. /\ NextCall(r) = "stop" /\ Unbuffered
      /\ posted[r][i] = Post(r, s) /\ q # <<>>
      /\ blocks' = [blocks EXCEPT ![r] = Write(@, Only(RecvBlock(s, rnd[r]), v))]
      /\ net' = [net EXCEPT ![s][r] = Drop(@, 1)]
      /\ posted' = [posted EXCEPT ![r] = Drop(@, i)]
      /\ done' = Completed(Completed(done, s, m.req), r, Post(r, s).req)
      /\ pending' = pending
  BY <1>3, Zenon DEF Delivers
<1>5. /\ IsSeq(q) /\ Len(q) = Len(sent[s][r]) - c
      /\ \A k \in DOMAIN q : /\ IsMessage(s, r, c + k, q[k])
                             /\ q[k].req # NoRequest => Flying(s, r, c + k, q[k])
  <2>1. NetInv(s, r)
    BY <1>2 DEF UcxInv
  <2>2. QED
    BY <1>2, <1>3, <1>4, <2>1 DEF NetInv
<1>6. Len(q) \in Nat /\ DOMAIN q = 1 .. Len(q) /\ 1 \in DOMAIN q
  <2>1. Len(q) \in Nat /\ DOMAIN q = 1 .. Len(q)
    BY <1>5, IsSeqDomain
  <2>2. Len(q) # 0
    BY <1>4, <1>5, <2>1 DEF IsSeq
  <2>3. QED
    BY <2>1, <2>2
<1>7. m.req # NoRequest => /\ m.req = <<"send", SendBlock(r, c + 1)>> /\ m.req \in Handles(s) /\ Moving(s)
                           /\ c + 1 = rnd[s]
  BY <1>3, <1>5, <1>6 DEF Flying
<1>8. Post(r, s).req = <<"recv", RecvBlock(s, rnd[r])>> /\ Post(r, s).req # NoRequest /\ Post(r, s).tag = Tag(ReservedTag, s)
  BY Distinct DEF Post
<1>9. PICK p : p = Post(r, s).req
  OBVIOUS
<1>10. /\ \A x \in Ranks \ {r, s} : done'[x] = done[x]
       /\ done'[r] = done[r] \cup {p}
       /\ done'[s] = done[s] \cup ({m.req} \ {NoRequest})
  BY <1>2, <1>4, <1>8, <1>9 DEF TypeInv, Completed
<1>11. PostedInv(r) /\ RequestsInv(r) /\ PostedInv(s) /\ RequestsInv(s) /\ Moving(r)
  BY <1>2, <1>4 DEF UcxInv, Moving
<1>12. p \in Handles(r)
  <2>1. PICK t \in Peers(r) : posted[r][i] = Post(r, t) /\ Post(r, t).req \in Handles(r)
    BY <1>11 DEF PostedInv
  <2>2. QED
    BY <1>4, <1>9, <2>1
<1>13. ASSUME NEW x \in Ranks PROVE RequestsInv(x)'
  <2>1. RequestsInv(x)
    BY DEF UcxInv
  <2>2. done'[x] \subseteq Handles(x) /\ (done'[x] # {} => Moving(x) /\ Unbuffered)
    <3>1. done[x] \subseteq Handles(x) /\ (done[x] # {} => Moving(x) /\ Unbuffered)
      BY <2>1 DEF RequestsInv
    <3>2. QED
      BY <1>4, <1>7, <1>10, <1>11, <1>12, <3>1
  <2>3. pending'[x] = pending[x]
    BY <1>4
  <2>4. QED
    BY <2>1, <2>2, <2>3, RequestsGrow
<1>14. ASSUME NEW x \in Ranks \ {r} PROVE PostedInv(x)'
  <2>1. PostedInv(x)
    BY DEF UcxInv
  <2>2. \A t : <<"recv", RecvBlock(t, rnd[x])>> \in done'[x] => <<"recv", RecvBlock(t, rnd[x])>> \in done[x]
    BY <1>7, <1>10, Distinct
  <2>3. posted'[x] = posted[x] /\ pending'[x] = pending[x]
    BY <1>2, <1>4 DEF TypeInv
  <2>4. QED
    BY <2>1, <2>2, <2>3, PostedKept
<1>15. PICK e, f : e = posted'[r] /\ f = posted[r]
  OBVIOUS
<1>16. IsSeq(f) /\ DOMAIN f = 1 .. Len(f) /\ Len(f) \in Nat
  BY <1>11, <1>15, IsSeqDomain DEF PostedInv
<1>17. Dropped(e, f, i) /\ DOMAIN e = 1 .. Len(e)
  <2>1. e = Drop(f, i)
    BY <1>2, <1>4, <1>15 DEF TypeInv
  <2>2. Dropped(Drop(f, i), f, i)
    BY <1>15, <1>16, DropIs
  <2>3. QED
    BY <2>1, <2>2, IsSeqDomain DEF Dropped
<1>18. \A k \in DOMAIN e : \E l \in DOMAIN f : l # i /\ e[k] = f[l] /\ l = IF k < i THEN k ELSE k + 1
  <2> TAKE k \in DOMAIN e
  <2>1. i \in 1 .. Len(f)
    BY <1>15, <1>16
  <2>2. Len(e) = Len(f) - 1 /\ k \in 1 .. Len(e) /\ e[k] = IF k < i THEN f[k] ELSE f[k + 1]
    BY <1>17 DEF Dropped
  <2>3. CASE k < i
    BY <1>16, <2>1, <2>2, <2>3
  <2>4. CASE ~(k < i)
    BY <1>16, <2>1, <2>2, <2>4
  <2>5. QED
    BY <2>3, <2>4
<1>19. ASSUME NEW l \in DOMAIN f, l # i
       PROVE  \E t \in Peers(r) : t # s /\ f[l] = Post(r, t) /\ Post(r, t).req \in Handles(r) \ done'[r]
  <2>1. PICK t \in Peers(r) : f[l] = Post(r, t) /\ Post(r, t).req \in Handles(r) \ done[r]
    BY <1>11, <1>15 DEF PostedInv
  <2>2. t # s
    BY <1>4, <1>11, <1>15, <1>19, <2>1 DEF PostedInv
  <2>3. Post(r, t).req = <<"recv", RecvBlock(t, rnd[r])>>
    BY DEF Post
  <2>4. Post(r, t).req # p
    BY <1>8, <1>9, <2>2, <2>3, Distinct
  <2>5. QED
    BY <1>10, <2>1, <2>2, <2>4
<1>20. PostedInv(r)'
  <2>1. \A t : Post(r, t)' = Post(r, t)
    BY <1>1 DEF Post, Tag, ReservedTag, RecvBlock
  <2>2. Handles(r)' = Handles(r)
    BY <1>4 DEF Handles
  <2>3. \A k \in DOMAIN e : \E t \in Peers(r) : e[k] = Post(r, t) /\ Post(r, t).req \in Handles(r) \ done'[r]
    BY <1>18, <1>19
  <2>4. ASSUME NEW k \in DOMAIN e, NEW l \in DOMAIN e, e[k] = e[l] PROVE k = l
    <3>1. PICK a \in DOMAIN f : e[k] = f[a] /\ a = IF k < i THEN k ELSE k + 1
      BY <1>18
    <3>2. PICK b \in DOMAIN f : e[l] = f[b] /\ b = IF l < i THEN l ELSE l + 1
      BY <1>18
    <3>3. a = b
      BY <1>11, <1>15, <2>4, <3>1, <3>2 DEF PostedInv
    <3>4. k \in Nat /\ l \in Nat /\ i \in Nat
      BY <1>15, <1>16, <1>17
    <3>5. QED
      BY <3>1, <3>2, <3>3, <3>4
  <2>5. IsSeq(posted[r])'
    BY <1>15, <1>17 DEF Dropped, IsSeq
  <2>6. QED
    BY <1>1, <1>4, <1>15, <2>1, <2>2, <2>3, <2>4, <2>5 DEF PostedInv
<1>21. Awaited(r, s) /\ ~Awaited(r, s)' /\ \A x \in Ranks \ {s} : Awaited(r, x)' <=> Awaited(r, x)
  <2>1. Awaited(r, s)
    <3>1. posted[r][i].tag = Tag(ReservedTag, s)
      BY <1>4, <1>8
    <3>2. QED
      BY <3>1 DEF Awaited
  <2>2. \A x : Awaited(r, x)' <=> \E k \in DOMAIN e : e[k].tag = Tag(ReservedTag, x)
    BY <1>15 DEF Awaited, Tag, ReservedTag
  <2>3. \A x : Awaited(r, x) <=> \E k \in DOMAIN f : f[k].tag = Tag(ReservedTag, x)
    BY <1>15 DEF Awaited
  <2>4. \A t : Post(r, t).tag = Tag(ReservedTag, t)
    BY DEF Post
  <2>5. ~Awaited(r, s)'
    <3>1. ASSUME NEW k \in DOMAIN e, e[k].tag = Tag(ReservedTag, s) PROVE FALSE
      <4>1. PICK t \in Peers(r) : t # s /\ e[k] = Post(r, t)
        BY <1>18, <1>19
      <4>2. Tag(ReservedTag, t) = Tag(ReservedTag, s)
        BY <2>4, <3>1, <4>1
      <4>3. QED
        BY <1>2, <4>1, <4>2, TagIs DEF Peers
    <3>2. QED
      BY <2>2, <3>1
  <2>6. ASSUME NEW x \in Ranks \ {s} PROVE Awaited(r, x)' <=> Awaited(r, x)
    <3>1. Awaited(r, x)' => Awaited(r, x)
      BY <1>18, <2>2, <2>3
    <3>2. ASSUME NEW l \in DOMAIN f, f[l].tag = Tag(ReservedTag, x) PROVE \E k \in DOMAIN e : e[k] = f[l]
      <4>1. l # i
        <5>1. f[i].tag = Tag(ReservedTag, s)
          BY <1>4, <1>8, <1>15
        <5>2. l = i => Tag(ReservedTag, x) = Tag(ReservedTag, s)
          BY <3>2, <5>1
        <5>3. QED
          BY <1>2, <5>2, TagIs
      <4>2. i \in 1 .. Len(f) /\ l \in 1 .. Len(f) /\ Len(e) = Len(f) - 1 /\ DOMAIN e = 1 .. Len(e)
        BY <1>15, <1>16, <1>17 DEF Dropped
      <4>3. CASE l < i
        <5>1. l \in 1 .. Len(e)
          BY <1>16, <4>2, <4>3
        <5>2. e[l] = f[l]
          BY <1>17, <4>3, <5>1 DEF Dropped
        <5>3. QED
          BY <4>2, <5>1, <5>2
      <4>4. CASE l > i
        <5>1. l - 1 \in 1 .. Len(e) /\ ~(l - 1 < i) /\ l - 1 + 1 = l
          BY <1>16, <4>2, <4>4
        <5>2. e[l - 1] = f[l - 1 + 1]
          BY <1>17, <5>1 DEF Dropped
        <5>3. QED
          BY <4>2, <5>1, <5>2
      <4>5. QED
        BY <1>16, <4>1, <4>2, <4>3, <4>4
    <3>3. QED
      BY <2>2, <2>3, <3>1, <3>2
  <2>7. QED
    BY <2>1, <2>5, <2>6
<1>22. \A x, y \in Ranks : x # r \/ y # s => Received(x, y)' = Received(x, y)
  <2>1. ASSUME NEW x \in Ranks, NEW y \in Ranks, x # r \/ y # s PROVE Awaited(x, y)' <=> Awaited(x, y)
    <3>1. CASE x = r
      BY <1>21, <2>1, <3>1
    <3>2. CASE x # r
      <4>1. posted'[x] = posted[x]
        BY <1>2, <1>4, <3>2 DEF TypeInv
      <4>2. QED
        BY <4>1 DEF Awaited, Tag, ReservedTag
    <3>3. QED
      BY <3>1, <3>2
  <2>2. QED
    BY <1>1, <2>1 DEF Received
<1>23. Received(r, s)' = c + 1 /\ c \in Int
  <2>1. rnd[r] \in Nat
    BY <1>2 DEF TypeInv
  <2>2. c = rnd[r] - 1
    BY <1>3, <1>4, <1>21 DEF Received
  <2>3. Received(r, s)' = rnd[r]
    BY <1>1, <1>4, <1>21 DEF Received
  <2>4. QED
    BY <2>1, <2>2, <2>3
<1>24. \A x, y, k : x \in Ranks => Read(x, SendBlock(y, k))' = Read(x, SendBlock(y, k))
  <2>1. ASSUME NEW x \in Ranks, NEW y, NEW k PROVE Read(x, SendBlock(y, k))' = Read(x, SendBlock(y, k))
    <3>1. CASE x = r
      <4>1. PICK b : b = SendBlock(y, k)
        OBVIOUS
      <4>2. b # RecvBlock(s, rnd[r])
        BY <4>1, Distinct
      <4>3. DOMAIN blocks = Ranks
        BY <1>2 DEF TypeInv
      <4>4. blocks' = [blocks EXCEPT ![r] = Write(@, Only(RecvBlock(s, rnd[r]), v))]
        BY <1>4
      <4>5. Read(r, b)' = Read(r, b) /\ DOMAIN blocks'[r] = DOMAIN blocks[r]
        BY <4>2, <4>3, <4>4, ReadWritten
      <4>6. QED
        BY <3>1, <4>1, <4>5 DEF SendBlock
    <3>2. CASE x # r
      <4>1. blocks'[x] = blocks[x]
        BY <1>2, <1>4, <3>2 DEF TypeInv
      <4>2. QED
        BY <4>1 DEF Read, SendBlock
    <3>3. QED
      BY <3>1, <3>2
  <2>2. QED
    BY <2>1
<1>25. \A x \in Ranks : Handles(x)' = Handles(x) /\ (Moving(x)' <=> Moving(x)) /\ rnd'[x] = rnd[x]
  BY <1>1, <1>4 DEF Handles, Moving
<1>26. ASSUME NEW x \in Ranks, NEW y \in Ranks, x # s \/ y # r PROVE NetInv(x, y)'
  <2>1. NetInv(x, y)
    BY DEF UcxInv
  <2>2. net'[x][y] = net[x][y]
    BY <1>2, <1>4, <1>26 DEF TypeInv
  <2>3. Unmoved(x, y)
    <3>1. y # r \/ x # s
      BY <1>26
    <3>2. Received(y, x)' = Received(y, x)
      BY <1>22, <3>1
    <3>3. QED
      BY <1>1, <2>2, <3>2 DEF Unmoved
  <2>4. \A k : <<"send", SendBlock(y, k)>> \in done'[x] => <<"send", SendBlock(y, k)>> \in done[x]
    BY <1>7, <1>8, <1>9, <1>10, <1>26, Distinct
  <2>5. \A k, a : IsMessage(x, y, k, a) /\ Flying(x, y, k, a) => Flying(x, y, k, a)'
    BY <1>24, <1>25, <2>4, FlyingKept
  <2>6. QED
    BY <1>1, <2>1, <2>3, <2>5, NetKept
<1>27. NetInv(s, r)'
  <2>1. PICK d : d = Drop(q, 1)
    OBVIOUS
  <2>2. net'[s][r] = d
    BY <1>2, <1>3, <1>4, <2>1 DEF TypeInv
  <2>3. Dropped(d, q, 1) /\ DOMAIN d = 1 .. Len(d)
    <3>1. Dropped(Drop(q, 1), q, 1)
      BY <1>5, <1>6, DropIs
    <3>2. QED
      BY <2>1, <3>1, IsSeqDomain DEF Dropped
  <2>4. ASSUME NEW k \in DOMAIN d
        PROVE  /\ IsMessage(s, r, (c + 1) + k, d[k])'
               /\ d[k].req # NoRequest => Flying(s, r, (c + 1) + k, d[k])'
    <3>1. k \in Nat /\ k + 1 \in DOMAIN q /\ d[k] = q[k + 1] /\ (c + 1) + k = c + (k + 1)
      <4>1. k \in 1 .. Len(d) /\ Len(d) = Len(q) - 1
        BY <2>3 DEF Dropped
      <4>2. k \in Nat /\ k + 1 \in 1 .. Len(q) /\ ~(k < 1) /\ (c + 1) + k = c + (k + 1)
        <5>1. PICK x, y : x = Len(q) /\ y = Len(d)
          OBVIOUS
        <5>2. x \in Nat /\ y = x - 1 /\ k \in 1 .. y /\ c \in Int
          BY <1>6, <1>23, <4>1, <5>1
        <5>3. k \in Nat /\ k + 1 \in 1 .. x /\ ~(k < 1) /\ (c + 1) + k = c + (k + 1)
          BY <5>2
        <5>4. QED
          BY <5>1, <5>3
      <4>3. d[k] = q[k + 1]
        BY <2>3, <4>1, <4>2 DEF Dropped
      <4>4. QED
        BY <1>6, <4>2, <4>3
    <3>2. IsMessage(s, r, (c + 1) + k, d[k]) /\ (d[k].req # NoRequest => Flying(s, r, (c + 1) + k, d[k]))
      BY <1>5, <3>1
    <3>3. ASSUME d[k].req # NoRequest PROVE Flying(s, r, (c + 1) + k, d[k])'
      <4>1. Flying(s, r, (c + 1) + k, d[k])
        BY <3>2, <3>3
      <4>2. (c + 1) + k = rnd[s]
        BY <4>1 DEF Flying
      <4>3. m.req = NoRequest
        BY <1>7, <1>23, <2>3, <3>1, <4>2
      <4>4. done'[s] = done[s]
        BY <1>10, <4>3
      <4>5. \A l, a : IsMessage(s, r, l, a) /\ Flying(s, r, l, a) => Flying(s, r, l, a)'
        BY <1>2, <1>24, <1>25, <4>4, FlyingKept
      <4>6. QED
        BY <3>2, <4>1, <4>5
    <3>4. IsMessage(s, r, (c + 1) + k, d[k])'
      BY <3>2 DEF IsMessage, Tag, ReservedTag, SendBlock
    <3>5. QED
      BY <3>3, <3>4
  <2>5. IsSeq(net[s][r])' /\ Len(net'[s][r]) = Len(sent'[s][r]) - (c + 1)
    <3>1. Len(d) = Len(q) - 1 /\ Len(sent[s][r]) \in Int
      <4>1. Len(d) = Len(q) - 1
        BY <2>3 DEF Dropped
      <4>2. QED
        BY <4>1
    <3>2. QED
      BY <1>1, <1>5, <1>23, <2>2, <2>3, <3>1 DEF Dropped, IsSeq
  <2>6. QED
    BY <1>1, <1>2, <1>4, <1>23, <2>2, <2>4, <2>5 DEF NetInv
<1>28. QED
  BY <1>13, <1>14, <1>20, <1>26, <1>27 DEF UcxInv

\* Communicators that do not send buffers by reference have nothing under way here.
LEMMA ElsewhereKept ==
  ASSUME ControlInv, UcxInv, AllSent, NEW r \in Ranks, RankStep(r), ~Unbuffered
  PROVE  UcxInv'
<1>1. TypeInv /\ WhereInv(r) /\ kind' = kind
  BY ControlStep DEF ControlInv
<1>2. UNCHANGED ucxVars
  <2>1. CASE Outside(r)
    BY <2>1 DEF Outside, comms
  <2>2. CASE Start(r) \/ Recv(r) \/ Launch(r) \/ Free(r)
    <3>1. CASE Start(r)
      BY <3>1 DEF Start
    <3>2. CASE Recv(r)
      BY <3>2 DEF Recv
    <3>3. CASE Launch(r)
      BY <3>3 DEF Launch
    <3>4. CASE Free(r)
      BY <3>4 DEF Free, comms
    <3>5. QED
      BY <2>2, <3>1, <3>2, <3>3, <3>4
  <2>3. CASE Send(r)
    BY <2>3, SendIs
  <2>4. CASE Stop(r)
    <3>1. NextCall(r) = "stop"
      BY <1>1, <2>4, NotProgress, InsideIs
    <3>2. kind \in {"nccl", "buffer"}
      <4>1. Permitted("stop") /\ kind \in Kinds
        BY <1>1, <3>1, Allowed, KindIs DEF TypeInv
      <4>2. QED
        BY <4>1 DEF Permitted, Kinds, Unbuffered
    <3>3. CASE kind = "nccl"
      BY <2>4, <3>3 DEF Stop
    <3>4. CASE kind = "buffer"
      BY <2>4, <3>4 DEF Stop, comms
    <3>5. QED
      BY <3>2, <3>3, <3>4
  <2>5. QED
    BY <2>1, <2>2, <2>3, <2>4, AllSteps DEF Progress
<1>3. ~Unbuffered'
  BY <1>1 DEF Unbuffered
<1>4. net' = net /\ posted' = posted /\ pending' = pending /\ done' = done
  BY <1>2 DEF ucxVars
<1>5. ASSUME NEW s \in Ranks, NEW d \in Ranks PROVE NetInv(s, d)'
  <2>1. net[s][d] = <<>>
    BY DEF UcxInv, NetInv
  <2>2. QED
    BY <1>3, <1>4, <2>1 DEF NetInv
<1>6. ASSUME NEW x \in Ranks PROVE PostedInv(x)' /\ RequestsInv(x)'
  <2>1. PostedInv(x) /\ RequestsInv(x)
    BY DEF UcxInv
  <2>2. posted[x] = <<>> /\ done[x] = {} /\ IsSeq(pending[x])
    BY <2>1 DEF PostedInv, RequestsInv
  <2>3. IsSeq(posted[x])
    BY <2>1 DEF PostedInv
  <2>4. DOMAIN posted[x] = {}
    BY <2>2
  <2>5. PostedInv(x)'
    BY <1>4, <2>2, <2>3, <2>4 DEF PostedInv, IsSeq
  <2>6. RequestsInv(x)'
    BY <1>3, <1>4, <2>2 DEF RequestsInv, IsSeq
  <2>7. QED
    BY <2>5, <2>6
<1>7. QED
  BY <1>5, <1>6 DEF UcxInv

\* Every step keeps what is under way, posted and pending.
LEMMA UcxStep ==
  ASSUME ControlInv, AllSent, UcxInv, NEW r \in Ranks, RankStep(r)
  PROVE  UcxInv'
<1>1. CASE ~Unbuffered
  BY <1>1, ElsewhereKept
<1>2. CASE Unbuffered
  <2>1. CASE Progress(r)
    <3>1. CASE NextCall(r) = "stop" /\ UcxDeliver(r)
      <4>1. PICK s \in Peers(r) : \E i \in DOMAIN posted[r] : Delivers(r, s, i)
        BY <1>2, <3>1, DeliverIs
      <4>2. PICK i \in DOMAIN posted[r] : Delivers(r, s, i)
        BY <4>1
      <4>3. QED
        BY <2>1, <4>1, <4>2, DeliversKept
    <3>2. CASE UcxFlush(r)
      <4>1. PICK d \in Peers(r) : \E j \in DOMAIN net[r][d] : Flushes(r, d, j)
        BY <3>2, FlushIs
      <4>2. PICK j \in DOMAIN net[r][d] : Flushes(r, d, j)
        BY <4>1
      <4>3. QED
        BY <1>2, <2>1, <4>1, <4>2, FlushesKept
    <3>3. QED
      BY <2>1, <3>1, <3>2 DEF Progress
  <2>2. CASE Quiet(r)
    BY <1>2, <2>2, QuietKept
  <2>3. CASE Starts(r)
    BY <1>2, <2>3, StartsKept
  <2>4. CASE \E d \in Peers(r) : Sends(r, d)
    BY <1>2, <2>4, SendsKept
  <2>5. CASE Receives(r)
    BY <1>2, <2>5, ReceivesKept
  <2>6. CASE Stops(r)
    BY <1>2, <2>6, StopsKept
  <2>7. QED
    BY <1>2, <2>1, <2>2, <2>3, <2>4, <2>5, <2>6, UcxSteps
<1>3. QED
  BY <1>1, <1>2

\* The empty sequence.
LEMMA EmptyIs ==
  /\ IsSeq(<<>>) /\ Len(<<>>) = 0
  /\ \A q : IsSeq(q) /\ Len(q) = 0 => q = <<>>
  BY DEF IsSeq

\* No message exists when the processes start.
LEMMA CommsInit ==
  ASSUME Init
  PROVE  AllSent /\ UcxInv /\ \A r \in Ranks : LeaveInv(r)
<1> USE DEF Init, UcxInit
<1>1. ControlInv
  BY ControlInit
<1>3. ASSUME NEW r \in Ranks PROVE NextCall(r) \notin {"send", "recv", "stop", "barrier"}
  <2>1. ip[r] = 1 /\ session \in Sessions /\ kind \in Kinds
    BY KindIs
  <2>2. Ls \in Nat /\ Ls >= 1 /\ SetupCalls(kind)[1] \in {"connect", "pool", "worker", "throw"}
    BY <2>1 DEF Ls, SetupCalls, Kinds
  <2>3. AtSetup(1, 0)
    BY <2>2 DEF AtSetup
  <2>4. CallAt(1) = SetupCalls(kind)[1]
    BY <2>1, <2>3, CallIs
  <2>5. NextCall(r) = CallAt(1)
    BY <2>1 DEF NextCall, CallAt
  <2>6. QED
    BY <2>2, <2>4, <2>5
<1>4. AllSent
  <2> SUFFICES ASSUME NEW s \in Ranks, NEW d \in Ranks PROVE SentInv(s, d)
    BY DEF AllSent
  <2>1. sent[s][d] = <<>> /\ rnd[s] = 0 /\ ~Unsent(s, d)
    BY <1>3 DEF Unsent
  <2>2. QED
    BY <2>1, EmptyIs DEF SentInv
<1>5. ASSUME NEW s \in Ranks, NEW d \in Ranks PROVE NetInv(s, d)
  <2>1. net[s][d] = <<>> /\ sent[s][d] = <<>> /\ rnd[d] = 0
    OBVIOUS
  <2>2. Received(d, s) = 0
    BY <1>3, <2>1 DEF Received
  <2>3. DOMAIN net[s][d] = {}
    BY <2>1
  <2>4. QED
    BY <2>1, <2>2, <2>3, EmptyIs DEF NetInv
<1>6. ASSUME NEW r \in Ranks PROVE PostedInv(r) /\ RequestsInv(r)
  <2>1. posted[r] = <<>> /\ pending[r] = <<>> /\ done[r] = {}
    OBVIOUS
  <2>2. DOMAIN posted[r] = {} /\ ~Moving(r)
    BY <1>3, <2>1 DEF Moving
  <2>3. QED
    BY <2>1, <2>2, EmptyIs DEF PostedInv, RequestsInv
<1>7. ASSUME NEW r \in Ranks PROVE LeaveInv(r)
  <2>1. ip[r] = 1
    OBVIOUS
  <2>2. \A c : ~Past(r, c)
    BY <2>1 DEF Past
  <2>3. QED
    BY <1>3, <2>2 DEF LeaveInv
<1>8. QED
  BY <1>4, <1>5, <1>6, <1>7 DEF UcxInv

\* The invariant is strong enough for WorkersOutlivePeers.
LEMMA WorkersOutlive ==
  ASSUME ControlInv, AllSent, UcxInv, \A r \in Ranks : LeaveInv(r)
  PROVE  WorkersOutlivePeers
<1> SUFFICES ASSUME NEW r \in Ranks, Past(r, "barrier"), NEW s \in Ranks
             PROVE  Past(s, "close") /\ net[s][r] = <<>>
  BY DEF WorkersOutlivePeers
<1>1. NextCall(r) \in DestroySet /\ Past(s, "close")
  BY DEF LeaveInv
<1>2. CASE ~(Unbuffered /\ s # r)
  <2>1. NetInv(s, r)
    BY DEF UcxInv
  <2>2. QED
    BY <1>1, <1>2, <2>1 DEF NetInv
<1>3. CASE Unbuffered /\ s # r
  <2>1. TypeInv /\ WhereInv(r) /\ WhereInv(s)
    BY DEF ControlInv
  <2>2. R \in Nat /\ rnd[r] = R /\ rnd[s] \in 0 .. R
    BY <1>1, <2>1, RoundIs
  <2>3. Received(r, s) = R
    <3>1. NextCall(r) \notin {"send", "recv", "stop"}
      BY <1>1 DEF DestroySet
    <3>2. QED
      BY <2>2, <3>1 DEF Received
  <2>4. Len(sent[s][r]) <= R /\ Len(sent[s][r]) \in Int
    <3>1. SentInv(s, r)
      BY DEF AllSent
    <3>2. QED
      BY <1>3, <2>2, <3>1 DEF SentInv
  <2>5. IsSeq(net[s][r]) /\ Len(net[s][r]) = Len(sent[s][r]) - R
    <3>1. NetInv(s, r)
      BY DEF UcxInv
    <3>2. QED
      BY <1>3, <2>3, <3>1 DEF NetInv
  <2>6. Len(net[s][r]) \in Nat
    BY <2>5, IsSeqDomain
  <2>7. Len(net[s][r]) = 0
    BY <2>2, <2>4, <2>5, <2>6
  <2>8. QED
    BY <1>1, <2>5, <2>7, EmptyIs
<1>4. QED
  BY <1>2, <1>3

\* The invariant is strong enough for TransfersOwned.
LEMMA Transfers ==
  ASSUME ControlInv, UcxInv, \A r \in Ranks : BlocksInv(r)
  PROVE  TransfersOwned
<1>1. ASSUME NEW s \in Ranks, NEW d \in Ranks, NEW j \in DOMAIN net[s][d], net[s][d][j].req # NoRequest
      PROVE  net[s][d][j].val = Read(s, net[s][d][j].ref)
  <2>1. NetInv(s, d)
    BY DEF UcxInv
  <2>2. net[s][d] # <<>>
    BY <1>1
  <2>3. Flying(s, d, Received(d, s) + j, net[s][d][j])
    BY <1>1, <2>1, <2>2 DEF NetInv
  <2>4. QED
    BY <2>3 DEF Flying
<1>2. ASSUME NEW r \in Ranks, NEW i \in DOMAIN posted[r]
      PROVE  posted[r][i].dst \in DOMAIN blocks[r]
  <2>1. PostedInv(r)
    BY DEF UcxInv
  <2>2. posted[r] # <<>>
    BY <1>2
  <2>3. NextCall(r) = "stop"
    BY <2>1, <2>2 DEF PostedInv
  <2>4. PICK s \in Peers(r) : posted[r][i] = Post(r, s)
    BY <1>2, <2>1 DEF PostedInv
  <2>5. Post(r, s).dst = RecvBlock(s, rnd[r])
    BY DEF Post
  <2>6. RecvBlock(s, rnd[r]) \in Own(r)
    BY <2>3 DEF Own, Under, Finishing
  <2>7. QED
    BY <2>4, <2>5, <2>6 DEF BlocksInv
<1>3. QED
  BY <1>1, <1>2 DEF TransfersOwned

-----------------------------------------------------------------------------
(***************************************************************************)
(* The blocks a rank has, and the bytes its pool counts.                   *)
(***************************************************************************)
\* All the blocks of the first k exchanges.
Triples(k) == {"send", "recv"} \X Ranks \X (1 .. k)

\* The blocks of a bounded number of rounds are finitely many.
LEMMA TriplesFinite ==
  ASSUME NEW k \in Nat
  PROVE  IsFiniteSet(Triples(k)) /\ \A S : S \subseteq Triples(k) => IsFiniteSet(S)
<1> DEFINE A == {"send", "recv"}
           D == (A \X Ranks) \X (1 .. k)
           f == [x \in D |-> <<x[1][1], x[1][2], x[2]>>]
<1>1. IsFiniteSet(A)
  <2>1. PICK u, w : u = "send" /\ w = "recv"
    OBVIOUS
  <2>2. IsFiniteSet({u}) /\ IsFiniteSet({w})
    BY FS_Singleton
  <2>3. IsFiniteSet({u} \cup {w})
    BY <2>2, FS_Union
  <2>4. {u} \cup {w} = {u, w}
    OBVIOUS
  <2>5. QED
    BY <2>1, <2>3, <2>4
<1>2. IsFiniteSet(Ranks)
  BY NAssumption, FS_Interval DEF Ranks
<1>3. IsFiniteSet(1 .. k)
  BY FS_Interval
<1>4. IsFiniteSet(D)
  BY <1>1, <1>2, <1>3, FS_Product
<1>5. \A x \in D : f[x] \in Triples(k)
  BY DEF Triples
<1>6. \A t \in Triples(k) : \E x \in D : f[x] = t
  <2> TAKE t \in Triples(k)
  <2>1. PICK a \in A, q \in Ranks, n \in 1 .. k : t = <<a, q, n>>
    BY DEF Triples
  <2>2. <<<<a, q>>, n>> \in D
    OBVIOUS
  <2>3. f[<<<<a, q>>, n>>] = <<a, q, n>>
    BY <2>2
  <2>4. QED
    BY <2>1, <2>2, <2>3
<1>7. f \in Surjection(D, Triples(k))
  BY <1>5, <1>6 DEF Surjection
<1> HIDE DEF A, D, f
<1>8. IsFiniteSet(Triples(k))
  BY <1>4, <1>7, FS_Surjection
<1>9. QED
  BY <1>8, FS_Subset

\* So are the communication buffers of NCCL.
LEMMA CommBlocksFinite ==
  ASSUME NEW S, IsFiniteSet(S)
  PROVE  IsFiniteSet({CommBlock(i) : i \in S})
<1> DEFINE f == [i \in S |-> CommBlock(i)]
           T == {CommBlock(i) : i \in S}
<1>1. f \in Surjection(S, T)
  BY DEF Surjection
<1> HIDE DEF f, T
<1>2. IsFiniteSet(T)
  BY <1>1, FS_Surjection
<1>3. QED
  BY <1>2 DEF T

\* The bytes of a set of blocks, when other blocks join it.
LEMMA Grown ==
  ASSUME NEW S, IsFiniteSet(S), NEW D, IsFiniteSet(D), S \cap D = {}, NEW m \in Nat
  PROVE  IsFiniteSet(S \cup D) /\ m * Cardinality(S \cup D) = m * Cardinality(S) + m * Cardinality(D)
<1>1. PICK a, b, c : a = Cardinality(S) /\ b = Cardinality(D) /\ c = Cardinality(S \cup D)
  OBVIOUS
<1>2. a \in Nat /\ b \in Nat
  BY <1>1, FS_CardinalityType
<1>3. IsFiniteSet(S \cup D) /\ c = a + b
  <2>1. IsFiniteSet(S \cup D) /\ c = a + b - Cardinality(S \cap D)
    BY <1>1, FS_Union
  <2>2. Cardinality(S \cap D) = 0
    BY FS_EmptySet
  <2>3. QED
    BY <1>2, <2>1, <2>2
<1>4. m * (a + b) = m * a + m * b
  BY <1>2
<1>5. QED
  BY <1>1, <1>3, <1>4

\* The bytes of a set of blocks, when some of them leave it.
LEMMA Shrunk ==
  ASSUME NEW S, IsFiniteSet(S), NEW D, D \subseteq S, NEW m \in Nat
  PROVE  IsFiniteSet(D) /\ m * Cardinality(S \ D) = m * Cardinality(S) - m * Cardinality(D)
<1>1. IsFiniteSet(D) /\ IsFiniteSet(S \ D)
  BY FS_Subset
<1>2. (S \ D) \cup D = S /\ (S \ D) \cap D = {}
  OBVIOUS
<1>3. m * Cardinality(S) = m * Cardinality(S \ D) + m * Cardinality(D)
  BY <1>1, <1>2, Grown
<1>4. PICK x, y, z : x = m * Cardinality(S) /\ y = m * Cardinality(S \ D) /\ z = m * Cardinality(D)
  OBVIOUS
<1>5. y \in Int /\ z \in Int
  BY <1>1, <1>4, FS_CardinalityType
<1>6. QED
  BY <1>1, <1>3, <1>4, <1>5

\* Allocation of blocks of one size adds their bytes to those in use.
LEMMA Taken ==
  ASSUME DOMAIN blocks = Ranks, DOMAIN inUse = Ranks, NEW r \in Ranks, NEW new, Allocate(r, new), NEW c \in Nat,
         IsFiniteSet(DOMAIN new), \A b \in DOMAIN new : new[b].size = c
  PROVE  /\ DOMAIN blocks'[r] = DOMAIN blocks[r] \cup DOMAIN new
         /\ inUse'[r] = inUse[r] + c * Cardinality(DOMAIN new)
<1> DEFINE f == [b \in DOMAIN new |-> new[b].size]
<1>1. DOMAIN f = DOMAIN new /\ \A b \in DOMAIN f : f[b] = c
  OBVIOUS
<1>2. inUse'[r] = inUse[r] + Bytes(f)
  BY DEF Allocate
<1>3. DOMAIN blocks'[r] = DOMAIN blocks[r] \cup DOMAIN new
  BY DEF Allocate, With
<1> HIDE DEF f
<1>4. Bytes(f) = c * Cardinality(DOMAIN f)
  BY <1>1, EqualBytes
<1>5. QED
  BY <1>1, <1>2, <1>3, <1>4

\* Sizes are natural numbers.
LEMMA SizesAre ==
  /\ MsgSize \in Nat /\ Aligned(MsgSize) \in Nat /\ CacheSize \in Nat
<1>1. MsgSize \in Nat /\ Align \in Nat \ {0} /\ N \in Nat
  BY SizeAssumption, AlignAssumption, NAssumption
<1>2. (MsgSize + Align - 1) \div Align \in Nat
  <2>1. PICK x : x = MsgSize + Align - 1
    OBVIOUS
  <2>2. x \in Nat
    BY <1>1, <2>1
  <2>3. x \div Align \in Nat
    BY <1>1, <2>2
  <2>4. QED
    BY <2>1, <2>3
<1>3. PICK y : y = (MsgSize + Align - 1) \div Align
  OBVIOUS
<1>4. y * Align \in Nat
  BY <1>1, <1>2, <1>3
<1>5. 2 * N * Align \in Nat
  BY <1>1
<1>6. QED
  BY <1>1, <1>3, <1>4, <1>5 DEF Aligned, CacheSize

SendsOf(r, k) == {SendBlock(d, k) : d \in Peers(r)}
RecvsOf(r, k) == {RecvBlock(s, k) : s \in Peers(r)}

\* Blocks that leaked belong to rounds that are over.
LEMMA LeakedWithin ==
  ASSUME NEW r \in Ranks, NEW k \in Nat, NEW j \in 0 .. k
  PROVE  Leaked(r, j) \subseteq Triples(k)
<1> SUFFICES ASSUME NEW t \in Leaked(r, j) PROVE t \in Triples(k)
  OBVIOUS
<1>1. PICK a \in {"send", "recv"}, q \in r + 1 .. N - 1, i \in 1 .. j : t = <<a, q, i>>
  BY DEF Leaked
<1>2. q \in Ranks /\ i \in 1 .. k
  BY NAssumption DEF Ranks
<1>3. QED
  BY <1>1, <1>2 DEF Triples

\* The blocks of a round differ from each other and from those that leaked before.
LEMMA OfRound ==
  ASSUME NEW r \in Ranks, NEW k \in Nat, k >= 1
  PROVE  /\ SendsOf(r, k) \subseteq Triples(k) /\ RecvsOf(r, k) \subseteq Triples(k)
         /\ \A j \in 0 .. k : Leaked(r, j) \subseteq Triples(k)
         /\ Leaked(r, k - 1) \cap SendsOf(r, k) = {} /\ Leaked(r, k - 1) \cap RecvsOf(r, k) = {}
         /\ SendsOf(r, k) \cap RecvsOf(r, k) = {}
<1>1. SendsOf(r, k) \subseteq Triples(k) /\ RecvsOf(r, k) \subseteq Triples(k)
  BY DEF SendsOf, RecvsOf, Triples, SendBlock, RecvBlock, Peers
<1>2. \A j \in 0 .. k : Leaked(r, j) \subseteq Triples(k)
  BY LeakedWithin
<1>3. ASSUME NEW a \in {"send", "recv"}, NEW q \in Ranks PROVE <<a, q, k>> \notin Leaked(r, k - 1)
  BY DEF Leaked
<1>4. Leaked(r, k - 1) \cap SendsOf(r, k) = {} /\ Leaked(r, k - 1) \cap RecvsOf(r, k) = {}
  BY <1>3 DEF SendsOf, RecvsOf, SendBlock, RecvBlock, Peers
<1>5. SendsOf(r, k) \cap RecvsOf(r, k) = {}
  BY DEF SendsOf, RecvsOf, SendBlock, RecvBlock
<1>6. QED
  BY <1>1, <1>2, <1>4, <1>5

\* Blocks of different uses have different names.
LEMMA FirstIs ==
  /\ \A k : \A b \in Triples(k) : b[1] \in {"send", "recv"}
  /\ \A i : CommBlock(i)[1] = "comm"
  /\ CacheBlock[1] = "cache"
<1>1. ASSUME NEW k, NEW b \in Triples(k) PROVE b[1] \in {"send", "recv"}
  BY DEF Triples
<1>2. \A i : CommBlock(i)[1] = "comm"
  BY DEF CommBlock
<1>3. CacheBlock[1] = "cache"
  BY DEF CacheBlock
<1>4. QED
  BY <1>1, <1>2, <1>3

\* A rank's own blocks are those of the rounds it has begun.
LEMMA OwnWithin ==
  ASSUME TypeInv, NEW r \in Ranks, WhereInv(r)
  PROVE  Own(r) \subseteq Triples(rnd[r]) /\ IsFiniteSet(Own(r)) /\ \A b \in Own(r) : b[1] \in {"send", "recv"}
<1>1. rnd[r] \in Nat
  BY DEF TypeInv
<1>2. CASE Under(r)
  <2>1. rnd[r] >= 1
    BY <1>2, RoundIs DEF Under, UnderSet
  <2>2. rnd[r] - 1 \in 0 .. rnd[r]
    BY <1>1, <2>1
  <2>3. SendsOf(r, rnd[r]) \subseteq Triples(rnd[r]) /\ RecvsOf(r, rnd[r]) \subseteq Triples(rnd[r])
        /\ Leaked(r, rnd[r] - 1) \subseteq Triples(rnd[r])
    BY <1>1, <2>1, <2>2, OfRound
  <2>4. Own(r) \subseteq Leaked(r, rnd[r] - 1) \cup SendsOf(r, rnd[r]) \cup RecvsOf(r, rnd[r])
    BY <1>2 DEF Own, SendsOf, RecvsOf
  <2>5. Own(r) \subseteq Triples(rnd[r])
    BY <2>3, <2>4
  <2>6. QED
    BY <1>1, <2>5, TriplesFinite, FirstIs
<1>3. CASE ~Under(r)
  <2>1. Own(r) = Leaked(r, rnd[r])
    BY <1>3 DEF Own
  <2>2. Leaked(r, rnd[r]) \subseteq Triples(rnd[r])
    BY <1>1, LeakedWithin
  <2>3. QED
    BY <1>1, <2>1, <2>2, TriplesFinite, FirstIs
<1>4. QED
  BY <1>2, <1>3

Sorted(r) ==
  /\ IsFiniteSet(Own(r)) /\ IsFiniteSet(Comms(r)) /\ IsFiniteSet(Caches(r))
  /\ Own(r) \cap Comms(r) = {} /\ Own(r) \cap Caches(r) = {} /\ Comms(r) \cap Caches(r) = {}

\* The three sorts of blocks a rank holds are finite and have no block in common.
LEMMA SortedIs ==
  ASSUME TypeInv, NEW r \in Ranks, WhereInv(r), BuffersInv(r)
  PROVE  Sorted(r)
<1>1. IsFiniteSet(Own(r)) /\ \A b \in Own(r) : b[1] \in {"send", "recv"}
  BY OwnWithin
<1>2. IsFiniteSet(Comms(r)) /\ \A b \in Comms(r) : b[1] = "comm"
  <2>1. CASE Under(r) /\ NextCall(r) # "free" /\ kind = "nccl"
    <3>1. Len(commBuffers[r]) \in Nat
      BY <2>1, IsSeqDomain DEF BuffersInv
    <3>2. IsFiniteSet(1 .. Len(commBuffers[r]))
      BY <3>1, FS_Interval
    <3>3. IsFiniteSet({CommBlock(i) : i \in 1 .. Len(commBuffers[r])})
      BY <3>2, CommBlocksFinite
    <3>4. Comms(r) = {CommBlock(i) : i \in 1 .. Len(commBuffers[r])}
      BY <2>1 DEF Comms
    <3>5. QED
      BY <3>3, <3>4, FirstIs
  <2>2. CASE ~(Under(r) /\ NextCall(r) # "free" /\ kind = "nccl")
    <3>1. Comms(r) = {}
      BY <2>2 DEF Comms
    <3>2. QED
      BY <3>1, FS_EmptySet
  <2>3. QED
    BY <2>1, <2>2
<1>3. IsFiniteSet(Caches(r)) /\ \A b \in Caches(r) : b[1] = "cache"
  <2>1. IsFiniteSet({}) /\ IsFiniteSet({CacheBlock})
    BY FS_EmptySet, FS_Singleton
  <2>2. QED
    BY <2>1, FirstIs DEF Caches
<1>4. QED
  BY <1>1, <1>2, <1>3 DEF Sorted

\* A rank whose blocks and bytes stay keeps BlocksInv.
LEMMA MemKeeps ==
  ASSUME NEW x \in Ranks, BlocksInv(x), Own(x)' = Own(x), Comms(x)' = Comms(x), Caches(x)' = Caches(x),
         DOMAIN blocks'[x] = DOMAIN blocks[x], inUse'[x] = inUse[x]
  PROVE  BlocksInv(x)'
  BY DEF BlocksInv, Aligned, CacheSize

\* Bytes of finite sets of blocks are integers.
LEMMA Counted ==
  ASSUME NEW S, NEW T, NEW U, IsFiniteSet(S), IsFiniteSet(T), IsFiniteSet(U)
  PROVE  MsgSize * Cardinality(S) \in Int /\ Aligned(MsgSize) * Cardinality(T) \in Int
         /\ CacheSize * Cardinality(U) \in Int
<1>1. PICK a, b, c, x, y, z : /\ a = Cardinality(S) /\ b = Cardinality(T) /\ c = Cardinality(U)
                              /\ x = MsgSize /\ y = Aligned(MsgSize) /\ z = CacheSize
  OBVIOUS
<1>2. a \in Nat /\ b \in Nat /\ c \in Nat /\ x \in Nat /\ y \in Nat /\ z \in Nat
  BY <1>1, FS_CardinalityType, SizesAre
<1>3. x * a \in Int /\ y * b \in Int /\ z * c \in Int
  BY <1>2
<1>4. QED
  BY <1>1, <1>3

\* Blocks of one sort are taken, or given back.
LEMMA MemGrows ==
  ASSUME NEW r \in Ranks, BlocksInv(r), Sorted(r), NEW D, IsFiniteSet(D),
         DOMAIN blocks'[r] = DOMAIN blocks[r] \cup D,
         \/ /\ Own(r)' = Own(r) \cup D /\ Own(r) \cap D = {} /\ inUse'[r] = inUse[r] + MsgSize * Cardinality(D)
            /\ Comms(r)' = Comms(r) /\ Caches(r)' = Caches(r)
         \/ /\ Comms(r)' = Comms(r) \cup D /\ Comms(r) \cap D = {}
            /\ inUse'[r] = inUse[r] + Aligned(MsgSize) * Cardinality(D)
            /\ Own(r)' = Own(r) /\ Caches(r)' = Caches(r)
         \/ /\ Caches(r)' = Caches(r) \cup D /\ Caches(r) \cap D = {}
            /\ inUse'[r] = inUse[r] + CacheSize * Cardinality(D)
            /\ Own(r)' = Own(r) /\ Comms(r)' = Comms(r)
  PROVE  BlocksInv(r)'
<1>1. PICK O, C, K, O2, C2, K2, x, y, z, u :
        /\ O = Own(r) /\ C = Comms(r) /\ K = Caches(r)
        /\ O2 = Own(r)' /\ C2 = Comms(r)' /\ K2 = Caches(r)'
        /\ x = MsgSize /\ y = Aligned(MsgSize) /\ z = CacheSize /\ u = inUse'[r]
  OBVIOUS
<1>2. DOMAIN blocks[r] = O \cup C \cup K /\ inUse[r] = x * Cardinality(O) + y * Cardinality(C) + z * Cardinality(K)
  BY <1>1 DEF BlocksInv
<1>3. IsFiniteSet(O) /\ IsFiniteSet(C) /\ IsFiniteSet(K)
  BY <1>1 DEF Sorted
<1>4. x \in Nat /\ y \in Nat /\ z \in Nat
  BY <1>1, SizesAre
<1>5. PICK a, b, c, d, e, f : /\ a = x * Cardinality(O) /\ b = y * Cardinality(C) /\ c = z * Cardinality(K)
                              /\ d = x * Cardinality(D) /\ e = y * Cardinality(D) /\ f = z * Cardinality(D)
  OBVIOUS
<1>6. a \in Int /\ b \in Int /\ c \in Int
  BY <1>1, <1>3, <1>5, Counted
<1>7. d \in Int /\ e \in Int /\ f \in Int
  BY <1>1, <1>5, Counted
<1>8. /\ DOMAIN blocks'[r] = O2 \cup C2 \cup K2
      /\ u = x * Cardinality(O2) + y * Cardinality(C2) + z * Cardinality(K2)
  <2>1. CASE O2 = O \cup D /\ O \cap D = {} /\ u = inUse[r] + d /\ C2 = C /\ K2 = K
    <3>1. x * Cardinality(O2) = a + d
      BY <1>3, <1>4, <1>5, <2>1, Grown
    <3>2. DOMAIN blocks'[r] = O2 \cup C2 \cup K2
      BY <1>2, <2>1
    <3>3. u = (a + d) + b + c
      BY <1>2, <1>5, <1>6, <1>7, <2>1
    <3>4. QED
      BY <1>5, <2>1, <3>1, <3>2, <3>3
  <2>2. CASE C2 = C \cup D /\ C \cap D = {} /\ u = inUse[r] + e /\ O2 = O /\ K2 = K
    <3>1. y * Cardinality(C2) = b + e
      BY <1>3, <1>4, <1>5, <2>2, Grown
    <3>2. DOMAIN blocks'[r] = O2 \cup C2 \cup K2
      BY <1>2, <2>2
    <3>3. u = a + (b + e) + c
      BY <1>2, <1>5, <1>6, <1>7, <2>2
    <3>4. QED
      BY <1>5, <2>2, <3>1, <3>2, <3>3
  <2>3. CASE K2 = K \cup D /\ K \cap D = {} /\ u = inUse[r] + f /\ O2 = O /\ C2 = C
    <3>1. z * Cardinality(K2) = c + f
      BY <1>3, <1>4, <1>5, <2>3, Grown
    <3>2. DOMAIN blocks'[r] = O2 \cup C2 \cup K2
      BY <1>2, <2>3
    <3>3. u = a + b + (c + f)
      BY <1>2, <1>5, <1>6, <1>7, <2>3
    <3>4. QED
      BY <1>5, <2>3, <3>1, <3>2, <3>3
  <2>4. QED
    BY <1>1, <1>5, <2>1, <2>2, <2>3
<1>9. QED
  BY <1>1, <1>8 DEF BlocksInv, Aligned, CacheSize

\* A rank that frees blocks of one sort, and counts them off, keeps BlocksInv.
LEMMA MemShrinks ==
  ASSUME NEW r \in Ranks, BlocksInv(r), Sorted(r), NEW D,
         DOMAIN blocks'[r] = DOMAIN blocks[r] \ D,
         \/ /\ Own(r)' = Own(r) \ D /\ D \subseteq Own(r) /\ inUse'[r] = inUse[r] - MsgSize * Cardinality(D)
            /\ Comms(r)' = Comms(r) /\ Caches(r)' = Caches(r)
         \/ /\ Comms(r)' = Comms(r) \ D /\ D \subseteq Comms(r)
            /\ inUse'[r] = inUse[r] - Aligned(MsgSize) * Cardinality(D)
            /\ Own(r)' = Own(r) /\ Caches(r)' = Caches(r)
         \/ /\ Caches(r)' = Caches(r) \ D /\ D \subseteq Caches(r)
            /\ inUse'[r] = inUse[r] - CacheSize * Cardinality(D)
            /\ Own(r)' = Own(r) /\ Comms(r)' = Comms(r)
  PROVE  BlocksInv(r)'
<1>1. PICK O, C, K, O2, C2, K2, x, y, z, u :
        /\ O = Own(r) /\ C = Comms(r) /\ K = Caches(r)
        /\ O2 = Own(r)' /\ C2 = Comms(r)' /\ K2 = Caches(r)'
        /\ x = MsgSize /\ y = Aligned(MsgSize) /\ z = CacheSize /\ u = inUse'[r]
  OBVIOUS
<1>2. DOMAIN blocks[r] = O \cup C \cup K /\ inUse[r] = x * Cardinality(O) + y * Cardinality(C) + z * Cardinality(K)
  BY <1>1 DEF BlocksInv
<1>3. IsFiniteSet(O) /\ IsFiniteSet(C) /\ IsFiniteSet(K) /\ O \cap C = {} /\ O \cap K = {} /\ C \cap K = {}
  BY <1>1 DEF Sorted
<1>4. x \in Nat /\ y \in Nat /\ z \in Nat
  BY <1>1, SizesAre
<1>5. IsFiniteSet(D)
  BY <1>1, <1>3, FS_Subset
<1>6. PICK a, b, c, d, e, f : /\ a = x * Cardinality(O) /\ b = y * Cardinality(C) /\ c = z * Cardinality(K)
                              /\ d = x * Cardinality(D) /\ e = y * Cardinality(D) /\ f = z * Cardinality(D)
  OBVIOUS
<1>7. a \in Int /\ b \in Int /\ c \in Int
  BY <1>1, <1>3, <1>6, Counted
<1>8. d \in Int /\ e \in Int /\ f \in Int
  BY <1>1, <1>5, <1>6, Counted
<1>9. /\ DOMAIN blocks'[r] = O2 \cup C2 \cup K2
      /\ u = x * Cardinality(O2) + y * Cardinality(C2) + z * Cardinality(K2)
  <2>1. CASE O2 = O \ D /\ D \subseteq O /\ u = inUse[r] - d /\ C2 = C /\ K2 = K
    <3>1. x * Cardinality(O2) = a - d
      BY <1>3, <1>4, <1>6, <2>1, Shrunk
    <3>2. DOMAIN blocks'[r] = O2 \cup C2 \cup K2
      BY <1>2, <1>3, <2>1
    <3>3. u = (a - d) + b + c
      BY <1>2, <1>6, <1>7, <1>8, <2>1
    <3>4. QED
      BY <1>6, <2>1, <3>1, <3>2, <3>3
  <2>2. CASE C2 = C \ D /\ D \subseteq C /\ u = inUse[r] - e /\ O2 = O /\ K2 = K
    <3>1. y * Cardinality(C2) = b - e
      BY <1>3, <1>4, <1>6, <2>2, Shrunk
    <3>2. DOMAIN blocks'[r] = O2 \cup C2 \cup K2
      BY <1>2, <1>3, <2>2
    <3>3. u = a + (b - e) + c
      BY <1>2, <1>6, <1>7, <1>8, <2>2
    <3>4. QED
      BY <1>6, <2>2, <3>1, <3>2, <3>3
  <2>3. CASE K2 = K \ D /\ D \subseteq K /\ u = inUse[r] - f /\ O2 = O /\ C2 = C
    <3>1. z * Cardinality(K2) = c - f
      BY <1>3, <1>4, <1>6, <2>3, Shrunk
    <3>2. DOMAIN blocks'[r] = O2 \cup C2 \cup K2
      BY <1>2, <1>3, <2>3
    <3>3. u = a + b + (c - f)
      BY <1>2, <1>6, <1>7, <1>8, <2>3
    <3>4. QED
      BY <1>6, <2>3, <3>1, <3>2, <3>3
  <2>4. QED
    BY <1>1, <1>6, <2>1, <2>2, <2>3
<1>10. QED
  BY <1>1, <1>9 DEF BlocksInv, Aligned, CacheSize

\* A rank keeps its own blocks while its place in the exchange is the same.
LEMMA OwnKept ==
  ASSUME NEW x, session' = session, rnd'[x] = rnd[x], Under(x)' <=> Under(x),
         session.probing /\ Peers(x) # {} => (Finishing(x)' <=> Finishing(x))
  PROVE  Own(x)' = Own(x)
<1>1. \A k : Leaked(x, k)' = Leaked(x, k)
  BY DEF Leaked
<1>2. Peers(x)' = Peers(x)
  BY DEF Peers, Ranks
<1>3. session.probing' = session.probing
  OBVIOUS
<1>4. CASE ~Under(x)
  BY <1>1, <1>4 DEF Own, Leaked
<1>5. CASE Under(x) /\ (Finishing(x)' <=> Finishing(x))
  BY <1>1, <1>2, <1>5 DEF Own, Leaked, SendBlock, RecvBlock
<1>6. CASE Under(x) /\ ~session.probing
  BY <1>1, <1>2, <1>6 DEF Own, Leaked, SendBlock, RecvBlock
<1>7. CASE Under(x) /\ Peers(x) = {}
  BY <1>1, <1>2, <1>7 DEF Own, Leaked, SendBlock, RecvBlock
<1>8. QED
  BY <1>4, <1>5, <1>6, <1>7

\* It keeps its NCCL buffers as long as it does not free them.
LEMMA CommsKept ==
  ASSUME NEW x, kind' = kind, commBuffers'[x] = commBuffers[x], Under(x)' <=> Under(x),
         kind = "nccl" => (NextCall(x)' = "free" <=> NextCall(x) = "free")
  PROVE  Comms(x)' = Comms(x)
  BY DEF Comms, CommBlock

\* It keeps the block of the cache as long as the cache exists.
LEMMA CachesKept ==
  ASSUME NEW x, "cache" \in handles'[x] <=> "cache" \in handles[x]
  PROVE  Caches(x)' = Caches(x)
  BY DEF Caches, CacheBlock

\* It keeps what BuffersInv says of its NCCL buffers.
LEMMA BuffersKept ==
  ASSUME NEW x, BuffersInv(x), kind' = kind, commBuffers'[x] = commBuffers[x], kind = "nccl" /\ Under(x)' => Under(x)
  PROVE  BuffersInv(x)'
  BY DEF BuffersInv, CommBlock, IsSeq

\* A step of one rank leaves the memory of the others.
LEMMA MemOthers ==
  ASSUME ControlInv, NEW r \in Ranks, RankStep(r), NEW x \in Ranks \ {r}, BlocksInv(x), BuffersInv(x)
  PROVE  BlocksInv(x)' /\ BuffersInv(x)'
<1>1. session' = session /\ kind' = kind /\ NextCall(x)' = NextCall(x) /\ rnd'[x] = rnd[x]
  BY ControlStep
<1>2. blocks'[x] = blocks[x] /\ inUse'[x] = inUse[x] /\ commBuffers'[x] = commBuffers[x]
  BY MemoryMine
<1>3. handles'[x] = handles[x]
  <2>1. UNCHANGED handles \/ Handled(r)
    BY ControlStep DEF Steps
  <2>2. QED
    BY <2>1 DEF Handled
<1>4. (Under(x)' <=> Under(x)) /\ (Finishing(x)' <=> Finishing(x))
  BY <1>1 DEF Under, Finishing
<1>5. Own(x)' = Own(x)
  BY <1>1, <1>4, OwnKept
<1>6. Comms(x)' = Comms(x)
  BY <1>1, <1>2, <1>4, CommsKept
<1>7. Caches(x)' = Caches(x)
  BY <1>3, CachesKept
<1>8. BlocksInv(x)'
  BY <1>2, <1>5, <1>6, <1>7, MemKeeps
<1>9. BuffersInv(x)'
  BY <1>1, <1>2, <1>4, BuffersKept
<1>10. QED
  BY <1>8, <1>9

\* Setup and destroy allocate and free the cache's block, and no other.
LEMMA MemOutside ==
  ASSUME ControlInv, NEW r \in Ranks, Setup(r) \/ Destroy(r), BlocksInv(r), BuffersInv(r)
  PROVE  BlocksInv(r)' /\ BuffersInv(r)'
<1>1. TypeInv /\ WhereInv(r) /\ ObjectsInv(r) /\ Outside(r) /\ Followed(r) /\ Handled(r) /\ session' = session
  BY OutsideIs DEF ControlInv, Steps, Arrive
<1>2. kind' = kind
  BY <1>1 DEF kind
<1>3. NextCall(r) \notin UnderSet /\ NextCall(r)' \notin UnderSet /\ rnd'[r] = rnd[r] /\ commBuffers' = commBuffers
  BY <1>1, SetsDisjoint DEF Outside, comms, ncclVars
<1>4. ~Under(r) /\ ~Under(r)' /\ ~Finishing(r) /\ ~Finishing(r)'
  BY <1>3 DEF Under, Finishing, UnderSet
<1>5. Own(r)' = Own(r)
  BY <1>1, <1>3, <1>4, OwnKept
<1>6. Comms(r)' = Comms(r)
  BY <1>4 DEF Comms
<1>7. BuffersInv(r)'
  BY <1>2, <1>3, <1>4, BuffersKept
<1>8. Sorted(r)
  BY <1>1, SortedIs
<1>9. DOMAIN blocks = Ranks /\ DOMAIN inUse = Ranks
  BY <1>1 DEF TypeInv
<1>10. /\ "cache" \in handles'[r] <=>
            Registers(NextCall(r), "cache") \/ ("cache" \in handles[r] /\ ~Deregisters(NextCall(r), "cache"))
       /\ "cache" \in handles[r] <=> kind = "buffer" /\ NextCall(r) \in ExchangeSet \cup {"uncache"}
  BY <1>1 DEF Handled, ObjectsInv
<1>11. CacheSize \in Nat /\ IsFiniteSet({CacheBlock})
  BY SizesAre, FS_Singleton
<1>12. CASE Cache(r)
  <2>1. NextCall(r) = "cache"
    BY <1>12 DEF Cache, Do
  <2>2. "cache" \in handles'[r] /\ "cache" \notin handles[r]
    BY <1>10, <2>1 DEF Registers, ExchangeSet
  <2>3. PICK new : new = Only(CacheBlock, Block(CacheSize, Garbage))
    OBVIOUS
  <2>4. DOMAIN new = {CacheBlock} /\ \A b \in DOMAIN new : new[b].size = CacheSize
    BY <2>3 DEF Only, Block
  <2>5. Allocate(r, new)
    BY <1>12, <2>3 DEF Cache
  <2>6. /\ DOMAIN blocks'[r] = DOMAIN blocks[r] \cup DOMAIN new
        /\ inUse'[r] = inUse[r] + CacheSize * Cardinality(DOMAIN new)
    BY <1>9, <1>11, <2>4, <2>5, Taken
  <2>7. Caches(r)' = Caches(r) \cup {CacheBlock} /\ Caches(r) \cap {CacheBlock} = {}
    BY <2>2 DEF Caches, CacheBlock
  <2>8. BlocksInv(r)'
    BY <1>5, <1>6, <1>8, <1>11, <2>4, <2>6, <2>7, MemGrows
  <2>9. QED
    BY <1>7, <2>8
<1>13. CASE Uncache(r)
  <2>1. NextCall(r) = "uncache" /\ kind = "buffer"
    <3>1. NextCall(r) = "uncache"
      BY <1>13 DEF Uncache, Do
    <3>2. QED
      BY <1>1, <3>1 DEF Followed, Permitted
  <2>2. "cache" \notin handles'[r] /\ "cache" \in handles[r]
    BY <1>10, <2>1 DEF Registers, Deregisters, ExchangeSet
  <2>3. PICK old : old = Only(CacheBlock, CacheSize)
    OBVIOUS
  <2>4. DOMAIN old = {CacheBlock} /\ \A b \in DOMAIN old : old[b] = CacheSize
    BY <2>3 DEF Only
  <2>5. Deallocate(r, old)
    BY <1>13, <2>3 DEF Uncache
  <2>6. Bytes(old) = CacheSize * Cardinality(DOMAIN old)
    BY <1>11, <2>4, EqualBytes
  <2>7. /\ DOMAIN blocks'[r] = DOMAIN blocks[r] \ DOMAIN old
        /\ inUse'[r] = inUse[r] - CacheSize * Cardinality(DOMAIN old)
    BY <1>9, <2>5, <2>6 DEF Deallocate, Without
  <2>8. Caches(r)' = Caches(r) \ {CacheBlock} /\ {CacheBlock} \subseteq Caches(r)
    BY <2>2 DEF Caches, CacheBlock
  <2>9. BlocksInv(r)'
    BY <1>5, <1>6, <1>8, <2>4, <2>7, <2>8, MemShrinks
  <2>10. QED
    BY <1>7, <2>9
<1>14. CASE ~Cache(r) /\ ~Uncache(r)
  <2>1. blocks' = blocks /\ inUse' = inUse /\ NextCall(r) # "cache" /\ NextCall(r) # "uncache"
    <3> USE DEF Do
    <3>1. CASE Setup(r)
      BY <1>14, <3>1 DEF Setup, Worker, Connect, Registered, Pool, NewPool, Throw, memVars
    <3>2. CASE Destroy(r)
      BY <1>14, <3>2 DEF Destroy, Close, Barrier, DestroyNccl, PoolDeleted, DeletePool, Deleted, memVars
    <3>3. QED
      BY <3>1, <3>2
  <2>2. "cache" \in handles'[r] <=> "cache" \in handles[r]
    BY <1>10, <2>1 DEF Registers, Deregisters
  <2>3. Caches(r)' = Caches(r)
    BY <2>2, CachesKept
  <2>4. BlocksInv(r)'
    BY <1>5, <1>6, <2>1, <2>3, MemKeeps
  <2>5. QED
    BY <1>7, <2>4
<1>15. QED
  BY <1>12, <1>13, <1>14

\* Start takes the send blocks of the round and, unless recv probes, the receive blocks.
LEMMA MemStart ==
  ASSUME ControlInv, NEW r \in Ranks, Start(r), BlocksInv(r), BuffersInv(r)
  PROVE  BlocksInv(r)' /\ BuffersInv(r)'
<1>1. TypeInv /\ WhereInv(r) /\ Warmup(r) /\ ~Progress(r)
  BY NotProgress DEF ControlInv
<1>2. NextCall(r) = "start" /\ NextCall(r)' \in {"send", "recv"} /\ Keeps
  BY <1>1, InsideIs
<1>3. session' = session /\ kind' = kind /\ rnd'[r] = rnd[r] + 1 /\ rnd[r] \in Nat
  BY <1>1 DEF Start, kind, TypeInv
<1>4. ~Under(r) /\ Under(r)' /\ ~Finishing(r)'
  BY <1>2 DEF Under, Finishing
<1>5. PICK k, snd, rcv, D : /\ k = rnd[r] + 1 /\ snd = NewSendBlocks(r, k) /\ rcv = NewRecvBlocks(r, k)
                            /\ D = SendsOf(r, k) \cup (IF session.probing THEN {} ELSE RecvsOf(r, k))
  OBVIOUS
<1>6. k \in Nat /\ k >= 1 /\ k - 1 = rnd[r]
  BY <1>3, <1>5
<1>7. PICK new : new = With(snd, IF session.probing THEN <<>> ELSE rcv)
  OBVIOUS
<1>8. Allocate(r, new)
  BY <1>5, <1>7 DEF Start
<1>9. DOMAIN snd = SendsOf(r, k) /\ DOMAIN rcv = RecvsOf(r, k)
      /\ (\A b \in DOMAIN snd : snd[b].size = MsgSize) /\ (\A b \in DOMAIN rcv : rcv[b].size = MsgSize)
  BY <1>5 DEF NewSendBlocks, NewRecvBlocks, SendsOf, RecvsOf, Block
<1>10. DOMAIN new = D /\ \A b \in DOMAIN new : new[b].size = MsgSize
  <2>1. CASE session.probing
    <3>1. DOMAIN <<>> = {}
      OBVIOUS
    <3>2. QED
      BY <1>5, <1>7, <1>9, <2>1, <3>1 DEF With
  <2>2. CASE ~session.probing
    BY <1>5, <1>7, <1>9, <2>2 DEF With
  <2>3. QED
    BY <2>1, <2>2
<1>11. Own(r) = Leaked(r, k - 1) /\ Own(r)' = Own(r) \cup D
  <2>1. Own(r) = Leaked(r, k - 1)
    BY <1>4, <1>6 DEF Own
  <2>2. Own(r)' = Leaked(r, k - 1) \cup SendsOf(r, k) \cup (IF session.probing THEN {} ELSE RecvsOf(r, k))
    <3>1. rnd'[r] = k /\ session.probing' = session.probing
      BY <1>3, <1>5
    <3>2. QED
      BY <1>4, <3>1 DEF Own, SendsOf, RecvsOf, SendBlock, RecvBlock, Leaked, Peers, Ranks
  <2>3. QED
    BY <1>5, <2>1, <2>2
<1>12. Own(r) \cap D = {} /\ D \subseteq Triples(k)
  BY <1>5, <1>6, <1>11, OfRound
<1>13. IsFiniteSet(D) /\ MsgSize \in Nat
  BY <1>6, <1>12, TriplesFinite, SizesAre
<1>14. kind = "nccl" => commBuffers'[r] = <<>>
  BY <1>1 DEF Start, NcclStart, TypeInv
<1>15. Comms(r) = {} /\ Comms(r)' = {}
  <2>1. Comms(r) = {}
    BY <1>4 DEF Comms
  <2>2. 1 .. Len(<<>>) = {}
    OBVIOUS
  <2>3. Comms(r)' = {}
    BY <1>3, <1>14, <2>2 DEF Comms
  <2>4. QED
    BY <2>1, <2>3
<1>16. BuffersInv(r)'
  <2>1. DOMAIN <<>> = {}
    OBVIOUS
  <2>2. QED
    BY <1>3, <1>14, <2>1, EmptyIs DEF BuffersInv, IsSeq
<1>17. Caches(r)' = Caches(r)
  BY <1>2, CachesKept DEF Keeps
<1>18. DOMAIN blocks = Ranks /\ DOMAIN inUse = Ranks /\ Sorted(r)
  BY <1>1, SortedIs DEF TypeInv
<1>19. /\ DOMAIN blocks'[r] = DOMAIN blocks[r] \cup D
       /\ inUse'[r] = inUse[r] + MsgSize * Cardinality(D)
  BY <1>8, <1>10, <1>13, <1>18, Taken
<1>20. BlocksInv(r)'
  BY <1>11, <1>12, <1>13, <1>15, <1>17, <1>18, <1>19, MemGrows
<1>21. QED
  BY <1>16, <1>20

\* NCCL buffers have different names.
LEMMA CommBlockIs ==
  \A i, j : CommBlock(i) = CommBlock(j) => i = j
  BY DEF CommBlock

\* A send takes at most one NCCL buffer, and it is counted.
LEMMA MemSend ==
  ASSUME ControlInv, AllSent, NEW r \in Ranks, Send(r), BlocksInv(r), BuffersInv(r)
  PROVE  BlocksInv(r)' /\ BuffersInv(r)'
<1>1. TypeInv /\ WhereInv(r) /\ Warmup(r) /\ ~Progress(r)
  BY NotProgress DEF ControlInv
<1>2. NextCall(r) = "send" /\ NextCall(r)' \in {"send", "recv"} /\ Keeps
  BY <1>1, InsideIs
<1>3. session' = session /\ kind' = kind /\ rnd' = rnd
  BY DEF Send, kind
<1>4. Under(r) /\ Under(r)' /\ ~Finishing(r) /\ ~Finishing(r)'
  BY <1>2 DEF Under, Finishing
<1>5. Own(r)' = Own(r)
  BY <1>3, <1>4, OwnKept
<1>6. Caches(r)' = Caches(r)
  BY <1>2, CachesKept DEF Keeps
<1>7. PICK d \in Peers(r) : IF kind = "nccl" THEN NcclSend(r, d, SendBlock(d, rnd[r]), MsgSize)
                            ELSE UNCHANGED <<memVars, ncclVars>>
  BY SendIs
<1>8. CASE kind # "nccl"
  <2>1. blocks' = blocks /\ inUse' = inUse /\ commBuffers' = commBuffers
    BY <1>7, <1>8 DEF memVars, ncclVars
  <2>2. Comms(r)' = Comms(r)
    BY <1>3, <1>4, <1>8, <2>1, CommsKept
  <2>3. BlocksInv(r)'
    BY <1>5, <1>6, <2>1, <2>2, MemKeeps
  <2>4. BuffersInv(r)'
    BY <1>3, <1>8 DEF BuffersInv
  <2>5. QED
    BY <2>3, <2>4
<1>9. CASE kind = "nccl"
  <2>1. PICK b, cb, n, new, e :
           /\ b = SendBlock(d, rnd[r]) /\ cb = commBuffers[r] /\ n = Len(cb) + 1
           /\ new = Only(CommBlock(n), Block(Aligned(MsgSize), Read(r, b)))
           /\ e = [blk |-> CommBlock(n), size |-> MsgSize]
    OBVIOUS
  <2>2. Allocate(r, new) /\ commBuffers' = [commBuffers EXCEPT ![r] = Append(@, e)]
    BY <1>7, <1>9, <2>1 DEF NcclSend
  <2>3. commBuffers'[r] = Append(cb, e)
    BY <1>1, <2>1, <2>2 DEF TypeInv
  <2>4. IsSeq(cb) /\ \A j \in DOMAIN cb : cb[j] = [blk |-> CommBlock(j), size |-> MsgSize]
    BY <1>4, <1>9, <2>1 DEF BuffersInv
  <2>5. DOMAIN cb = 1 .. Len(cb) /\ Len(cb) \in Nat
    BY <2>4, IsSeqDomain
  <2>6. Appended(commBuffers'[r], cb, e)
    BY <2>3, <2>4, AppendIs
  <2>7. IsSeq(commBuffers'[r]) /\ Len(commBuffers'[r]) = n /\ DOMAIN commBuffers'[r] = 1 .. n
    BY <2>1, <2>6, IsSeqDomain DEF Appended
  <2>8. BuffersInv(r)'
    <3>1. ASSUME NEW j \in 1 .. n PROVE commBuffers'[r][j] = [blk |-> CommBlock(j), size |-> MsgSize]
      <4>1. CASE j = n
        BY <2>1, <2>6, <4>1 DEF Appended
      <4>2. CASE j # n
        <5>1. j \in 1 .. Len(cb)
          BY <2>1, <2>5, <4>2
        <5>2. QED
          BY <2>4, <2>5, <2>6, <5>1 DEF Appended
      <4>3. QED
        BY <4>1, <4>2
    <3>2. QED
      BY <2>7, <3>1 DEF BuffersInv, IsSeq, CommBlock
  <2>9. Comms(r)' = Comms(r) \cup {CommBlock(n)} /\ Comms(r) \cap {CommBlock(n)} = {}
    <3>1. Comms(r) = {CommBlock(i) : i \in 1 .. Len(cb)}
      BY <1>2, <1>4, <1>9, <2>1 DEF Comms
    <3>2. Comms(r)' = {CommBlock(i) : i \in 1 .. n}
      BY <1>2, <1>3, <1>4, <1>9, <2>7 DEF Comms, CommBlock
    <3>3. 1 .. n = (1 .. Len(cb)) \cup {n} /\ n \notin 1 .. Len(cb)
      BY <2>1, <2>5
    <3>4. QED
      BY <3>1, <3>2, <3>3, CommBlockIs
  <2>10. DOMAIN new = {CommBlock(n)} /\ \A x \in DOMAIN new : new[x].size = Aligned(MsgSize)
    BY <2>1 DEF Only, Block
  <2>11. DOMAIN blocks = Ranks /\ DOMAIN inUse = Ranks /\ Sorted(r) /\ Aligned(MsgSize) \in Nat
         /\ IsFiniteSet({CommBlock(n)})
    BY <1>1, SortedIs, SizesAre, FS_Singleton DEF TypeInv
  <2>12. /\ DOMAIN blocks'[r] = DOMAIN blocks[r] \cup {CommBlock(n)}
         /\ inUse'[r] = inUse[r] + Aligned(MsgSize) * Cardinality({CommBlock(n)})
    BY <2>2, <2>10, <2>11, Taken
  <2>13. BlocksInv(r)'
    BY <1>5, <1>6, <2>9, <2>11, <2>12, MemGrows
  <2>14. QED
    BY <2>8, <2>13
<1>10. QED
  BY <1>8, <1>9

\* Only unbuffered UCX has messages to probe for here: else a probe succeeds only without other ranks.
LEMMA NoProbe ==
  ASSUME UcxInv, NEW r \in Ranks, ~Unbuffered, Probed(r, Others(r))
  PROVE  Peers(r) = {}
<1>1. \A s \in Ranks : DOMAIN net[s][r] = {}
  <2> SUFFICES ASSUME NEW s \in Ranks PROVE DOMAIN net[s][r] = {}
    OBVIOUS
  <2>1. net[s][r] = <<>>
    BY DEF UcxInv, NetInv
  <2>2. QED
    BY <2>1
<1>2. DOMAIN Others(r) = 1 .. N - 1
  BY DEF Others
<1>3. 1 .. N - 1 = {}
  BY <1>1, <1>2 DEF Probed
<1>4. QED
  BY <1>3, NthIs

\* Recv keeps the account of blocks and bytes.
LEMMA MemRecv ==
  ASSUME ControlInv, UcxInv, NEW r \in Ranks, Recv(r), BlocksInv(r), BuffersInv(r)
  PROVE  BlocksInv(r)' /\ BuffersInv(r)'
<1>1. TypeInv /\ WhereInv(r) /\ Warmup(r) /\ ~Progress(r)
  BY NotProgress DEF ControlInv
<1>2. NextCall(r) = "recv" /\ NextCall(r)' \in {"launch", "stop"} /\ Keeps
  BY <1>1, InsideIs
<1>3. session' = session /\ kind' = kind /\ rnd' = rnd /\ rnd[r] \in Nat /\ rnd[r] >= 1
  <2>1. session' = session /\ rnd' = rnd
    BY DEF Recv, user
  <2>2. rnd[r] \in Nat
    BY <1>1 DEF TypeInv
  <2>3. rnd[r] >= 1
    BY <1>1, <1>2, RoundIs DEF UnderSet
  <2>4. QED
    BY <2>1, <2>2, <2>3 DEF kind
<1>4. Under(r) /\ Under(r)' /\ ~Finishing(r) /\ Finishing(r)'
  BY <1>2 DEF Under, Finishing
<1>5. Caches(r)' = Caches(r)
  BY <1>2, CachesKept DEF Keeps
<1>6. DOMAIN blocks = Ranks /\ DOMAIN inUse = Ranks /\ Sorted(r) /\ Aligned(MsgSize) \in Nat /\ MsgSize \in Nat
  BY <1>1, SortedIs, SizesAre DEF TypeInv
<1>7. CASE kind = "nccl"
  <2>1. Own(r)' = Own(r)
    <3>1. session.probing => Peers(r) = {}
      <4>1. session.probing => Probed(r, Others(r))
        BY DEF Recv
      <4>2. ~Unbuffered
        BY <1>7 DEF Unbuffered
      <4>3. QED
        BY <4>1, <4>2, NoProbe
    <3>2. QED
      BY <1>3, <1>4, <3>1, OwnKept
  <2>2. PICK dst, from, cb, len : /\ dst = [s \in Peers(r) |-> RecvBlock(s, rnd[r])] /\ from = Others(r)
                                  /\ cb = commBuffers[r] /\ len = Len(cb)
    OBVIOUS
  <2>3. NcclRecvs(r, from, dst, MsgSize)
    <3>1. NcclRecvs(r, Others(r), [s \in Peers(r) |-> RecvBlock(s, rnd[r])], MsgSize)
      BY <1>7 DEF Recv
    <3>2. QED
      BY <2>2, <3>1
  <2>4. DOMAIN from = 1 .. N - 1 /\ N - 1 \in Nat
    BY <2>2, NAssumption DEF Others
  <2>5. PICK D, new, more : /\ D = {CommBlock(len + i) : i \in 1 .. N - 1}
                            /\ new = [c \in D |-> Block(Aligned(MsgSize), Garbage)]
                            /\ more = [i \in 1 .. N - 1 |-> [blk |-> CommBlock(len + i), size |-> MsgSize]]
    OBVIOUS
  <2>6. Allocate(r, new)
    BY <2>2, <2>3, <2>4, <2>5 DEF NcclRecvs
  <2>7. commBuffers' = [commBuffers EXCEPT ![r] = @ \o more]
    BY <2>2, <2>3, <2>4, <2>5 DEF NcclRecvs
  <2>8. commBuffers'[r] = cb \o more
    BY <1>1, <2>2, <2>7 DEF TypeInv
  <2>9. IsSeq(cb) /\ \A j \in DOMAIN cb : cb[j] = [blk |-> CommBlock(j), size |-> MsgSize]
    BY <1>4, <1>7, <2>2 DEF BuffersInv
  <2>10. DOMAIN cb = 1 .. len /\ len \in Nat
    BY <2>2, <2>9, IsSeqDomain
  <2>11. IsSeq(more) /\ Len(more) = N - 1
    <3>1. more \in Seq({[blk |-> CommBlock(len + i), size |-> MsgSize] : i \in 1 .. N - 1})
      <4>1. PICK m, T : m = N - 1 /\ T = {[blk |-> CommBlock(len + i), size |-> MsgSize] : i \in 1 .. N - 1}
        OBVIOUS
      <4>2. more \in [1 .. m -> T] /\ m \in Nat
        BY <2>4, <2>5, <4>1
      <4>3. more \in Seq(T)
        BY <4>2, SeqDef
      <4>4. QED
        BY <4>1, <4>3
    <3>2. IsSeq(more) /\ DOMAIN more = 1 .. Len(more) /\ Len(more) \in Nat
      BY <3>1, SeqIs
    <3>3. DOMAIN more = 1 .. N - 1
      BY <2>5
    <3>4. QED
      BY <2>4, <3>2, <3>3
  <2>12. PICK n, jb : n = len + (N - 1) /\ jb = commBuffers'[r]
    OBVIOUS
  <2>13. IsSeq(jb) /\ IsJoined(jb, cb, more)
    BY <2>8, <2>9, <2>11, <2>12, JoinIs
  <2>14. Len(jb) = n /\ DOMAIN jb = 1 .. n
    <3>1. Len(jb) = n
      BY <2>2, <2>11, <2>12, <2>13 DEF IsJoined
    <3>2. QED
      BY <2>13, <3>1, IsSeqDomain
  <2>15. BuffersInv(r)'
    <3>1. ASSUME NEW j \in 1 .. n PROVE jb[j] = [blk |-> CommBlock(j), size |-> MsgSize]
      <4>1. CASE j \in 1 .. len
        BY <2>2, <2>9, <2>10, <2>13, <4>1 DEF IsJoined
      <4>2. CASE j \notin 1 .. len
        <5>1. PICK i : i = j - len
          OBVIOUS
        <5>2. i \in 1 .. N - 1 /\ j = len + i
          BY <2>4, <2>10, <2>12, <4>2, <5>1
        <5>3. jb[len + i] = more[i]
          BY <2>2, <2>11, <2>13, <5>2 DEF IsJoined
        <5>4. QED
          BY <2>5, <5>2, <5>3
      <4>3. QED
        BY <4>1, <4>2
    <3>2. QED
      BY <2>12, <2>13, <2>14, <3>1 DEF BuffersInv, IsSeq, CommBlock
  <2>16. Comms(r)' = Comms(r) \cup D /\ Comms(r) \cap D = {}
    <3>1. Comms(r) = {CommBlock(i) : i \in 1 .. len}
      BY <1>2, <1>4, <1>7, <2>2 DEF Comms
    <3>2. Comms(r)' = {CommBlock(i) : i \in 1 .. n}
      BY <1>2, <1>3, <1>4, <1>7, <2>12, <2>14 DEF Comms, CommBlock
    <3>3. \A j \in 1 .. n : j \in 1 .. len \/ \E i \in 1 .. N - 1 : j = len + i
      <4>1. ASSUME NEW j \in 1 .. n, j \notin 1 .. len PROVE j - len \in 1 .. N - 1 /\ j = len + (j - len)
        BY <2>4, <2>10, <2>12, <4>1
      <4>2. QED
        BY <4>1
    <3>4. \A i \in 1 .. N - 1 : len + i \in 1 .. n /\ len + i \notin 1 .. len
      BY <2>4, <2>10, <2>12
    <3>5. \A j \in 1 .. len : j \in 1 .. n
      BY <2>4, <2>10, <2>12
    <3>6. QED
      BY <2>5, <3>1, <3>2, <3>3, <3>4, <3>5, CommBlockIs
  <2>17. IsFiniteSet(D)
    <3>1. PICK X : X = {len + i : i \in 1 .. N - 1}
      OBVIOUS
    <3>2. X \subseteq 1 .. n
      BY <2>4, <2>10, <2>12, <3>1
    <3>3. IsFiniteSet(X)
      <4>1. n \in Int
        BY <2>4, <2>10, <2>12
      <4>2. IsFiniteSet(1 .. n)
        BY <4>1, FS_Interval
      <4>3. QED
        BY <3>2, <4>2, FS_Subset
    <3>4. IsFiniteSet({CommBlock(i) : i \in X})
      BY <3>3, CommBlocksFinite
    <3>5. {CommBlock(i) : i \in X} = D
      BY <2>5, <3>1
    <3>6. QED
      BY <3>4, <3>5
  <2>18. DOMAIN new = D /\ \A x \in DOMAIN new : new[x].size = Aligned(MsgSize)
    BY <2>5 DEF Block
  <2>19. /\ DOMAIN blocks'[r] = DOMAIN blocks[r] \cup D
         /\ inUse'[r] = inUse[r] + Aligned(MsgSize) * Cardinality(D)
    BY <1>6, <2>6, <2>17, <2>18, Taken
  <2>20. BlocksInv(r)'
    BY <1>5, <1>6, <2>1, <2>16, <2>17, <2>19, MemGrows
  <2>21. QED
    BY <2>15, <2>20
<1>8. CASE kind # "nccl" /\ ~session.probing
  <2>1. blocks' = blocks /\ inUse' = inUse
    BY <1>8 DEF Recv, memVars
  <2>2. Own(r)' = Own(r)
    BY <1>3, <1>4, <1>8, OwnKept
  <2>3. Comms(r)' = Comms(r)
    BY <1>3, <1>8 DEF Comms
  <2>4. BlocksInv(r)'
    BY <1>5, <2>1, <2>2, <2>3, MemKeeps
  <2>5. QED
    BY <1>3, <1>8, <2>4 DEF BuffersInv
<1>9. CASE kind # "nccl" /\ session.probing
  <2>1. PICK k, D, new : k = rnd[r] /\ D = RecvsOf(r, k) /\ new = NewRecvBlocks(r, k)
    OBVIOUS
  <2>2. Allocate(r, new)
    BY <1>9, <2>1 DEF Recv
  <2>3. DOMAIN new = D /\ \A b \in DOMAIN new : new[b].size = MsgSize
    BY <2>1 DEF NewRecvBlocks, RecvsOf, Block
  <2>4. Own(r) = Leaked(r, k - 1) \cup SendsOf(r, k)
    BY <1>4, <1>9, <2>1 DEF Own, SendsOf
  <2>5. Own(r)' = Leaked(r, k - 1) \cup SendsOf(r, k) \cup RecvsOf(r, k)
    BY <1>3, <1>4, <1>9, <2>1 DEF Own, SendsOf, RecvsOf, SendBlock, RecvBlock, Leaked, Peers, Ranks
  <2>6. Own(r) \cap D = {} /\ D \subseteq Triples(k) /\ Own(r)' = Own(r) \cup D
    BY <1>3, <2>1, <2>4, <2>5, OfRound
  <2>7. IsFiniteSet(D)
    BY <1>3, <2>1, <2>6, TriplesFinite
  <2>8. /\ DOMAIN blocks'[r] = DOMAIN blocks[r] \cup D
        /\ inUse'[r] = inUse[r] + MsgSize * Cardinality(D)
    BY <1>6, <2>2, <2>3, <2>7, Taken
  <2>9. Comms(r)' = Comms(r)
    BY <1>3, <1>9 DEF Comms
  <2>10. BlocksInv(r)'
    BY <1>5, <1>6, <2>6, <2>7, <2>8, <2>9, MemGrows
  <2>11. QED
    BY <1>3, <1>9, <2>10 DEF BuffersInv
<1>10. QED
  BY <1>7, <1>8, <1>9

\* So does the launch of an NCCL group.
LEMMA MemLaunch ==
  ASSUME ControlInv, NEW r \in Ranks, Launch(r), BlocksInv(r), BuffersInv(r)
  PROVE  BlocksInv(r)' /\ BuffersInv(r)'
<1>1. TypeInv /\ Warmup(r) /\ ~Progress(r)
  BY NotProgress DEF ControlInv
<1>2. NextCall(r) = "launch" /\ NextCall(r)' = "stop" /\ Keeps
  BY <1>1, InsideIs
<1>3. session' = session /\ kind' = kind /\ rnd' = rnd
  BY DEF Launch, user, kind
<1>4. blocks' = blocks /\ inUse' = inUse /\ commBuffers' = commBuffers
  BY DEF Launch, NcclLaunch, memVars
<1>5. Under(r) /\ Under(r)' /\ Finishing(r) /\ Finishing(r)'
  BY <1>2 DEF Under, Finishing
<1>6. Own(r)' = Own(r)
  BY <1>3, <1>5, OwnKept
<1>7. Comms(r)' = Comms(r)
  BY <1>2, <1>3, <1>4, <1>5, CommsKept
<1>8. Caches(r)' = Caches(r)
  BY <1>2, CachesKept DEF Keeps
<1>9. BlocksInv(r)'
  BY <1>4, <1>6, <1>7, <1>8, MemKeeps
<1>10. BuffersInv(r)'
  BY <1>3, <1>4, <1>5, BuffersKept
<1>11. QED
  BY <1>9, <1>10

\* So does progress of UCX.
LEMMA MemProgress ==
  ASSUME ControlInv, NEW r \in Ranks, Progress(r), BlocksInv(r), BuffersInv(r)
  PROVE  BlocksInv(r)' /\ BuffersInv(r)'
<1>1. TypeInv
  BY DEF ControlInv
<1>2. NextCall(r)' = NextCall(r) /\ rnd' = rnd /\ kind' = kind
  BY ProgressIs
<1>3. session' = session /\ commBuffers' = commBuffers
  BY DEF Progress, ncclVars, user
<1>4. handles' = handles /\ inUse' = inUse /\ DOMAIN blocks'[r] = DOMAIN blocks[r]
  <2>1. CASE UcxDeliver(r)
    <3>1. PICK b, v : blocks' = [blocks EXCEPT ![r] = Write(@, Only(b, v))]
      BY <2>1 DEF UcxDeliver
    <3>2. handles' = handles /\ inUse' = inUse
      BY <2>1 DEF UcxDeliver
    <3>3. QED
      BY <1>1, <3>1, <3>2 DEF TypeInv, Write
  <2>2. CASE UcxFlush(r)
    BY <2>2 DEF UcxFlush, memVars
  <2>3. QED
    BY <2>1, <2>2 DEF Progress
<1>5. (Under(r)' <=> Under(r)) /\ (Finishing(r)' <=> Finishing(r))
  BY <1>2 DEF Under, Finishing
<1>6. Own(r)' = Own(r)
  BY <1>2, <1>3, <1>5, OwnKept
<1>7. Comms(r)' = Comms(r)
  BY <1>2, <1>3, <1>5, CommsKept
<1>8. Caches(r)' = Caches(r)
  BY <1>4, CachesKept
<1>9. BlocksInv(r)'
  BY <1>4, <1>6, <1>7, <1>8, MemKeeps
<1>10. BuffersInv(r)'
  BY <1>2, <1>3, <1>5, BuffersKept
<1>11. QED
  BY <1>9, <1>10

\* So does the return of stop.
LEMMA MemStop ==
  ASSUME ControlInv, NEW r \in Ranks, Stop(r), BlocksInv(r), BuffersInv(r)
  PROVE  BlocksInv(r)' /\ BuffersInv(r)'
<1>1. TypeInv /\ WhereInv(r) /\ Warmup(r) /\ ~Progress(r)
  BY NotProgress DEF ControlInv
<1>2. NextCall(r) = "stop" /\ NextCall(r)' = "free" /\ Keeps
  BY <1>1, InsideIs
<1>3. session' = session /\ rnd' = rnd
  BY DEF Stop
<1>4. kind' = kind
  BY <1>3 DEF kind
<1>5. Under(r) /\ Under(r)' /\ Finishing(r) /\ Finishing(r)'
  BY <1>2 DEF Under, Finishing
<1>6. Own(r)' = Own(r)
  BY <1>3, <1>5, OwnKept
<1>7. Caches(r)' = Caches(r)
  BY <1>2, CachesKept DEF Keeps
<1>8. Comms(r)' = {}
  BY <1>2 DEF Comms
<1>9. kind \in {"nccl", "buffer", "none", "preregistered"}
  <2>1. Permitted("stop") /\ kind \in Kinds
    BY <1>1, <1>2, Allowed, KindIs DEF TypeInv
  <2>2. QED
    BY <2>1 DEF Permitted, Kinds
<1>10. CASE kind = "nccl"
  <2>1. NcclStop(r)
    BY <1>10 DEF Stop
  <2>2. commBuffers' = commBuffers
    BY <2>1 DEF NcclStop
  <2>3. BuffersInv(r)'
    BY <1>4, <1>5, <2>2, BuffersKept
  <2>4. PICK cb, old : cb = commBuffers[r] /\ old = GiveBack(r)
    OBVIOUS
  <2>5. IsSeq(cb) /\ \A j \in DOMAIN cb : cb[j] = [blk |-> CommBlock(j), size |-> MsgSize]
    BY <1>5, <1>10, <2>4 DEF BuffersInv
  <2>6. DOMAIN cb = 1 .. Len(cb)
    BY <2>5, IsSeqDomain
  <2>7. \A j \in DOMAIN cb : cb[j].blk = CommBlock(j) /\ cb[j].size = MsgSize
    BY <2>5
  <2>8. old = [b \in {cb[j].blk : j \in DOMAIN cb} |-> Aligned(cb[CHOOSE j \in DOMAIN cb : cb[j].blk = b].size)]
    BY <2>4 DEF GiveBack
  <2>9. DOMAIN old = Comms(r)
    <3>1. Comms(r) = {CommBlock(i) : i \in 1 .. Len(cb)}
      BY <1>2, <1>5, <1>10, <2>4 DEF Comms
    <3>2. QED
      BY <2>6, <2>7, <2>8, <3>1
  <2>10. ASSUME NEW b \in DOMAIN old PROVE old[b] = Aligned(MsgSize)
    <3>1. \E j \in DOMAIN cb : cb[j].blk = b
      BY <2>8
    <3>2. PICK i : i = CHOOSE j \in DOMAIN cb : cb[j].blk = b
      OBVIOUS
    <3>3. i \in DOMAIN cb
      BY <3>1, <3>2
    <3>4. cb[i].size = MsgSize
      BY <2>7, <3>3
    <3>5. QED
      BY <2>8, <3>2, <3>4
  <2>11. Sorted(r) /\ Aligned(MsgSize) \in Nat /\ DOMAIN blocks = Ranks /\ DOMAIN inUse = Ranks
    BY <1>1, SortedIs, SizesAre DEF TypeInv
  <2>12. IsFiniteSet(DOMAIN old)
    BY <2>9, <2>11 DEF Sorted
  <2>13. Bytes(old) = Aligned(MsgSize) * Cardinality(DOMAIN old)
    BY <2>10, <2>11, <2>12, EqualBytes
  <2>14. inUse' = [inUse EXCEPT ![r] = @ - Bytes(old)]
    BY <2>1, <2>4 DEF NcclStop
  <2>15. PICK copied : blocks' = [blocks EXCEPT ![r] = Write(Without(@, DOMAIN old), copied)]
    BY <2>1, <2>4 DEF NcclStop
  <2>16. DOMAIN blocks'[r] = DOMAIN blocks[r] \ DOMAIN old
    BY <2>11, <2>15 DEF Write, Without
  <2>17. inUse'[r] = inUse[r] - Aligned(MsgSize) * Cardinality(DOMAIN old)
    BY <2>11, <2>13, <2>14
  <2>18. Comms(r)' = Comms(r) \ DOMAIN old /\ DOMAIN old \subseteq Comms(r)
    BY <1>8, <2>9
  <2>19. BlocksInv(r)'
    BY <1>6, <1>7, <2>11, <2>16, <2>17, <2>18, MemShrinks
  <2>20. QED
    BY <2>3, <2>19
<1>11. CASE kind # "nccl"
  <2>1. Comms(r)' = Comms(r)
    BY <1>8, <1>11 DEF Comms
  <2>2. DOMAIN blocks'[r] = DOMAIN blocks[r] /\ inUse' = inUse
    <3>1. CASE kind = "buffer"
      <4>1. BufferStop(r)
        BY <3>1 DEF Stop
      <4>2. PICK new : blocks' = [blocks EXCEPT ![r] = Write(@, new)]
        BY <4>1 DEF BufferStop
      <4>3. inUse' = inUse
        BY <4>1 DEF BufferStop
      <4>4. QED
        BY <1>1, <4>2, <4>3 DEF TypeInv, Write
    <3>2. CASE kind \in {"none", "preregistered"}
      BY <3>2 DEF Stop, memVars
    <3>3. QED
      BY <1>9, <1>11, <3>1, <3>2
  <2>3. BlocksInv(r)'
    BY <1>6, <1>7, <2>1, <2>2, MemKeeps
  <2>4. QED
    BY <1>4, <1>11, <2>3 DEF BuffersInv
<1>12. QED
  BY <1>10, <1>11

\* So does the free of NCCL's buffers.
LEMMA MemFree ==
  ASSUME ControlInv, NEW r \in Ranks, Free(r), BlocksInv(r), BuffersInv(r)
  PROVE  BlocksInv(r)' /\ BuffersInv(r)'
<1>1. TypeInv /\ WhereInv(r) /\ Warmup(r) /\ ~Progress(r)
  BY NotProgress DEF ControlInv
<1>2. NextCall(r) = "free" /\ NextCall(r)' \in {"start", FirstDestroy} /\ Keeps
  BY <1>1, InsideIs
<1>3. session' = session /\ kind' = kind /\ rnd' = rnd
  BY DEF Free, user, kind
<1>4. Under(r) /\ ~Under(r)' /\ Finishing(r)
  BY <1>2 DEF Under, Finishing, FirstDestroy
<1>5. PICK k, D, old : k = rnd[r] /\ D = Freed(r, k) /\ old = [b \in D |-> MsgSize]
  OBVIOUS
<1>6. k \in Nat /\ k >= 1
  <2>1. k \in Nat
    BY <1>1, <1>5 DEF TypeInv
  <2>2. k >= 1
    BY <1>1, <1>2, <1>5, RoundIs DEF UnderSet
  <2>3. QED
    BY <2>1, <2>2
<1>7. Deallocate(r, old)
  BY <1>5 DEF Free
<1>8. Own(r) = Leaked(r, k - 1) \cup SendsOf(r, k) \cup RecvsOf(r, k)
  BY <1>4, <1>5 DEF Own, SendsOf, RecvsOf
<1>9. Own(r)' = Leaked(r, k)
  BY <1>3, <1>4, <1>5 DEF Own, Leaked
<1>10. \A t : t \in D <=> \E d \in Ranks : d < r /\ (t = SendBlock(d, k) \/ t = RecvBlock(d, k))
  BY <1>5 DEF Freed
<1>11. \A d \in Ranks : d < r => d \in Peers(r)
  BY DEF Peers, Ranks
<1>12. D \subseteq Own(r)
  BY <1>8, <1>10, <1>11 DEF SendsOf, RecvsOf
<1>13. \A t, j : t \in Leaked(r, j) <=>
         \E a \in {"send", "recv"} : \E q \in r + 1 .. N - 1 : \E i \in 1 .. j : t = <<a, q, i>>
  BY DEF Leaked
<1>14. \A q : q \in r + 1 .. N - 1 <=> q \in Ranks /\ q > r
  BY NAssumption DEF Ranks
<1>15. Leaked(r, k) = Own(r) \ D
  <2>1. ASSUME NEW t \in Leaked(r, k) PROVE t \in Own(r) /\ t \notin D
    <3>1. PICK a \in {"send", "recv"}, q \in r + 1 .. N - 1, i \in 1 .. k : t = <<a, q, i>>
      BY <1>13
    <3>2. q \in Peers(r) /\ ~(q < r)
      BY <1>14 DEF Peers, Ranks
    <3>3. t \notin D
      BY <1>10, <3>1, <3>2 DEF SendBlock, RecvBlock
    <3>4. t \in Own(r)
      <4>1. CASE i = k
        BY <1>8, <3>1, <3>2, <4>1 DEF SendsOf, RecvsOf, SendBlock, RecvBlock
      <4>2. CASE i # k
        <5>1. i \in 1 .. k - 1
          BY <1>6, <4>2
        <5>2. QED
          BY <1>8, <1>13, <3>1, <5>1
      <4>3. QED
        BY <4>1, <4>2
    <3>5. QED
      BY <3>3, <3>4
  <2>2. ASSUME NEW t \in Own(r), t \notin D PROVE t \in Leaked(r, k)
    <3>1. CASE t \in Leaked(r, k - 1)
      <4>1. \A i \in 1 .. k - 1 : i \in 1 .. k
        BY <1>6
      <4>2. QED
        BY <1>13, <3>1, <4>1
    <3>2. CASE t \in SendsOf(r, k) \cup RecvsOf(r, k)
      <4>1. PICK q \in Peers(r) : t = SendBlock(q, k) \/ t = RecvBlock(q, k)
        BY <3>2 DEF SendsOf, RecvsOf
      <4>2. q \in Ranks /\ ~(q < r) /\ q # r
        BY <1>10, <2>2, <4>1 DEF Peers
      <4>3. q \in r + 1 .. N - 1
        <5>1. q > r
          BY <4>2 DEF Ranks
        <5>2. QED
          BY <1>14, <4>2, <5>1
      <4>4. k \in 1 .. k
        BY <1>6
      <4>5. QED
        BY <1>13, <4>1, <4>3, <4>4 DEF SendBlock, RecvBlock
    <3>3. QED
      BY <1>8, <2>2, <3>1, <3>2
  <2>3. QED
    BY <2>1, <2>2
<1>16. Comms(r)' = Comms(r)
  BY <1>2, <1>4 DEF Comms
<1>17. Caches(r)' = Caches(r)
  BY <1>2, CachesKept DEF Keeps
<1>18. Sorted(r) /\ MsgSize \in Nat /\ DOMAIN blocks = Ranks /\ DOMAIN inUse = Ranks
  BY <1>1, SortedIs, SizesAre DEF TypeInv
<1>19. IsFiniteSet(D)
  BY <1>12, <1>18, FS_Subset DEF Sorted
<1>20. DOMAIN old = D /\ \A b \in DOMAIN old : old[b] = MsgSize
  BY <1>5
<1>21. Bytes(old) = MsgSize * Cardinality(DOMAIN old)
  BY <1>18, <1>19, <1>20, EqualBytes
<1>22. DOMAIN blocks'[r] = DOMAIN blocks[r] \ D /\ inUse'[r] = inUse[r] - MsgSize * Cardinality(D)
  BY <1>7, <1>18, <1>20, <1>21 DEF Deallocate, Without
<1>23. BlocksInv(r)'
  BY <1>9, <1>12, <1>15, <1>16, <1>17, <1>18, <1>22, MemShrinks
<1>24. BuffersInv(r)'
  BY <1>4 DEF BuffersInv
<1>25. QED
  BY <1>23, <1>24

\* Every step keeps every rank's account of blocks and bytes.
LEMMA MemStep ==
  ASSUME ControlInv, AllSent, UcxInv, \A x \in Ranks : BlocksInv(x) /\ BuffersInv(x), NEW r \in Ranks, RankStep(r)
  PROVE  \A x \in Ranks : BlocksInv(x)' /\ BuffersInv(x)'
<1>1. \A x \in Ranks \ {r} : BlocksInv(x)' /\ BuffersInv(x)'
  BY MemOthers
<1>2. BlocksInv(r) /\ BuffersInv(r)
  OBVIOUS
<1>3. BlocksInv(r)' /\ BuffersInv(r)'
  <2>1. CASE Setup(r) \/ Destroy(r)
    BY <1>2, <2>1, MemOutside
  <2>2. CASE Start(r)
    BY <1>2, <2>2, MemStart
  <2>3. CASE Send(r)
    BY <1>2, <2>3, MemSend
  <2>4. CASE Recv(r)
    BY <1>2, <2>4, MemRecv
  <2>5. CASE Launch(r)
    BY <1>2, <2>5, MemLaunch
  <2>6. CASE Stop(r)
    BY <1>2, <2>6, MemStop
  <2>7. CASE Progress(r)
    BY <1>2, <2>7, MemProgress
  <2>8. CASE Free(r)
    BY <1>2, <2>8, MemFree
  <2>9. QED
    BY <2>1, <2>2, <2>3, <2>4, <2>5, <2>6, <2>7, <2>8 DEF RankStep, Warmup
<1>4. QED
  BY <1>1, <1>3

\* No block is allocated when the processes start.
LEMMA MemoryInit ==
  ASSUME Init
  PROVE  \A r \in Ranks : BlocksInv(r) /\ BuffersInv(r)
<1> SUFFICES ASSUME NEW r \in Ranks PROVE BlocksInv(r) /\ BuffersInv(r)
  OBVIOUS
<1>1. blocks[r] = <<>> /\ inUse[r] = 0 /\ handles[r] = {} /\ rnd[r] = 0 /\ ip[r] = 1
  BY DEF Init, MemInit
<1>2. ControlInv
  BY ControlInit
<1>3. ~Under(r)
  <2>1. TypeInv /\ WhereInv(r)
    BY <1>2 DEF ControlInv
  <2>2. NextCall(r) \notin UnderSet
    BY <1>1, <2>1, RoundIs
  <2>3. QED
    BY <2>2 DEF Under, UnderSet
<1>4. Own(r) = {} /\ Comms(r) = {} /\ Caches(r) = {}
  <2>1. 1 .. 0 = {}
    OBVIOUS
  <2>2. Own(r) = {}
    BY <1>1, <1>3, <2>1 DEF Own, Leaked
  <2>3. QED
    BY <1>1, <1>3, <2>2 DEF Comms, Caches
<1>5. DOMAIN blocks[r] = {}
  BY <1>1
<1>6. inUse[r] = MsgSize * Cardinality(Own(r)) + Aligned(MsgSize) * Cardinality(Comms(r)) + CacheSize * Cardinality(Caches(r))
  <2>1. PICK x, y, z : x = MsgSize /\ y = Aligned(MsgSize) /\ z = CacheSize
    OBVIOUS
  <2>2. x \in Nat /\ y \in Nat /\ z \in Nat
    BY <2>1, SizesAre
  <2>3. x * 0 + y * 0 + z * 0 = 0
    BY <2>2
  <2>4. QED
    BY <1>1, <1>4, <2>1, <2>3, FS_EmptySet
<1>7. BlocksInv(r)
  BY <1>4, <1>5, <1>6 DEF BlocksInv
<1>8. BuffersInv(r)
  BY <1>3 DEF BuffersInv
<1>9. QED
  BY <1>7, <1>8

\* What is left when the pool is deleted: of every exchange of the warm-up the
\* two buffers of each rank above this one, which its loop does not reach.
UpperLeft ==
  \A r \in Ranks : NextCall(r) = "deletePool" =>
    /\ DOMAIN blocks[r] = Leaked(r, session.rounds)
    /\ inUse[r] = MsgSize * Cardinality(Leaked(r, session.rounds))

\* The account is strong enough for UpperLeft.
LEMMA LeaksAre ==
  ASSUME ControlInv, \A r \in Ranks : BlocksInv(r)
  PROVE  UpperLeft
<1> SUFFICES ASSUME NEW r \in Ranks, NextCall(r) = "deletePool"
             PROVE  /\ DOMAIN blocks[r] = Leaked(r, session.rounds)
                    /\ inUse[r] = MsgSize * Cardinality(Leaked(r, session.rounds))
  BY DEF UpperLeft
<1>1. TypeInv /\ WhereInv(r) /\ ObjectsInv(r) /\ BlocksInv(r)
  BY DEF ControlInv
<1>2. rnd[r] = R /\ R \in Nat
  BY <1>1, RoundIs DEF DestroySet
<1>3. kind # "unknown"
  <2>1. Permitted("deletePool")
    BY <1>1, Allowed
  <2>2. QED
    BY <2>1 DEF Permitted
<1>4. ~Under(r) /\ "cache" \notin handles[r]
  BY <1>1 DEF Under, ObjectsInv, ExchangeSet
<1>5. Own(r) = Leaked(r, session.rounds) /\ Comms(r) = {} /\ Caches(r) = {}
  BY <1>2, <1>3, <1>4 DEF Own, Comms, Caches, R
<1>6. Cardinality({}) = 0
  BY FS_EmptySet
<1>7. PICK O, x, y, z, a : O = Leaked(r, session.rounds) /\ x = MsgSize /\ y = Aligned(MsgSize) /\ z = CacheSize
                           /\ a = x * Cardinality(O)
  OBVIOUS
<1>8. x \in Nat /\ y \in Nat /\ z \in Nat
  BY <1>7, SizesAre
<1>9. a \in Int
  <2>1. IsFiniteSet(O)
    BY <1>1, <1>5, <1>7, OwnWithin
  <2>2. Cardinality(O) \in Nat
    BY <2>1, FS_CardinalityType
  <2>3. QED
    BY <1>7, <1>8, <2>2
<1>10. DOMAIN blocks[r] = O /\ inUse[r] = a + y * 0 + z * 0
  BY <1>1, <1>5, <1>6, <1>7 DEF BlocksInv
<1>11. inUse[r] = a
  BY <1>8, <1>9, <1>10
<1>12. QED
  BY <1>7, <1>10, <1>11

-----------------------------------------------------------------------------
(***************************************************************************)
(* The inductive invariant and the theorems.                               *)
(***************************************************************************)
IInv ==
  /\ ControlInv /\ AllSent /\ UcxInv
  /\ \A r \in Ranks : LeaveInv(r) /\ BlocksInv(r) /\ BuffersInv(r)

\* The invariant holds when the processes start,
LEMMA IInvInit ==
  ASSUME Init
  PROVE  IInv
  BY ControlInit, CommsInit, MemoryInit DEF IInv

\* a stuttering step keeps it,
LEMMA Stutter ==
  ASSUME IInv, UNCHANGED vars
  PROVE  IInv'
<1>1. ControlInv /\ AllSent /\ UcxInv /\ TypeInv
  BY DEF IInv, ControlInv
<1>2. /\ UNCHANGED <<alive, handles, blocks, inUse, net, posted, pending, done, commBuffers>>
      /\ UNCHANGED <<session, ip, rnd, sent>>
  BY DEF vars, memVars, ucxVars, ncclVars, hist
<1>3. kind' = kind /\ Program' = Program
  BY <1>2 DEF kind, Program
<1>4. \A r \in Ranks : WhereInv(r)' /\ NextCall(r)' = NextCall(r) /\ Sending(r)' = Sending(r)
  <2> TAKE r \in Ranks
  <2>1. WhereInv(r) /\ session' = session /\ ip'[r] = ip[r] /\ rnd'[r] = rnd[r]
    BY <1>1, <1>2 DEF ControlInv
  <2>2. QED
    BY <1>1, <2>1, Waits
<1>5. ControlInv'
  <2>1. TypeInv'
    BY <1>1, <1>2 DEF TypeInv
  <2>2. \A o : During(o)' = During(o)
    BY <1>3 DEF During
  <2>3. ASSUME NEW r \in Ranks PROVE ObjectsInv(r)'
    <3>1. ObjectsInv(r)
      BY <1>1 DEF ControlInv
    <3>2. QED
      BY <1>2, <1>3, <1>4, <2>2, <3>1 DEF ObjectsInv
  <2>4. QED
    BY <1>4, <2>1, <2>3 DEF ControlInv
<1>6. \A s, d \in Ranks : Unsent(s, d)' <=> Unsent(s, d)
  BY <1>4 DEF Unsent
<1>7. AllSent'
  <2> SUFFICES ASSUME NEW s \in Ranks, NEW d \in Ranks PROVE SentInv(s, d)'
    BY DEF AllSent
  <2>1. SentInv(s, d)
    BY <1>1 DEF AllSent
  <2>2. QED
    BY <1>2, <1>6, <2>1, SentKept
<1>8. UcxInv'
  <2>1. ASSUME NEW r \in Ranks PROVE PostedInv(r)' /\ RequestsInv(r)'
    <3>1. PostedInv(r) /\ RequestsInv(r)
      BY <1>1 DEF UcxInv
    <3>2. QED
      BY <1>2, <1>3, <1>4, <3>1, RequestsKept
  <2>2. ASSUME NEW s \in Ranks, NEW d \in Ranks PROVE NetInv(s, d)'
    <3>1. NetInv(s, d)
      BY <1>1 DEF UcxInv
    <3>2. Received(d, s)' = Received(d, s)
      BY <1>2, <1>4 DEF Received, Awaited, Tag, ReservedTag
    <3>3. Unmoved(s, d)
      BY <1>2, <3>2 DEF Unmoved
    <3>4. Handles(s)' = Handles(s) /\ (Moving(s)' <=> Moving(s))
      BY <1>2, <1>4 DEF Handles, Moving
    <3>5. \A k : Read(s, SendBlock(d, k))' = Read(s, SendBlock(d, k))
      BY <1>2 DEF Read, SendBlock
    <3>6. \A k, m : IsMessage(s, d, k, m) /\ Flying(s, d, k, m) => Flying(s, d, k, m)'
      BY <1>2, <3>4, <3>5, FlyingKept
    <3>7. QED
      BY <1>3, <3>1, <3>3, <3>6, NetKept
  <2>3. QED
    BY <2>1, <2>2 DEF UcxInv
<1>9. ASSUME NEW r \in Ranks PROVE LeaveInv(r)' /\ BlocksInv(r)' /\ BuffersInv(r)'
  <2>1. LeaveInv(r) /\ BlocksInv(r) /\ BuffersInv(r)
    BY DEF IInv
  <2>2. \A s \in Ranks : \A c : Past(s, c)' <=> Past(s, c)
    BY <1>2, <1>3 DEF Past
  <2>3. LeaveInv(r)'
    BY <1>2, <1>3, <1>4, <2>1, <2>2 DEF LeaveInv
  <2>4. (Under(r)' <=> Under(r)) /\ (Finishing(r)' <=> Finishing(r))
    BY <1>4 DEF Under, Finishing
  <2>5. Own(r)' = Own(r)
    BY <1>2, <2>4, OwnKept
  <2>6. Comms(r)' = Comms(r)
    BY <1>2, <1>3, <1>4, <2>4, CommsKept
  <2>7. Caches(r)' = Caches(r)
    BY <1>2, CachesKept
  <2>8. BlocksInv(r)'
    BY <1>2, <2>1, <2>5, <2>6, <2>7, MemKeeps
  <2>9. BuffersInv(r)'
    BY <1>2, <1>3, <2>1, <2>4, BuffersKept
  <2>10. QED
    BY <2>3, <2>8, <2>9
<1>10. QED
  BY <1>5, <1>7, <1>8, <1>9 DEF IInv

\* every step keeps it,
LEMMA IInvStep ==
  ASSUME IInv, [Next]_vars
  PROVE  IInv'
<1>1. ControlInv /\ AllSent /\ UcxInv /\ \A r \in Ranks : LeaveInv(r) /\ BlocksInv(r) /\ BuffersInv(r)
  BY DEF IInv
<1>2. ASSUME NEW r \in Ranks, RankStep(r) PROVE IInv'
  <2>1. ControlInv'
    BY <1>1, <1>2, ControlStep
  <2>2. AllSent'
    BY <1>1, <1>2, SentStep
  <2>3. UcxInv'
    BY <1>1, <1>2, UcxStep
  <2>4. \A x \in Ranks : LeaveInv(x)'
    BY <1>1, <1>2, LeaveStep
  <2>5. \A x \in Ranks : BlocksInv(x)' /\ BuffersInv(x)'
    BY <1>1, <1>2, MemStep
  <2>6. QED
    BY <2>1, <2>2, <2>3, <2>4, <2>5 DEF IInv
<1>3. CASE UNCHANGED vars
  BY <1>3, Stutter
<1>4. QED
  BY <1>2, <1>3 DEF Next, Ended

\* so it holds in every state of every behaviour.
LEMMA Invariant ==
  Spec => []IInv
<1>1. Init => IInv
  BY IInvInit
<1>2. IInv /\ [Next]_vars => IInv'
  BY IInvStep
<1>3. QED
  BY <1>1, <1>2, PTL DEF Spec

(***************************************************************************)
(* The order of calls of setup_memory_pool_and_communicator and            *)
(* destroy_memory_pool_and_communicator is right for every communicator    *)
(* and registration method, however many ranks and exchanges: no call      *)
(* finds its pool, communicator, registered memory resource or UCX context *)
(* missing, and the context outlives every registration made with it.      *)
(***************************************************************************)
THEOREM ObjectsLive == Spec => []ObjectsOutliveUse
<1>1. IInv => ObjectsOutliveUse
  BY ObjectsUsed DEF IInv
<1>2. QED
  BY <1>1, Invariant, PTL

(***************************************************************************)
(* The MPI_Barrier of UCXCommunicator::finalize does what its comment      *)
(* says: past it every rank has closed its endpoints; and nothing is under *)
(* way to a worker that is destroyed.                                      *)
(***************************************************************************)
THEOREM WorkersLive == Spec => []WorkersOutlivePeers
<1>1. IInv => WorkersOutlivePeers
  BY WorkersOutlive DEF IInv
<1>2. QED
  BY <1>1, Invariant, PTL

(***************************************************************************)
(* A UCX send or receive in progress owns its block: warmup_all_to_all     *)
(* deallocates and reuses buffers only after stop() has waited for every   *)
(* pending request.                                                        *)
(***************************************************************************)
THEOREM BuffersOwned == Spec => []TransfersOwned
<1>1. IInv => TransfersOwned
  BY Transfers DEF IInv
<1>2. QED
  BY <1>1, Invariant, PTL

(***************************************************************************)
(* The deallocations of every communicator balance its allocations, block  *)
(* by block and byte by byte: when the pool is deleted nothing is left but *)
(* buffers of warmup_all_to_all, and the pool counts just those as used.   *)
(***************************************************************************)
THEOREM MemoryBalanced == Spec => []PoolBalanced
<1>1. ASSUME IInv, NEW r \in Ranks, NextCall(r) = "deletePool"
      PROVE  /\ DOMAIN blocks[r] \subseteq {"send", "recv"} \X Ranks \X (1 .. session.rounds)
             /\ inUse[r] = MsgSize * Cardinality(DOMAIN blocks[r])
  <2>1. UpperLeft
    BY <1>1, LeaksAre DEF IInv
  <2>2. /\ DOMAIN blocks[r] = Leaked(r, session.rounds)
        /\ inUse[r] = MsgSize * Cardinality(Leaked(r, session.rounds))
    BY <1>1, <2>1 DEF UpperLeft
  <2>3. r + 1 .. N - 1 \subseteq Ranks
    BY NAssumption DEF Ranks
  <2>4. Leaked(r, session.rounds) \subseteq {"send", "recv"} \X Ranks \X (1 .. session.rounds)
    BY <2>3 DEF Leaked
  <2>5. QED
    BY <2>2, <2>4
<1>2. IInv => PoolBalanced
  BY <1>1 DEF PoolBalanced
<1>3. QED
  BY <1>2, Invariant, PTL

-----------------------------------------------------------------------------
(***************************************************************************)
(* What the messages say.  Every message of round k from s to d is         *)
(* Message(s, d, k), wherever it is: in the sender's block, under way, in  *)
(* a communication buffer, in the receiver's block.                        *)
(***************************************************************************)
\* The blocks of a round hold what is to be sent in it,
Loaded(r) == InRound(r) => \A d \in Peers(r) : Read(r, SendBlock(d, rnd[r])) = Message(r, d, rnd[r])

\* what has been sent is what the rounds should send,
Told(s, d) == \A k \in DOMAIN sent[s][d] : sent[s][d][k] = Message(s, d, k)

\* a message under way holds what its block did,
Meant(s, d, m) == \A k : m.ref = SendBlock(d, k) => m.val = Message(s, d, k)
Carried(s, d) == \A j \in DOMAIN net[s][d] : Meant(s, d, net[s][d][j])

\* and so does the block of a receive that is complete.
Filled(r) ==
  Unbuffered /\ NextCall(r) = "stop" =>
    \A s \in Peers(r) : ~Awaited(r, s) => Read(r, RecvBlock(s, rnd[r])) = Message(s, r, rnd[r])

UcxVals == \A r \in Ranks : Filled(r) /\ \A d \in Ranks : Carried(r, d)

\* The calls a rank has queued in an NCCL group: its sends, then its receives.
SendEntry(r, i) == [call |-> "send", peer |-> Nth(r, i), blk |-> CommBlock(i)]
RecvEntry(r, i) == [call |-> "recv", peer |-> Nth(r, i), blk |-> CommBlock(N - 1 + i)]
Landing(r, i)   == [dst |-> RecvBlock(Nth(r, i), rnd[r]), idx |-> N - 1 + i]

Queued(r) == IF NextCall(r) = "send" THEN Sending(r) - 1
             ELSE IF NextCall(r) = "recv" THEN N - 1 ELSE (N - 1) + (N - 1)

GroupInv(r) ==
  kind = "nccl" /\ InRound(r) =>
    /\ IsSeq(group[r]) /\ Len(group[r]) = Queued(r) /\ Len(commBuffers[r]) = Queued(r)
    /\ \A i \in 1 .. N - 1 : i <= Queued(r) =>
         group[r][i] = SendEntry(r, i) /\ Read(r, CommBlock(i)) = Message(r, Nth(r, i), rnd[r])
    /\ IsSeq(recvBuffers[r])
    /\ IF NextCall(r) \in {"launch", "stop"}
       THEN /\ Len(recvBuffers[r]) = N - 1
            /\ \A i \in 1 .. N - 1 : group[r][N - 1 + i] = RecvEntry(r, i) /\ recvBuffers[r][i] = Landing(r, i)
       ELSE Len(recvBuffers[r]) = 0

\* The exchanges a rank has launched the sends of, and those it has received.
Launched(s) == IF NextCall(s) \in {"send", "recv", "launch"} THEN rnd[s] - 1 ELSE rnd[s]
TakenBy(d)  == IF InRound(d) THEN rnd[d] - 1 ELSE rnd[d]

WireInv(s, d) ==
  kind = "nccl" /\ s # d =>
    /\ IsSeq(wire[s][d]) /\ Len(wire[s][d]) = Launched(s) - TakenBy(d)
    /\ \A j \in DOMAIN wire[s][d] : wire[s][d][j] = Message(s, d, TakenBy(d) + j)

NcclShape ==
  /\ DOMAIN group = Ranks /\ DOMAIN recvBuffers = Ranks /\ DOMAIN wire = Ranks
  /\ \A s \in Ranks : DOMAIN wire[s] = Ranks

NcclVals == NcclShape /\ \A r \in Ranks : GroupInv(r) /\ \A d \in Ranks : WireInv(r, d)

SentVals == \A r \in Ranks : Loaded(r) /\ \A d \in Ranks : Told(r, d)

\* Only start, free and the calls outside an exchange touch the blocks that are sent.
LEMMA SendBlocksKept ==
  ASSUME ControlInv, AllSent, UcxInv, NEW r \in Ranks, Send(r) \/ Recv(r) \/ Launch(r) \/ Progress(r)
  PROVE  \A d, k : Read(r, SendBlock(d, k))' = Read(r, SendBlock(d, k))
<1>1. DOMAIN blocks = Ranks
  BY DEF ControlInv, TypeInv
<1>2. ASSUME blocks'[r] = blocks[r]
      PROVE  \A d, k : Read(r, SendBlock(d, k))' = Read(r, SendBlock(d, k))
  BY <1>2 DEF Read, SendBlock
<1>3. ASSUME NEW new, Allocate(r, new), \A d, k : SendBlock(d, k) \notin DOMAIN new
      PROVE  \A d, k : Read(r, SendBlock(d, k))' = Read(r, SendBlock(d, k))
  BY <1>1, <1>3, ReadAllocated
<1>4. CASE Send(r)
  <2>1. PICK d \in Peers(r) : IF kind = "nccl" THEN NcclSend(r, d, SendBlock(d, rnd[r]), MsgSize)
                              ELSE UNCHANGED <<memVars, ncclVars>>
    BY <1>4, SendIs
  <2>2. CASE kind = "nccl"
    <3>1. PICK i, b : Allocate(r, Only(CommBlock(i), b))
      BY <2>1, <2>2 DEF NcclSend
    <3>2. \A e, k : SendBlock(e, k) \notin DOMAIN Only(CommBlock(i), b)
      BY DEF Only, SendBlock, CommBlock
    <3>3. QED
      BY <1>3, <3>1, <3>2
  <2>3. CASE kind # "nccl"
    BY <1>2, <2>1, <2>3 DEF memVars
  <2>4. QED
    BY <2>2, <2>3
<1>5. CASE Recv(r)
  <2>1. CASE kind = "nccl"
    <3>0. PICK n, S, new : /\ n = Len(commBuffers[r]) /\ S = DOMAIN Others(r)
                           /\ new = [c \in {CommBlock(n + i) : i \in S} |-> Block(Aligned(MsgSize), Garbage)]
      OBVIOUS
    <3>1. NcclRecvs(r, Others(r), [s \in Peers(r) |-> RecvBlock(s, rnd[r])], MsgSize)
      BY <1>5, <2>1 DEF Recv
    <3>2. Allocate(r, new)
      BY <3>0, <3>1 DEF NcclRecvs
    <3>3. \A e, k : SendBlock(e, k) \notin DOMAIN new
      BY <3>0 DEF SendBlock, CommBlock
    <3>4. QED
      BY <1>3, <3>2, <3>3
  <2>2. CASE kind # "nccl" /\ session.probing
    <3>1. PICK new : new = NewRecvBlocks(r, rnd[r])
      OBVIOUS
    <3>2. Allocate(r, new)
      BY <1>5, <2>2, <3>1 DEF Recv
    <3>3. DOMAIN new = {RecvBlock(s, rnd[r]) : s \in Peers(r)}
      BY <3>1 DEF NewRecvBlocks
    <3>4. \A e, k : SendBlock(e, k) \notin DOMAIN new
      BY <3>3 DEF SendBlock, RecvBlock
    <3>5. QED
      BY <1>3, <3>2, <3>4
  <2>3. CASE kind # "nccl" /\ ~session.probing
    BY <1>2, <1>5, <2>3 DEF Recv, memVars
  <2>4. QED
    BY <2>1, <2>2, <2>3
<1>6. CASE Launch(r)
  BY <1>2, <1>6 DEF Launch, NcclLaunch, memVars
<1>7. CASE Progress(r)
  <2>1. CASE UcxFlush(r)
    BY <1>2, <2>1 DEF UcxFlush, memVars
  <2>2. CASE NextCall(r) = "stop" /\ UcxDeliver(r)
    <3>1. PICK s \in Peers(r) : \E i \in DOMAIN posted[r] : Delivers(r, s, i)
      BY <1>7, <2>2, DeliverIs DEF Progress
    <3>2. PICK v : blocks' = [blocks EXCEPT ![r] = Write(@, Only(RecvBlock(s, rnd[r]), v))]
      BY <3>1 DEF Delivers
    <3>3. \A d, k : SendBlock(d, k) # RecvBlock(s, rnd[r])
      BY DEF SendBlock, RecvBlock
    <3>4. ASSUME NEW d, NEW k PROVE Read(r, SendBlock(d, k))' = Read(r, SendBlock(d, k))
      <4>1. PICK b, c : b = SendBlock(d, k) /\ c = RecvBlock(s, rnd[r])
        OBVIOUS
      <4>2. b # c /\ blocks' = [blocks EXCEPT ![r] = Write(@, Only(c, v))]
        BY <3>2, <3>3, <4>1
      <4>3. Read(r, b)' = Read(r, b)
        BY <1>1, <4>2, ReadWritten
      <4>4. QED
        BY <4>1, <4>3 DEF Read, SendBlock
    <3>5. QED
      BY <3>4
  <2>3. QED
    BY <1>7, <2>1, <2>2 DEF Progress
<1>8. QED
  BY <1>4, <1>5, <1>6, <1>7

\* The blocks of the round stay loaded.
LEMMA LoadedStep ==
  ASSUME ControlInv, AllSent, UcxInv, NEW r \in Ranks, RankStep(r), Loaded(r)
  PROVE  Loaded(r)'
<1>1. TypeInv /\ WhereInv(r) /\ rnd[r] \in Nat
  BY DEF ControlInv, TypeInv
<1>2. ASSUME NEW k, k = rnd[r], rnd'[r] = k, InRound(r),
             \A d : Read(r, SendBlock(d, k))' = Read(r, SendBlock(d, k))
      PROVE  Loaded(r)'
  BY <1>2 DEF Loaded, Message
<1>3. CASE Start(r)
  <2>1. rnd'[r] = rnd[r] + 1
    BY <1>1, <1>3, NotProgress, InsideIs
  <2>2. PICK k : k = rnd[r] + 1
    OBVIOUS
  <2>3. PICK new : new = With(NewSendBlocks(r, k), IF session.probing THEN <<>> ELSE NewRecvBlocks(r, k))
    OBVIOUS
  <2>4. Allocate(r, new)
    BY <1>3, <2>2, <2>3 DEF Start
  <2>5. blocks'[r] = With(blocks[r], new)
    BY <1>1, <2>4 DEF Allocate, TypeInv
  <2>6. ASSUME NEW d \in Peers(r)
        PROVE  SendBlock(d, k) \in DOMAIN new /\ new[SendBlock(d, k)].val = Message(r, d, k)
    <3>1. PICK b, f, g : b = SendBlock(d, k) /\ f = NewSendBlocks(r, k)
                         /\ g = (IF session.probing THEN <<>> ELSE NewRecvBlocks(r, k))
      OBVIOUS
    <3>2. b \in DOMAIN f /\ f[b].val = Message(r, d, k)
      BY <3>1 DEF NewSendBlocks, SendBlock, Block
    <3>3. b \notin DOMAIN g
      BY <3>1 DEF NewRecvBlocks, SendBlock, RecvBlock
    <3>4. new = With(f, g)
      BY <2>3, <3>1
    <3>5. b \in DOMAIN new /\ new[b] = f[b]
      BY <3>2, <3>3, <3>4 DEF With
    <3>6. QED
      BY <3>1, <3>2, <3>5
  <2>7. ASSUME NEW d \in Peers(r) PROVE Read(r, SendBlock(d, k))' = Message(r, d, k)
    <3>1. PICK b : b = SendBlock(d, k)
      OBVIOUS
    <3>2. b \in DOMAIN blocks'[r] /\ blocks'[r][b] = new[b]
      BY <2>5, <2>6, <3>1 DEF With
    <3>3. blocks'[r][b].val = Message(r, d, k)
      BY <2>6, <3>1, <3>2
    <3>4. QED
      BY <3>1, <3>2, <3>3 DEF Read
  <2>8. QED
    BY <2>1, <2>2, <2>7 DEF Loaded, Message
<1>4. CASE Send(r) \/ Recv(r) \/ Launch(r)
  <2>1. rnd' = rnd
    BY <1>4 DEF Send, Recv, Launch, user
  <2>2. InRound(r)
    BY <1>4 DEF InRound, Send, Recv, Launch, Do
  <2>3. \A d, k : Read(r, SendBlock(d, k))' = Read(r, SendBlock(d, k))
    BY <1>4, SendBlocksKept
  <2>4. QED
    BY <1>2, <2>1, <2>2, <2>3
<1>5. CASE Progress(r)
  <2>1. rnd' = rnd /\ NextCall(r)' = NextCall(r)
    BY <1>5, ProgressIs
  <2>2. \A d, k : Read(r, SendBlock(d, k))' = Read(r, SendBlock(d, k))
    BY <1>5, SendBlocksKept
  <2>3. CASE InRound(r)
    BY <1>2, <2>1, <2>2, <2>3
  <2>4. CASE ~InRound(r)
    BY <2>1, <2>4 DEF Loaded, InRound
  <2>5. QED
    BY <2>3, <2>4
<1>6. CASE Outside(r)
  BY <1>6 DEF Outside, UnderSet, Loaded, InRound
<1>7. CASE Stop(r) \/ Free(r)
  <2>1. NextCall(r)' \in {"free", "start", FirstDestroy}
    BY <1>1, <1>7, NotProgress, InsideIs
  <2>2. QED
    BY <2>1 DEF Loaded, InRound, FirstDestroy
<1>8. QED
  BY <1>3, <1>4, <1>5, <1>6, <1>7, AllSteps

\* What a rank sends is what the round should send, and nothing sent changes.
LEMMA SentValsStep ==
  ASSUME ControlInv, AllSent, UcxInv, SentVals, NEW r \in Ranks, RankStep(r)
  PROVE  SentVals'
<1>1. Loaded(r)'
  BY LoadedStep DEF SentVals
<1>2. ASSUME NEW x \in Ranks \ {r} PROVE Loaded(x)'
  <2>1. NextCall(x)' = NextCall(x) /\ rnd'[x] = rnd[x] /\ blocks'[x] = blocks[x]
    BY ControlStep, MemoryMine
  <2>2. PICK k : k = rnd[x]
    OBVIOUS
  <2>3. rnd'[x] = k /\ Loaded(x)
    BY <2>1, <2>2 DEF SentVals
  <2>4. \A b : Read(x, b)' = Read(x, b)
    BY <2>1 DEF Read
  <2>5. InRound(x)' <=> InRound(x)
    BY <2>1 DEF InRound
  <2>6. QED
    BY <2>2, <2>3, <2>4, <2>5 DEF Loaded, Message, SendBlock
<1>3. ASSUME NEW s \in Ranks, NEW d \in Ranks, sent'[s][d] = sent[s][d] PROVE Told(s, d)'
  BY <1>3 DEF SentVals, Told, Message
<1>4. ASSUME NEW s \in Ranks, NEW d \in Ranks PROVE Told(s, d)'
  <2>1. CASE ~Send(r)
    BY <1>3, <2>1, NotSending
  <2>2. CASE Send(r)
    <3>1. PICK e \in Peers(r) : /\ Unsent(r, e)
                                /\ sent' = [sent EXCEPT ![r][e] = Append(@, Read(r, SendBlock(e, rnd[r])))]
      BY <2>2, SendIs
    <3>2. DOMAIN sent = Ranks /\ (\A x \in Ranks : DOMAIN sent[x] = Ranks) /\ e \in Ranks /\ e # r /\ rnd[r] \in Nat
      BY DEF ControlInv, TypeInv, Peers
    <3>3. CASE s # r \/ d # e
      <4>1. sent'[s][d] = sent[s][d]
        BY <3>1, <3>2, <3>3
      <4>2. QED
        BY <1>3, <4>1
    <3>4. CASE s = r /\ d = e
      <4>1. PICK q, m, k : q = sent[r][e] /\ m = Read(r, SendBlock(e, rnd[r])) /\ k = rnd[r]
        OBVIOUS
      <4>2. sent'[r][e] = Append(q, m)
        BY <3>1, <3>2, <4>1
      <4>3. InRound(r)
        BY <2>2 DEF Send, Do, InRound
      <4>4. m = Message(r, e, k)
        BY <3>2, <4>1, <4>3 DEF SentVals, Loaded
      <4>5. IsSeq(q) /\ Len(q) = k - 1
        BY <3>1, <3>2, <4>1 DEF AllSent, SentInv
      <4>6. Appended(Append(q, m), q, m)
        BY <4>5, AppendIs
      <4>7. DOMAIN q = 1 .. Len(q) /\ Len(q) \in Nat /\ k \in Nat
        BY <3>2, <4>1, <4>5, IsSeqDomain
      <4>8. DOMAIN Append(q, m) = 1 .. Len(q) + 1
        BY <4>6, <4>7, IsSeqDomain DEF Appended
      <4>9. \A i \in DOMAIN q : q[i] = Message(r, e, i)
        BY <3>2, <4>1 DEF SentVals, Told
      <4>10. ASSUME NEW i \in DOMAIN Append(q, m) PROVE Append(q, m)[i] = Message(r, e, i)
        <5>1. i \in 1 .. Len(q) \/ i = Len(q) + 1
          BY <4>7, <4>8
        <5>2. CASE i \in 1 .. Len(q)
          BY <4>6, <4>7, <4>9, <5>2 DEF Appended
        <5>3. CASE i = Len(q) + 1
          <6>1. i = k
            BY <4>5, <4>7, <5>3
          <6>2. QED
            BY <4>4, <4>6, <5>3, <6>1 DEF Appended
        <5>4. QED
          BY <5>1, <5>2, <5>3
      <4>11. QED
        BY <3>4, <4>2, <4>10 DEF Told, Message
    <3>5. QED
      BY <3>3, <3>4
  <2>3. QED
    BY <2>1, <2>2
<1>5. QED
  BY <1>1, <1>2, <1>4 DEF SentVals

\* A block is a record of its size and what it holds.
IsBlock(x)  == \E n, v : x = Block(n, v)
Recorded(r) == \A b \in DOMAIN blocks[r] : IsBlock(blocks[r][b])

\* Writing to a block leaves a block, that holds what was written.
LEMMA WriteIs ==
  ASSUME NEW f, \A b \in DOMAIN f : IsBlock(f[b]), NEW new
  PROVE  /\ DOMAIN Write(f, new) = DOMAIN f
         /\ \A b \in DOMAIN f : /\ IsBlock(Write(f, new)[b])
                                /\ Write(f, new)[b].val = IF b \in DOMAIN new THEN new[b] ELSE f[b].val
<1>1. ASSUME NEW b \in DOMAIN f
      PROVE  IsBlock(Write(f, new)[b]) /\ Write(f, new)[b].val = IF b \in DOMAIN new THEN new[b] ELSE f[b].val
  <2>1. PICK n, v : f[b] = Block(n, v)
    BY <1>1 DEF IsBlock
  <2>2. CASE b \in DOMAIN new
    <3>1. PICK w : w = new[b]
      OBVIOUS
    <3>2. [Block(n, v) EXCEPT !.val = w] = Block(n, w)
      BY DEF Block
    <3>3. Write(f, new)[b] = [f[b] EXCEPT !.val = new[b]]
      BY <2>2 DEF Write
    <3>4. Write(f, new)[b] = Block(n, w)
      BY <2>1, <3>1, <3>2, <3>3
    <3>5. Block(n, w).val = w
      BY DEF Block
    <3>6. IsBlock(Write(f, new)[b]) /\ Write(f, new)[b].val = w
      BY <3>4, <3>5 DEF IsBlock
    <3>7. QED
      BY <2>2, <3>1, <3>6
  <2>3. CASE b \notin DOMAIN new
    <3>1. Write(f, new)[b] = f[b]
      BY <2>3 DEF Write
    <3>2. QED
      BY <1>1, <2>3, <3>1
  <2>4. QED
    BY <2>2, <2>3
<1>2. DOMAIN Write(f, new) = DOMAIN f
  BY DEF Write
<1>3. QED
  BY <1>1, <1>2

\* The blocks of a rank stay records.
LEMMA RecordedStep ==
  ASSUME ControlInv, NEW r \in Ranks, RankStep(r), Recorded(r)
  PROVE  Recorded(r)'
<1>1. TypeInv /\ WhereInv(r) /\ DOMAIN blocks = Ranks
  BY DEF ControlInv, TypeInv
<1>2. \A n, v : IsBlock(Block(n, v))
  BY DEF IsBlock
<1>3. ASSUME NEW f, \A b \in DOMAIN f : IsBlock(f[b]), blocks'[r] = f PROVE Recorded(r)'
  BY <1>3 DEF Recorded
<1>4. ASSUME blocks'[r] = blocks[r] PROVE Recorded(r)'
  BY <1>4 DEF Recorded
<1>5. ASSUME NEW new, Allocate(r, new), \A c \in DOMAIN new : IsBlock(new[c]) PROVE Recorded(r)'
  <2>1. blocks'[r] = With(blocks[r], new)
    BY <1>1, <1>5 DEF Allocate
  <2>2. QED
    BY <1>5, <2>1 DEF Recorded, With
<1>6. ASSUME NEW new, blocks' = [blocks EXCEPT ![r] = Write(@, new)] PROVE Recorded(r)'
  <2>1. blocks'[r] = Write(blocks[r], new)
    BY <1>1, <1>6
  <2>2. QED
    BY <1>3, <2>1, WriteIs DEF Recorded
<1>7. ASSUME NEW f, NEW S, \A b \in DOMAIN f : IsBlock(f[b])
      PROVE  \A b \in DOMAIN Without(f, S) : IsBlock(Without(f, S)[b])
  BY <1>7 DEF Without
<1>8. ASSUME NEW old, Deallocate(r, old) PROVE Recorded(r)'
  <2>1. blocks'[r] = Without(blocks[r], DOMAIN old)
    BY <1>1, <1>8 DEF Deallocate
  <2>2. QED
    BY <1>3, <1>7, <2>1 DEF Recorded
<1>9. \A b, n, v : \A c \in DOMAIN Only(b, Block(n, v)) : IsBlock(Only(b, Block(n, v))[c])
  BY <1>2 DEF Only
<1>10. CASE Start(r)
  <2>1. PICK k, f, g : /\ k = rnd[r] + 1 /\ f = NewSendBlocks(r, k)
                       /\ g = (IF session.probing THEN <<>> ELSE NewRecvBlocks(r, k))
    OBVIOUS
  <2>2. Allocate(r, With(f, g))
    BY <1>10, <2>1 DEF Start
  <2>3. (\A b \in DOMAIN f : IsBlock(f[b])) /\ \A b \in DOMAIN g : IsBlock(g[b])
    BY <1>2, <2>1 DEF NewSendBlocks, NewRecvBlocks
  <2>4. \A b \in DOMAIN With(f, g) : IsBlock(With(f, g)[b])
    BY <2>3 DEF With
  <2>5. QED
    BY <1>5, <2>2, <2>4
<1>11. CASE Send(r)
  <2>1. PICK i \in 1 .. N - 1 : IF kind = "nccl" THEN NcclSend(r, Nth(r, i), SendBlock(Nth(r, i), rnd[r]), MsgSize)
                                ELSE UNCHANGED <<memVars, ncclVars>>
    BY <1>11 DEF Send
  <2>2. CASE kind = "nccl"
    <3>1. PICK b, n, v : Allocate(r, Only(b, Block(n, v)))
      BY <2>1, <2>2 DEF NcclSend
    <3>2. QED
      BY <1>5, <1>9, <3>1
  <2>3. CASE kind # "nccl"
    BY <1>4, <2>1, <2>3 DEF memVars
  <2>4. QED
    BY <2>2, <2>3
<1>12. CASE Recv(r)
  <2>1. CASE kind = "nccl"
    <3>1. PICK S : NcclRecvs(r, Others(r), S, MsgSize)
      BY <1>12, <2>1 DEF Recv
    <3>2. PICK D : Allocate(r, [c \in D |-> Block(Aligned(MsgSize), Garbage)])
      BY <3>1 DEF NcclRecvs
    <3>3. QED
      BY <1>2, <1>5, <3>2
  <2>2. CASE kind # "nccl" /\ session.probing
    <3>1. Allocate(r, NewRecvBlocks(r, rnd[r]))
      BY <1>12, <2>2 DEF Recv
    <3>2. \A c \in DOMAIN NewRecvBlocks(r, rnd[r]) : IsBlock(NewRecvBlocks(r, rnd[r])[c])
      BY <1>2 DEF NewRecvBlocks
    <3>3. QED
      BY <1>5, <3>1, <3>2
  <2>3. CASE kind # "nccl" /\ ~session.probing
    BY <1>4, <1>12, <2>3 DEF Recv, memVars
  <2>4. QED
    BY <2>1, <2>2, <2>3
<1>13. CASE Launch(r)
  BY <1>4, <1>13 DEF Launch, NcclLaunch, memVars
<1>14. CASE Stop(r)
  <2>1. NextCall(r) = "stop"
    BY <1>14 DEF Stop, Do
  <2>2. kind \in {"nccl", "buffer", "none", "preregistered"}
    <3>1. Permitted("stop") /\ kind \in Kinds
      BY <1>1, <2>1, Allowed, KindIs DEF TypeInv
    <3>2. QED
      BY <3>1 DEF Permitted, Kinds
  <2>3. CASE kind = "nccl"
    <3>1. NcclStop(r)
      BY <1>14, <2>3 DEF Stop
    <3>2. PICK old, copied : blocks' = [blocks EXCEPT ![r] = Write(Without(@, DOMAIN old), copied)]
      BY <3>1 DEF NcclStop
    <3>3. PICK f : f = Without(blocks[r], DOMAIN old)
      OBVIOUS
    <3>4. blocks'[r] = Write(f, copied)
      BY <1>1, <3>2, <3>3
    <3>5. \A b \in DOMAIN f : IsBlock(f[b])
      BY <1>7, <3>3 DEF Recorded
    <3>6. QED
      BY <1>3, <3>4, <3>5, WriteIs
  <2>4. CASE kind = "buffer"
    <3>1. BufferStop(r)
      BY <1>14, <2>4 DEF Stop
    <3>2. PICK new : blocks' = [blocks EXCEPT ![r] = Write(@, new)]
      BY <3>1 DEF BufferStop
    <3>3. QED
      BY <1>6, <3>2
  <2>5. CASE kind \in {"none", "preregistered"}
    BY <1>4, <1>14, <2>5 DEF Stop, memVars
  <2>6. QED
    BY <2>2, <2>3, <2>4, <2>5
<1>15. CASE Progress(r)
  <2>1. CASE UcxDeliver(r)
    <3>1. PICK b, v : blocks' = [blocks EXCEPT ![r] = Write(@, Only(b, v))]
      BY <2>1 DEF UcxDeliver
    <3>2. QED
      BY <1>6, <3>1
  <2>2. CASE UcxFlush(r)
    BY <1>4, <2>2 DEF UcxFlush, memVars
  <2>3. QED
    BY <1>15, <2>1, <2>2 DEF Progress
<1>16. CASE Free(r)
  <2>1. PICK old : Deallocate(r, old)
    BY <1>16 DEF Free
  <2>2. QED
    BY <1>8, <2>1
<1>17. CASE Setup(r)
  <2>1. CASE Cache(r)
    <3>1. PICK b, n, v : Allocate(r, Only(b, Block(n, v)))
      BY <2>1 DEF Cache
    <3>2. QED
      BY <1>5, <1>9, <3>1
  <2>2. CASE ~Cache(r)
    BY <1>4, <1>17, <2>2 DEF Setup, Worker, Connect, Registered, Pool, NewPool, Throw, memVars
  <2>3. QED
    BY <2>1, <2>2
<1>18. CASE Destroy(r)
  <2>1. CASE Uncache(r)
    <3>1. PICK old : Deallocate(r, old)
      BY <2>1 DEF Uncache
    <3>2. QED
      BY <1>8, <3>1
  <2>2. CASE ~Uncache(r)
    BY <1>4, <1>18, <2>2 DEF Destroy, Close, Barrier, DestroyNccl, PoolDeleted, DeletePool, Deleted, memVars
  <2>3. QED
    BY <2>1, <2>2
<1>19. QED
  BY <1>10, <1>11, <1>12, <1>13, <1>14, <1>15, <1>16, <1>17, <1>18 DEF RankStep, Warmup

\* A step of one rank posts no receive of another.
LEMMA PostedMine ==
  ASSUME ControlInv, AllSent, UcxInv, NEW r \in Ranks, RankStep(r), Unbuffered, NEW x \in Ranks \ {r}
  PROVE  posted'[x] = posted[x]
<1>1. DOMAIN posted = Ranks
  BY DEF ControlInv, TypeInv
<1>2. CASE Progress(r)
  <2>1. CASE UcxFlush(r)
    BY <2>1 DEF UcxFlush
  <2>2. CASE UcxDeliver(r)
    BY <1>1, <2>2 DEF UcxDeliver
  <2>3. QED
    BY <1>2, <2>1, <2>2 DEF Progress
<1>3. CASE Quiet(r) \/ Starts(r) \/ (\E d \in Peers(r) : Sends(r, d)) \/ Stops(r)
  BY <1>3 DEF Quiet, Starts, Sends, Stops, ucxVars
<1>4. CASE Receives(r)
  BY <1>1, <1>4 DEF Receives
<1>5. QED
  BY <1>2, <1>3, <1>4, UcxSteps

\* Messages under way hold what the round should send.
LEMMA CarriedStep ==
  ASSUME ControlInv, AllSent, UcxInv, SentVals, NEW r \in Ranks, RankStep(r), Unbuffered,
         \A s, d \in Ranks : Carried(s, d), NEW s \in Ranks, NEW d \in Ranks
  PROVE  Carried(s, d)'
<1>1. DOMAIN net = Ranks /\ \A x \in Ranks : DOMAIN net[x] = Ranks
  BY DEF ControlInv, TypeInv
<1>2. ASSUME net'[s][d] = net[s][d] PROVE Carried(s, d)'
  BY <1>2 DEF Carried, Meant, SendBlock, Message
<1>3. ASSUME NEW e, net'[s][d] = e, \A j \in DOMAIN e : Meant(s, d, e[j]) PROVE Carried(s, d)'
  BY <1>3 DEF Carried, Meant, SendBlock, Message
<1>4. s # d => IsSeq(net[s][d])
  BY DEF UcxInv, NetInv
<1>5. CASE Quiet(r) \/ Starts(r) \/ Receives(r) \/ Stops(r)
  <2>1. net' = net
    BY <1>5 DEF Quiet, Starts, Receives, Stops, ucxVars
  <2>2. QED
    BY <1>2, <2>1
<1>6. ASSUME NEW c \in Peers(r), Sends(r, c) PROVE Carried(s, d)'
  <2>1. PICK k, b, v, req, q : /\ k = rnd[r] /\ b = SendBlock(c, k) /\ v = Read(r, b) /\ q = net[r][c]
                               /\ net' = [net EXCEPT ![r][c] =
                                    Append(@, [tag |-> Tag(ReservedTag, r), val |-> v, ref |-> b, req |-> req])]
    BY <1>6 DEF Sends
  <2>2. PICK m : m = [tag |-> Tag(ReservedTag, r), val |-> v, ref |-> b, req |-> req]
    OBVIOUS
  <2>3. c \in Ranks /\ c # r
    BY DEF Peers
  <2>4. CASE s # r \/ d # c
    <3>1. net'[s][d] = net[s][d]
      BY <1>1, <2>1, <2>3, <2>4
    <3>2. QED
      BY <1>2, <3>1
  <2>5. CASE s = r /\ d = c
    <3>1. net'[s][d] = Append(q, m)
      BY <1>1, <2>1, <2>2, <2>3, <2>5
    <3>2. v = Message(r, c, k)
      <4>1. InRound(r)
        BY <1>6 DEF Sends, InRound
      <4>2. Loaded(r)
        BY DEF SentVals
      <4>3. QED
        BY <2>1, <4>1, <4>2 DEF Loaded
    <3>3. m.val = v /\ m.ref = b
      BY <2>2
    <3>4. Meant(r, c, m)
      <4>1. ASSUME NEW l, m.ref = SendBlock(c, l) PROVE m.val = Message(r, c, l)
        <5>1. l = k
          <6>1. SendBlock(c, l) = SendBlock(c, k)
            BY <2>1, <3>3, <4>1
          <6>2. QED
            BY <6>1 DEF SendBlock
        <5>2. QED
          BY <3>2, <3>3, <5>1
      <4>2. QED
        BY <4>1 DEF Meant
    <3>5. IsSeq(q) /\ Appended(Append(q, m), q, m)
      BY <1>4, <2>1, <2>3, <2>5, AppendIs
    <3>6. DOMAIN q = 1 .. Len(q) /\ Len(q) \in Nat /\ DOMAIN Append(q, m) = 1 .. Len(q) + 1
      BY <3>5, IsSeqDomain DEF Appended
    <3>7. \A j \in DOMAIN q : Meant(r, c, q[j])
      BY <2>1, <2>3 DEF Carried
    <3>8. ASSUME NEW j \in DOMAIN Append(q, m) PROVE Meant(r, c, Append(q, m)[j])
      <4>1. j \in 1 .. Len(q) \/ j = Len(q) + 1
        BY <3>6
      <4>2. CASE j \in 1 .. Len(q)
        <5>1. Append(q, m)[j] = q[j]
          BY <3>5, <4>2 DEF Appended
        <5>2. QED
          BY <3>6, <3>7, <4>2, <5>1
      <4>3. CASE j = Len(q) + 1
        <5>1. Append(q, m)[j] = m
          BY <3>5, <4>3 DEF Appended
        <5>2. QED
          BY <3>4, <5>1
      <4>4. QED
        BY <4>1, <4>2, <4>3
    <3>9. QED
      BY <1>3, <2>5, <3>1, <3>8
  <2>6. QED
    BY <2>4, <2>5
<1>7. CASE UcxFlush(r)
  <2>1. PICK c \in Peers(r) : \E j \in DOMAIN net[r][c] : Flushes(r, c, j)
    BY <1>7, FlushIs
  <2>2. PICK j \in DOMAIN net[r][c] : Flushes(r, c, j)
    BY <2>1
  <2>3. c \in Ranks /\ c # r
    BY DEF Peers
  <2>4. PICK q, m, e, n : q = net[r][c] /\ m = q[j] /\ e = net'[r][c] /\ n = e[j]
    OBVIOUS
  <2>5. /\ m.req # NoRequest /\ (\A x, y \in Ranks : x # r \/ y # c => net'[x][y] = net[x][y])
        /\ IsSeq(e) /\ Len(e) = Len(q) /\ (\A k \in DOMAIN q : k # j => e[k] = q[k])
        /\ (\A k : IsMessage(r, c, k, m) => IsMessage(r, c, k, n)) /\ n.val = Read(r, m.ref)
    BY <2>2, <2>4 DEF Flushes
  <2>6. CASE s # r \/ d # c
    BY <1>2, <2>5, <2>6
  <2>7. CASE s = r /\ d = c
    <3>1. NetInv(r, c) /\ q # <<>>
      BY <2>3, <2>4 DEF UcxInv
    <3>2. IsSeq(q) /\ \E k : IsMessage(r, c, k, m) /\ m.val = Read(r, m.ref)
      BY <2>4, <2>5, <3>1 DEF NetInv, Flying
    <3>3. PICK k : IsMessage(r, c, k, m) /\ m.val = Read(r, m.ref)
      BY <3>2
    <3>4. n.ref = m.ref /\ n.val = m.val
      <4>1. m.ref = SendBlock(c, k)
        BY <3>3, MessageIs
      <4>2. n.ref = SendBlock(c, k)
        BY <2>5, <3>3, MessageIs
      <4>3. QED
        BY <2>5, <3>3, <4>1, <4>2
    <3>5. DOMAIN e = DOMAIN q
      BY <2>5, <3>2, IsSeqDomain
    <3>6. \A l \in DOMAIN q : Meant(r, c, q[l])
      BY <2>3, <2>4 DEF Carried
    <3>7. Meant(r, c, n)
      BY <2>4, <3>4, <3>6 DEF Meant
    <3>8. \A l \in DOMAIN e : Meant(r, c, e[l])
      BY <2>4, <2>5, <3>5, <3>6, <3>7
    <3>9. QED
      BY <1>3, <2>4, <2>7, <3>8
  <2>8. QED
    BY <2>6, <2>7
<1>8. CASE Progress(r) /\ NextCall(r) = "stop" /\ UcxDeliver(r)
  <2>1. PICK c \in Peers(r) : \E i \in DOMAIN posted[r] : Delivers(r, c, i)
    BY <1>8, DeliverIs
  <2>2. net' = [net EXCEPT ![c][r] = Drop(@, 1)] /\ net[c][r] # <<>>
    BY <2>1 DEF Delivers
  <2>3. c \in Ranks /\ c # r
    BY DEF Peers
  <2>4. CASE s # c \/ d # r
    <3>1. net'[s][d] = net[s][d]
      BY <1>1, <2>2, <2>3, <2>4
    <3>2. QED
      BY <1>2, <3>1
  <2>5. CASE s = c /\ d = r
    <3>1. PICK q, e : q = net[c][r] /\ e = Drop(q, 1)
      OBVIOUS
    <3>2. net'[s][d] = e
      BY <1>1, <2>2, <2>3, <2>5, <3>1
    <3>3. IsSeq(q) /\ q # <<>>
      BY <1>4, <2>2, <2>3, <2>5, <3>1
    <3>4. DOMAIN q = 1 .. Len(q) /\ Len(q) \in Nat
      BY <3>3, IsSeqDomain
    <3>5. 1 \in DOMAIN q
      <4>1. Len(q) # 0
        BY <3>3, <3>4 DEF IsSeq
      <4>2. QED
        BY <3>4, <4>1
    <3>6. Dropped(e, q, 1)
      BY <3>1, <3>3, <3>5, DropIs
    <3>7. DOMAIN e = 1 .. Len(e) /\ Len(e) = Len(q) - 1
      BY <3>6, IsSeqDomain DEF Dropped
    <3>8. \A j \in DOMAIN q : Meant(c, r, q[j])
      BY <2>3, <3>1 DEF Carried
    <3>9. ASSUME NEW j \in DOMAIN e PROVE Meant(c, r, e[j])
      <4>1. ~(j < 1) /\ j + 1 \in DOMAIN q
        BY <3>4, <3>7
      <4>2. e[j] = q[j + 1]
        BY <3>6, <3>7, <4>1 DEF Dropped
      <4>3. QED
        BY <3>8, <4>1, <4>2
    <3>10. QED
      BY <1>3, <2>5, <3>2, <3>9
  <2>6. QED
    BY <2>4, <2>5
<1>9. QED
  <2>1. Progress(r) => UcxFlush(r) \/ (NextCall(r) = "stop" /\ UcxDeliver(r))
    BY DEF Progress
  <2>2. QED
    BY <1>5, <1>6, <1>7, <1>8, <2>1, UcxSteps

\* The blocks of complete receives hold what the round should bring.
LEMMA FilledStep ==
  ASSUME ControlInv, AllSent, UcxInv, NEW r \in Ranks, RankStep(r), Unbuffered, Recorded(r), BlocksInv(r),
         \A s, d \in Ranks : Carried(s, d), \A y \in Ranks : Filled(y), NEW x \in Ranks
  PROVE  Filled(x)'
<1>1. kind' = kind /\ (Unbuffered' <=> Unbuffered) /\ DOMAIN blocks = Ranks /\ DOMAIN posted = Ranks
  BY ControlStep DEF ControlInv, TypeInv, Unbuffered
<1>2. ASSUME NextCall(x)' = NextCall(x), rnd'[x] = rnd[x], blocks'[x] = blocks[x], posted'[x] = posted[x]
      PROVE  Filled(x)'
  <2>1. \A s : Awaited(x, s)' <=> Awaited(x, s)
    BY <1>2 DEF Awaited, Tag, ReservedTag
  <2>2. \A s : Read(x, RecvBlock(s, rnd[x]))' = Read(x, RecvBlock(s, rnd[x]))
    BY <1>2 DEF Read, RecvBlock
  <2>3. Filled(x)
    OBVIOUS
  <2>4. QED
    BY <1>1, <1>2, <2>1, <2>2, <2>3 DEF Filled, Message, Peers, Ranks
<1>3. CASE x # r
  <2>1. NextCall(x)' = NextCall(x) /\ rnd'[x] = rnd[x]
    BY <1>3, ControlStep
  <2>2. blocks'[x] = blocks[x]
    BY <1>3, MemoryMine
  <2>3. posted'[x] = posted[x]
    BY <1>3, PostedMine
  <2>4. QED
    BY <1>2, <2>1, <2>2, <2>3
<1>4. CASE x = r /\ Progress(r) /\ UcxFlush(r)
  <2>1. blocks' = blocks /\ posted' = posted
    BY <1>4 DEF UcxFlush, memVars
  <2>2. rnd' = rnd /\ NextCall(r)' = NextCall(r)
    BY <1>4, ProgressIs
  <2>3. QED
    BY <1>2, <1>4, <2>1, <2>2
<1>5. CASE x = r /\ Progress(r) /\ NextCall(r) = "stop" /\ UcxDeliver(r)
  <2>1. PICK c \in Peers(r) : \E i \in DOMAIN posted[r] : Delivers(r, c, i)
    BY <1>5, DeliverIs
  <2>2. PICK i \in DOMAIN posted[r] : Delivers(r, c, i)
    BY <2>1
  <2>3. PICK m, v, k, q : /\ q = net[c][r] /\ m = q[1] /\ k = rnd[r]
                          /\ v = IF m.req = NoRequest THEN m.val ELSE Read(c, m.ref)
    OBVIOUS
  <2>4. /\ posted[r][i] = Post(r, c) /\ q # <<>>
        /\ blocks' = [blocks EXCEPT ![r] = Write(@, Only(RecvBlock(c, k), v))]
        /\ net' = [net EXCEPT ![c][r] = Drop(@, 1)]
    BY <2>2, <2>3, Zenon DEF Delivers
  <2>5. c \in Ranks /\ c # r /\ k \in Nat /\ DOMAIN net = Ranks
    BY <2>3 DEF Peers, ControlInv, TypeInv
  <2>6. rnd' = rnd /\ sent' = sent /\ NextCall(r)' = NextCall(r)
    BY <1>5, ProgressIs
  <2>7. v = Message(c, r, k)
    <3>1. NetInv(c, r)
      BY <2>5 DEF UcxInv
    <3>2. IsSeq(q) /\ \A j \in DOMAIN q : /\ IsMessage(c, r, Received(r, c) + j, q[j])
                                          /\ q[j].req # NoRequest => Flying(c, r, Received(r, c) + j, q[j])
      BY <2>3, <2>4, <2>5, <3>1 DEF NetInv
    <3>3. 1 \in DOMAIN q
      <4>1. DOMAIN q = 1 .. Len(q) /\ Len(q) \in Nat
        BY <3>2, IsSeqDomain
      <4>2. Len(q) # 0
        BY <2>4, <3>2, <4>1 DEF IsSeq
      <4>3. QED
        BY <4>1, <4>2
    <3>4. Awaited(r, c)
      <4>1. posted[r][i].tag = Tag(ReservedTag, c)
        BY <2>4 DEF Post
      <4>2. QED
        BY <4>1 DEF Awaited
    <3>5. Received(r, c) + 1 = k
      <4>1. Received(r, c) = rnd[r] - 1
        BY <1>5, <3>4 DEF Received
      <4>2. QED
        BY <2>3, <2>5, <4>1
    <3>6. IsMessage(c, r, k, m) /\ (m.req # NoRequest => Flying(c, r, k, m))
      BY <2>3, <3>2, <3>3, <3>5
    <3>7. m.ref = SendBlock(r, k)
      BY <3>6, MessageIs
    <3>8. Carried(c, r)
      BY <2>5
    <3>9. m.val = Message(c, r, k)
      BY <2>3, <3>3, <3>7, <3>8 DEF Carried, Meant
    <3>10. m.req # NoRequest => m.val = Read(c, m.ref)
      BY <3>6 DEF Flying
    <3>11. QED
      BY <2>3, <3>9, <3>10
  <2>8. Read(r, RecvBlock(c, k))' = Message(c, r, k)
    <3>1. PICK b, f, new : b = RecvBlock(c, k) /\ f = blocks[r] /\ new = Only(b, v)
      OBVIOUS
    <3>2. b \in DOMAIN f
      <4>1. RecvBlock(c, k) \in Own(r)
        BY <1>5, <2>3 DEF Own, Under, Finishing
      <4>2. QED
        BY <3>1, <4>1 DEF BlocksInv
    <3>3. blocks'[r] = Write(f, new)
      BY <1>1, <2>4, <3>1
    <3>4. \A e \in DOMAIN f : IsBlock(f[e])
      BY <3>1 DEF Recorded
    <3>5. b \in DOMAIN new /\ new[b] = v
      BY <3>1 DEF Only
    <3>6. DOMAIN Write(f, new) = DOMAIN f
      BY <3>4, WriteIs
    <3>7. Write(f, new)[b].val = v
      BY <3>2, <3>4, <3>5, WriteIs
    <3>8. Read(r, b)' = v
      BY <3>1, <3>2, <3>3, <3>6, <3>7 DEF Read, RecvBlock
    <3>9. QED
      BY <2>7, <3>1, <3>8 DEF RecvBlock, Read
  <2>9. ASSUME NEW s \in Peers(r), s # c
        PROVE  /\ Read(r, RecvBlock(s, k))' = Read(r, RecvBlock(s, k))
               /\ Awaited(r, s) => Awaited(r, s)'
    <3>1. Read(r, RecvBlock(s, k))' = Read(r, RecvBlock(s, k))
      <4>1. PICK b, e : b = RecvBlock(s, k) /\ e = RecvBlock(c, k)
        OBVIOUS
      <4>2. b # e
        BY <2>9, <4>1 DEF RecvBlock
      <4>3. blocks' = [blocks EXCEPT ![r] = Write(@, Only(e, v))]
        BY <2>4, <4>1
      <4>4. Read(r, b)' = Read(r, b)
        BY <1>1, <4>2, <4>3, ReadWritten
      <4>5. QED
        BY <4>1, <4>4 DEF Read, RecvBlock
    <3>2. s \in Ranks /\ s # r
      BY DEF Peers
    <3>3. net'[s] = net[s]
      BY <2>4, <2>5, <2>9, <3>2
    <3>4. NetInv(s, r) /\ NetInv(s, r)'
      BY <3>2, UcxStep DEF UcxInv
    <3>5. Len(net[s][r]) = Len(sent[s][r]) - Received(r, s)
      BY <3>2, <3>4 DEF NetInv
    <3>6. Len(net[s][r]) = Len(sent[s][r]) - Received(r, s)'
      BY <1>1, <2>6, <3>2, <3>3, <3>4 DEF NetInv
    <3>7. SentInv(s, r)
      BY <3>2 DEF AllSent
    <3>8. Len(sent[s][r]) \in Nat
      BY <3>7, IsSeqDomain DEF SentInv
    <3>9. PICK a, z, l : a = Received(r, s) /\ z = Received(r, s)' /\ l = Len(sent[s][r])
      OBVIOUS
    <3>10. a \in {k - 1, k} /\ z \in {k - 1, k} /\ l - a = l - z
      BY <2>3, <2>6, <3>5, <3>6, <3>9 DEF Received
    <3>11. a = z
      BY <2>5, <3>8, <3>9, <3>10
    <3>12. (a = k - 1 <=> Awaited(r, s)) /\ (z = k - 1 <=> Awaited(r, s)')
      <4>1. k # k - 1
        BY <2>5
      <4>2. QED
        BY <1>5, <2>3, <2>6, <3>9, <4>1 DEF Received
    <3>13. QED
      BY <3>1, <3>11, <3>12
  <2>10. Filled(r)
    OBVIOUS
  <2>11. rnd'[r] = k
    BY <2>3, <2>6
  <2>12. \A s \in Peers(r) : ~Awaited(r, s)' => Read(r, RecvBlock(s, k))' = Message(s, r, k)
    BY <1>5, <2>3, <2>8, <2>9, <2>10 DEF Filled
  <2>13. QED
    BY <1>5, <2>11, <2>12 DEF Filled, Message, Peers, Ranks
<1>6. CASE x = r /\ Receives(r)
  <2>1. PICK f, g, more : /\ f = posted[r] /\ g = posted'[r] /\ more = [i \in 1 .. N - 1 |-> Post(r, Nth(r, i))]
    OBVIOUS
  <2>2. g = f \o more
    BY <1>1, <1>6, <2>1 DEF Receives
  <2>3. IsSeq(f)
    BY <2>1 DEF UcxInv, PostedInv
  <2>4. N - 1 \in Nat
    BY NAssumption
  <2>5. IsSeq(more) /\ Len(more) = N - 1
    <3>1. PICK n, T : n = N - 1 /\ T = {Post(r, Nth(r, i)) : i \in 1 .. N - 1}
      OBVIOUS
    <3>2. more \in [1 .. n -> T] /\ n \in Nat
      BY <2>1, <2>4, <3>1
    <3>3. more \in Seq(T)
      BY <3>2, SeqDef
    <3>4. IsSeq(more) /\ DOMAIN more = 1 .. Len(more) /\ Len(more) \in Nat
      BY <3>3, SeqIs
    <3>5. DOMAIN more = 1 .. N - 1
      BY <2>1
    <3>6. QED
      BY <2>4, <3>4, <3>5
  <2>6. IsSeq(g) /\ IsJoined(g, f, more)
    BY <2>2, <2>3, <2>5, JoinIs
  <2>7. DOMAIN g = 1 .. Len(g) /\ Len(g) \in Nat /\ Len(f) \in Nat
    BY <2>3, <2>6, IsSeqDomain
  <2>8. ASSUME NEW s \in Peers(r) PROVE Awaited(r, s)'
    <3>1. PICK i : i = Index(r, s)
      OBVIOUS
    <3>2. i \in 1 .. N - 1 /\ Nth(r, i) = s
      BY <3>1, NthIs
    <3>3. Len(f) + i \in DOMAIN g /\ g[Len(f) + i] = more[i]
      <4>1. Len(g) = Len(f) + Len(more) /\ g[Len(f) + i] = more[i]
        BY <2>5, <2>6, <3>2 DEF IsJoined
      <4>2. Len(f) + i \in 1 .. Len(g)
        BY <2>4, <2>5, <2>7, <3>2, <4>1
      <4>3. QED
        BY <2>7, <4>1, <4>2
    <3>4. more[i] = Post(r, s)
      BY <2>1, <3>2
    <3>5. g[Len(f) + i].tag = Tag(ReservedTag, s)
      BY <3>3, <3>4 DEF Post
    <3>6. QED
      BY <2>1, <3>3, <3>5 DEF Awaited, Tag, ReservedTag
  <2>9. QED
    BY <1>6, <2>8 DEF Filled, Peers, Ranks
<1>7. CASE x = r /\ (Quiet(r) \/ Starts(r) \/ (\E d \in Peers(r) : Sends(r, d)) \/ Stops(r))
  <2>1. NextCall(r)' # "stop"
    BY <1>7 DEF Quiet, Starts, Sends, Stops
  <2>2. QED
    BY <1>7, <2>1 DEF Filled
<1>8. QED
  <2>1. Progress(r) => UcxFlush(r) \/ (NextCall(r) = "stop" /\ UcxDeliver(r))
    BY DEF Progress
  <2>2. CASE x = r
    BY <1>4, <1>5, <1>6, <1>7, <2>1, <2>2, UcxSteps
  <2>3. QED
    BY <1>3, <2>2

\* Progress included, the unbuffered communicator carries what it is given.
LEMMA UcxValsStep ==
  ASSUME ControlInv, AllSent, UcxInv, SentVals, NEW r \in Ranks, RankStep(r), Recorded(r), BlocksInv(r), UcxVals
  PROVE  UcxVals'
<1>1. (Unbuffered' <=> Unbuffered) /\ UcxInv'
  BY ControlStep, UcxStep DEF Unbuffered
<1>2. CASE Unbuffered
  <2>1. (\A y \in Ranks : Filled(y)) /\ \A s, d \in Ranks : Carried(s, d)
    BY DEF UcxVals
  <2>2. \A x \in Ranks : Filled(x)'
    BY <1>2, <2>1, FilledStep
  <2>3. \A s, d \in Ranks : Carried(s, d)'
    BY <1>2, <2>1, CarriedStep
  <2>4. QED
    BY <2>2, <2>3 DEF UcxVals, Ranks
<1>3. CASE ~Unbuffered
  <2>1. \A s, d \in Ranks : net'[s][d] = <<>>
    BY <1>1, <1>3 DEF UcxInv, NetInv, Ranks
  <2>2. \A s, d \in Ranks : Carried(s, d)'
    BY <2>1 DEF Carried
  <2>3. \A x \in Ranks : Filled(x)'
    BY <1>1, <1>3 DEF Filled
  <2>4. QED
    BY <2>2, <2>3 DEF UcxVals, Ranks
<1>4. QED
  BY <1>2, <1>3

\* What has been launched changes with a launch, what has been received with a stop.
LEMMA CountersStep ==
  ASSUME ControlInv, NEW r \in Ranks, RankStep(r), kind = "nccl"
  PROVE  /\ rnd[r] \in Nat /\ Launched(r) \in Int /\ TakenBy(r) \in Int
         /\ Launched(r)' = IF Launch(r) THEN Launched(r) + 1 ELSE Launched(r)
         /\ TakenBy(r)' = IF Stop(r) THEN TakenBy(r) + 1 ELSE TakenBy(r)
         /\ \A x \in Ranks \ {r} : Launched(x)' = Launched(x) /\ TakenBy(x)' = TakenBy(x)
<1>1. rnd[r] \in Nat /\ TypeInv
  BY DEF ControlInv, TypeInv
<1>2. Launched(r) \in Int /\ TakenBy(r) \in Int
  BY <1>1 DEF Launched, TakenBy
<1>3. \A x \in Ranks \ {r} : Launched(x)' = Launched(x) /\ TakenBy(x)' = TakenBy(x)
  BY ControlStep DEF Launched, TakenBy, InRound
<1>4. /\ Launched(r)' = IF Launch(r) THEN Launched(r) + 1 ELSE Launched(r)
      /\ TakenBy(r)' = IF Stop(r) THEN TakenBy(r) + 1 ELSE TakenBy(r)
  <2>1. CASE Start(r)
    <3>1. NextCall(r) = "start" /\ NextCall(r)' \in {"send", "recv"} /\ rnd'[r] = rnd[r] + 1
      BY <1>1, <2>1, NotProgress, InsideIs
    <3>2. ~Launch(r) /\ ~Stop(r)
      BY <3>1 DEF Launch, Stop, Do
    <3>3. QED
      BY <1>1, <3>1, <3>2 DEF Launched, TakenBy, InRound
  <2>2. CASE Send(r) \/ Recv(r)
    <3>1. NextCall(r) \in {"send", "recv"} /\ NextCall(r)' \in {"send", "recv", "launch"} /\ rnd'[r] = rnd[r]
      <4>1. rnd' = rnd
        BY <2>2 DEF Send, Recv, user
      <4>2. QED
        BY <1>1, <2>2, <4>1, NotProgress, InsideIs
    <3>2. ~Launch(r) /\ ~Stop(r)
      BY <3>1 DEF Launch, Stop, Do
    <3>3. QED
      BY <3>1, <3>2 DEF Launched, TakenBy, InRound
  <2>3. CASE Launch(r)
    <3>1. NextCall(r) = "launch" /\ NextCall(r)' = "stop" /\ rnd' = rnd
      <4>1. rnd' = rnd
        BY <2>3 DEF Launch, user
      <4>2. QED
        BY <1>1, <2>3, <4>1, NotProgress, InsideIs
    <3>2. ~Stop(r)
      BY <3>1 DEF Stop, Do
    <3>3. QED
      BY <1>1, <2>3, <3>1, <3>2 DEF Launched, TakenBy, InRound
  <2>4. CASE Stop(r)
    <3>1. NextCall(r) = "stop" /\ NextCall(r)' = "free" /\ rnd' = rnd
      <4>1. rnd' = rnd
        BY <2>4 DEF Stop
      <4>2. QED
        BY <1>1, <2>4, <4>1, NotProgress, InsideIs
    <3>2. ~Launch(r)
      BY <3>1 DEF Launch, Do
    <3>3. QED
      BY <1>1, <2>4, <3>1, <3>2 DEF Launched, TakenBy, InRound
  <2>5. ASSUME NextCall(r) \notin {"send", "recv", "launch", "stop"}, NextCall(r)' \notin {"send", "recv", "launch", "stop"},
               rnd'[r] = rnd[r]
        PROVE  /\ Launched(r)' = IF Launch(r) THEN Launched(r) + 1 ELSE Launched(r)
               /\ TakenBy(r)' = IF Stop(r) THEN TakenBy(r) + 1 ELSE TakenBy(r)
    <3>1. ~Launch(r) /\ ~Stop(r)
      BY <2>5 DEF Launch, Stop, Do
    <3>2. QED
      BY <2>5, <3>1 DEF Launched, TakenBy, InRound
  <2>6. CASE Free(r)
    <3>1. NextCall(r) = "free" /\ NextCall(r)' \in {"start", FirstDestroy} /\ rnd' = rnd
      <4>1. rnd' = rnd
        BY <2>6 DEF Free, user
      <4>2. QED
        BY <1>1, <2>6, <4>1, NotProgress, InsideIs
    <3>2. QED
      BY <2>5, <3>1 DEF FirstDestroy
  <2>7. CASE Outside(r)
    <3>1. NextCall(r) \notin UnderSet
      BY <2>7, SetsDisjoint DEF Outside
    <3>2. QED
      BY <2>5, <2>7, <3>1 DEF Outside, UnderSet
  <2>8. CASE Progress(r)
    BY <2>8 DEF Progress, Unbuffered
  <2>9. QED
    BY <2>1, <2>2, <2>3, <2>4, <2>6, <2>7, <2>8, AllSteps
<1>5. QED
  BY <1>1, <1>2, <1>3, <1>4

\* The calls that change an NCCL group or its messages.
LEMMA NcclSteps ==
  ASSUME ControlInv, NEW r \in Ranks, RankStep(r)
  PROVE  \/ /\ UNCHANGED <<group, recvBuffers, wire>>
            /\ kind = "nccl" => NextCall(r)' \notin {"send", "recv", "launch", "stop"} /\ ~Launch(r) /\ ~Stop(r)
         \/ kind = "nccl" /\ Start(r) /\ NcclStart(r)
         \/ kind = "nccl" /\ Send(r) /\ wire' = wire
         \/ kind = "nccl" /\ Recv(r) /\ wire' = wire
         \/ kind = "nccl" /\ Launch(r) /\ NcclLaunch(r)
         \/ kind = "nccl" /\ Stop(r) /\ NcclStop(r)
<1>1. TypeInv /\ WhereInv(r)
  BY DEF ControlInv
<1>2. CASE Start(r)
  BY <1>2 DEF Start, ncclVars
<1>3. CASE Send(r)
  BY <1>3 DEF Send, ncclVars, NcclSend
<1>4. CASE Recv(r)
  <2>1. CASE kind = "nccl"
    BY <1>4, <2>1 DEF Recv, NcclRecvs
  <2>2. CASE kind # "nccl"
    BY <1>4, <2>2 DEF Recv, ncclVars
  <2>3. QED
    BY <2>1, <2>2
<1>5. CASE Launch(r)
  <2>1. kind = "nccl"
    BY <1>1, <1>5, NotProgress, InsideIs
  <2>2. QED
    BY <1>5, <2>1 DEF Launch
<1>6. CASE Stop(r)
  <2>1. NextCall(r) = "stop"
    BY <1>6 DEF Stop, Do
  <2>2. kind \in {"nccl", "buffer", "none", "preregistered"}
    <3>1. Permitted("stop") /\ kind \in Kinds
      BY <1>1, <2>1, Allowed, KindIs DEF TypeInv
    <3>2. QED
      BY <3>1 DEF Permitted, Kinds
  <2>3. CASE kind = "nccl"
    BY <1>6, <2>3 DEF Stop
  <2>4. CASE kind = "buffer"
    BY <1>6, <2>4 DEF Stop, comms, ncclVars
  <2>5. CASE kind \in {"none", "preregistered"}
    BY <1>6, <2>5 DEF Stop, ncclVars
  <2>6. QED
    BY <2>2, <2>3, <2>4, <2>5
<1>7. CASE Free(r)
  <2>1. NextCall(r) = "free" /\ NextCall(r)' \in {"start", FirstDestroy}
    BY <1>1, <1>7, NotProgress, InsideIs
  <2>2. ~Launch(r) /\ ~Stop(r)
    BY <2>1 DEF Launch, Stop, Do
  <2>3. QED
    BY <1>7, <2>1, <2>2 DEF Free, comms, ncclVars, FirstDestroy
<1>8. CASE Outside(r)
  <2>1. NextCall(r) \notin UnderSet
    BY <1>8, SetsDisjoint DEF Outside
  <2>2. ~Launch(r) /\ ~Stop(r)
    BY <2>1 DEF Launch, Stop, Do, UnderSet
  <2>3. QED
    BY <1>8, <2>2 DEF Outside, comms, ncclVars, UnderSet
<1>9. CASE Progress(r)
  BY <1>9 DEF Progress, ncclVars, Unbuffered
<1>10. QED
  BY <1>2, <1>3, <1>4, <1>5, <1>6, <1>7, <1>8, <1>9, AllSteps

\* The NCCL groups and messages are kept rank by rank.
LEMMA GroupMine ==
  ASSUME ControlInv, NEW r \in Ranks, RankStep(r), NcclShape
  PROVE  /\ NcclShape'
         /\ \A x \in Ranks \ {r} : group'[x] = group[x] /\ recvBuffers'[x] = recvBuffers[x]
<1>1. CASE UNCHANGED <<group, recvBuffers, wire>>
  BY <1>1 DEF NcclShape, Ranks
<1>2. CASE Start(r) /\ NcclStart(r)
  BY <1>2 DEF NcclShape, NcclStart, Ranks
<1>3. CASE kind = "nccl" /\ Send(r) /\ wire' = wire
  <2>1. PICK i \in 1 .. N - 1 : NcclSend(r, Nth(r, i), SendBlock(Nth(r, i), rnd[r]), MsgSize)
    BY <1>3 DEF Send
  <2>2. PICK m : group' = [group EXCEPT ![r] = Append(@, m)]
    BY <2>1 DEF NcclSend
  <2>3. recvBuffers' = recvBuffers
    BY <2>1 DEF NcclSend
  <2>4. QED
    BY <1>3, <2>2, <2>3 DEF NcclShape, Ranks
<1>4. CASE kind = "nccl" /\ Recv(r) /\ wire' = wire
  <2>1. PICK dst : NcclRecvs(r, Others(r), dst, MsgSize)
    BY <1>4 DEF Recv
  <2>2. \E m : group' = [group EXCEPT ![r] = @ \o m]
    BY <2>1 DEF NcclRecvs
  <2>3. \E m : recvBuffers' = [recvBuffers EXCEPT ![r] = @ \o m]
    BY <2>1 DEF NcclRecvs
  <2>4. QED
    BY <1>4, <2>2, <2>3 DEF NcclShape, Ranks
<1>5. CASE NcclLaunch(r)
  <2>1. group' = group /\ recvBuffers' = recvBuffers
    BY <1>5 DEF NcclLaunch
  <2>2. \E w : wire' = [wire EXCEPT ![r] = [d \in Ranks |-> w[d]]]
    <3>1. PICK w : w = [d \in Ranks |->
                   LET mine == {i \in Calls(r, "send") : group[r][i].peer = d} IN
                   IF mine = {} THEN wire[r][d]
                   ELSE Append(wire[r][d], Read(r, group[r][CHOOSE i \in mine : TRUE].blk))]
      OBVIOUS
    <3>2. wire' = [wire EXCEPT ![r] = w] /\ w = [d \in Ranks |-> w[d]]
      BY <1>5, <3>1 DEF NcclLaunch, NcclShape
    <3>3. wire' = [wire EXCEPT ![r] = [d \in Ranks |-> w[d]]]
      BY <3>2
    <3>4. QED
      BY <3>3
  <2>3. PICK w : wire' = [wire EXCEPT ![r] = [d \in Ranks |-> w[d]]]
    BY <2>2
  <2>4. DOMAIN wire' = Ranks /\ \A s \in Ranks : DOMAIN wire'[s] = Ranks
    BY <2>3 DEF NcclShape
  <2>5. QED
    BY <2>1, <2>4 DEF NcclShape, Ranks
<1>6. CASE NcclStop(r)
  <2>1. group' = group /\ recvBuffers' = recvBuffers
    BY <1>6 DEF NcclStop
  <2>2. DOMAIN wire' = Ranks /\ \A s \in Ranks : DOMAIN wire'[s] = Ranks
    BY <1>6 DEF NcclStop, NcclShape
  <2>3. QED
    BY <2>1, <2>2 DEF NcclShape, Ranks
<1>7. QED
  BY <1>1, <1>2, <1>3, <1>4, <1>5, <1>6, NcclSteps

\* A group and its buffers that no step touches stay as GroupInv has them.
LEMMA GroupKept ==
  ASSUME NEW x \in Ranks, kind' = kind, InRound(x)' => InRound(x), Queued(x)' = Queued(x), rnd'[x] = rnd[x],
         NextCall(x)' \in {"launch", "stop"} <=> NextCall(x) \in {"launch", "stop"},
         group'[x] = group[x], recvBuffers'[x] = recvBuffers[x], commBuffers'[x] = commBuffers[x],
         blocks'[x] = blocks[x], GroupInv(x)
  PROVE  GroupInv(x)'
<1>1. \A b : Read(x, b)' = Read(x, b)
  BY DEF Read
<1>2. \A i : /\ SendEntry(x, i)' = SendEntry(x, i) /\ RecvEntry(x, i)' = RecvEntry(x, i)
             /\ Landing(x, i)' = Landing(x, i) /\ Message(x, Nth(x, i), rnd[x])' = Message(x, Nth(x, i), rnd[x])
             /\ Read(x, CommBlock(i))' = Read(x, CommBlock(i))
  BY <1>1 DEF SendEntry, RecvEntry, Landing, Message, Nth, CommBlock, RecvBlock
<1>3. QED
  BY <1>2 DEF GroupInv

\* start() opens an empty group.
LEMMA GroupStart ==
  ASSUME ControlInv, NEW r \in Ranks, RankStep(r), NcclShape, kind = "nccl", Start(r), NcclStart(r)
  PROVE  GroupInv(r)'
<1>1. TypeInv /\ WhereInv(r) /\ DOMAIN commBuffers = Ranks
  BY DEF ControlInv, TypeInv
<1>2. group'[r] = <<>> /\ recvBuffers'[r] = <<>> /\ commBuffers'[r] = <<>>
  BY <1>1 DEF NcclStart, NcclShape
<1>3. NextCall(r) = "start" /\ NextCall(r)' \in {"send", "recv"} /\ Steps(r)
  BY <1>1, NotProgress, InsideIs
<1>4. Arrive(r, rnd[r] + 1)
  BY <1>3 DEF Steps
<1>5. (NextCall(r)' = "send" => Sending(r)' = 1) /\ (NextCall(r)' = "recv" => N = 1)
  BY <1>1, <1>3, <1>4, FirstSend
<1>6. Queued(r)' = 0
  BY <1>3, <1>5 DEF Queued
<1>7. IsSeq(<<>>) /\ Len(<<>>) = 0
  BY EmptyIs
<1>8. NextCall(r)' \notin {"launch", "stop"}
  BY <1>3
<1>9. \A i \in 1 .. N - 1 : ~(i <= 0)
  OBVIOUS
<1>10. QED
  BY <1>2, <1>6, <1>7, <1>8, <1>9 DEF GroupInv

\* send() queues one more send, of a buffer that holds the message.
LEMMA GroupSend ==
  ASSUME ControlInv, AllSent, SentVals, NEW r \in Ranks, RankStep(r), NcclShape, kind = "nccl", Send(r),
         BuffersInv(r), GroupInv(r)
  PROVE  GroupInv(r)'
<1>1. TypeInv /\ WhereInv(r) /\ DOMAIN commBuffers = Ranks /\ DOMAIN blocks = Ranks
  BY DEF ControlInv, TypeInv
<1>2. PICK d \in Peers(r) : d = Nth(r, Sending(r)) /\ NcclSend(r, d, SendBlock(d, rnd[r]), MsgSize)
  BY SendIs
<1>3. NextCall(r) = "send" /\ NextCall(r)' \in {"send", "recv"} /\ Steps(r) /\ rnd' = rnd
  <2>1. rnd' = rnd
    BY DEF Send
  <2>2. QED
    BY <1>1, <2>1, NotProgress, InsideIs
<1>4. Arrive(r, rnd[r])
  BY <1>3 DEF Steps
<1>5. PICK n, k, g, cb, w, b : /\ n = Sending(r) /\ k = rnd[r] /\ g = group[r] /\ cb = commBuffers[r]
                               /\ w = Read(r, SendBlock(d, k)) /\ b = CommBlock(n)
  OBVIOUS
<1>6. n \in 1 .. N - 1
  BY <1>1, <1>3, <1>5, SendingIs
<1>7. Queued(r) = n - 1 /\ Queued(r)' = n
  <2>1. (NextCall(r)' = "send" => Sending(r)' = Sending(r) + 1) /\ (NextCall(r)' = "recv" => Sending(r) = N - 1)
    BY <1>1, <1>3, <1>4, SendAgain
  <2>2. Queued(r) = n - 1
    BY <1>3, <1>5 DEF Queued
  <2>3. CASE NextCall(r)' = "send"
    <3>1. Queued(r)' = (n + 1) - 1
      BY <1>5, <2>1, <2>3 DEF Queued
    <3>2. QED
      BY <1>6, <2>2, <3>1
  <2>4. CASE NextCall(r)' = "recv"
    BY <1>5, <2>1, <2>2, <2>4 DEF Queued
  <2>5. QED
    BY <1>3, <2>3, <2>4
<1>8. InRound(r)
  BY <1>3 DEF InRound
<1>9. /\ IsSeq(g) /\ Len(g) = n - 1 /\ Len(cb) = n - 1
      /\ \A i \in 1 .. N - 1 : i <= n - 1 => g[i] = SendEntry(r, i) /\ Read(r, CommBlock(i)) = Message(r, Nth(r, i), k)
      /\ IsSeq(recvBuffers[r]) /\ Len(recvBuffers[r]) = 0
  BY <1>3, <1>5, <1>7, <1>8 DEF GroupInv
<1>10. w = Message(r, d, k)
  BY <1>5, <1>8 DEF SentVals, Loaded
<1>11. PICK new : new = Only(b, Block(Aligned(MsgSize), w))
  OBVIOUS
<1>12. Len(cb) + 1 = n
  BY <1>6, <1>9
<1>13. Allocate(r, new)
  BY <1>2, <1>5, <1>11, <1>12 DEF NcclSend
<1>14. group'[r] = Append(g, SendEntry(r, n))
  <2>1. group' = [group EXCEPT ![r] = Append(@, [call |-> "send", peer |-> d, blk |-> CommBlock(n)])]
    BY <1>2, <1>5, <1>12 DEF NcclSend
  <2>2. SendEntry(r, n) = [call |-> "send", peer |-> d, blk |-> CommBlock(n)]
    BY <1>2, <1>5 DEF SendEntry
  <2>3. QED
    BY <1>5, <2>1, <2>2 DEF NcclShape
<1>15. recvBuffers' = recvBuffers
  BY <1>2 DEF NcclSend
<1>16. Len(commBuffers'[r]) = n
  <2>1. PICK m : commBuffers' = [commBuffers EXCEPT ![r] = Append(@, m)]
    BY <1>2 DEF NcclSend
  <2>2. commBuffers'[r] = Append(cb, m)
    BY <1>1, <1>5, <2>1
  <2>3. IsSeq(cb)
    BY <1>3, <1>5 DEF BuffersInv, Under
  <2>4. Appended(Append(cb, m), cb, m)
    BY <2>3, AppendIs
  <2>5. QED
    BY <1>12, <2>2, <2>4 DEF Appended
<1>17. PICK e : e = Append(g, SendEntry(r, n))
  OBVIOUS
<1>18. Appended(e, g, SendEntry(r, n))
  BY <1>9, <1>17, AppendIs
<1>19. IsSeq(e) /\ Len(e) = n
  BY <1>6, <1>9, <1>18 DEF Appended
<1>20. Read(r, b)' = w
  <2>1. blocks'[r] = With(blocks[r], new)
    BY <1>1, <1>13 DEF Allocate
  <2>2. b \in DOMAIN new /\ new[b].val = w
    BY <1>11 DEF Only, Block
  <2>3. b \in DOMAIN blocks'[r] /\ blocks'[r][b] = new[b]
    BY <2>1, <2>2 DEF With
  <2>4. QED
    BY <1>5, <2>2, <2>3 DEF Read
<1>21. ASSUME NEW i \in 1 .. N - 1, i <= n
       PROVE  e[i] = SendEntry(r, i) /\ Read(r, CommBlock(i))' = Message(r, Nth(r, i), k)
  <2>1. CASE i = n
    <3>1. e[n] = SendEntry(r, n)
      BY <1>9, <1>12, <1>18 DEF Appended
    <3>2. Read(r, CommBlock(n))' = w
      BY <1>5, <1>20
    <3>3. QED
      BY <1>2, <1>5, <1>10, <2>1, <3>1, <3>2
  <2>2. CASE i # n
    <3>1. i <= n - 1 /\ i \in 1 .. n - 1
      BY <1>6, <1>21, <2>2
    <3>2. e[i] = g[i]
      BY <1>9, <1>18, <3>1 DEF Appended
    <3>3. PICK c : c = CommBlock(i)
      OBVIOUS
    <3>4. c \notin DOMAIN new
      BY <1>5, <1>11, <2>2, <3>3, CommBlockIs DEF Only
    <3>5. Read(r, c)' = Read(r, c)
      BY <1>1, <1>13, <3>4, ReadAllocated
    <3>6. Read(r, CommBlock(i))' = Read(r, CommBlock(i))
      BY <3>3, <3>5
    <3>7. QED
      BY <1>9, <3>1, <3>2, <3>6
  <2>3. QED
    BY <2>1, <2>2
<1>22. rnd'[r] = k /\ NextCall(r)' \notin {"launch", "stop"}
  BY <1>3, <1>5
<1>23. \A i \in 1 .. N - 1 : i <= n =>
         group'[r][i] = SendEntry(r, i)' /\ Read(r, CommBlock(i))' = Message(r, Nth(r, i), rnd[r])'
  BY <1>14, <1>17, <1>21, <1>22 DEF SendEntry, Message, Nth, CommBlock
<1>24. QED
  BY <1>7, <1>9, <1>14, <1>15, <1>16, <1>17, <1>19, <1>22, <1>23 DEF GroupInv

\* recv() queues the receives behind the sends.
LEMMA GroupRecv ==
  ASSUME ControlInv, NEW r \in Ranks, RankStep(r), NcclShape, kind = "nccl", Recv(r), BuffersInv(r), GroupInv(r)
  PROVE  GroupInv(r)'
<1>1. TypeInv /\ WhereInv(r) /\ DOMAIN commBuffers = Ranks /\ DOMAIN blocks = Ranks
  BY DEF ControlInv, TypeInv
<1>2. NextCall(r) = "recv" /\ NextCall(r)' = "launch" /\ rnd' = rnd
  <2>1. rnd' = rnd
    BY DEF Recv, user
  <2>2. QED
    BY <1>1, <2>1, NotProgress, InsideIs
<1>3. PICK k, g, cb, rb, from, dst, n : /\ k = rnd[r] /\ g = group[r] /\ cb = commBuffers[r] /\ rb = recvBuffers[r]
                                        /\ from = Others(r) /\ dst = [s \in Peers(r) |-> RecvBlock(s, rnd[r])]
                                        /\ n = N - 1
  OBVIOUS
<1>4. n \in Nat /\ DOMAIN from = 1 .. n /\ \A i \in 1 .. n : from[i] = Nth(r, i) /\ Nth(r, i) \in Peers(r)
  BY <1>3, NAssumption, NthIs DEF Others
<1>5. InRound(r) /\ Queued(r) = n /\ Queued(r)' = n + n
  BY <1>2, <1>3 DEF InRound, Queued
<1>6. /\ IsSeq(g) /\ Len(g) = n /\ Len(cb) = n
      /\ \A i \in 1 .. n : i <= n => g[i] = SendEntry(r, i) /\ Read(r, CommBlock(i)) = Message(r, Nth(r, i), k)
      /\ IsSeq(rb) /\ Len(rb) = 0
  BY <1>2, <1>3, <1>5 DEF GroupInv
<1>7. NcclRecvs(r, from, dst, MsgSize)
  BY <1>3 DEF Recv
<1>8. PICK D, new, mb, mr, mg : /\ D = {CommBlock(n + i) : i \in 1 .. n}
                                /\ new = [c \in D |-> Block(Aligned(MsgSize), Garbage)]
                                /\ mb = [i \in 1 .. n |-> [blk |-> CommBlock(n + i), size |-> MsgSize]]
                                /\ mr = [i \in 1 .. n |-> [dst |-> dst[from[i]], idx |-> Idx(n, i)]]
                                /\ mg = [i \in 1 .. n |-> [call |-> "recv", peer |-> from[i], blk |-> CommBlock(n + i)]]
  OBVIOUS
<1>9. Allocate(r, new)
  BY <1>3, <1>4, <1>6, <1>7, <1>8 DEF NcclRecvs
<1>10. commBuffers' = [commBuffers EXCEPT ![r] = @ \o mb]
  BY <1>3, <1>4, <1>6, <1>7, <1>8 DEF NcclRecvs
<1>11. recvBuffers' = [recvBuffers EXCEPT ![r] = @ \o mr]
  BY <1>3, <1>4, <1>6, <1>7, <1>8 DEF NcclRecvs
<1>12. group' = [group EXCEPT ![r] = @ \o mg]
  BY <1>3, <1>4, <1>6, <1>7, <1>8 DEF NcclRecvs
<1>13. commBuffers'[r] = cb \o mb /\ recvBuffers'[r] = rb \o mr /\ group'[r] = g \o mg
  BY <1>1, <1>3, <1>10, <1>11, <1>12 DEF NcclShape
<1>14. ASSUME NEW f, f = [i \in 1 .. n |-> f[i]] PROVE IsSeq(f) /\ Len(f) = n
  <2>1. PICK T : T = {f[i] : i \in 1 .. n}
    OBVIOUS
  <2>2. f \in [1 .. n -> T]
    BY <1>14, <2>1
  <2>3. f \in Seq(T)
    BY <1>4, <2>2, SeqDef
  <2>4. IsSeq(f) /\ DOMAIN f = 1 .. Len(f) /\ Len(f) \in Nat
    BY <2>3, SeqIs
  <2>5. DOMAIN f = 1 .. n
    BY <1>14
  <2>6. PICK l : l = Len(f)
    OBVIOUS
  <2>7. l \in Nat /\ 1 .. l = 1 .. n
    BY <2>4, <2>5, <2>6
  <2>8. l = n
    BY <1>4, <2>7
  <2>9. QED
    BY <2>4, <2>6, <2>8
<1>15. IsSeq(mb) /\ Len(mb) = n /\ IsSeq(mr) /\ Len(mr) = n /\ IsSeq(mg) /\ Len(mg) = n
  <2>1. mb = [i \in 1 .. n |-> mb[i]] /\ mr = [i \in 1 .. n |-> mr[i]] /\ mg = [i \in 1 .. n |-> mg[i]]
    BY <1>8
  <2>2. QED
    BY <1>14, <2>1
<1>16. IsSeq(cb)
  BY <1>2, <1>3 DEF BuffersInv, Under
<1>17. IsSeq(cb \o mb) /\ IsJoined(cb \o mb, cb, mb)
  BY <1>15, <1>16, JoinIs
<1>18. IsSeq(rb \o mr) /\ IsJoined(rb \o mr, rb, mr)
  BY <1>6, <1>15, JoinIs
<1>19. IsSeq(g \o mg) /\ IsJoined(g \o mg, g, mg)
  BY <1>6, <1>15, JoinIs
<1>20. Len(commBuffers'[r]) = n + n /\ Len(group'[r]) = n + n /\ Len(recvBuffers'[r]) = n
       /\ IsSeq(group'[r]) /\ IsSeq(recvBuffers'[r])
  BY <1>4, <1>6, <1>13, <1>15, <1>17, <1>18, <1>19 DEF IsJoined
<1>21. ASSUME NEW i \in 1 .. n
       PROVE  /\ group'[r][i] = SendEntry(r, i) /\ Read(r, CommBlock(i))' = Message(r, Nth(r, i), k)
              /\ group'[r][n + i] = RecvEntry(r, i) /\ recvBuffers'[r][i] = Landing(r, i)
  <2>1. group'[r][i] = g[i] /\ group'[r][n + i] = mg[i]
    BY <1>6, <1>13, <1>15, <1>19 DEF IsJoined
  <2>2. recvBuffers'[r][i] = mr[i]
    <3>1. (rb \o mr)[0 + i] = mr[i]
      BY <1>6, <1>15, <1>18 DEF IsJoined
    <3>2. 0 + i = i
      BY <1>4
    <3>3. QED
      BY <1>13, <3>1, <3>2
  <2>3. mg[i] = RecvEntry(r, i)
    BY <1>3, <1>4, <1>8 DEF RecvEntry
  <2>4. mr[i] = Landing(r, i)
    <3>1. dst[from[i]] = RecvBlock(Nth(r, i), rnd[r])
      BY <1>3, <1>4
    <3>2. QED
      BY <1>3, <1>8, <3>1 DEF Landing, Idx
  <2>5. Read(r, CommBlock(i))' = Read(r, CommBlock(i))
    <3>1. PICK c : c = CommBlock(i)
      OBVIOUS
    <3>2. c \notin DOMAIN new
      <4>1. \A j \in 1 .. n : n + j # i
        BY <1>4
      <4>2. QED
        BY <1>8, <3>1, <4>1, CommBlockIs
    <3>3. Read(r, c)' = Read(r, c)
      BY <1>1, <1>9, <3>2, ReadAllocated
    <3>4. QED
      BY <3>1, <3>3
  <2>6. i <= n
    BY <1>4
  <2>7. QED
    BY <1>6, <2>1, <2>2, <2>3, <2>4, <2>5, <2>6
<1>22. ASSUME NEW i \in 1 .. N - 1
       PROVE  /\ group'[r][i] = SendEntry(r, i)' /\ Read(r, CommBlock(i))' = Message(r, Nth(r, i), rnd[r])'
              /\ group'[r][N - 1 + i] = RecvEntry(r, i)' /\ recvBuffers'[r][i] = Landing(r, i)'
  <2>1. rnd' = rnd
    BY <1>2
  <2>2. /\ group'[r][i] = SendEntry(r, i) /\ Read(r, CommBlock(i))' = Message(r, Nth(r, i), k)
        /\ group'[r][N - 1 + i] = RecvEntry(r, i) /\ recvBuffers'[r][i] = Landing(r, i)
    BY <1>3, <1>21
  <2>3. QED
    BY <1>3, <2>1, <2>2 DEF SendEntry, RecvEntry, Landing, Message, Nth, CommBlock, RecvBlock
<1>23. QED
  BY <1>2, <1>3, <1>5, <1>20, <1>22 DEF GroupInv

\* The queue and the buffers of an NCCL group hold what the exchange has come to.
LEMMA GroupStep ==
  ASSUME ControlInv, AllSent, SentVals, NcclVals, NEW r \in Ranks, RankStep(r), BuffersInv(r), NEW x \in Ranks
  PROVE  GroupInv(x)'
<1>1. NcclShape /\ GroupInv(x) /\ kind' = kind /\ TypeInv
  BY ControlStep DEF NcclVals, ControlInv
<1>2. CASE x # r
  <2>1. NextCall(x)' = NextCall(x) /\ rnd'[x] = rnd[x] /\ Sending(x)' = Sending(x)
    BY <1>2, ControlStep
  <2>2. blocks'[x] = blocks[x] /\ commBuffers'[x] = commBuffers[x]
    BY <1>2, MemoryMine
  <2>3. group'[x] = group[x] /\ recvBuffers'[x] = recvBuffers[x]
    BY <1>1, <1>2, GroupMine
  <2>4. Queued(x)' = Queued(x) /\ (InRound(x)' => InRound(x))
    BY <2>1 DEF Queued, InRound
  <2>5. QED
    BY <1>1, <2>1, <2>2, <2>3, <2>4, GroupKept
<1>3. CASE x = r /\ kind = "nccl" /\ Start(r) /\ NcclStart(r)
  BY <1>1, <1>3, GroupStart
<1>4. CASE x = r /\ kind = "nccl" /\ Send(r)
  BY <1>1, <1>4, GroupSend
<1>5. CASE x = r /\ kind = "nccl" /\ Recv(r)
  BY <1>1, <1>5, GroupRecv
<1>6. CASE x = r /\ kind = "nccl" /\ Launch(r) /\ NcclLaunch(r)
  <2>1. NextCall(r) = "launch" /\ NextCall(r)' = "stop"
    BY <1>1, <1>6, NotProgress, InsideIs
  <2>2. rnd' = rnd
    BY <1>6 DEF Launch, user
  <2>3. UNCHANGED <<memVars, commBuffers, recvBuffers, group>>
    BY <1>6 DEF NcclLaunch
  <2>4. Queued(r)' = Queued(r) /\ InRound(r)
    BY <2>1 DEF Queued, InRound
  <2>5. QED
    BY <1>1, <1>6, <2>1, <2>2, <2>3, <2>4, GroupKept DEF memVars
<1>7. CASE x = r /\ (kind # "nccl" \/ NextCall(r)' \notin {"send", "recv", "launch", "stop"})
  BY <1>1, <1>7 DEF GroupInv, InRound
<1>8. CASE x = r /\ Stop(r)
  <2>1. NextCall(r)' = "free"
    BY <1>1, <1>8, NotProgress, InsideIs
  <2>2. QED
    BY <1>7, <1>8, <2>1
<1>9. QED
  BY <1>2, <1>3, <1>4, <1>5, <1>6, <1>7, <1>8, NcclSteps

\* The rest of a sequence.
LEMMA RestIs ==
  ASSUME NEW q, IsSeq(q), q # <<>>
  PROVE  IsSeq(Tail(q)) /\ Len(Tail(q)) = Len(q) - 1 /\ \A j \in 1 .. Len(q) - 1 : Tail(q)[j] = q[j + 1]
<1>1. PICK T : q \in Seq(T)
  BY DEF IsSeq
<1>2. Tail(q) \in Seq(T) /\ Len(Tail(q)) = Len(q) - 1
  BY <1>1
<1>3. \A j \in 1 .. Len(q) - 1 : Tail(q)[j] = q[j + 1]
  BY <1>1
<1>4. IsSeq(Tail(q))
  BY <1>2, SeqIs
<1>5. QED
  BY <1>2, <1>3, <1>4

\* Messages that no step moves stay as WireInv has them.
LEMMA WireKept ==
  ASSUME kind' = kind, NEW s, NEW d, wire'[s][d] = wire[s][d], Launched(s)' = Launched(s), TakenBy(d)' = TakenBy(d),
         WireInv(s, d)
  PROVE  WireInv(s, d)'
BY DEF WireInv, Message

\* ncclGroupEnd sends everybody the message of the round.
LEMMA WireLaunch ==
  ASSUME ControlInv, NcclVals, NEW r \in Ranks, RankStep(r), kind = "nccl", Launch(r), NcclLaunch(r), NEW d \in Peers(r)
  PROVE  WireInv(r, d)'
<1>1. NcclShape /\ GroupInv(r) /\ WireInv(r, d) /\ kind' = kind /\ TypeInv /\ d \in Ranks /\ d # r
  BY ControlStep DEF NcclVals, ControlInv, Peers
<1>2. NextCall(r) = "launch" /\ InRound(r)
  BY <1>1, NotProgress, InsideIs DEF InRound
<1>3. PICK n, m, g, k, q : n = Index(r, d) /\ m = N - 1 /\ g = group[r] /\ k = rnd[r] /\ q = wire[r][d]
  OBVIOUS
<1>4. n \in 1 .. m /\ Nth(r, n) = d /\ m \in Nat /\ \A i \in 1 .. m : Nth(r, i) = d => i = n
  BY <1>3, NthIs, NAssumption
<1>5. /\ IsSeq(g) /\ Len(g) = m + m
      /\ \A i \in 1 .. m : i <= m + m => g[i] = SendEntry(r, i) /\ Read(r, CommBlock(i)) = Message(r, Nth(r, i), k)
      /\ \A i \in 1 .. m : g[m + i] = RecvEntry(r, i)
  BY <1>1, <1>2, <1>3 DEF GroupInv, Queued
<1>6. DOMAIN g = 1 .. m + m
  BY <1>5, IsSeqDomain
<1>7. \A i : SendEntry(r, i).call = "send" /\ SendEntry(r, i).peer = Nth(r, i) /\ SendEntry(r, i).blk = CommBlock(i)
  BY DEF SendEntry
<1>8. \A i : RecvEntry(r, i).call # "send"
  BY DEF RecvEntry
<1>9. PICK mine : mine = {i \in Calls(r, "send") : g[i].peer = d}
  OBVIOUS
<1>10. mine = {n}
  <2>1. n \in mine
    <3>1. n <= m + m /\ n \in 1 .. m + m
      BY <1>4
    <3>2. g[n] = SendEntry(r, n)
      BY <1>4, <1>5, <3>1
    <3>3. QED
      BY <1>3, <1>4, <1>6, <1>7, <1>9, <3>1, <3>2 DEF Calls
  <2>2. ASSUME NEW i \in mine PROVE i = n
    <3>1. i \in 1 .. m + m /\ g[i].call = "send" /\ g[i].peer = d
      BY <1>3, <1>6, <1>9 DEF Calls
    <3>2. CASE i \in 1 .. m
      <4>1. i <= m + m
        BY <1>4, <3>2
      <4>2. g[i] = SendEntry(r, i)
        BY <1>5, <3>2, <4>1
      <4>3. QED
        BY <1>4, <1>7, <3>1, <3>2, <4>2
    <3>3. CASE i \notin 1 .. m
      <4>1. i - m \in 1 .. m /\ m + (i - m) = i
        BY <1>4, <3>1, <3>3
      <4>2. g[m + (i - m)] = RecvEntry(r, i - m)
        BY <1>5, <4>1
      <4>3. QED
        BY <1>8, <3>1, <4>1, <4>2
    <3>4. QED
      BY <3>2, <3>3
  <2>3. QED
    BY <2>1, <2>2
<1>11. (CHOOSE i \in mine : TRUE) = n /\ mine # {}
  BY <1>10
<1>12. wire'[r][d] = Append(q, Read(r, g[n].blk))
  <2>1. wire'[r] = [e \in Ranks |->
                   LET M == {i \in Calls(r, "send") : g[i].peer = e} IN
                   IF M = {} THEN wire[r][e]
                   ELSE Append(wire[r][e], Read(r, g[CHOOSE i \in M : TRUE].blk))]
    BY <1>1, <1>3 DEF NcclLaunch, NcclShape
  <2>2. wire'[r][d] = IF mine = {} THEN wire[r][d]
                      ELSE Append(wire[r][d], Read(r, g[CHOOSE i \in mine : TRUE].blk))
    BY <1>1, <1>9, <2>1
  <2>3. QED
    BY <1>3, <1>11, <2>2
<1>13. Read(r, g[n].blk) = Message(r, d, k)
  <2>1. n <= m + m
    BY <1>4
  <2>2. g[n] = SendEntry(r, n) /\ Read(r, CommBlock(n)) = Message(r, Nth(r, n), k)
    BY <1>4, <1>5, <2>1
  <2>3. QED
    BY <1>4, <1>7, <2>2
<1>14. PICK a, t, e : a = Launched(r) /\ t = TakenBy(d) /\ e = Append(q, Message(r, d, k))
  OBVIOUS
<1>15. a \in Int /\ t \in Int /\ k \in Nat /\ a = k - 1 /\ Launched(r)' = a + 1 /\ TakenBy(d)' = t
  <2>1. Launched(r)' = a + 1 /\ a \in Int
    BY <1>14, CountersStep
  <2>2. TakenBy(d)' = t
    BY <1>1, <1>14, CountersStep
  <2>3. a = k - 1
    BY <1>2, <1>3, <1>14 DEF Launched
  <2>4. k \in Nat /\ rnd[d] \in Nat
    BY <1>1, <1>3 DEF TypeInv
  <2>5. t \in Int
    BY <1>14, <2>4 DEF TakenBy
  <2>6. QED
    BY <2>1, <2>2, <2>3, <2>4, <2>5
<1>16. IsSeq(q) /\ Len(q) = a - t /\ \A j \in DOMAIN q : q[j] = Message(r, d, t + j)
  BY <1>1, <1>3, <1>14 DEF WireInv
<1>17. Appended(e, q, Message(r, d, k))
  BY <1>14, <1>16, AppendIs
<1>18. DOMAIN q = 1 .. Len(q) /\ Len(q) \in Nat
  BY <1>16, IsSeqDomain
<1>19. IsSeq(e) /\ Len(e) = (a + 1) - t /\ DOMAIN e = 1 .. Len(q) + 1
  <2>1. IsSeq(e) /\ Len(e) = Len(q) + 1
    BY <1>17 DEF Appended
  <2>2. DOMAIN e = 1 .. Len(e)
    BY <2>1, IsSeqDomain
  <2>3. QED
    BY <1>15, <1>16, <2>1, <2>2
<1>20. ASSUME NEW j \in DOMAIN e PROVE e[j] = Message(r, d, t + j)
  <2>1. j \in 1 .. Len(q) \/ j = Len(q) + 1
    BY <1>18, <1>19
  <2>2. CASE j \in 1 .. Len(q)
    BY <1>16, <1>17, <1>18, <2>2 DEF Appended
  <2>3. CASE j = Len(q) + 1
    <3>1. t + j = k
      BY <1>15, <1>16, <2>3
    <3>2. QED
      BY <1>17, <2>3, <3>1 DEF Appended
  <2>4. QED
    BY <2>1, <2>2, <2>3
<1>21. wire'[r][d] = e
  BY <1>12, <1>13, <1>14
<1>22. QED
  BY <1>15, <1>19, <1>20, <1>21 DEF WireInv, Message

\* The group of an NCCL exchange receives from every other rank, once.
LEMMA RecvCalls ==
  ASSUME NEW r \in Ranks, kind = "nccl", NextCall(r) = "stop", GroupInv(r)
  PROVE  /\ Calls(r, "recv") = {N - 1 + i : i \in 1 .. N - 1}
         /\ \A i \in 1 .. N - 1 : group[r][N - 1 + i] = RecvEntry(r, i)
         /\ {group[r][i].peer : i \in Calls(r, "recv")} = Peers(r)
<1>1. PICK m, g : m = N - 1 /\ g = group[r]
  OBVIOUS
<1>2. /\ IsSeq(g) /\ Len(g) = m + m
      /\ \A i \in 1 .. m : i <= m + m => g[i] = SendEntry(r, i)
      /\ \A i \in 1 .. m : g[m + i] = RecvEntry(r, i)
  BY <1>1 DEF GroupInv, InRound, Queued
<1>3. DOMAIN g = 1 .. m + m /\ m \in Nat
  BY <1>1, <1>2, IsSeqDomain, NAssumption
<1>4. \A i : SendEntry(r, i).call # "recv"
  BY DEF SendEntry
<1>5. \A i : RecvEntry(r, i).call = "recv" /\ RecvEntry(r, i).peer = Nth(r, i)
  BY DEF RecvEntry
<1>6. Calls(r, "recv") = {m + i : i \in 1 .. m}
  <2>1. ASSUME NEW i \in 1 .. m PROVE m + i \in Calls(r, "recv")
    <3>1. m + i \in 1 .. m + m
      BY <1>3
    <3>2. g[m + i].call = "recv"
      BY <1>2, <1>5
    <3>3. QED
      BY <1>1, <1>3, <3>1, <3>2 DEF Calls
  <2>2. ASSUME NEW i \in Calls(r, "recv") PROVE \E j \in 1 .. m : i = m + j
    <3>1. i \in 1 .. m + m /\ g[i].call = "recv"
      BY <1>1, <1>3 DEF Calls
    <3>2. i \notin 1 .. m
      <4>1. ASSUME i \in 1 .. m PROVE FALSE
        <5>1. i <= m + m
          BY <1>3, <4>1
        <5>2. g[i] = SendEntry(r, i)
          BY <1>2, <4>1, <5>1
        <5>3. QED
          BY <1>4, <3>1, <5>2
      <4>2. QED
        BY <4>1
    <3>3. i - m \in 1 .. m /\ i = m + (i - m)
      BY <1>3, <3>1, <3>2
    <3>4. QED
      BY <3>3
  <2>3. QED
    BY <2>1, <2>2
<1>7. {g[i].peer : i \in Calls(r, "recv")} = Peers(r)
  <2>1. \A i \in 1 .. m : g[m + i].peer = Nth(r, i)
    BY <1>2, <1>5
  <2>2. {g[i].peer : i \in Calls(r, "recv")} = {Nth(r, i) : i \in 1 .. m}
    BY <1>6, <2>1
  <2>3. {Nth(r, i) : i \in 1 .. m} = Peers(r)
    BY <1>1, NthIs
  <2>4. QED
    BY <2>2, <2>3
<1>8. QED
  BY <1>1, <1>2, <1>6, <1>7

\* stop() takes one message of every peer.
LEMMA WireStop ==
  ASSUME ControlInv, NcclVals, NEW r \in Ranks, RankStep(r), kind = "nccl", Stop(r), NcclStop(r),
         NEW s \in Ranks, NEW d \in Ranks, s # d
  PROVE  WireInv(s, d)'
<1>1. NcclShape /\ GroupInv(r) /\ WireInv(s, d) /\ kind' = kind /\ TypeInv
  BY ControlStep DEF NcclVals, ControlInv
<1>2. NextCall(r) = "stop" /\ ~Launch(r)
  <2>1. NextCall(r) = "stop"
    BY DEF Stop, Do
  <2>2. QED
    BY <2>1 DEF Launch, Do
<1>3. PICK P : P = {group[r][i].peer : i \in Calls(r, "recv")}
  OBVIOUS
<1>4. P = Peers(r)
  BY <1>1, <1>2, <1>3, RecvCalls
<1>5. /\ \A x \in P : wire[x][r] # <<>>
      /\ wire' = [x \in Ranks |-> [wire[x] EXCEPT ![r] = IF x \in P THEN Tail(@) ELSE @]]
  BY <1>3 DEF NcclStop
<1>6. Launched(s)' = Launched(s) /\ Launched(s) \in Int /\ TakenBy(d) \in Int
  <2>1. Launched(s)' = Launched(s)
    BY <1>2, CountersStep
  <2>2. rnd[s] \in Nat /\ rnd[d] \in Nat
    BY <1>1 DEF TypeInv
  <2>3. QED
    BY <2>1, <2>2 DEF Launched, TakenBy
<1>7. CASE d # r
  <2>1. wire'[s][d] = wire[s][d]
    BY <1>1, <1>5, <1>7 DEF NcclShape
  <2>2. TakenBy(d)' = TakenBy(d)
    BY <1>7, CountersStep
  <2>3. QED
    BY <1>1, <1>6, <2>1, <2>2, WireKept
<1>8. CASE d = r
  <2>1. s \in P
    BY <1>4, <1>8 DEF Peers
  <2>2. PICK q, e, a, t : q = wire[s][r] /\ e = Tail(q) /\ a = Launched(s) /\ t = TakenBy(d)
    OBVIOUS
  <2>3. q # <<>> /\ wire'[s][d] = e
    BY <1>1, <1>5, <1>8, <2>1, <2>2 DEF NcclShape
  <2>4. IsSeq(q) /\ Len(q) = a - t /\ \A j \in DOMAIN q : q[j] = Message(s, d, t + j)
    BY <1>1, <1>8, <2>2 DEF WireInv
  <2>5. IsSeq(e) /\ Len(e) = Len(q) - 1 /\ \A j \in 1 .. Len(q) - 1 : e[j] = q[j + 1]
    BY <2>2, <2>3, <2>4, RestIs
  <2>6. DOMAIN q = 1 .. Len(q) /\ DOMAIN e = 1 .. Len(e) /\ Len(q) \in Nat
    BY <2>4, <2>5, IsSeqDomain
  <2>7. TakenBy(d)' = t + 1
    BY <1>8, <2>2, CountersStep
  <2>8. a \in Int /\ t \in Int
    BY <1>6, <2>2
  <2>9. Len(e) = a - (t + 1)
    BY <2>4, <2>5, <2>6, <2>8
  <2>10. ASSUME NEW j \in DOMAIN e PROVE e[j] = Message(s, d, (t + 1) + j)
    <3>1. j \in 1 .. Len(q) - 1 /\ j + 1 \in 1 .. Len(q) /\ t + (j + 1) = (t + 1) + j
      BY <2>5, <2>6, <2>8
    <3>2. e[j] = q[j + 1] /\ q[j + 1] = Message(s, d, t + (j + 1))
      BY <2>4, <2>5, <2>6, <3>1
    <3>3. QED
      BY <3>1, <3>2
  <2>11. QED
    BY <1>6, <2>2, <2>3, <2>5, <2>7, <2>9, <2>10 DEF WireInv, Message
<1>9. QED
  BY <1>7, <1>8

\* What is between two ranks is what the one has launched and the other not received.
LEMMA WireStep ==
  ASSUME ControlInv, NcclVals, NEW r \in Ranks, RankStep(r), NEW s \in Ranks, NEW d \in Ranks
  PROVE  WireInv(s, d)'
<1>1. NcclShape /\ WireInv(s, d) /\ kind' = kind /\ TypeInv
  BY ControlStep DEF NcclVals, ControlInv
<1>2. CASE kind # "nccl" \/ s = d
  BY <1>1, <1>2 DEF WireInv
<1>3. CASE kind = "nccl" /\ s # d
  <2>1. CASE Launch(r) /\ NcclLaunch(r)
    <3>1. ~Stop(r)
      BY <2>1 DEF Launch, Stop, Do
    <3>2. TakenBy(d)' = TakenBy(d)
      BY <1>3, <3>1, CountersStep
    <3>3. CASE s = r
      <4>1. d \in Peers(r)
        BY <1>3, <3>3 DEF Peers
      <4>2. QED
        BY <1>3, <2>1, <3>3, <4>1, WireLaunch
    <3>4. CASE s # r
      <4>1. Launched(s)' = Launched(s)
        BY <1>3, <3>4, CountersStep
      <4>2. wire'[s][d] = wire[s][d]
        BY <1>1, <2>1, <3>4 DEF NcclLaunch, NcclShape
      <4>3. QED
        BY <1>1, <3>2, <4>1, <4>2, WireKept
    <3>5. QED
      BY <3>3, <3>4
  <2>2. CASE Stop(r) /\ NcclStop(r)
    BY <1>3, <2>2, WireStop
  <2>3. CASE wire' = wire /\ ~Launch(r) /\ ~Stop(r)
    <3>1. Launched(s)' = Launched(s)
      BY <1>3, <2>3, CountersStep
    <3>2. TakenBy(d)' = TakenBy(d)
      BY <1>3, <2>3, CountersStep
    <3>3. QED
      BY <1>1, <2>3, <3>1, <3>2, WireKept
  <2>4. CASE (Start(r) \/ Send(r) \/ Recv(r)) /\ wire' = wire
    <3>1. ~Launch(r) /\ ~Stop(r)
      BY <2>4 DEF Start, Send, Recv, Launch, Stop, Do
    <3>2. QED
      BY <2>3, <2>4, <3>1
  <2>5. QED
    BY <1>3, <2>1, <2>2, <2>3, <2>4, NcclSteps DEF NcclStart
<1>4. QED
  BY <1>2, <1>3

\* What the messages say: this and IInv are inductive together.
ValInv == SentVals /\ UcxVals /\ NcclVals /\ \A r \in Ranks : Recorded(r)

\* Every step of a rank keeps what the messages say,
LEMMA ValStep ==
  ASSUME IInv, ValInv, NEW r \in Ranks, RankStep(r)
  PROVE  ValInv'
<1>1. ControlInv /\ AllSent /\ UcxInv /\ BlocksInv(r) /\ BuffersInv(r)
  BY DEF IInv
<1>2. SentVals /\ UcxVals /\ NcclVals /\ Recorded(r)
  BY DEF ValInv
<1>3. SentVals'
  BY <1>1, <1>2, SentValsStep
<1>4. UcxVals'
  BY <1>1, <1>2, UcxValsStep
<1>5. NcclVals'
  <2>1. NcclShape'
    BY <1>1, <1>2, GroupMine DEF NcclVals
  <2>2. \A x \in Ranks : GroupInv(x)'
    BY <1>1, <1>2, GroupStep
  <2>3. \A s, d \in Ranks : WireInv(s, d)'
    BY <1>1, <1>2, WireStep
  <2>4. QED
    BY <2>1, <2>2, <2>3 DEF NcclVals, Ranks
<1>6. ASSUME NEW x \in Ranks PROVE Recorded(x)'
  <2>1. CASE x = r
    BY <1>1, <1>2, <2>1, RecordedStep
  <2>2. CASE x # r
    <3>1. blocks'[x] = blocks[x]
      BY <1>1, <2>2, MemoryMine
    <3>2. Recorded(x)
      BY DEF ValInv
    <3>3. QED
      BY <3>1, <3>2 DEF Recorded
  <2>3. QED
    BY <2>1, <2>2
<1>7. QED
  BY <1>3, <1>4, <1>5, <1>6 DEF ValInv, Ranks

\* Nothing has been sent when the processes start,
LEMMA ValInit ==
  ASSUME Init
  PROVE  ValInv
<1>1. IInv
  BY IInvInit
<1>2. TypeInv /\ \A r \in Ranks : WhereInv(r)
  BY <1>1 DEF IInv, ControlInv
<1>3. ASSUME NEW r \in Ranks PROVE NextCall(r) \notin UnderSet /\ rnd[r] = 0
  <2>1. rnd[r] = 0
    BY DEF Init
  <2>2. NextCall(r) \in UnderSet => rnd[r] >= 1
    BY <1>2, RoundIs
  <2>3. QED
    BY <2>1, <2>2
<1>4. ASSUME NEW r \in Ranks
      PROVE  ~InRound(r) /\ NextCall(r) # "stop" /\ Launched(r) = 0 /\ TakenBy(r) = 0
  BY <1>3 DEF InRound, Launched, TakenBy, UnderSet
<1>5. DOMAIN <<>> = {}
  OBVIOUS
<1>6. SentVals
  <2>1. \A s, d \in Ranks : sent[s][d] = <<>>
    BY DEF Init
  <2>2. \A s, d \in Ranks : Told(s, d)
    BY <1>5, <2>1 DEF Told
  <2>3. \A r \in Ranks : Loaded(r)
    BY <1>4 DEF Loaded
  <2>4. QED
    BY <2>2, <2>3 DEF SentVals
<1>7. UcxVals
  <2>1. \A s, d \in Ranks : net[s][d] = <<>>
    BY DEF Init, UcxInit
  <2>2. \A s, d \in Ranks : Carried(s, d)
    BY <1>5, <2>1 DEF Carried
  <2>3. \A r \in Ranks : Filled(r)
    BY <1>4 DEF Filled
  <2>4. QED
    BY <2>2, <2>3 DEF UcxVals
<1>8. NcclVals
  <2>1. NcclShape
    BY DEF Init, NcclInit, NcclShape
  <2>2. \A r \in Ranks : GroupInv(r)
    BY <1>4 DEF GroupInv
  <2>3. \A s, d \in Ranks : wire[s][d] = <<>>
    BY DEF Init, NcclInit
  <2>4. ASSUME NEW s \in Ranks, NEW d \in Ranks PROVE WireInv(s, d)
    <3>1. IsSeq(<<>>) /\ Len(<<>>) = 0
      BY EmptyIs
    <3>2. Launched(s) - TakenBy(d) = 0
      BY <1>4
    <3>3. QED
      BY <1>5, <2>3, <3>1, <3>2 DEF WireInv
  <2>5. QED
    BY <2>1, <2>2, <2>4 DEF NcclVals
<1>9. \A r \in Ranks : Recorded(r)
  <2>1. \A r \in Ranks : blocks[r] = <<>>
    BY DEF Init, MemInit
  <2>2. QED
    BY <1>5, <2>1 DEF Recorded
<1>10. QED
  BY <1>6, <1>7, <1>8, <1>9 DEF ValInv

\* a stuttering step keeps it,
LEMMA ValStutter ==
  ASSUME IInv, ValInv, UNCHANGED vars
  PROVE  ValInv'
<1>1. ControlInv /\ TypeInv /\ SentVals /\ UcxVals /\ NcclVals
  BY DEF IInv, ControlInv, ValInv
<1>2. /\ UNCHANGED <<blocks, net, posted, commBuffers, recvBuffers, group, wire>>
      /\ UNCHANGED <<session, ip, rnd, sent>>
  BY DEF vars, memVars, ucxVars, ncclVars, hist
<1>3. kind' = kind
  BY <1>2 DEF kind
<1>4. ASSUME NEW r \in Ranks PROVE NextCall(r)' = NextCall(r) /\ Sending(r)' = Sending(r) /\ rnd'[r] = rnd[r]
  <2>1. WhereInv(r) /\ session' = session /\ ip'[r] = ip[r] /\ rnd'[r] = rnd[r]
    BY <1>1, <1>2 DEF ControlInv
  <2>2. QED
    BY <1>1, <2>1, Waits
<1>5. \A r, b : Read(r, b)' = Read(r, b)
  BY <1>2 DEF Read
<1>6. SentVals'
  <2>1. ASSUME NEW r \in Ranks PROVE Loaded(r)'
    <3>1. Loaded(r) /\ (InRound(r)' <=> InRound(r))
      BY <1>1, <1>4 DEF SentVals, InRound
    <3>2. \A d : Read(r, SendBlock(d, rnd[r]))' = Read(r, SendBlock(d, rnd[r]))
      BY <1>2 DEF Read, SendBlock
    <3>3. QED
      BY <1>2, <3>1, <3>2 DEF Loaded, Message, Peers, Ranks
  <2>2. \A s, d \in Ranks : Told(s, d)'
    BY <1>1, <1>2 DEF SentVals, Told, Message
  <2>3. QED
    BY <2>1, <2>2 DEF SentVals, Ranks
<1>7. UcxVals'
  <2>1. ASSUME NEW r \in Ranks PROVE Filled(r)'
    <3>1. Filled(r) /\ (Unbuffered' <=> Unbuffered)
      BY <1>1, <1>3 DEF UcxVals, Unbuffered
    <3>2. \A s : Read(r, RecvBlock(s, rnd[r]))' = Read(r, RecvBlock(s, rnd[r]))
      BY <1>2 DEF Read, RecvBlock
    <3>3. \A s : Awaited(r, s)' <=> Awaited(r, s)
      BY <1>2 DEF Awaited, Tag, ReservedTag
    <3>4. QED
      BY <1>2, <1>4, <3>1, <3>2, <3>3 DEF Filled, Message, Peers, Ranks
  <2>2. \A s, d \in Ranks : Carried(s, d)'
    BY <1>1, <1>2 DEF UcxVals, Carried, Meant, Message, SendBlock
  <2>3. QED
    BY <2>1, <2>2 DEF UcxVals, Ranks
<1>8. NcclVals'
  <2>1. NcclShape'
    BY <1>1, <1>2 DEF NcclVals, NcclShape, Ranks
  <2>2. ASSUME NEW r \in Ranks PROVE GroupInv(r)'
    <3>1. GroupInv(r)
      BY <1>1 DEF NcclVals
    <3>2. Queued(r)' = Queued(r) /\ (InRound(r)' => InRound(r))
      BY <1>4 DEF Queued, InRound
    <3>3. QED
      BY <1>2, <1>3, <1>4, <3>1, <3>2, GroupKept
  <2>3. ASSUME NEW s \in Ranks, NEW d \in Ranks PROVE WireInv(s, d)'
    <3>1. WireInv(s, d)
      BY <1>1 DEF NcclVals
    <3>2. Launched(s)' = Launched(s) /\ TakenBy(d)' = TakenBy(d)
      BY <1>4 DEF Launched, TakenBy, InRound
    <3>3. QED
      BY <1>2, <1>3, <3>1, <3>2, WireKept
  <2>4. QED
    BY <2>1, <2>2, <2>3 DEF NcclVals, Ranks
<1>9. \A r \in Ranks : Recorded(r)'
  BY <1>2 DEF ValInv, Recorded
<1>10. QED
  BY <1>6, <1>7, <1>8, <1>9 DEF ValInv, Ranks

\* so it holds in every state of every behaviour.
LEMMA Values ==
  Spec => [](IInv /\ ValInv)
<1>1. Init => IInv /\ ValInv
  BY IInvInit, ValInit
<1>2. IInv /\ ValInv /\ [Next]_vars => IInv' /\ ValInv'
  <2> SUFFICES ASSUME IInv, ValInv, [Next]_vars PROVE IInv' /\ ValInv'
    OBVIOUS
  <2>1. IInv'
    BY IInvStep
  <2>2. CASE UNCHANGED vars
    BY <2>1, <2>2, ValStutter
  <2>3. CASE \E r \in Ranks : RankStep(r)
    BY <2>1, <2>3, ValStep
  <2>4. QED
    BY <2>2, <2>3 DEF Next, Ended
<1>3. QED
  BY <1>1, <1>2, PTL DEF Spec

-----------------------------------------------------------------------------
(***************************************************************************)
(* The exchanges are rounds of the Communicator interface.                 *)
(***************************************************************************)
\* What stop() finds from a peer: the peer has sent it, and the block holds it.
Brought(r, s) ==
  /\ Len(sent[s][r]) >= rnd[r]
  /\ blocks'[r][RecvBlock(s, rnd[r])].val = Message(s, r, rnd[r])

\* The block of a receive is still there in stop().
LEMMA RecvBlockThere ==
  ASSUME NEW r \in Ranks, NextCall(r) = "stop", BlocksInv(r), NEW s \in Peers(r)
  PROVE  RecvBlock(s, rnd[r]) \in DOMAIN blocks[r]
<1>1. RecvBlock(s, rnd[r]) \in Own(r)
  BY DEF Own, Under, Finishing
<1>2. QED
  BY <1>1 DEF BlocksInv

\* What a rank has sent is counted.
LEMMA SentLong ==
  ASSUME AllSent, NEW s \in Ranks, NEW r \in Ranks, NEW k \in 1 .. Len(sent[s][r]), SentVals
  PROVE  sent[s][r][k] = Message(s, r, k)
<1>1. IsSeq(sent[s][r])
  BY DEF AllSent, SentInv
<1>2. k \in DOMAIN sent[s][r]
  BY <1>1, IsSeqDomain
<1>3. Told(s, r)
  BY DEF SentVals
<1>4. QED
  BY <1>2, <1>3 DEF Told

\* UCX: every posted receive is complete.
LEMMA UcxBrings ==
  ASSUME IInv, ValInv, NEW r \in Ranks, RankStep(r), Stop(r), Unbuffered, NEW s \in Peers(r)
  PROVE  Brought(r, s)
<1>1. ControlInv /\ AllSent /\ UcxInv /\ BlocksInv(r) /\ TypeInv /\ s \in Ranks /\ s # r
  BY DEF IInv, ControlInv, Peers
<1>2. NextCall(r) = "stop" /\ NextCall(r)' = "free"
  BY <1>1, NotProgress, InsideIs
<1>3. Stops(r)
  <2>1. ~Progress(r)
    BY <1>1, <1>2, ProgressIs
  <2>2. ~Quiet(r) /\ ~Starts(r) /\ (\A d \in Peers(r) : ~Sends(r, d)) /\ ~Receives(r)
    BY <1>2 DEF Quiet, Starts, Sends, Receives
  <2>3. QED
    BY <1>1, <2>1, <2>2, UcxSteps
<1>4. posted[r] = <<>>
  BY <1>1, <1>3, StopsKept
<1>5. ~Awaited(r, s)
  BY <1>4 DEF Awaited
<1>6. Read(r, RecvBlock(s, rnd[r])) = Message(s, r, rnd[r])
  <2>1. Filled(r)
    BY DEF ValInv, UcxVals
  <2>2. QED
    BY <1>2, <1>5, <2>1 DEF Filled
<1>7. RecvBlock(s, rnd[r]) \in DOMAIN blocks[r]
  BY <1>1, <1>2, RecvBlockThere
<1>8. blocks' = blocks
  <2>1. kind # "nccl" /\ kind # "buffer"
    BY DEF Unbuffered
  <2>2. QED
    BY <2>1 DEF Stop, memVars
<1>9. Len(sent[s][r]) >= rnd[r]
  <2>1. NetInv(s, r)
    BY <1>1 DEF UcxInv
  <2>2. Received(r, s) = rnd[r]
    BY <1>2, <1>5 DEF Received
  <2>3. IsSeq(net[s][r]) /\ Len(net[s][r]) = Len(sent[s][r]) - rnd[r]
    BY <1>1, <2>1, <2>2 DEF NetInv
  <2>4. Len(net[s][r]) \in Nat
    BY <2>3, IsSeqDomain
  <2>5. Len(sent[s][r]) \in Nat
    BY <1>1, IsSeqDomain DEF AllSent, SentInv
  <2>6. rnd[r] \in Nat
    BY <1>1 DEF TypeInv
  <2>7. QED
    BY <2>3, <2>4, <2>5, <2>6
<1>10. QED
  BY <1>6, <1>7, <1>8, <1>9 DEF Brought, Read

\* The buffered communicator does what the interface says.
LEMMA BufferBrings ==
  ASSUME IInv, ValInv, NEW r \in Ranks, Stop(r), kind = "buffer", NEW s \in Peers(r)
  PROVE  Brought(r, s)
<1>1. ControlInv /\ AllSent /\ BlocksInv(r) /\ TypeInv /\ WhereInv(r) /\ s \in Ranks /\ s # r /\ DOMAIN blocks = Ranks
  BY DEF IInv, ControlInv, Peers, TypeInv
<1>2. NextCall(r) = "stop"
  BY DEF Stop, Do
<1>3. PICK k, f, b, new : /\ k = rnd[r] /\ f = blocks[r] /\ b = RecvBlock(s, rnd[r])
                          /\ new = [c \in {RecvBlock(x, rnd[r]) : x \in Peers(r)} |-> sent[c[2]][r][rnd[r]]]
  OBVIOUS
<1>4. BufferStop(r)
  BY DEF Stop
<1>5. Len(sent[s][r]) >= k /\ blocks'[r] = Write(f, new)
  BY <1>1, <1>3, <1>4 DEF BufferStop
<1>6. b \in DOMAIN f
  BY <1>1, <1>2, <1>3, RecvBlockThere
<1>7. b \in DOMAIN new /\ new[b] = sent[s][r][k]
  BY <1>3 DEF RecvBlock
<1>8. \A c \in DOMAIN f : IsBlock(f[c])
  BY <1>3 DEF ValInv, Recorded
<1>9. Write(f, new)[b].val = new[b]
  BY <1>6, <1>7, <1>8, WriteIs
<1>10. sent[s][r][k] = Message(s, r, k)
  <2>1. k \in Nat /\ k >= 1
    BY <1>1, <1>2, <1>3, RoundIs DEF TypeInv, UnderSet
  <2>2. IsSeq(sent[s][r])
    BY <1>1 DEF AllSent, SentInv
  <2>3. Len(sent[s][r]) \in Nat
    BY <2>2, IsSeqDomain
  <2>4. k \in 1 .. Len(sent[s][r])
    BY <1>5, <2>1, <2>3
  <2>5. QED
    BY <1>1, <2>4, SentLong DEF ValInv
<1>11. QED
  BY <1>3, <1>5, <1>7, <1>9, <1>10 DEF Brought

\* What an NCCL group leaves in a communication buffer.
LEMMA LandedIs ==
  ASSUME NEW r \in Ranks, NEW j \in DOMAIN commBuffers[r]
  PROVE  Landed(r)[j] =
           IF {i \in Calls(r, "recv") : group[r][i].blk = commBuffers[r][j].blk} = {} THEN Read(r, commBuffers[r][j].blk)
           ELSE Head(wire[group[r][CHOOSE i \in {i \in Calls(r, "recv") : group[r][i].blk = commBuffers[r][j].blk} : TRUE].peer][r])
BY Zenon DEF Landed

\* NCCL: the k-th send launched met the k-th receive, in the buffer that is copied.
LEMMA NcclBrings ==
  ASSUME IInv, ValInv, NEW r \in Ranks, Stop(r), kind = "nccl", NEW s \in Peers(r)
  PROVE  Brought(r, s)
<1>1. /\ ControlInv /\ AllSent /\ BlocksInv(r) /\ BuffersInv(r) /\ TypeInv /\ s \in Ranks /\ s # r /\ DOMAIN blocks = Ranks
      /\ GroupInv(r) /\ WireInv(s, r)
  BY DEF IInv, ControlInv, Peers, TypeInv, ValInv, NcclVals
<1>2. NextCall(r) = "stop" /\ InRound(r) /\ Under(r)
  BY DEF Stop, Do, InRound, Under
<1>3. PICK k, f, b, n, m, g, cb, rb, q, landed, copied, old :
        /\ k = rnd[r] /\ f = blocks[r] /\ b = RecvBlock(s, rnd[r]) /\ n = Index(r, s) /\ m = N - 1
        /\ g = group[r] /\ cb = commBuffers[r] /\ rb = recvBuffers[r] /\ q = wire[s][r] /\ landed = Landed(r)
        /\ copied = [c \in {rb[i].dst : i \in DOMAIN rb} |-> landed[rb[CHOOSE i \in DOMAIN rb : rb[i].dst = c].idx]]
        /\ old = GiveBack(r)
  OBVIOUS
<1>4. n \in 1 .. m /\ m \in Nat /\ Nth(r, n) = s /\ \A i \in 1 .. m : Nth(r, i) = s => i = n
  BY <1>3, NthIs, NAssumption
<1>5. k \in Nat /\ rnd[s] \in Nat
  BY <1>1, <1>3 DEF TypeInv
<1>6. NcclStop(r)
  BY DEF Stop
<1>7. (\A x \in {g[i].peer : i \in Calls(r, "recv")} : wire[x][r] # <<>>)
      /\ blocks' = [blocks EXCEPT ![r] = Write(Without(@, DOMAIN old), copied)]
  BY <1>3, <1>6 DEF NcclStop
<1>8. /\ Calls(r, "recv") = {m + i : i \in 1 .. m}
      /\ \A i \in 1 .. m : g[m + i] = RecvEntry(r, i)
      /\ {g[i].peer : i \in Calls(r, "recv")} = Peers(r)
  BY <1>1, <1>2, <1>3, RecvCalls
<1>9. q # <<>>
  BY <1>3, <1>7, <1>8
<1>10. IsSeq(q) /\ Len(q) = Launched(s) - TakenBy(r) /\ \A j \in DOMAIN q : q[j] = Message(s, r, TakenBy(r) + j)
  BY <1>1, <1>3 DEF WireInv
<1>11. Len(q) \in Nat /\ Len(q) >= 1 /\ 1 \in DOMAIN q
  <2>1. Len(q) \in Nat /\ DOMAIN q = 1 .. Len(q)
    BY <1>10, IsSeqDomain
  <2>2. Len(q) # 0
    BY <1>9, <1>10, EmptyIs
  <2>3. QED
    BY <2>1, <2>2
<1>12. TakenBy(r) = k - 1
  BY <1>2, <1>3 DEF TakenBy
<1>13. Head(q) = Message(s, r, k)
  <2>1. Head(q) = q[1]
    OBVIOUS
  <2>2. q[1] = Message(s, r, (k - 1) + 1)
    BY <1>10, <1>11, <1>12
  <2>3. (k - 1) + 1 = k
    BY <1>5
  <2>4. QED
    BY <2>1, <2>2, <2>3
<1>14. Len(sent[s][r]) >= k
  <2>1. PICK a, l : a = Launched(s) /\ l = Len(sent[s][r])
    OBVIOUS
  <2>2. a \in {rnd[s] - 1, rnd[s]} /\ (Unsent(s, r) => a = rnd[s] - 1)
    BY <2>1 DEF Launched, Unsent
  <2>3. l = IF Unsent(s, r) THEN rnd[s] - 1 ELSE rnd[s]
    BY <1>1, <2>1 DEF AllSent, SentInv
  <2>4. a - (k - 1) >= 1
    BY <1>10, <1>11, <1>12, <2>1
  <2>5. a <= l
    BY <1>5, <2>2, <2>3
  <2>6. a \in Int /\ l \in Int
    BY <1>5, <2>2, <2>3
  <2>7. l >= k
    BY <1>5, <2>4, <2>5, <2>6
  <2>8. QED
    BY <2>1, <2>7
<1>15. IsSeq(cb) /\ Len(cb) = m + m /\ \A j \in DOMAIN cb : cb[j].blk = CommBlock(j)
  <2>1. IsSeq(cb) /\ \A j \in DOMAIN cb : cb[j] = [blk |-> CommBlock(j), size |-> MsgSize]
    BY <1>2, <1>3, <1>1 DEF BuffersInv
  <2>2. Len(cb) = m + m
    BY <1>1, <1>2, <1>3 DEF GroupInv, Queued
  <2>3. QED
    BY <2>1, <2>2
<1>16. m + n \in DOMAIN cb
  BY <1>4, <1>15, IsSeqDomain
<1>17. landed[m + n] = Head(q)
  <2>1. PICK c, S : c = CommBlock(m + n) /\ S = {i \in Calls(r, "recv") : g[i].blk = c}
    OBVIOUS
  <2>2. cb[m + n].blk = c
    BY <1>15, <1>16, <2>1
  <2>3. landed[m + n] = IF S = {} THEN Read(r, c) ELSE Head(wire[g[CHOOSE i \in S : TRUE].peer][r])
    <3>1. c = cb[m + n].blk /\ S = {i \in Calls(r, "recv") : g[i].blk = cb[m + n].blk}
      BY <2>1, <2>2
    <3>2. cb = commBuffers[r] /\ g = group[r] /\ landed = Landed(r)
      BY <1>3
    <3>3. PICK j : j = m + n
      OBVIOUS
    <3>4. /\ j \in DOMAIN commBuffers[r] /\ c = commBuffers[r][j].blk
          /\ S = {i \in Calls(r, "recv") : group[r][i].blk = commBuffers[r][j].blk}
      BY <1>16, <3>1, <3>2, <3>3
    <3>5. Landed(r)[j] =
            IF {i \in Calls(r, "recv") : group[r][i].blk = commBuffers[r][j].blk} = {} THEN Read(r, commBuffers[r][j].blk)
            ELSE Head(wire[group[r][CHOOSE i \in {i \in Calls(r, "recv") : group[r][i].blk = commBuffers[r][j].blk} : TRUE].peer][r])
      BY <3>4, LandedIs, Zenon
    <3>6. Landed(r)[j] = IF S = {} THEN Read(r, c) ELSE Head(wire[group[r][CHOOSE i \in S : TRUE].peer][r])
      BY <3>4, <3>5, Zenon
    <3>7. QED
      BY <3>2, <3>3, <3>6, Zenon
  <2>4. \A i : RecvEntry(r, i).peer = Nth(r, i) /\ RecvEntry(r, i).blk = CommBlock(m + i)
    BY <1>3 DEF RecvEntry
  <2>5. S = {m + n}
    <3>1. m + n \in S
      BY <1>4, <1>8, <2>1, <2>4
    <3>2. ASSUME NEW i \in S PROVE i = m + n
      <4>1. PICK j \in 1 .. m : i = m + j
        BY <1>8, <2>1
      <4>2. CommBlock(m + j) = CommBlock(m + n)
        BY <1>8, <2>1, <2>4, <4>1
      <4>3. QED
        BY <4>1, <4>2, CommBlockIs
    <3>3. QED
      BY <3>1, <3>2
  <2>6. (CHOOSE i \in S : TRUE) = m + n /\ S # {}
    BY <2>5
  <2>7. g[m + n].peer = s
    BY <1>4, <1>8, <2>4
  <2>8. QED
    BY <1>3, <2>3, <2>6, <2>7
<1>18. copied[b] = Head(q) /\ b \in DOMAIN copied
  <2>1. IsSeq(rb) /\ Len(rb) = m /\ \A i \in 1 .. m : rb[i] = Landing(r, i)
    BY <1>1, <1>2, <1>3 DEF GroupInv
  <2>2. DOMAIN rb = 1 .. m
    BY <2>1, IsSeqDomain
  <2>3. \A i \in 1 .. m : rb[i].dst = RecvBlock(Nth(r, i), k) /\ rb[i].idx = m + i
    <3>1. \A i : Landing(r, i).dst = RecvBlock(Nth(r, i), rnd[r]) /\ Landing(r, i).idx = N - 1 + i
      BY DEF Landing
    <3>2. QED
      BY <1>3, <2>1, <3>1
  <2>4. rb[n].dst = b /\ rb[n].idx = m + n
    BY <1>3, <1>4, <2>3
  <2>5. \A i \in DOMAIN rb : rb[i].dst = b => i = n
    BY <1>3, <1>4, <2>2, <2>3 DEF RecvBlock
  <2>6. (CHOOSE i \in DOMAIN rb : rb[i].dst = b) = n
    BY <1>4, <2>2, <2>4, <2>5
  <2>7. b \in DOMAIN copied
    BY <1>3, <1>4, <2>2, <2>4
  <2>8. copied[b] = landed[rb[n].idx]
    BY <1>3, <2>6, <2>7
  <2>9. QED
    BY <1>17, <2>4, <2>7, <2>8
<1>19. PICK e : e = Without(f, DOMAIN old)
  OBVIOUS
<1>20. b \in DOMAIN e /\ \A c \in DOMAIN e : IsBlock(e[c])
  <2>1. b \in DOMAIN f
    BY <1>1, <1>2, <1>3, RecvBlockThere
  <2>2. DOMAIN old = {cb[j].blk : j \in DOMAIN cb}
    BY <1>3 DEF GiveBack
  <2>3. b \notin DOMAIN old
    <3>1. \A j : CommBlock(j) # b
      BY <1>3 DEF CommBlock, RecvBlock
    <3>2. QED
      BY <1>15, <2>2, <3>1
  <2>4. \A c \in DOMAIN f : IsBlock(f[c])
    BY <1>3 DEF ValInv, Recorded
  <2>5. QED
    BY <1>19, <2>1, <2>3, <2>4 DEF Without
<1>21. blocks'[r] = Write(e, copied)
  BY <1>1, <1>3, <1>7, <1>19
<1>22. Write(e, copied)[b].val = copied[b]
  BY <1>18, <1>20, WriteIs
<1>23. QED
  BY <1>3, <1>13, <1>14, <1>18, <1>21, <1>22 DEF Brought

\* Nothing is open when the processes start,
LEMMA PromiseInit ==
  ASSUME Init
  PROVE  Promise!Init
<1>1. ASSUME NEW r \in Ranks PROVE ~InRound(r)
  <2>1. TypeInv /\ WhereInv(r) /\ rnd[r] = 0
    BY IInvInit DEF IInv, ControlInv, Init
  <2>2. NextCall(r) \notin UnderSet
    BY <2>1, RoundIs
  <2>3. QED
    BY <2>2 DEF InRound, UnderSet
<1>2. [r \in Ranks |-> IF InRound(r) THEN "open" ELSE "closed"] = [r \in Ranks |-> "closed"]
  BY <1>1
<1>3. /\ rnd = [r \in Ranks |-> 0]
      /\ sent = [s \in Ranks |-> [d \in Ranks |-> <<>>]]
      /\ got = [r \in Ranks |-> <<>>]
  BY DEF Init
<1>4. QED
  BY <1>2, <1>3 DEF Promise!Init, Promise!Nothing

\* a call that neither opens nor closes an exchange is not seen,
LEMMA PromiseUnseen ==
  ASSUME \A x \in Ranks : InRound(x)' <=> InRound(x), UNCHANGED <<rnd, sent, got>>
  PROVE  UNCHANGED Promise!vars
<1>1. [x \in Ranks |-> IF InRound(x) THEN "open" ELSE "closed"]'
        = [x \in Ranks |-> IF InRound(x) THEN "open" ELSE "closed"]
  BY DEF Ranks
<1>2. QED
  BY <1>1 DEF Promise!vars

\* start() opens one,
LEMMA PromiseStart ==
  ASSUME IInv, NEW r \in Ranks, Start(r), \A x \in Ranks \ {r} : InRound(x)' <=> InRound(x)
  PROVE  Promise!Start(r)
<1>1. ControlInv /\ TypeInv /\ WhereInv(r) /\ kind \in Kinds /\ session.rounds \in 0 .. Rounds /\ Rounds \in Nat
  BY KindIs DEF IInv, ControlInv, TypeInv
<1>2. NextCall(r) = "start" /\ NextCall(r)' \in {"send", "recv"}
  BY <1>1, NotProgress, InsideIs
<1>3. ~InRound(r) /\ InRound(r)'
  BY <1>2 DEF InRound
<1>4. rnd[r] < Rounds
  <2>1. rnd[r] < R /\ R \in Nat /\ rnd[r] \in 0 .. R
    BY <1>1, <1>2, RoundIs
  <2>2. R \in 0 .. Rounds
    BY <1>1 DEF R
  <2>3. QED
    BY <1>1, <2>1, <2>2
<1>5. [x \in Ranks |-> IF InRound(x) THEN "open" ELSE "closed"]'
        = [[x \in Ranks |-> IF InRound(x) THEN "open" ELSE "closed"] EXCEPT ![r] = "open"]
  BY <1>3 DEF Ranks
<1>6. [x \in Ranks |-> IF InRound(x) THEN "open" ELSE "closed"][r] = "closed"
  BY <1>3
<1>7. /\ rnd' = [rnd EXCEPT ![r] = @ + 1]
      /\ got' = [got EXCEPT ![r] = <<>>]
      /\ sent' = sent
  BY <1>1 DEF Start, TypeInv
<1>8. QED
  BY <1>4, <1>5, <1>6, <1>7 DEF Promise!Start, Promise!Nothing

\* send() sends the message of the round to a peer that has not got it,
LEMMA PromiseSend ==
  ASSUME IInv, ValInv, NEW r \in Ranks, Send(r), \A x \in Ranks \ {r} : InRound(x)' <=> InRound(x)
  PROVE  \E d \in Ranks : Promise!Send(r, d)
<1>1. ControlInv /\ AllSent /\ TypeInv /\ rnd[r] \in Nat /\ Loaded(r)
  BY DEF IInv, ControlInv, TypeInv, ValInv, SentVals
<1>2. NextCall(r) = "send" /\ NextCall(r)' \in {"send", "recv"}
  BY <1>1, NotProgress, InsideIs
<1>3. InRound(r) /\ InRound(r)'
  BY <1>2 DEF InRound
<1>4. PICK d \in Peers(r) : /\ Unsent(r, d)
                            /\ sent' = [sent EXCEPT ![r][d] = Append(@, Read(r, SendBlock(d, rnd[r])))]
  BY <1>1, SendIs
<1>5. d \in Ranks /\ d # r
  BY <1>4 DEF Peers
<1>6. Len(sent[r][d]) < rnd[r]
  <2>1. Len(sent[r][d]) = rnd[r] - 1
    BY <1>1, <1>4, <1>5 DEF AllSent, SentInv
  <2>2. QED
    BY <1>1, <2>1
<1>7. Read(r, SendBlock(d, rnd[r])) \in Payload(r, d, rnd[r])
  BY <1>1, <1>3, <1>4 DEF Loaded, Payload
<1>8. \E p \in Payload(r, d, rnd[r]) : sent' = [sent EXCEPT ![r][d] = Append(@, p)]
  BY <1>4, <1>7
<1>9. UNCHANGED <<rnd, got>>
  BY DEF Send
<1>10. [x \in Ranks |-> IF InRound(x) THEN "open" ELSE "closed"]'
         = [x \in Ranks |-> IF InRound(x) THEN "open" ELSE "closed"]
  BY <1>3 DEF Ranks
<1>11. [x \in Ranks |-> IF InRound(x) THEN "open" ELSE "closed"][r] = "open"
  BY <1>3
<1>12. QED
  BY <1>4, <1>5, <1>6, <1>8, <1>9, <1>10, <1>11 DEF Promise!Send

\* and stop() closes it, with what the peers sent in their rounds of the same number.
LEMMA PromiseStop ==
  ASSUME IInv, ValInv, NEW r \in Ranks, RankStep(r), Stop(r), \A x \in Ranks \ {r} : InRound(x)' <=> InRound(x)
  PROVE  Promise!Stop(r)
<1>1. ControlInv /\ AllSent /\ TypeInv /\ WhereInv(r) /\ rnd[r] \in Nat /\ SentVals /\ session \in Sessions
  BY DEF IInv, ControlInv, TypeInv, ValInv
<1>2. NextCall(r) = "stop" /\ NextCall(r)' = "free"
  BY <1>1, NotProgress, InsideIs
<1>3. InRound(r) /\ ~InRound(r)'
  BY <1>2 DEF InRound
<1>4. kind \in {"nccl", "buffer", "none", "preregistered"}
  <2>1. Permitted("stop") /\ kind \in Kinds
    BY <1>1, <1>2, Allowed, KindIs
  <2>2. QED
    BY <2>1 DEF Permitted, Kinds
<1>5. ASSUME NEW s \in Peers(r) PROVE Brought(r, s)
  <2>1. CASE kind = "nccl"
    BY <2>1, NcclBrings
  <2>2. CASE kind = "buffer"
    BY <2>2, BufferBrings
  <2>3. CASE Unbuffered
    BY <2>3, UcxBrings
  <2>4. QED
    BY <1>4, <2>1, <2>2, <2>3 DEF Unbuffered
<1>6. ASSUME NEW s \in Peers(r)
      PROVE  Len(sent[r][s]) >= rnd[r] /\ Len(sent[s][r]) >= rnd[r]
             /\ blocks'[r][RecvBlock(s, rnd[r])].val = sent[s][r][rnd[r]]
  <2>1. s \in Ranks /\ s # r
    BY DEF Peers
  <2>2. Len(sent[s][r]) >= rnd[r] /\ blocks'[r][RecvBlock(s, rnd[r])].val = Message(s, r, rnd[r])
    BY <1>5 DEF Brought
  <2>3. ~Unsent(r, s)
    BY <1>2 DEF Unsent
  <2>4. Len(sent[r][s]) = rnd[r]
    BY <1>1, <2>1, <2>3 DEF AllSent, SentInv
  <2>5. rnd[r] >= 1
    BY <1>1, <1>2, RoundIs DEF UnderSet
  <2>6. Len(sent[s][r]) \in Nat
    BY <1>1, <2>1, IsSeqDomain DEF AllSent, SentInv
  <2>7. rnd[r] \in 1 .. Len(sent[s][r])
    BY <1>1, <2>2, <2>5, <2>6
  <2>8. sent[s][r][rnd[r]] = Message(s, r, rnd[r])
    BY <1>1, <2>1, <2>7, SentLong
  <2>9. QED
    BY <1>1, <2>2, <2>4, <2>8
<1>7. /\ got' = [got EXCEPT ![r] = [s \in Peers(r) |-> blocks'[r][RecvBlock(s, rnd[r])].val]]
      /\ UNCHANGED <<rnd, sent>>
  BY DEF Stop
<1>8. [s \in Peers(r) |-> blocks'[r][RecvBlock(s, rnd[r])].val] = [s \in Peers(r) |-> sent[s][r][rnd[r]]]
  BY <1>6
<1>9. got' = [got EXCEPT ![r] = [s \in Peers(r) |-> sent[s][r][rnd[r]]]]
  BY <1>7, <1>8
<1>10. [x \in Ranks |-> IF InRound(x) THEN "open" ELSE "closed"]'
         = [[x \in Ranks |-> IF InRound(x) THEN "open" ELSE "closed"] EXCEPT ![r] = "closed"]
  BY <1>3 DEF Ranks
<1>11. [x \in Ranks |-> IF InRound(x) THEN "open" ELSE "closed"][r] = "open"
  BY <1>3
<1>12. \A s \in Peers(r) : Len(sent[r][s]) >= rnd[r] /\ Len(sent[s][r]) >= rnd[r]
  BY <1>6
<1>13. QED
  BY <1>7, <1>9, <1>10, <1>11, <1>12 DEF Promise!Stop

\* Every step of a rank is a step of the interface, or none.
LEMMA PromiseStep ==
  ASSUME IInv, ValInv, NEW r \in Ranks, RankStep(r)
  PROVE  [Promise!Next]_(Promise!vars)
<1>1. ControlInv /\ TypeInv /\ WhereInv(r)
  BY DEF IInv, ControlInv
<1>2. \A x \in Ranks \ {r} : InRound(x)' <=> InRound(x)
  BY <1>1, ControlStep DEF InRound
<1>3. ASSUME InRound(r)' <=> InRound(r), UNCHANGED <<rnd, sent, got>>
      PROVE  UNCHANGED Promise!vars
  BY <1>2, <1>3, PromiseUnseen
<1>4. CASE Start(r)
  BY <1>2, <1>4, PromiseStart DEF Promise!Next, Promise!Step
<1>5. CASE Send(r)
  BY <1>2, <1>5, PromiseSend DEF Promise!Next, Promise!Step
<1>6. CASE Stop(r)
  BY <1>2, <1>6, PromiseStop DEF Promise!Next, Promise!Step
<1>7. CASE Recv(r) \/ Launch(r) \/ Free(r)
  <2>1. UNCHANGED <<rnd, sent, got>>
    BY <1>7 DEF Recv, Launch, Free, user, hist
  <2>2. CASE Recv(r)
    BY <1>1, <1>3, <2>1, <2>2, NotProgress, InsideIs DEF InRound
  <2>3. CASE Launch(r)
    BY <1>1, <1>3, <2>1, <2>3, NotProgress, InsideIs DEF InRound
  <2>4. CASE Free(r)
    BY <1>1, <1>3, <2>1, <2>4, NotProgress, InsideIs DEF InRound, FirstDestroy
  <2>5. QED
    BY <1>7, <2>2, <2>3, <2>4
<1>8. CASE Progress(r)
  <2>1. UNCHANGED <<rnd, sent, got>>
    BY <1>8 DEF Progress, user, hist
  <2>2. InRound(r)' <=> InRound(r)
    BY <1>1, <1>8, ProgressIs DEF InRound
  <2>3. QED
    BY <1>3, <2>1, <2>2
<1>9. CASE Outside(r)
  <2>1. UNCHANGED <<rnd, sent, got>>
    BY <1>9 DEF Outside, user, hist
  <2>2. InRound(r)' <=> InRound(r)
    <3>1. NextCall(r) \notin UnderSet /\ NextCall(r)' \notin UnderSet
      BY <1>9, SetsDisjoint DEF Outside
    <3>2. QED
      BY <3>1 DEF UnderSet, InRound
  <2>3. QED
    BY <1>3, <2>1, <2>2
<1>10. QED
  BY <1>1, <1>4, <1>5, <1>6, <1>7, <1>8, <1>9, AllSteps

\* Whatever the kind of communicator, for any number of ranks and any program
\* of setup, exchanges and destroy, the exchanges are rounds of the interface
\* Communicator: what stop returns with is, from every peer, the message that
\* peer sent in its round of the same number.
THEOREM SessionRefines ==
  Spec => ImplementsCommunicator
<1>1. Init => Promise!Init
  BY PromiseInit
<1>2. IInv /\ ValInv /\ [Next]_vars => [Promise!Next]_(Promise!vars)
  <2> SUFFICES ASSUME IInv, ValInv, [Next]_vars PROVE [Promise!Next]_(Promise!vars)
    OBVIOUS
  <2>1. CASE UNCHANGED vars
    <3>1. \A x \in Ranks : NextCall(x)' = NextCall(x)
      <4>1. TypeInv /\ \A x \in Ranks : WhereInv(x)
        BY DEF IInv, ControlInv
      <4>2. session' = session /\ ip' = ip /\ rnd' = rnd
        BY <2>1 DEF vars
      <4>3. QED
        BY <4>1, <4>2, Waits
    <3>2. UNCHANGED <<rnd, sent, got>>
      BY <2>1 DEF vars, hist
    <3>3. QED
      BY <3>1, <3>2, PromiseUnseen DEF InRound
  <2>2. CASE \E r \in Ranks : RankStep(r)
    BY <2>2, PromiseStep
  <2>3. QED
    BY <2>1, <2>2 DEF Next, Ended
<1>3. QED
  BY <1>1, <1>2, Values, PTL DEF Spec, ImplementsCommunicator
=============================================================================
