---------------------------- MODULE BufferCommProofs ----------------------------
(***************************************************************************)
(* Proofs about BufferComm, for every number of ranks, communication       *)
(* buffers, requests, rounds and elements: no two transfers share a        *)
(* communication buffer, what UCX still has to read is not overwritten, a  *)
(* request UCX may hand out again looks like a new one, and with two       *)
(* buffers per peer no call finds the cache empty.                         *)
(*                                                                         *)
(* The argument follows the handles.  A transfer of the current round is a *)
(* handle of pending_requests.  At any time at most one handle carries it  *)
(* on: it sits in UCX (a send in progress, a completed send, a posted      *)
(* receive) or is the argument of the callback about to run.  A handle     *)
(* that carries a transfer is never free and knows the transfer's buffer.  *)
(***************************************************************************)
EXTENDS BufferComm, SequenceTheorems, FiniteSetTheorems, WellFoundedInduction, TLAPS

PCs == {"start", "send", "recv", "stop", "thrown", "finalize", "barrier", "closed"}

Word    == Int \X Int \X Int \X Int \X Int
Message == [val : Seq(Word), ref : Int, req : {Null} \cup Handles]
Receive == [req : Handles, dst : Int, n : Int]
Info    == [completed : BOOLEAN, orig : Int, custom : BOOLEAN, buf : 0 .. ncaches,
            count : Int, peer : Ranks, ibatch : Int]

TypeInv ==
  /\ ncaches \in Nat
  /\ pc \in [Ranks -> PCs]
  /\ idx \in [Ranks -> Ranks]
  /\ round \in [Ranks -> Int]
  /\ pending \in [Ranks -> Seq(Handles)]
  /\ cache \in [Ranks -> Seq(Buffers)]
  /\ mem \in [Ranks -> [Buffers -> Seq(Word)]]
  /\ info \in [Ranks -> [Handles -> Info]]
  /\ free \in [Ranks -> SUBSET Requests]
  /\ done \in [Ranks -> SUBSET Handles]
  /\ posted \in [Ranks -> [Ranks -> Seq(Receive)]]
  /\ net \in [Ranks -> [Ranks -> Seq(Message)]]
  /\ stack \in [Ranks -> Seq(Handles)]
  /\ mode \in [Ranks -> {"call", "return"}]
  /\ countMem \in [Ranks -> [Ranks -> Word]]

\* Between start() and the return of stop(); and the same or stopped by the
\* exception.
Open(r) == pc[r] \in {"send", "recv", "stop"}
Live(r) == Open(r) \/ pc[r] = "thrown"

\* The transfers of the round, each named by the handle the user waits for.
Transfers(r) == {pending[r][j] : j \in 1 .. Len(pending[r])}
BufOf(r, h)  == info[r][h].buf
OrigOf(r, h) == info[r][h].orig

(***************************************************************************)
(* Who has the communication buffers.                                      *)
(***************************************************************************)
CacheDistinct(r) == \A j, k \in 1 .. Len(cache[r]) : cache[r][j] = cache[r][k] => j = k

Accounted(r, b) ==
  \/ \E k \in 1 .. Len(cache[r]) : cache[r][k] = b
  \/ Live(r) /\ \E j \in 1 .. Len(pending[r]) : BufOf(r, pending[r][j]) = b

OwnInv(r) ==
  /\ CacheDistinct(r)
  /\ \A b \in Buffers : Accounted(r, b)
  /\ Live(r) => \A j \in 1 .. Len(pending[r]) :
       LET p == pending[r][j] IN
       /\ p \notin free[r] /\ OrigOf(r, p) = p /\ BufOf(r, p) \in Buffers
       /\ \A k \in 1 .. Len(cache[r]) : cache[r][k] # BufOf(r, p)
       /\ \A k \in 1 .. Len(pending[r]) : BufOf(r, pending[r][k]) = BufOf(r, p) => j = k
  /\ ~ Live(r) => \A j \in 1 .. Len(pending[r]) : BufOf(r, pending[r][j]) = Null

\* In the send loop the handles from malloc are those of earlier destinations;
\* they are marked as such until waitall frees them.
HeapInv(r) ==
  /\ pc[r] = "send" => \A h \in Transfers(r) : h <= MaxReq \/ h < Heap(idx[r])
  /\ Open(r) => \A p \in Transfers(r) : p \in Requests \/ info[r][p].custom

(***************************************************************************)
(* How many buffers a round takes.                                         *)
(***************************************************************************)
Passed(r) == Cardinality({s \in Peers(r) : s < idx[r]})
All(r)    == Cardinality(Peers(r))

CountInv(r) ==
  /\ Len(cache[r]) = ncaches - (IF Live(r) THEN Len(pending[r]) ELSE 0)
  /\ pc[r] = "send" => idx[r] \in Peers(r) /\ Len(pending[r]) = Passed(r)
  /\ pc[r] = "recv" => idx[r] \in Peers(r) /\ Len(pending[r]) = All(r) + Passed(r)
  /\ pc[r] = "thrown" => ~ Enough

(***************************************************************************)
(* Which handles carry a transfer on.                                      *)
(***************************************************************************)
\* Messages or posted receives in a table of queues, and their requests.
Items(t)  == UNION {{t[d][j] : j \in 1 .. Len(t[d])} : d \in Ranks}
ReqsIn(t) == {q \in Handles : \E m \in Items(t) : m.req = q}
Once(t)   == \A d, e \in Ranks : \A j \in 1 .. Len(t[d]), k \in 1 .. Len(t[e]) :
               (t[d][j].req = t[e][k].req /\ t[d][j].req # Null) => d = e /\ j = k

InStack(r) == {stack[r][j] : j \in 1 .. Len(stack[r])}
Due(r)     == IF HandlerReady(r) THEN {stack[r][1]} ELSE {}
InUCX(r)   == done[r] \cup ReqsIn(net[r]) \cup ReqsIn(posted[r])
Active(r)  == InUCX(r) \cup Due(r)

PlaceInv(r) ==
  /\ Once(net[r]) /\ Once(posted[r])
  /\ \A j, k \in 1 .. Len(stack[r]) : stack[r][j] = stack[r][k] => j = k
  /\ done[r] \cap ReqsIn(net[r]) = {} /\ done[r] \cap ReqsIn(posted[r]) = {}
  /\ ReqsIn(net[r]) \cap ReqsIn(posted[r]) = {}
  /\ InUCX(r) \cap InStack(r) = {}
  /\ Open(r) => (InUCX(r) \cup InStack(r)) \cap free[r] = {}
  /\ stack[r] # <<>> => pc[r] \in {"recv", "stop"}
  /\ ~ Live(r) => InUCX(r) = {}
  /\ InUCX(r) \cup InStack(r) \subseteq Requests

CarryInv(r) ==
  Open(r) =>
    /\ \A a \in Active(r) :
         /\ OrigOf(r, a) \in Transfers(r)
         /\ ~ info[r][OrigOf(r, a)].completed
         /\ BufOf(r, a) = BufOf(r, OrigOf(r, a))
    /\ \A a, b \in Active(r) : OrigOf(r, a) = OrigOf(r, b) => a = b

CleanInv(r) ==
  \A q \in free[r] : ~ info[r][q].completed /\ ~ info[r][q].custom /\ OrigOf(r, q) = Null

(***************************************************************************)
(* What UCX reads from and writes to the buffers.                          *)
(***************************************************************************)
ReadInv(r) ==
  /\ \A m \in Items(net[r]) : m.ref # Null =>
       /\ m.req \in Handles /\ mem[r][m.ref] = m.val
       /\ Open(r) => m.ref = BufOf(r, m.req)
  /\ Open(r) => \A p \in Items(posted[r]) : p.dst # Null => p.dst = BufOf(r, p.req)

RankInv(r) ==
  /\ OwnInv(r) /\ HeapInv(r) /\ CountInv(r)
  /\ PlaceInv(r) /\ CarryInv(r) /\ CleanInv(r) /\ ReadInv(r)

IInv == TypeInv /\ \A r \in Ranks : RankInv(r)

-----------------------------------------------------------------------------
\* The tables of queues: a queue grows at its end, or loses its head.
\* A sequence written as a function, of any length.
LEMMA Listed ==
  ASSUME NEW S, NEW n \in Int, NEW f, f = [j \in 1 .. n |-> f[j]],
         \A j \in 1 .. n : f[j] \in S
  PROVE  f \in Seq(S)
<1>1. CASE n \in Nat
  <2>1. f \in [1 .. n -> S]
    BY Zenon
  <2> QED BY <1>1, <2>1, SeqDef
<1>2. CASE n \notin Nat
  <2>1. 1 .. n = {}
    BY <1>2
  <2>2. f = << >>
    BY <2>1
  <2> QED BY <2>2, EmptySeq
<1> QED BY <1>1, <1>2

\* What the queues of a table hold after one of them has grown.
Table(t, S)  == t \in [Ranks -> Seq(S)]
Tables(t, S) == t \in [Ranks -> [Ranks -> Seq(S)]]
Elems(w)     == {w[j] : j \in 1 .. Len(w)}

LEMMA GrownItems ==
  ASSUME NEW S, NEW t, Table(t, S), NEW d \in Ranks, NEW w \in Seq(S),
         NEW u, Table(u, S), u[d] = t[d] \o w,
         \A e \in Ranks : e # d => u[e] = t[e]
  PROVE  /\ \A e \in Ranks : e # d => u[e] = t[e]
         /\ Len(u[d]) = Len(t[d]) + Len(w)
         /\ \A j \in 1 .. Len(t[d]) : u[d][j] = t[d][j]
         /\ \A j \in 1 .. Len(u[d]) : j > Len(t[d]) =>
              j - Len(t[d]) \in 1 .. Len(w) /\ u[d][j] = w[j - Len(t[d])]
<1>1. t[d] \in Seq(S)
  BY DEF Table
<1> DEFINE c == t[d] \o w
<1>2. c \in Seq(S) /\ Len(c) = Len(t[d]) + Len(w)
      /\ \A j \in 1 .. Len(c) : c[j] = IF j <= Len(t[d]) THEN t[d][j] ELSE w[j - Len(t[d])]
  BY <1>1, ConcatProperties
<1>3. u[d] = c /\ \A e \in Ranks : e # d => u[e] = t[e]
  OBVIOUS
<1>4. \A e \in Ranks : u[e] \in Seq(S)
  BY DEF Table
<1> HIDE DEF c
<1>5. Len(t[d]) \in Nat /\ Len(w) \in Nat
  BY <1>1, LenProperties DEF Table
<1>6. \A j \in 1 .. Len(c) : j > Len(t[d]) =>
        j - Len(t[d]) \in 1 .. Len(w) /\ c[j] = w[j - Len(t[d])]
  BY <1>2, <1>5
<1>7. \A j \in 1 .. Len(t[d]) : c[j] = t[d][j]
  BY <1>2, <1>5
<1> QED BY <1>2, <1>3, <1>6, <1>7, Zenon

GrownBy(u, t, d, w) == u[d] = t[d] \o w /\ \A e \in Ranks : e # d => u[e] = t[e]
FreshIn(Q, t, w)    == /\ Q \in SUBSET Handles /\ Q \cap ReqsIn(t) = {}
                       /\ \A j \in 1 .. Len(w) :
                            w[j].req = Null \/ (j = Len(w) /\ w[j].req \in Q)

LEMMA GrownOnce ==
  ASSUME NEW S, NEW t, Table(t, S), NEW d \in Ranks, NEW w \in Seq(S),
         NEW u, Table(u, S), GrownBy(u, t, d, w), Once(t), NEW Q, FreshIn(Q, t, w)
  PROVE  /\ Once(u)
         /\ \A q \in ReqsIn(u) : q \in ReqsIn(t) \/ q \in Q
         /\ \A m \in Items(u) : m \in Items(t) \/ \E j \in 1 .. Len(w) : m = w[j]
<1>1. /\ u[d] = t[d] \o w /\ \A e \in Ranks : e # d => u[e] = t[e]
      /\ Q \in SUBSET Handles /\ Q \cap ReqsIn(t) = {}
      /\ \A j \in 1 .. Len(w) : w[j].req = Null \/ (j = Len(w) /\ w[j].req \in Q)
  BY DEF GrownBy, FreshIn
<1>2. /\ \A e \in Ranks : e # d => u[e] = t[e]
      /\ Len(u[d]) = Len(t[d]) + Len(w)
      /\ \A j \in 1 .. Len(t[d]) : u[d][j] = t[d][j]
      /\ \A j \in 1 .. Len(u[d]) : j > Len(t[d]) =>
           j - Len(t[d]) \in 1 .. Len(w) /\ u[d][j] = w[j - Len(t[d])]
  BY <1>1, GrownItems
<1>3. /\ \A e \in Ranks : Len(t[e]) \in Nat /\ Len(u[e]) \in Nat
      /\ Len(w) \in Nat
  BY <1>2, LenProperties DEF Table
<1>4. \A e \in Ranks : \A j \in 1 .. Len(u[e]) :
        \/ j \in 1 .. Len(t[e]) /\ u[e][j] = t[e][j]
        \/ e = d /\ j > Len(t[d]) /\ j - Len(t[d]) \in 1 .. Len(w) /\ u[e][j] = w[j - Len(t[d])]
  BY <1>2, <1>3
<1>5. \A m : m \in Items(t) <=> \E e \in Ranks : \E j \in 1 .. Len(t[e]) : m = t[e][j]
  BY DEF Items
<1>6. \A m : m \in Items(u) <=> \E e \in Ranks : \E j \in 1 .. Len(u[e]) : m = u[e][j]
  BY DEF Items
<1>7. ASSUME NEW m \in Items(u)
      PROVE  m \in Items(t) \/ \E j \in 1 .. Len(w) : m = w[j]
  <2>1. PICK e \in Ranks : \E j \in 1 .. Len(u[e]) : m = u[e][j]
    BY DEF Items
  <2>2. PICK j \in 1 .. Len(u[e]) : m = u[e][j]
    BY <2>1
  <2>3. CASE j \in 1 .. Len(t[e]) /\ u[e][j] = t[e][j]
    BY <1>5, <2>2, <2>3
  <2> QED BY <1>4, <2>2, <2>3
<1>8. \A q \in ReqsIn(u) : q \in ReqsIn(t) \/ q \in Q
  <2> SUFFICES ASSUME NEW m \in Items(u), m.req \in Handles
               PROVE  m.req \in ReqsIn(t) \/ m.req \in Q
    BY DEF ReqsIn
  <2>1. CASE m \in Items(t)
    BY <2>1 DEF ReqsIn
  <2>2. CASE \E j \in 1 .. Len(w) : m = w[j]
    <3>1. m.req # Null
      BY BoundsAssumption, NAssumption DEF Handles, Null
    <3> QED BY <1>1, <2>2, <3>1
  <2> QED BY <1>7, <2>1, <2>2
<1>9. Once(u)
  <2> DEFINE Old(g, i) == i \in 1 .. Len(t[g]) /\ u[g][i] = t[g][i]
             Fresh(g, i) == g = d /\ i = Len(t[d]) + Len(w) /\ u[g][i].req \in Q
  <2>1. ASSUME NEW g \in Ranks, NEW i \in 1 .. Len(u[g]), u[g][i].req # Null
        PROVE  Old(g, i) \/ Fresh(g, i)
    <3>1. CASE i \in 1 .. Len(t[g]) /\ u[g][i] = t[g][i]
      BY <3>1
    <3>2. CASE g = d /\ i > Len(t[d]) /\ i - Len(t[d]) \in 1 .. Len(w)
               /\ u[g][i] = w[i - Len(t[d])]
      <4>1. i - Len(t[d]) = Len(w) /\ u[g][i].req \in Q
        BY <1>1, <2>1, <3>2
      <4> QED BY <1>3, <3>2, <4>1
    <3> QED BY <1>4, <3>1, <3>2
  <2>2. \A g \in Ranks : \A i \in 1 .. Len(u[g]) :
          Old(g, i) /\ u[g][i].req \in Handles => u[g][i].req \in ReqsIn(t)
    BY <1>5 DEF ReqsIn
  <2>3. ASSUME NEW e \in Ranks, NEW f \in Ranks,
               NEW j \in 1 .. Len(u[e]), NEW k \in 1 .. Len(u[f]),
               u[e][j].req = u[f][k].req, u[e][j].req # Null
        PROVE  e = f /\ j = k
    <3>1. CASE Old(e, j) /\ Old(f, k)
      BY <2>3, <3>1 DEF Once
    <3>2. CASE Fresh(e, j) /\ Fresh(f, k)
      BY <3>2
    <3>3. ~(Old(e, j) /\ Fresh(f, k)) /\ ~(Fresh(e, j) /\ Old(f, k))
      BY <1>1, <2>2, <2>3
    <3> QED BY <2>1, <2>3, <3>1, <3>2, <3>3
  <2>4. \A e, f \in Ranks : \A j \in 1 .. Len(u[e]), k \in 1 .. Len(u[f]) :
          (u[e][j].req = u[f][k].req /\ u[e][j].req # Null) => e = f /\ j = k
    BY <2>3
  <2> QED BY <2>4, Zenon DEF Once
<1> QED BY <1>7, <1>8, <1>9

LEMMA ShrunkOnce ==
  ASSUME NEW S, NEW t, Table(t, S), NEW d \in Ranks, t[d] # << >>,
         NEW u, Table(u, S), u[d] = Tail(t[d]),
         \A e \in Ranks : e # d => u[e] = t[e], Once(t)
  PROVE  /\ Once(u)
         /\ \A q \in ReqsIn(u) : q \in ReqsIn(t)
         /\ \A m \in Items(u) : m \in Items(t)
         /\ Head(t[d]) \in S /\ Head(t[d]) = t[d][1] /\ Head(t[d]) \in Items(t)
         /\ Head(t[d]).req \in Handles =>
              Head(t[d]).req \in ReqsIn(t) /\ Head(t[d]).req \notin ReqsIn(u)
<1>1. t[d] \in Seq(S)
  BY DEF Table
<1> DEFINE c == Tail(t[d])
<1>2. /\ c \in Seq(S) /\ Len(t[d]) \in Nat /\ Len(t[d]) >= 1
      /\ Len(c) = Len(t[d]) - 1
      /\ \A j \in 1 .. Len(c) : c[j] = t[d][j + 1]
      /\ Head(t[d]) = t[d][1] /\ Head(t[d]) \in S
  BY <1>1, HeadTailProperties, EmptySeq, LenProperties
<1>3. u[d] = c /\ \A e \in Ranks : e # d => u[e] = t[e]
  OBVIOUS
<1>4. \A e \in Ranks : u[e] \in Seq(S)
  BY DEF Table
<1> HIDE DEF c
<1>5. \A e \in Ranks : Len(t[e]) \in Nat /\ Len(u[e]) \in Nat
  BY <1>4, LenProperties DEF Table
<1> DEFINE B(e) == IF e = d THEN 1 ELSE 0
<1>6. \A e \in Ranks : \A j \in 1 .. Len(u[e]) :
        j + B(e) \in 1 .. Len(t[e]) /\ u[e][j] = t[e][j + B(e)]
  BY <1>2, <1>3, <1>5
<1>7. \A m : m \in Items(t) <=> \E e \in Ranks : \E j \in 1 .. Len(t[e]) : m = t[e][j]
  BY DEF Items
<1>8. \A m : m \in Items(u) <=> \E e \in Ranks : \E j \in 1 .. Len(u[e]) : m = u[e][j]
  BY DEF Items
<1>9. \A m \in Items(u) : m \in Items(t)
  BY <1>6, <1>7, <1>8
<1>10. \A q \in ReqsIn(u) : q \in ReqsIn(t)
  BY <1>9 DEF ReqsIn
<1>11. Once(u)
  <2> SUFFICES ASSUME NEW e \in Ranks, NEW f \in Ranks,
                      NEW j \in 1 .. Len(u[e]), NEW k \in 1 .. Len(u[f]),
                      u[e][j].req = u[f][k].req, u[e][j].req # Null
               PROVE  e = f /\ j = k
    BY DEF Once
  <2> DEFINE x == j + B(e)
             y == k + B(f)
  <2>1. x \in 1 .. Len(t[e]) /\ y \in 1 .. Len(t[f])
        /\ u[e][j] = t[e][x] /\ u[f][k] = t[f][y]
    BY <1>6
  <2> HIDE DEF x, y
  <2>2. e = f /\ x = y
    BY <2>1 DEF Once
  <2> QED BY <2>2 DEF x, y
<1>12. Head(t[d]) \in Items(t)
  BY <1>2, <1>7
<1>13. ASSUME Head(t[d]).req \in Handles
       PROVE  Head(t[d]).req \in ReqsIn(t) /\ Head(t[d]).req \notin ReqsIn(u)
  <2>1. Head(t[d]).req # Null
    BY <1>13, BoundsAssumption, NAssumption DEF Handles, Null
  <2>2. Head(t[d]).req \in ReqsIn(t)
    BY <1>12, <1>13 DEF ReqsIn
  <2>3. \A e \in Ranks : \A j \in 1 .. Len(u[e]) : u[e][j].req # Head(t[d]).req
    <3> SUFFICES ASSUME NEW e \in Ranks, NEW j \in 1 .. Len(u[e]),
                        u[e][j].req = Head(t[d]).req
                 PROVE  FALSE
      OBVIOUS
    <3> DEFINE x == j + B(e)
    <3>1. x \in 1 .. Len(t[e]) /\ u[e][j] = t[e][x] /\ 1 \in 1 .. Len(t[d])
      BY <1>2, <1>6
    <3> HIDE DEF x
    <3>2. e = d /\ x = 1
      BY <1>2, <2>1, <3>1 DEF Once
    <3> QED BY <3>2 DEF x
  <2>4. ASSUME NEW m \in Items(u)
        PROVE  m.req # Head(t[d]).req
    <3>1. PICK e \in Ranks : \E j \in 1 .. Len(u[e]) : m = u[e][j]
      BY DEF Items
    <3>2. PICK j \in 1 .. Len(u[e]) : m = u[e][j]
      BY <3>1
    <3> QED BY <2>3, <3>2
  <2> QED BY <2>2, <2>4 DEF ReqsIn
<1> QED BY <1>2, <1>9, <1>10, <1>11, <1>12, <1>13

LEMMA ClearedOnce ==
  ASSUME NEW S, NEW t, Table(t, S), NEW d \in Ranks, NEW i \in 1 .. Len(t[d]),
         NEW v \in S, v.req = Null,
         NEW u, Table(u, S), u[d] = [t[d] EXCEPT ![i] = v],
         \A e \in Ranks : e # d => u[e] = t[e], Once(t)
  PROVE  /\ Once(u)
         /\ \A q \in ReqsIn(u) : q \in ReqsIn(t)
         /\ \A m \in Items(u) : m \in Items(t) \/ m = v
         /\ t[d][i] \in S /\ t[d][i] \in Items(t)
         /\ t[d][i].req \in Handles =>
              t[d][i].req \in ReqsIn(t) /\ t[d][i].req \notin ReqsIn(u)
<1>1. t[d] \in Seq(S)
  BY DEF Table
<1> DEFINE c == [t[d] EXCEPT ![i] = v]
<1>2. /\ c \in Seq(S) /\ Len(t[d]) \in Nat /\ Len(c) = Len(t[d]) /\ t[d][i] \in S
      /\ \A j \in 1 .. Len(c) : c[j] = IF j = i THEN v ELSE t[d][j]
  BY <1>1, ExceptSeq, LenProperties, ElementOfSeq
<1>3. u[d] = c /\ \A e \in Ranks : e # d => u[e] = t[e]
  OBVIOUS
<1>4. \A e \in Ranks : u[e] \in Seq(S)
  BY DEF Table
<1> HIDE DEF c
<1>5. \A e \in Ranks : \A j \in 1 .. Len(u[e]) :
        j \in 1 .. Len(t[e]) /\ u[e][j] = IF e = d /\ j = i THEN v ELSE t[e][j]
  BY <1>2, <1>3
<1>6. \A m : m \in Items(t) <=> \E e \in Ranks : \E j \in 1 .. Len(t[e]) : m = t[e][j]
  BY DEF Items
<1>7. \A m : m \in Items(u) <=> \E e \in Ranks : \E j \in 1 .. Len(u[e]) : m = u[e][j]
  BY DEF Items
<1>8. \A m \in Items(u) : m \in Items(t) \/ m = v
  BY <1>5, <1>6, <1>7
<1>9. ASSUME NEW q \in ReqsIn(u)
      PROVE  q \in ReqsIn(t)
  <2>1. PICK m \in Items(u) : m.req = q
    BY DEF ReqsIn
  <2>2. q \in Handles /\ q # Null
    BY BoundsAssumption, NAssumption DEF ReqsIn, Handles, Null
  <2>3. m \in Items(t)
    BY <1>8, <2>1, <2>2
  <2> QED BY <2>1, <2>2, <2>3 DEF ReqsIn
<1>10. Once(u)
  <2>1. ASSUME NEW e \in Ranks, NEW f \in Ranks,
               NEW j \in 1 .. Len(u[e]), NEW k \in 1 .. Len(u[f]),
               u[e][j].req = u[f][k].req, u[e][j].req # Null
        PROVE  e = f /\ j = k
    <3>1. ~(e = d /\ j = i) /\ ~(f = d /\ k = i)
      BY <1>5, <2>1
    <3>2. u[e][j] = t[e][j] /\ u[f][k] = t[f][k]
      BY <1>5, <3>1
    <3> QED BY <1>5, <2>1, <3>2 DEF Once
  <2>2. \A e, f \in Ranks : \A j \in 1 .. Len(u[e]), k \in 1 .. Len(u[f]) :
          (u[e][j].req = u[f][k].req /\ u[e][j].req # Null) => e = f /\ j = k
    BY <2>1
  <2> QED BY <2>2, Zenon DEF Once
<1>11. t[d][i] \in Items(t)
  BY <1>6
<1>12. ASSUME t[d][i].req \in Handles
       PROVE  t[d][i].req \in ReqsIn(t) /\ t[d][i].req \notin ReqsIn(u)
  <2>1. t[d][i].req # Null
    BY <1>12, BoundsAssumption, NAssumption DEF Handles, Null
  <2>2. t[d][i].req \in ReqsIn(t)
    BY <1>11, <1>12 DEF ReqsIn
  <2>3. ASSUME NEW e \in Ranks, NEW j \in 1 .. Len(u[e]), u[e][j].req = t[d][i].req
        PROVE  FALSE
    <3>1. ~(e = d /\ j = i)
      BY <1>5, <2>1, <2>3
    <3>2. u[e][j] = t[e][j]
      BY <1>5, <3>1
    <3> QED BY <1>5, <2>1, <2>3, <3>1, <3>2 DEF Once
  <2>4. ASSUME NEW m \in Items(u)
        PROVE  m.req # t[d][i].req
    <3>1. PICK e \in Ranks : \E j \in 1 .. Len(u[e]) : m = u[e][j]
      BY DEF Items
    <3>2. PICK j \in 1 .. Len(u[e]) : m = u[e][j]
      BY <3>1
    <3> QED BY <2>3, <3>2
  <2> QED BY <2>2, <2>4 DEF ReqsIn
<1> QED BY <1>2, <1>8, <1>9, <1>10, <1>11, <1>12

-----------------------------------------------------------------------------
\* What a step leaves alone at a rank that does not take it; only messages
\* from that rank may be matched meanwhile.
Kept(q)   == /\ ncaches' = ncaches
             /\ pc'[q] = pc[q] /\ idx'[q] = idx[q] /\ pending'[q] = pending[q]
             /\ cache'[q] = cache[q]
Same(q)   == /\ Kept(q)
             /\ mem'[q] = mem[q] /\ info'[q] = info[q] /\ free'[q] = free[q]
             /\ done'[q] = done[q] /\ posted'[q] = posted[q]
             /\ stack'[q] = stack[q] /\ mode'[q] = mode[q]
NetLess(q) == /\ Once(net'[q])
              /\ \A h \in ReqsIn(net'[q]) : h \in ReqsIn(net[q])
              /\ \A m \in Items(net'[q]) : m \in Items(net[q])
Elsewhere(r) == \A q \in Ranks : q # r => Same(q) /\ NetLess(q)

LEMMA Frame ==
  ASSUME NEW q \in Ranks, RankInv(q), Same(q), NetLess(q)
  PROVE  RankInv(q)'
<1> USE DEF Same, Kept
<1>1. OwnInv(q)'
  <2>1. OwnInv(q)
    BY DEF RankInv
  <2> QED BY <2>1 DEF OwnInv, CacheDistinct, Accounted, Live, Open, BufOf, OrigOf, Buffers
<1>2. HeapInv(q)'
  <2>1. HeapInv(q)
    BY DEF RankInv
  <2> QED BY <2>1 DEF HeapInv, Transfers, Heap, Open
<1>3. CountInv(q)'
  <2>1. CountInv(q)
    BY DEF RankInv
  <2>2. Passed(q)' = Passed(q) /\ All(q)' = All(q) /\ Enough' = Enough
    BY Zenon DEF Passed, All, Enough, Peers
  <2> QED BY <2>1, <2>2 DEF CountInv, Live, Open, Peers
<1>4. PlaceInv(q)'
  <2>1. PlaceInv(q)
    BY DEF RankInv
  <2>2. \A h \in InUCX(q)' : h \in InUCX(q)
    BY DEF InUCX, NetLess
  <2>3. InStack(q)' = InStack(q)
    BY DEF InStack
  <2>4. (Open(q)' <=> Open(q)) /\ (Live(q)' <=> Live(q))
    BY DEF Open, Live
  <2>5. \A h \in ReqsIn(net'[q]) : h \in ReqsIn(net[q])
    BY DEF NetLess
  <2> QED BY <2>1, <2>2, <2>3, <2>4, <2>5 DEF PlaceInv, NetLess
<1>5. CarryInv(q)'
  <2>1. CarryInv(q)
    BY DEF RankInv
  <2>2. \A h \in Active(q)' : h \in Active(q)
    BY DEF Active, InUCX, Due, HandlerReady, NetLess
  <2>3. (Open(q)' <=> Open(q)) /\ Transfers(q)' = Transfers(q)
    BY DEF Open, Transfers
  <2> QED BY <2>1, <2>2, <2>3 DEF CarryInv, OrigOf, BufOf
<1>6. CleanInv(q)'
  BY DEF RankInv, CleanInv, OrigOf
<1>7. ReadInv(q)'
  <2>1. ReadInv(q)
    BY DEF RankInv
  <2>2. Open(q)' <=> Open(q)
    BY DEF Open
  <2>3. \A m \in Items(net'[q]) : m \in Items(net[q])
    BY DEF NetLess
  <2> QED BY <2>1, <2>2, <2>3 DEF ReadInv, BufOf
<1> QED BY <1>1, <1>2, <1>3, <1>4, <1>5, <1>6, <1>7 DEF RankInv

LEMMA NetSame ==
  ASSUME NEW q \in Ranks, RankInv(q), net'[q] = net[q]
  PROVE  NetLess(q)
BY DEF NetLess, RankInv, PlaceInv

-----------------------------------------------------------------------------
\* What the callbacks keep of the transfers.
LEMMA UserKept ==
  ASSUME NEW r \in Ranks, OwnInv(r), HeapInv(r), CountInv(r), Kept(r),
         \A p \in Transfers(r) :
           /\ OrigOf(r, p)' = OrigOf(r, p) /\ BufOf(r, p)' = BufOf(r, p)
           /\ p \notin free[r] => p \notin free'[r]
           /\ info[r][p].custom => info'[r][p].custom
  PROVE  OwnInv(r)' /\ HeapInv(r)' /\ CountInv(r)'
<1> USE DEF Kept
<1>1. (Open(r)' <=> Open(r)) /\ (Live(r)' <=> Live(r)) /\ Buffers' = Buffers
  BY DEF Open, Live, Buffers
<1>2. \A j \in 1 .. Len(pending[r]) : pending[r][j] \in Transfers(r)
  BY DEF Transfers
<1>3. \A j \in 1 .. Len(pending[r]) :
        /\ OrigOf(r, pending[r][j])' = OrigOf(r, pending[r][j])
        /\ BufOf(r, pending[r][j])' = BufOf(r, pending[r][j])
        /\ pending[r][j] \notin free[r] => pending[r][j] \notin free'[r]
  BY <1>2
<1>4. OwnInv(r)'
  <2>1. CacheDistinct(r)'
    BY DEF OwnInv, CacheDistinct
  <2>2. \A b \in Buffers : Accounted(r, b)'
    BY <1>1, <1>3 DEF OwnInv, Accounted, BufOf
  <2>3. ASSUME Live(r), NEW j \in 1 .. Len(pending[r])
        PROVE  /\ pending[r][j] \notin free'[r]
               /\ OrigOf(r, pending[r][j])' = pending[r][j]
               /\ BufOf(r, pending[r][j])' \in Buffers
               /\ \A k \in 1 .. Len(cache[r]) : cache[r][k] # BufOf(r, pending[r][j])'
               /\ \A k \in 1 .. Len(pending[r]) :
                    BufOf(r, pending[r][k])' = BufOf(r, pending[r][j])' => j = k
    BY <1>3, <2>3 DEF OwnInv
  <2>4. ASSUME ~ Live(r), NEW j \in 1 .. Len(pending[r])
        PROVE  BufOf(r, pending[r][j])' = Null
    BY <1>3, <2>4 DEF OwnInv
  <2> QED BY <1>1, <2>1, <2>2, <2>3, <2>4 DEF OwnInv, BufOf, OrigOf
<1>5. HeapInv(r)'
  <2>1. Transfers(r)' = Transfers(r)
    BY DEF Transfers
  <2>2. pc'[r] = "send" => \A h \in Transfers(r) : h <= MaxReq \/ h < Heap(idx[r])'
    BY DEF HeapInv, Heap
  <2>3. Open(r)' => \A p \in Transfers(r) : p \in Requests \/ info'[r][p].custom
    BY <1>1 DEF HeapInv
  <2> QED BY <2>1, <2>2, <2>3 DEF HeapInv
<1>6. CountInv(r)'
  <2>1. Passed(r)' = Passed(r) /\ All(r)' = All(r) /\ Enough' = Enough
    BY Zenon DEF Passed, All, Enough, Peers
  <2> QED BY <1>1, <2>1 DEF CountInv, Peers
<1> QED BY <1>4, <1>5, <1>6

\* Two handles that carry transfers have different buffers, none in the cache.
LEMMA BufsApart ==
  ASSUME NEW r \in Ranks, Open(r), OwnInv(r), CarryInv(r), NEW a \in Active(r)
  PROVE  /\ BufOf(r, a) \in Buffers /\ OrigOf(r, a) \in Transfers(r)
         /\ \A k \in 1 .. Len(cache[r]) : cache[r][k] # BufOf(r, a)
         /\ \A b \in Active(r) : BufOf(r, a) = BufOf(r, b) => a = b
<1>1. \A b \in Active(r) :
        /\ OrigOf(r, b) \in Transfers(r) /\ BufOf(r, b) = BufOf(r, OrigOf(r, b))
        /\ OrigOf(r, a) = OrigOf(r, b) => a = b
  BY DEF CarryInv
<1>2. \A p \in Transfers(r) : \E j \in 1 .. Len(pending[r]) : p = pending[r][j]
  BY DEF Transfers
<1>3. Live(r)
  BY DEF Live
<1>4. \A p \in Transfers(r) :
        /\ BufOf(r, p) \in Buffers
        /\ \A k \in 1 .. Len(cache[r]) : cache[r][k] # BufOf(r, p)
        /\ \A q \in Transfers(r) : BufOf(r, p) = BufOf(r, q) => p = q
  BY <1>2, <1>3 DEF OwnInv
<1> QED BY <1>1, <1>4

\* A callback passes its transfer to one new handle, or completes it.
LEMMA TokenMoved ==
  ASSUME NEW r \in Ranks, Open(r), CarryInv(r), OwnInv(r), pending'[r] = pending[r],
         NEW h \in Active(r), NEW M,
         \A a, b \in M : a = b,
         \A a \in Active(r)' : (a \in Active(r) /\ a # h) \/ a \in M,
         \A a \in Active(r) : a # h /\ a \notin M =>
           OrigOf(r, a)' = OrigOf(r, a) /\ BufOf(r, a)' = BufOf(r, a),
         \A a \in M : OrigOf(r, a)' = OrigOf(r, h) /\ BufOf(r, a)' = BufOf(r, h),
         \A p \in Transfers(r) :
           /\ BufOf(r, p)' = BufOf(r, p)
           /\ info'[r][p].completed =>
                info[r][p].completed \/ (M = {} /\ p = OrigOf(r, h))
  PROVE  CarryInv(r)'
<1> DEFINE old(a) == IF a \in M THEN h ELSE a
<1>1. \A a \in Active(r)' :
        /\ old(a) \in Active(r)
        /\ OrigOf(r, a)' = OrigOf(r, old(a)) /\ BufOf(r, a)' = BufOf(r, old(a))
  OBVIOUS
<1>2. Transfers(r)' = Transfers(r)
  BY DEF Transfers
<1>3. \A a \in Active(r) :
        /\ OrigOf(r, a) \in Transfers(r) /\ ~ info[r][OrigOf(r, a)].completed
        /\ BufOf(r, a) = BufOf(r, OrigOf(r, a))
  BY DEF CarryInv
<1>4. \A a, b \in Active(r) : OrigOf(r, a) = OrigOf(r, b) => a = b
  BY DEF CarryInv
<1>5. ASSUME NEW a \in Active(r)'
      PROVE  /\ OrigOf(r, a)' \in Transfers(r)
             /\ ~ info'[r][OrigOf(r, a)'].completed
             /\ BufOf(r, a)' = info'[r][OrigOf(r, a)'].buf
  <2>1. M = {} => old(a) # h
    OBVIOUS
  <2> QED BY <1>1, <1>3, <1>4, <2>1 DEF BufOf
<1>6. ASSUME NEW a \in Active(r)', NEW b \in Active(r)', OrigOf(r, a)' = OrigOf(r, b)'
      PROVE  a = b
  <2>1. old(a) = old(b)
    BY <1>1, <1>4, <1>6
  <2> QED BY <2>1
<1> QED BY <1>2, <1>5, <1>6 DEF CarryInv, BufOf, OrigOf

\* What UCX reads from or writes to is what it was, or the new buffer.
LEMMA ReadKept ==
  ASSUME NEW r \in Ranks, Open(r), ReadInv(r), NEW K,
         \A a \in K : /\ BufOf(r, a)' = BufOf(r, a)
                      /\ mem'[r][BufOf(r, a)] = mem[r][BufOf(r, a)],
         \A m \in Items(net'[r]) : m.ref # Null =>
           \/ m \in Items(net[r]) /\ m.req \in K
           \/ m.req \in Handles /\ m.ref = BufOf(r, m.req)' /\ mem'[r][m.ref] = m.val,
         \A p \in Items(posted'[r]) : p.dst # Null =>
           \/ p \in Items(posted[r]) /\ p.req \in K
           \/ p.dst = BufOf(r, p.req)'
  PROVE  ReadInv(r)'
<1>1. \A m \in Items(net[r]) : m.ref # Null =>
        m.req \in Handles /\ mem[r][m.ref] = m.val /\ m.ref = BufOf(r, m.req)
  BY DEF ReadInv
<1>2. \A p \in Items(posted[r]) : p.dst # Null => p.dst = BufOf(r, p.req)
  BY DEF ReadInv
<1>3. \A m \in Items(net'[r]) : m.ref # Null =>
        m.req \in Handles /\ mem'[r][m.ref] = m.val /\ m.ref = BufOf(r, m.req)'
  BY <1>1
<1>4. \A p \in Items(posted'[r]) : p.dst # Null => p.dst = BufOf(r, p.req)'
  BY <1>2
<1> QED BY <1>3, <1>4 DEF ReadInv, BufOf

-----------------------------------------------------------------------------
\* Handles that are filled in, marked and released.
LEMMA ResetInfo ==
  ASSUME ncaches \in Nat, NEW i \in Info
  PROVE  /\ Reset(i) \in Info /\ WaitReset(i) \in Info /\ InitInfo \in Info
         /\ ~ Reset(i).completed /\ ~ Reset(i).custom /\ Reset(i).orig = Null
         /\ ~ WaitReset(i).completed /\ WaitReset(i).orig = Null /\ WaitReset(i).buf = Null
         /\ WaitReset(i).custom = i.custom
         /\ ~ InitInfo.completed /\ ~ InitInfo.custom /\ InitInfo.orig = Null
         /\ InitInfo.buf = Null
<1>1. 0 \in Ranks /\ 0 \in 0 .. ncaches
  BY NAssumption DEF Ranks
<1>2. PICK z \in Int : z = 0 /\ Null = z /\ z \in Ranks /\ z \in 0 .. ncaches
  BY <1>1 DEF Null
<1>3. PICK f \in BOOLEAN : f = FALSE
  OBVIOUS
<1>4. ASSUME NEW k, k = [i EXCEPT !.completed = f, !.orig = z, !.custom = f]
      PROVE  k \in Info /\ k.completed = f /\ k.custom = f /\ k.orig = z
  BY <1>4 DEF Info
<1>5. ASSUME NEW k, k = [i EXCEPT !.completed = f, !.orig = z]
      PROVE  k \in Info /\ k.completed = f /\ k.custom = i.custom /\ k.orig = z
  BY <1>5 DEF Info
<1> DEFINE a == [i EXCEPT !.completed = f, !.orig = z, !.custom = f]
           b == [i EXCEPT !.completed = f, !.orig = z]
<1>6. Reset(i) = Dead(a) /\ WaitReset(i) = Dead(b)
  BY <1>2, <1>3, Zenon DEF Reset, WaitReset
<1>7. ASSUME NEW j \in Info
      PROVE  /\ Dead(j) \in Info /\ Dead(j).buf = z /\ Dead(j).orig = j.orig
             /\ Dead(j).completed = j.completed /\ Dead(j).custom = j.custom
  <2>1. Dead(j) = [j EXCEPT !.buf = z, !.count = z, !.peer = z, !.ibatch = z]
    BY <1>2, Zenon DEF Dead
  <2> QED BY <1>2, <2>1 DEF Info
<1>8. /\ InitInfo \in Info /\ ~ InitInfo.completed /\ ~ InitInfo.custom
      /\ InitInfo.orig = Null /\ InitInfo.buf = Null
  BY <1>1 DEF InitInfo, Info, Null
<1>9. /\ a \in Info /\ a.completed = f /\ a.custom = f /\ a.orig = z
      /\ b \in Info /\ b.completed = f /\ b.custom = i.custom /\ b.orig = z
  BY <1>4, <1>5, Zenon
<1> HIDE DEF a, b
<1> QED BY <1>2, <1>3, <1>4, <1>6, <1>8, <1>7, <1>9

LEMMA Release ==
  ASSUME ncaches \in Nat, NEW t \in [Handles -> Info], NEW h \in Handles,
         NEW u, u = FreeInternal(t, h)
  PROVE  /\ u \in [Handles -> Info]
         /\ \A g \in Handles : (g # h \/ t[h].orig = h) => u[g] = t[g]
         /\ t[h].orig # h =>
              ~ u[h].completed /\ ~ u[h].custom /\ u[h].orig = Null /\ Freed(t, h) = {h}
         /\ t[h].orig = h => Freed(t, h) = {}
<1>1. CASE t[h].orig = h
  BY <1>1 DEF FreeInternal, Freed
<1>2. CASE t[h].orig # h
  <2>1. u = [t EXCEPT ![h] = Reset(t[h])] /\ Freed(t, h) = {h}
    BY <1>2 DEF FreeInternal, Freed
  <2>2. Reset(t[h]) \in Info /\ ~ Reset(t[h]).completed /\ ~ Reset(t[h]).custom
        /\ Reset(t[h]).orig = Null
    BY ResetInfo
  <2> QED BY <1>2, <2>1, <2>2
<1> QED BY <1>1, <1>2

LEMMA ItemsTyped ==
  ASSUME NEW r \in Ranks, TypeInv
  PROVE  /\ \A m \in Items(net[r]) : m \in Message
         /\ \A p \in Items(posted[r]) : p \in Receive
<1>1. ASSUME NEW S, NEW t \in [Ranks -> Seq(S)], NEW m \in Items(t)
      PROVE  m \in S
  <2>1. PICK d \in Ranks : \E j \in 1 .. Len(t[d]) : m = t[d][j]
    BY DEF Items
  <2>2. PICK j \in 1 .. Len(t[d]) : m = t[d][j]
    BY <2>1
  <2>3. t[d] \in Seq(S)
    OBVIOUS
  <2> QED BY <2>2, <2>3, ElementOfSeq
<1>2. net[r] \in [Ranks -> Seq(Message)] /\ posted[r] \in [Ranks -> Seq(Receive)]
  BY DEF TypeInv
<1> QED BY <1>1, <1>2

LEMMA StackPop ==
  ASSUME NEW s \in Seq(Handles), s # << >>, NEW u, u = Tail(s),
         \A j, k \in 1 .. Len(s) : s[j] = s[k] => j = k
  PROVE  /\ u \in Seq(Handles)
         /\ \A j, k \in 1 .. Len(u) : u[j] = u[k] => j = k
         /\ \A j \in 1 .. Len(u) : u[j] # s[1] /\ \E k \in 1 .. Len(s) : u[j] = s[k]
         /\ Head(s) = s[1] /\ s[1] \in Handles /\ 1 \in 1 .. Len(s)
<1>1. /\ Len(s) \in Nat /\ Len(s) >= 1 /\ u \in Seq(Handles) /\ Len(u) = Len(s) - 1
      /\ \A j \in 1 .. Len(u) : u[j] = s[j + 1]
      /\ Head(s) = s[1] /\ s[1] \in Handles
  BY HeadTailProperties, EmptySeq, LenProperties
<1>2. \A j \in 1 .. Len(u) : j + 1 \in 1 .. Len(s) /\ j + 1 # 1
  BY <1>1
<1>3. 1 \in 1 .. Len(s)
  BY <1>1
<1>4. \A j, k \in 1 .. Len(u) : u[j] = u[k] => j = k
  <2> SUFFICES ASSUME NEW j \in 1 .. Len(u), NEW k \in 1 .. Len(u), u[j] = u[k]
               PROVE  j = k
    OBVIOUS
  <2>1. j + 1 = k + 1
    BY <1>1, <1>2
  <2> QED BY <2>1
<1>5. \A j \in 1 .. Len(u) : u[j] # s[1] /\ \E k \in 1 .. Len(s) : u[j] = s[k]
  BY <1>1, <1>2, <1>3
<1> QED BY <1>1, <1>3, <1>4, <1>5

\* What an activation of recv_handler knows.
LEMMA Innermost ==
  ASSUME NEW r \in Ranks, TypeInv, RankInv(r), stack[r] # << >>
  PROVE  /\ Head(stack[r]) = stack[r][1] /\ stack[r][1] \in Handles
         /\ stack[r][1] \in InStack(r) /\ stack[r][1] \notin InUCX(r)
         /\ stack[r][1] \notin free[r]
         /\ Open(r) /\ Live(r)
         /\ stack[r] \in Seq(Handles) /\ Len(stack[r]) \in Nat /\ 1 \in 1 .. Len(stack[r])
<1>1. stack[r] \in Seq(Handles)
  BY DEF TypeInv
<1>2. \A j, k \in 1 .. Len(stack[r]) : stack[r][j] = stack[r][k] => j = k
  BY DEF RankInv, PlaceInv
<1>3. /\ Head(stack[r]) = stack[r][1] /\ stack[r][1] \in Handles
      /\ 1 \in 1 .. Len(stack[r])
  BY <1>1, <1>2, StackPop
<1>4. stack[r][1] \in InStack(r)
  BY <1>3 DEF InStack
<1>5. Open(r)
  BY DEF RankInv, PlaceInv, Open
<1>6. stack[r][1] \notin InUCX(r) /\ stack[r][1] \notin free[r]
  BY <1>4, <1>5 DEF RankInv, PlaceInv
<1> QED BY <1>1, <1>3, <1>4, <1>5, <1>6, LenProperties DEF Live

-----------------------------------------------------------------------------
\* An activation of recv_handler returns.
LEMMA ReturnRank ==
  ASSUME NEW r \in Ranks, TypeInv, RankInv(r), RecvHandlerReturn(r)
  PROVE  RankInv(r)'
<1> DEFINE h == stack[r][1]
<1>1. /\ stack[r] # << >> /\ mode[r] = "return"
      /\ info' = [info EXCEPT ![r] = FreeInternal(info[r], h)]
      /\ free' = [free EXCEPT ![r] = free[r] \cup Freed(info[r], h)]
      /\ stack' = [stack EXCEPT ![r] = Tail(stack[r])]
      /\ UNCHANGED <<ncaches, pc, idx, pending, cache, mem, done, posted, net, mode>>
  BY Innermost DEF RecvHandlerReturn, loop
<1>2. /\ h \in Handles /\ h \in InStack(r) /\ h \notin InUCX(r) /\ h \notin free[r]
      /\ Open(r) /\ Live(r)
  BY <1>1, Innermost
<1>3. /\ OwnInv(r) /\ HeapInv(r) /\ CountInv(r)
      /\ PlaceInv(r) /\ CarryInv(r) /\ CleanInv(r) /\ ReadInv(r)
  BY DEF RankInv
<1>4. /\ stack[r] \in Seq(Handles) /\ info[r] \in [Handles -> Info] /\ ncaches \in Nat
      /\ info \in [Ranks -> [Handles -> Info]] /\ free \in [Ranks -> SUBSET Requests]
      /\ stack \in [Ranks -> Seq(Handles)] /\ pending[r] \in Seq(Handles)
      /\ InUCX(r) \subseteq Handles
  BY DEF TypeInv, InUCX, ReqsIn
<1> HIDE DEF h
<1>5. info'[r] = FreeInternal(info[r], h) /\ stack'[r] = Tail(stack[r])
      /\ free'[r] = free[r] \cup Freed(info[r], h)
  BY <1>1, <1>4
<1>6. /\ \A g \in Handles : (g # h \/ info[r][h].orig = h) => info'[r][g] = info[r][g]
      /\ info[r][h].orig # h =>
           /\ ~ info'[r][h].completed /\ ~ info'[r][h].custom /\ info'[r][h].orig = Null
           /\ free'[r] = free[r] \cup {h}
      /\ info[r][h].orig = h => free'[r] = free[r]
  <2> DEFINE t == info[r]
             u == info'[r]
  <2>1. t \in [Handles -> Info] /\ u = FreeInternal(t, h) /\ free'[r] = free[r] \cup Freed(t, h)
    BY <1>4, <1>5
  <2> HIDE DEF t, u
  <2>2. /\ \A g \in Handles : (g # h \/ t[h].orig = h) => u[g] = t[g]
        /\ t[h].orig # h =>
             ~ u[h].completed /\ ~ u[h].custom /\ u[h].orig = Null /\ Freed(t, h) = {h}
        /\ t[h].orig = h => Freed(t, h) = {}
    <3>1. h \in Handles /\ ncaches \in Nat
      BY <1>2, <1>4
    <3> QED BY <2>1, <3>1, Release
  <2> QED BY <2>1, <2>2 DEF t, u
<1>7. \A p \in Transfers(r) : p \in Handles /\ p \notin free[r] /\ info[r][p].orig = p
  BY <1>2, <1>3, <1>4, ElementOfSeq DEF Transfers, OwnInv, OrigOf
<1>8. /\ \A j, k \in 1 .. Len(stack'[r]) : stack'[r][j] = stack'[r][k] => j = k
      /\ \A g \in InStack(r)' : g # h /\ g \in InStack(r)
  <2>1. \A j, k \in 1 .. Len(stack[r]) : stack[r][j] = stack[r][k] => j = k
    BY <1>3 DEF PlaceInv
  <2> DEFINE x == stack[r]
             y == stack'[r]
  <2>2. x \in Seq(Handles) /\ x # << >> /\ y = Tail(x) /\ h = x[1]
    BY <1>1, <1>4, <1>5 DEF h
  <2>3. InStack(r) = {x[j] : j \in 1 .. Len(x)} /\ InStack(r)' = {y[j] : j \in 1 .. Len(y)}
    BY DEF InStack
  <2>4. \A j, k \in 1 .. Len(x) : x[j] = x[k] => j = k
    BY <2>1
  <2> HIDE DEF x, y
  <2>5. /\ \A j, k \in 1 .. Len(y) : y[j] = y[k] => j = k
        /\ \A j \in 1 .. Len(y) : y[j] # x[1] /\ \E k \in 1 .. Len(x) : y[j] = x[k]
    BY <2>2, <2>4, StackPop
  <2>6. \A g \in InStack(r)' : g # h /\ g \in InStack(r)
    BY <2>2, <2>3, <2>5
  <2> QED BY <2>5, <2>6 DEF y
<1>9. InUCX(r)' = InUCX(r) /\ Active(r)' = InUCX(r) /\ Active(r) = InUCX(r)
  BY <1>1 DEF InUCX, Active, Due, HandlerReady
<1>10. \A a \in InUCX(r) : a \in Handles /\ info'[r][a] = info[r][a]
  BY <1>2, <1>4, <1>6
<1>11. OwnInv(r)' /\ HeapInv(r)' /\ CountInv(r)'
  <2>1. \A p \in Transfers(r) :
           /\ OrigOf(r, p)' = OrigOf(r, p) /\ BufOf(r, p)' = BufOf(r, p)
           /\ p \notin free[r] => p \notin free'[r]
           /\ info[r][p].custom => info'[r][p].custom
    BY <1>6, <1>7 DEF OrigOf, BufOf
  <2> QED BY <1>1, <1>3, <2>1, UserKept DEF Kept
<1>12. PlaceInv(r)'
  <2>1. (Open(r)' <=> Open(r)) /\ (Live(r)' <=> Live(r))
    BY <1>1 DEF Open, Live
  <2>2. stack'[r] # << >> => pc'[r] \in {"recv", "stop"}
    BY <1>1, <1>3 DEF PlaceInv
  <2>3. \A g \in free'[r] : g \in free[r] \/ g = h
    BY <1>6
  <2>4. \A g \in InUCX(r) \cup InStack(r) : g \notin free[r]
    BY <1>2, <1>3 DEF PlaceInv
  <2>5. (InUCX(r)' \cup InStack(r)') \cap free'[r] = {} /\ InUCX(r)' \cap InStack(r)' = {}
    BY <1>2, <1>3, <1>8, <1>9, <2>3, <2>4 DEF PlaceInv
  <2> QED BY <1>1, <1>2, <1>3, <1>8, <1>9, <2>1, <2>2, <2>5 DEF PlaceInv
<1>13. CarryInv(r)'
  <2>1. \A p \in Transfers(r) : info'[r][p] = info[r][p]
    BY <1>6, <1>7
  <2>2. Transfers(r)' = Transfers(r)
    BY <1>1 DEF Transfers
  <2> QED BY <1>2, <1>3, <1>9, <1>10, <2>1, <2>2 DEF CarryInv, OrigOf, BufOf
<1>14. CleanInv(r)'
  <2>1. \A g \in free[r] : g \in Handles
    BY <1>4, BoundsAssumption, NAssumption DEF Requests, Handles
  <2>2. \A g \in free'[r] : g \in free[r] \/ (g = h /\ info[r][h].orig # h)
    BY <1>6
  <2>3. \A g \in free[r] : g # h
    BY <1>2
  <2>4. \A g \in free'[r] :
          ~ info'[r][g].completed /\ ~ info'[r][g].custom /\ info'[r][g].orig = Null
    BY <1>3, <1>6, <2>1, <2>2, <2>3 DEF CleanInv, OrigOf
  <2> QED BY <2>4 DEF CleanInv, OrigOf
<1>15. ReadInv(r)'
  <2>1. \A m \in Items(net[r]) : m.ref # Null => m.req \in InUCX(r)
    BY <1>3 DEF ReadInv, InUCX, ReqsIn
  <2>2. \A p \in Items(posted[r]) : p.req \in InUCX(r)
    <3>1. \A p \in Items(posted[r]) : p.req \in Handles
      BY ItemsTyped DEF Receive
    <3> QED BY <3>1 DEF InUCX, ReqsIn
  <2>3. \A a \in InUCX(r) : BufOf(r, a)' = BufOf(r, a) /\ mem'[r][BufOf(r, a)] = mem[r][BufOf(r, a)]
    BY <1>1, <1>10 DEF BufOf
  <2> QED BY <1>1, <1>2, <1>3, <2>1, <2>2, <2>3, ReadKept
<1> QED BY <1>11, <1>12, <1>13, <1>14, <1>15 DEF RankInv

\* What holds at a rank between start() and the end of stop().
LEMMA OpenFacts ==
  ASSUME NEW r \in Ranks, TypeInv, RankInv(r), Open(r)
  PROVE  /\ Live(r)
         /\ \A p \in Transfers(r) : p \in Handles /\ p \notin free[r] /\ OrigOf(r, p) = p
         /\ \A a \in Active(r) : a \in Handles /\ a \notin free[r]
         /\ \A q \in free[r] :
              /\ q \in Handles /\ q <= MaxReq /\ q # Null /\ q \notin Transfers(r)
              /\ ~ info[r][q].completed /\ ~ info[r][q].custom /\ info[r][q].orig = Null
              /\ q \notin InUCX(r) /\ q \notin InStack(r)
         /\ \A m \in Items(net[r]) : m.ref # Null => m.req \in ReqsIn(net[r])
         /\ \A p \in Items(posted[r]) : p.req \in ReqsIn(posted[r])
<1>1. /\ OwnInv(r) /\ PlaceInv(r) /\ CarryInv(r) /\ CleanInv(r) /\ ReadInv(r)
  BY DEF RankInv
<1>2. Live(r)
  BY DEF Live
<1>3. /\ pending[r] \in Seq(Handles) /\ free[r] \in SUBSET Requests
      /\ stack[r] \in Seq(Handles) /\ done[r] \in SUBSET Handles
  BY DEF TypeInv
<1>4. \A p \in Transfers(r) : p \in Handles /\ p \notin free[r] /\ OrigOf(r, p) = p
  BY <1>1, <1>2, <1>3, ElementOfSeq DEF Transfers, OwnInv
<1>5. \A q \in free[r] : q \in Handles /\ q <= MaxReq /\ q # Null
  BY <1>3, BoundsAssumption, NAssumption DEF Requests, Handles, Null
<1>6. \A q \in free[r] : q \notin InUCX(r) /\ q \notin InStack(r)
  BY <1>1 DEF PlaceInv
<1>7. \A a \in InUCX(r) : a \in Handles /\ a \notin free[r]
  BY <1>3, <1>6 DEF InUCX, ReqsIn
<1>8. \A a \in Due(r) : a \in Handles /\ a \notin free[r]
  BY Innermost DEF Due, HandlerReady
<1>9. \A m \in Items(net[r]) : m.ref # Null => m.req \in ReqsIn(net[r])
  BY <1>1 DEF ReadInv, ReqsIn
<1>10. \A p \in Items(posted[r]) : p.req \in ReqsIn(posted[r])
  BY ItemsTyped DEF Receive, ReqsIn
<1>11. \A q \in free[r] :
         ~ info[r][q].completed /\ ~ info[r][q].custom /\ info[r][q].orig = Null
  BY <1>1 DEF CleanInv, OrigOf
<1> QED BY <1>2, <1>4, <1>5, <1>6, <1>7, <1>8, <1>9, <1>10, <1>11 DEF Active

LEMMA NewRequestFree ==
  ASSUME NEW r \in Ranks, free[r] \in SUBSET Requests, free[r] # {}
  PROVE  NewRequest(r) \in free[r]
<1>1. PICK q \in free[r] : \A p \in free[r] : ~ (<<p, q>> \in OpToRel(<, Nat))
  <2>1. free[r] \subseteq Nat
    BY DEF Requests
  <2> QED BY <2>1, NatLessThanWellFounded, WFMin
<1>2. ASSUME NEW p \in free[r]
      PROVE  q <= p
  <2>1. p \in Nat /\ q \in Nat
    BY DEF Requests
  <2>2. ~ (p < q)
    BY <1>1, <2>1, Zenon DEF OpToRel
  <2> QED BY <2>1, <2>2
<1>3. \E x \in free[r] : \A p \in free[r] : x <= p
  BY <1>2
<1> QED BY <1>3, Zenon DEF NewRequest

\* The last activation: the transfer is complete.
LEMMA LastRank ==
  ASSUME NEW r \in Ranks, TypeInv, RankInv(r), RecvHandlerLast(r)
  PROVE  RankInv(r)'
<1> DEFINE h == stack[r][1]
           o == info[r][h].orig
<1>1. /\ stack[r] # << >> /\ mode[r] = "call"
      /\ info' = [info EXCEPT ![r][o].completed = TRUE]
      /\ mode' = [mode EXCEPT ![r] = "return"]
      /\ UNCHANGED <<ncaches, pc, idx, pending, cache, mem, free, done, posted, net, stack>>
  BY Innermost DEF RecvHandlerLast, loop, HandlerReady
<1>2. /\ h \in Handles /\ h \in InStack(r) /\ h \notin InUCX(r) /\ h \notin free[r]
      /\ Open(r)
  BY <1>1, Innermost
<1>3. /\ OwnInv(r) /\ HeapInv(r) /\ CountInv(r)
      /\ PlaceInv(r) /\ CarryInv(r) /\ CleanInv(r) /\ ReadInv(r)
  BY DEF RankInv
<1>4. /\ info \in [Ranks -> [Handles -> Info]] /\ mode \in [Ranks -> {"call", "return"}]
  BY DEF TypeInv
<1>5. h \in Active(r) /\ o \in Transfers(r) /\ o = OrigOf(r, h)
  <2>1. h \in Active(r)
    BY <1>1 DEF Active, Due, HandlerReady
  <2> QED BY <1>2, <1>3, <2>1 DEF CarryInv, OrigOf
<1> HIDE DEF h, o
<1>6. o \in Handles /\ o \notin free[r]
  BY <1>2, <1>5, OpenFacts
<1>7. \A g \in Handles :
        /\ info'[r][g].orig = info[r][g].orig /\ info'[r][g].buf = info[r][g].buf
        /\ info'[r][g].custom = info[r][g].custom
        /\ g # o => info'[r][g] = info[r][g]
  <2>1. info'[r] = [info[r] EXCEPT ![o].completed = TRUE]
    BY <1>1, <1>4, Zenon
  <2>2. info[r] \in [Handles -> Info]
    BY <1>4
  <2> QED BY <1>6, <2>1, <2>2 DEF Info
<1>8. InUCX(r)' = InUCX(r) /\ Active(r)' = InUCX(r) /\ InStack(r)' = InStack(r)
  <2>1. Due(r)' = {}
    BY <1>1, <1>4 DEF Due, HandlerReady
  <2>2. InUCX(r)' = InUCX(r) /\ InStack(r)' = InStack(r)
    BY <1>1 DEF InUCX, InStack
  <2> QED BY <2>1, <2>2 DEF Active
<1>9. OwnInv(r)' /\ HeapInv(r)' /\ CountInv(r)'
  <2>1. \A p \in Transfers(r) :
           /\ OrigOf(r, p)' = OrigOf(r, p) /\ BufOf(r, p)' = BufOf(r, p)
           /\ p \notin free[r] => p \notin free'[r]
           /\ info[r][p].custom => info'[r][p].custom
    BY <1>1, <1>2, <1>7, OpenFacts DEF OrigOf, BufOf
  <2> QED BY <1>1, <1>3, <2>1, UserKept DEF Kept
<1>10. PlaceInv(r)'
  BY <1>1, <1>3, <1>8 DEF PlaceInv, Open, Live
<1>11. CarryInv(r)'
  <2>1. \A a \in Active(r) : a \in Handles
    BY <1>2, OpenFacts
  <2>2. \A p \in Transfers(r) : p \in Handles
    BY <1>2, OpenFacts
  <2>3. \A a \in Active(r)' : a \in Active(r) /\ a # h
    BY <1>2, <1>8 DEF Active
  <2> DEFINE M == {}
  <2>4. \A a \in Active(r) : a # h /\ a \notin M =>
           OrigOf(r, a)' = OrigOf(r, a) /\ BufOf(r, a)' = BufOf(r, a)
    BY <1>7, <2>1 DEF OrigOf, BufOf
  <2>5. \A p \in Transfers(r) :
           /\ BufOf(r, p)' = BufOf(r, p)
           /\ info'[r][p].completed =>
                info[r][p].completed \/ (M = {} /\ p = OrigOf(r, h))
    BY <1>5, <1>7, <2>2 DEF BufOf
  <2>6. (\A a, b \in M : a = b) /\ (\A a \in Active(r)' : (a \in Active(r) /\ a # h) \/ a \in M)
        /\ (\A a \in M : OrigOf(r, a)' = OrigOf(r, h) /\ BufOf(r, a)' = BufOf(r, h))
    BY <2>3
  <2>7. pending'[r] = pending[r]
    BY <1>1
  <2> HIDE DEF M
  <2> QED BY <1>2, <1>3, <1>5, <2>4, <2>5, <2>6, <2>7, TokenMoved
<1>12. CleanInv(r)'
  <2>1. \A q \in free[r] : q \in Handles /\ q # o
    BY <1>2, <1>6, OpenFacts
  <2> QED BY <1>1, <1>3, <1>7, <2>1 DEF CleanInv, OrigOf
<1>13. ReadInv(r)'
  <2>1. /\ \A m \in Items(net[r]) : m.ref # Null => m.req \in InUCX(r)
        /\ \A p \in Items(posted[r]) : p.req \in InUCX(r)
    BY <1>2, OpenFacts DEF InUCX
  <2>2. \A a \in InUCX(r) : a \in Handles
    BY <1>2, OpenFacts DEF Active
  <2>3. \A a \in InUCX(r) : BufOf(r, a)' = BufOf(r, a) /\ mem'[r][BufOf(r, a)] = mem[r][BufOf(r, a)]
    BY <1>1, <1>7, <2>2 DEF BufOf
  <2> QED BY <1>1, <1>2, <1>3, <2>1, <2>3, ReadKept
<1> QED BY <1>9, <1>10, <1>11, <1>12, <1>13 DEF RankInv


-----------------------------------------------------------------------------
\* The handle of the next batch takes over the transfer.
NextStep(r, h, q) ==
  /\ info' = [info EXCEPT ![r][h] = [info[r][h] EXCEPT !.ibatch = info[r][h].ibatch + 1],
                          ![r][q] = [info[r][h] EXCEPT !.ibatch = info[r][h].ibatch + 1]]
  /\ free' = [free EXCEPT ![r] = free[r] \ {q}]
  /\ UNCHANGED <<ncaches, pc, idx, pending, cache, done>>

NextEffect(r, h, q) ==
  /\ q \in free[r] /\ h \in Active(r) /\ h # q /\ h = stack[r][1] /\ Open(r)
  /\ h \notin InUCX(r) /\ h \in Handles /\ info[r][h].buf \in Buffers
  /\ \A g \in Handles : g # q =>
       /\ info'[r][g].orig = info[r][g].orig /\ info'[r][g].buf = info[r][g].buf
       /\ info'[r][g].completed = info[r][g].completed
  /\ info'[r][q].orig = info[r][h].orig /\ info'[r][q].buf = info[r][h].buf
  /\ \A g : g \in free'[r] => g \in free[r] /\ g # q
  /\ UNCHANGED <<ncaches, pc, idx, pending, cache, done>>
  /\ OwnInv(r)' /\ HeapInv(r)' /\ CountInv(r)' /\ CleanInv(r)'
  /\ info' \in [Ranks -> [Handles -> Info]] /\ free' \in [Ranks -> SUBSET Requests]

LEMMA NextFacts ==
  ASSUME NEW r \in Ranks, TypeInv, RankInv(r), HandlerReady(r), free[r] # {},
         NEW h, h = Head(stack[r]), NEW q, q = NewRequest(r), NextStep(r, h, q)
  PROVE  NextEffect(r, h, q)
<1> DEFINE i == [info[r][h] EXCEPT !.ibatch = info[r][h].ibatch + 1]
<1>1. /\ info' = [info EXCEPT ![r][h] = i, ![r][q] = i]
      /\ free' = [free EXCEPT ![r] = free[r] \ {q}]
      /\ UNCHANGED <<ncaches, pc, idx, pending, cache, done>>
  BY Zenon DEF NextStep
<1>2. /\ info \in [Ranks -> [Handles -> Info]] /\ free \in [Ranks -> SUBSET Requests]
  BY DEF TypeInv
<1>3. stack[r] # << >> /\ mode[r] = "call"
  BY DEF HandlerReady
<1>4. /\ h \in Handles /\ h \notin InUCX(r) /\ h \notin free[r] /\ Open(r) /\ h = stack[r][1]
  BY <1>3, Innermost
<1>5. h \in Active(r)
  BY <1>4 DEF Active, Due
<1>6. q \in free[r]
  BY <1>2, NewRequestFree
<1>7. /\ OwnInv(r) /\ HeapInv(r) /\ CountInv(r) /\ CarryInv(r) /\ CleanInv(r)
  BY DEF RankInv
<1>8. q \in Handles /\ h # q /\ q \notin Transfers(r)
  BY <1>4, <1>6, OpenFacts
<1>9. BufOf(r, h) \in Buffers
  BY <1>4, <1>5, <1>7, BufsApart
<1>10. /\ i \in Info /\ i.orig = info[r][h].orig /\ i.buf = info[r][h].buf
       /\ i.completed = info[r][h].completed /\ i.custom = info[r][h].custom
  <2>1. info[r][h] \in Info
    BY <1>2, <1>4
  <2> QED BY <2>1 DEF Info
<1> HIDE DEF i
<1>11. /\ info'[r][q] = i /\ info'[r][h] = i
       /\ \A g \in Handles : g # h /\ g # q => info'[r][g] = info[r][g]
       /\ info' \in [Ranks -> [Handles -> Info]]
  <2> DEFINE t == [[info[r] EXCEPT ![h] = i] EXCEPT ![q] = i]
  <2>1. info' = [info EXCEPT ![r] = t]
    BY <1>1, <1>2
  <2>2. info[r] \in [Handles -> Info]
    BY <1>2
  <2>3. /\ t \in [Handles -> Info] /\ t[q] = i /\ t[h] = i
        /\ \A g \in Handles : g # h /\ g # q => t[g] = info[r][g]
    BY <2>2, <1>4, <1>8, <1>10
  <2> HIDE DEF t
  <2> QED BY <1>2, <2>1, <2>3
<1>12. \A g \in Handles : g # q =>
         /\ info'[r][g].orig = info[r][g].orig /\ info'[r][g].buf = info[r][g].buf
         /\ info'[r][g].completed = info[r][g].completed
         /\ info'[r][g].custom = info[r][g].custom
  BY <1>10, <1>11
<1>13. /\ free'[r] = free[r] \ {q} /\ free' \in [Ranks -> SUBSET Requests]
  BY <1>1, <1>2
<1>14. OwnInv(r)' /\ HeapInv(r)' /\ CountInv(r)'
  <2>1. \A p \in Transfers(r) : p \in Handles /\ p # q
    BY <1>4, <1>8, OpenFacts
  <2>2. \A p \in Transfers(r) :
           /\ OrigOf(r, p)' = OrigOf(r, p) /\ BufOf(r, p)' = BufOf(r, p)
           /\ p \notin free[r] => p \notin free'[r]
           /\ info[r][p].custom => info'[r][p].custom
    BY <1>12, <1>13, <2>1 DEF OrigOf, BufOf
  <2> QED BY <1>1, <1>7, <2>2, UserKept DEF Kept
<1>15. CleanInv(r)'
  <2>1. \A g \in free[r] : g \in Handles /\ g # h
    BY <1>4, OpenFacts
  <2>2. \A g \in free'[r] : g \in free[r] /\ info'[r][g] = info[r][g]
    BY <1>11, <1>13, <2>1
  <2> QED BY <1>7, <2>2 DEF CleanInv, OrigOf
<1>16. \A g : g \in free'[r] => g \in free[r] /\ g # q
  BY <1>13
<1>17. info[r][h].buf \in Buffers
  BY <1>9 DEF BufOf
<1> QED BY <1>1, <1>4, <1>5, <1>6, <1>8, <1>10, <1>11, <1>12, <1>13, <1>14, <1>15, <1>16, <1>17
      DEF NextEffect

\* A message that has arrived is taken out of the network.
LEMMA MatchNet ==
  ASSUME TypeInv, NEW r \in Ranks, NEW s \in Ranks, Arrived(s, r),
         \A q \in Ranks : Once(net[q]),
         net' = [net EXCEPT ![s][r] = Tail(net[s][r])]
  PROVE  /\ net' \in [Ranks -> [Ranks -> Seq(Message)]]
         /\ \A q \in Ranks : NetLess(q)
         /\ Head(net[s][r]) \in Message
<1> DEFINE t == net[s]
           u == [t EXCEPT ![r] = Tail(t[r])]
<1>1. net \in [Ranks -> [Ranks -> Seq(Message)]]
  BY DEF TypeInv
<1>2. t \in [Ranks -> Seq(Message)] /\ t[r] # << >> /\ Once(t)
  BY <1>1 DEF Arrived
<1>3. net' = [net EXCEPT ![s] = u]
  BY <1>1
<1>4. u[r] = Tail(t[r]) /\ \A e \in Ranks : e # r => u[e] = t[e]
  BY <1>2
<1>5. Tail(t[r]) \in Seq(Message)
  BY <1>2, HeadTailProperties
<1>6. u \in [Ranks -> Seq(Message)]
  BY <1>2, <1>5
<1>7. t[r] # << >> /\ Once(t)
  BY <1>2
<1>8. Table(t, Message) /\ Table(u, Message)
  BY <1>2, <1>6 DEF Table
<1> HIDE DEF t, u
<1>9. /\ Once(u) /\ Head(t[r]) \in Message
      /\ \A q \in ReqsIn(u) : q \in ReqsIn(t)
      /\ \A m \in Items(u) : m \in Items(t)
  <2>1. Once(u) /\ Head(t[r]) \in Message
    BY <1>7, <1>4, <1>8, ShrunkOnce
  <2>2. \A q \in ReqsIn(u) : q \in ReqsIn(t)
    BY <1>7, <1>4, <1>8, ShrunkOnce
  <2>3. \A m \in Items(u) : m \in Items(t)
    BY <1>7, <1>4, <1>8, ShrunkOnce
  <2> QED BY <2>1, <2>2, <2>3
<1>10. net'[s] = u /\ \A q \in Ranks : q # s => net'[q] = net[q]
  BY <1>1, <1>3
<1>11. ASSUME NEW q \in Ranks
      PROVE  NetLess(q)
  <2>1. CASE q = s
    BY <1>9, <1>10, <2>1 DEF NetLess, t
  <2>2. CASE q # s
    BY <1>10, <2>2 DEF NetLess
  <2> QED BY <2>1, <2>2
<1>12. net' \in [Ranks -> [Ranks -> Seq(Message)]]
  BY <1>1, <1>3, <1>6
<1> QED BY <1>9, <1>11, <1>12 DEF t

LEMMA StackPush ==
  ASSUME NEW s \in Seq(Handles), NEW q \in Handles, \A j \in 1 .. Len(s) : s[j] # q,
         \A j, k \in 1 .. Len(s) : s[j] = s[k] => j = k,
         NEW u, u = <<q>> \o s
  PROVE  /\ u \in Seq(Handles) /\ u # << >> /\ u[1] = q
         /\ \A j, k \in 1 .. Len(u) : u[j] = u[k] => j = k
         /\ \A j \in 1 .. Len(u) : u[j] = q \/ \E k \in 1 .. Len(s) : u[j] = s[k]
<1> DEFINE w == <<q>>
<1>1. w \in Seq(Handles) /\ Len(w) = 1 /\ w[1] = q
  OBVIOUS
<1>2. u = w \o s
  OBVIOUS
<1> HIDE DEF w
<1>3. /\ u \in Seq(Handles) /\ Len(s) \in Nat /\ Len(u) = 1 + Len(s)
      /\ \A j \in 1 .. 1 + Len(s) : u[j] = IF j <= 1 THEN w[j] ELSE s[j - 1]
  BY <1>1, <1>2, ConcatProperties, LenProperties
<1>4. u[1] = q /\ \A j \in 1 .. Len(u) : j # 1 => j - 1 \in 1 .. Len(s) /\ u[j] = s[j - 1]
  BY <1>1, <1>3
<1>5. u # << >>
  BY <1>3, EmptySeq
<1>6. ASSUME NEW j \in 1 .. Len(u), NEW k \in 1 .. Len(u), u[j] = u[k]
      PROVE  j = k
  <2>1. CASE j = 1 \/ k = 1
    BY <1>4, <1>6, <2>1
  <2>2. CASE j # 1 /\ k # 1
    <3>1. j - 1 = k - 1
      BY <1>4, <1>6, <2>2
    <3> QED BY <3>1
  <2> QED BY <2>1, <2>2
<1> QED BY <1>3, <1>4, <1>5, <1>6

\* The next batch had arrived: a nested activation.
LEMMA NowRank ==
  ASSUME NEW r \in Ranks, TypeInv, \A p \in Ranks : RankInv(p), RecvHandlerNow(r)
  PROVE  RankInv(r)' /\ Elsewhere(r)
<1> DEFINE h == Head(stack[r])
           q == NewRequest(r)
           s == info[r][h].peer
           b == info[r][h].buf
           v == Landing(Head(net[s][r]), BatchLen(Count(r, info[r][h]), info[r][h].ibatch))
           called == Mark(info[r][q]).orig # Null
<1>1. /\ HandlerReady(r) /\ free[r] # {} /\ Arrived(s, r)
      /\ Land(r, s, b, v)
      /\ net' = [net EXCEPT ![s][r] = Tail(net[s][r])]
      /\ posted' = posted
      /\ NextStep(r, h, q)
      /\ stack' = [stack EXCEPT ![r] = IF called THEN <<q>> \o stack[r] ELSE stack[r]]
      /\ mode' = [mode EXCEPT ![r] = IF called THEN "call" ELSE "return"]
  BY Zenon DEF RecvHandlerNow, RecvNbEarly, RecvHandlerNext, NextStep, loop
<1>2. RankInv(r)
  OBVIOUS
<1>3. h = Head(stack[r]) /\ q = NewRequest(r)
  OBVIOUS
<1> HIDE DEF h, q, v, called
<1>4. NextEffect(r, h, q)
  BY <1>1, <1>2, <1>3, NextFacts
<1>5. called
  <2>1. q \in Handles /\ info[r][q].orig = Null
    BY <1>2, <1>4, OpenFacts DEF NextEffect
  <2>2. info[r][q] \in Info
    BY <2>1 DEF TypeInv
  <2>3. Mark(info[r][q]).orig = Marked
    BY <2>1, <2>2 DEF Mark, Info
  <2> QED BY <2>3 DEF called, Marked, Null
<1>6. stack'[r] = <<q>> \o stack[r] /\ mode'[r] = "call"
  <2>1. stack \in [Ranks -> Seq(Handles)] /\ mode \in [Ranks -> {"call", "return"}]
    BY DEF TypeInv
  <2> QED BY <1>1, <1>5, <2>1
<1>7. /\ q \in free[r] /\ h \in Active(r) /\ h # q /\ Open(r)
      /\ h \notin InUCX(r) /\ h \in Handles /\ b \in Buffers
      /\ UNCHANGED <<ncaches, pc, idx, pending, cache, done>>
      /\ OwnInv(r)' /\ HeapInv(r)' /\ CountInv(r)' /\ CleanInv(r)'
      /\ \A g \in Handles : g # q =>
           /\ info'[r][g].orig = info[r][g].orig /\ info'[r][g].buf = info[r][g].buf
           /\ info'[r][g].completed = info[r][g].completed
      /\ info'[r][q].orig = info[r][h].orig /\ info'[r][q].buf = b
      /\ \A g : g \in free'[r] => g \in free[r] /\ g # q
  BY <1>4 DEF NextEffect
<1>8. /\ OwnInv(r) /\ PlaceInv(r) /\ CarryInv(r) /\ ReadInv(r)
  BY DEF RankInv
<1>9. /\ s \in Ranks /\ info[r][h] \in Info
  <2>1. info[r][h] \in Info
    BY <1>7 DEF TypeInv
  <2> QED BY <2>1 DEF Info
<1>10. \A p \in Ranks : NetLess(p)
  <2>1. \A p \in Ranks : Once(net[p])
    BY DEF RankInv, PlaceInv
  <2> QED BY <1>1, <1>9, <2>1, MatchNet
<1>11. mem' = [mem EXCEPT ![r][b] = v]
  <2>1. b # Null
    BY <1>7 DEF Buffers, Null
  <2> QED BY <1>1, <2>1 DEF Land
<1>12. BufOf(r, h) = b
  BY DEF BufOf
<1> HIDE DEF b, s
<1>13. \A a \in InUCX(r)' : a \in InUCX(r)
  BY <1>1, <1>7, <1>10 DEF InUCX, NetLess
<1>14. /\ \A a \in InUCX(r) : a \in Active(r) /\ a \in Handles /\ a # h /\ a # q
       /\ q \in Handles /\ q # Null /\ q \notin InUCX(r) /\ q \notin InStack(r)
       /\ \A p \in Transfers(r) : p \in Handles /\ p # q
  BY <1>2, <1>7, OpenFacts DEF Active
<1>15. /\ stack'[r] # << >> /\ stack'[r][1] = q
       /\ \A j, k \in 1 .. Len(stack'[r]) : stack'[r][j] = stack'[r][k] => j = k
       /\ \A a \in InStack(r)' : a = q \/ a \in InStack(r)
  <2> DEFINE x == stack[r]
             y == stack'[r]
  <2>1. /\ x \in Seq(Handles) /\ y = <<q>> \o x
        /\ \A j, k \in 1 .. Len(x) : x[j] = x[k] => j = k
        /\ \A j \in 1 .. Len(x) : x[j] # q
    BY <1>6, <1>8, <1>14 DEF TypeInv, PlaceInv, InStack
  <2>2. InStack(r) = {x[j] : j \in 1 .. Len(x)} /\ InStack(r)' = {y[j] : j \in 1 .. Len(y)}
    BY DEF InStack
  <2> HIDE DEF x, y
  <2>3. /\ y # << >> /\ y[1] = q
        /\ \A j, k \in 1 .. Len(y) : y[j] = y[k] => j = k
        /\ \A j \in 1 .. Len(y) : y[j] = q \/ \E k \in 1 .. Len(x) : y[j] = x[k]
    <3>1. q \in Handles
      BY <1>14
    <3> QED BY <2>1, <3>1, StackPush
  <2>4. \A a \in InStack(r)' : a = q \/ a \in InStack(r)
    BY <2>2, <2>3
  <2> QED BY <2>3, <2>4 DEF y
<1>16. PlaceInv(r)'
  <2>1. Open(r)' /\ Live(r)' /\ Live(r)
    BY <1>7 DEF Open, Live
  <2>2. pc'[r] \in {"recv", "stop"}
    BY <1>1, <1>7, <1>8 DEF PlaceInv, HandlerReady
  <2>3. Once(net'[r]) /\ \A a \in ReqsIn(net'[r]) : a \in ReqsIn(net[r])
    BY <1>10 DEF NetLess
  <2>4. Once(posted'[r]) /\ ReqsIn(posted'[r]) = ReqsIn(posted[r]) /\ done'[r] = done[r]
    BY <1>1, <1>7, <1>8 DEF PlaceInv
  <2>5. /\ done'[r] \cap ReqsIn(net'[r]) = {} /\ done'[r] \cap ReqsIn(posted'[r]) = {}
        /\ ReqsIn(net'[r]) \cap ReqsIn(posted'[r]) = {}
    BY <1>8, <2>3, <2>4 DEF PlaceInv
  <2>6. InUCX(r) \cap InStack(r) = {} /\ (InUCX(r) \cup InStack(r)) \cap free[r] = {}
    BY <1>7, <1>8 DEF PlaceInv
  <2>7. InUCX(r)' \cap InStack(r)' = {} /\ (InUCX(r)' \cup InStack(r)') \cap free'[r] = {}
    BY <1>7, <1>13, <1>14, <1>15, <2>6
  <2>8. InUCX(r)' \cup InStack(r)' \subseteq Requests
    <3>1. q \in Requests /\ InUCX(r) \cup InStack(r) \subseteq Requests
      BY <1>7, <1>8 DEF TypeInv, PlaceInv
    <3> QED BY <1>13, <1>15, <3>1
  <2> QED BY <1>15, <2>1, <2>2, <2>3, <2>4, <2>5, <2>7, <2>8 DEF PlaceInv
<1>17. CarryInv(r)'
  <2> DEFINE M == {q}
  <2>1. \A a \in Active(r)' : (a \in Active(r) /\ a # h) \/ a \in M
    BY <1>13, <1>14, <1>15 DEF Active, Due, HandlerReady
  <2>2. \A a \in Active(r) : a \in Handles
    BY <1>2, <1>7, OpenFacts
  <2>3. \A a \in Active(r) : a # h /\ a \notin M =>
          OrigOf(r, a)' = OrigOf(r, a) /\ BufOf(r, a)' = BufOf(r, a)
    BY <1>7, <2>2 DEF OrigOf, BufOf
  <2>4. /\ \A a \in M : OrigOf(r, a)' = OrigOf(r, h) /\ BufOf(r, a)' = BufOf(r, h)
        /\ \A x, y \in M : x = y
    BY <1>7, <1>12 DEF OrigOf, BufOf
  <2>5. \A p \in Transfers(r) :
           /\ BufOf(r, p)' = BufOf(r, p)
           /\ info'[r][p].completed =>
                info[r][p].completed \/ (M = {} /\ p = OrigOf(r, h))
    BY <1>7, <1>14 DEF BufOf
  <2>6. pending'[r] = pending[r]
    BY <1>7
  <2> HIDE DEF M
  <2> QED BY <1>7, <1>8, <2>1, <2>3, <2>4, <2>5, <2>6, TokenMoved
<1>18. ReadInv(r)'
  <2> DEFINE K == InUCX(r)
  <2>1. ASSUME NEW a \in K
        PROVE  BufOf(r, a)' = BufOf(r, a) /\ mem'[r][BufOf(r, a)] = mem[r][BufOf(r, a)]
    <3>1. BufOf(r, a) \in Buffers /\ BufOf(r, a) # b
      BY <1>7, <1>8, <1>12, <1>14, BufsApart
    <3>2. mem \in [Ranks -> [Buffers -> Seq(Word)]]
      BY DEF TypeInv
    <3>3. mem'[r][BufOf(r, a)] = mem[r][BufOf(r, a)]
      BY <1>11, <3>1, <3>2
    <3> QED BY <1>7, <1>14, <3>3 DEF BufOf
  <2>2. /\ \A m \in Items(net'[r]) : m.ref # Null => m \in Items(net[r]) /\ m.req \in K
        /\ \A p \in Items(posted'[r]) : p \in Items(posted[r]) /\ p.req \in K
    BY <1>1, <1>2, <1>7, <1>10, OpenFacts DEF NetLess, InUCX
  <2> HIDE DEF K
  <2> QED BY <1>7, <1>8, <2>1, <2>2, ReadKept
<1>19. Elsewhere(r)
  <2> SUFFICES ASSUME NEW p \in Ranks, p # r
               PROVE  Same(p) /\ NetLess(p)
    BY DEF Elsewhere
  <2>1. /\ mem'[p] = mem[p] /\ stack'[p] = stack[p] /\ mode'[p] = mode[p]
    BY <1>1, <1>11 DEF TypeInv
  <2>2. info'[p] = info[p] /\ free'[p] = free[p]
    BY <1>1 DEF NextStep, TypeInv
  <2> QED BY <1>1, <1>7, <1>10, <2>1, <2>2 DEF Same, Kept
<1> QED BY <1>7, <1>16, <1>17, <1>18, <1>19 DEF RankInv

\* Messages are handed to UCX, the last one perhaps in progress.
Sending(r, d, w) == net' = [net EXCEPT ![r][d] = net[r][d] \o w]

LEMMA SendQueue ==
  ASSUME TypeInv, NEW r \in Ranks, NEW d \in Ranks, Once(net[r]), NEW w, w \in Seq(Message),
         NEW Q, FreshIn(Q, net[r], w), Sending(r, d, w)
  PROVE  /\ Tables(net', Message)
         /\ \A p \in Ranks : p # r => net'[p] = net[p]
         /\ Once(net'[r])
         /\ \A q \in ReqsIn(net'[r]) : q \in ReqsIn(net[r]) \/ q \in Q
         /\ \A m \in Items(net'[r]) : m \in Items(net[r]) \/ m \in Elems(w)
<1> DEFINE t == net[r]
           u == [t EXCEPT ![d] = t[d] \o w]
<1>1. net \in [Ranks -> [Ranks -> Seq(Message)]]
  BY DEF TypeInv
<1>2. t \in [Ranks -> Seq(Message)]
  BY <1>1
<1>3. net' = [net EXCEPT ![r] = u]
  BY <1>1 DEF Sending
<1>4. Once(t) /\ FreshIn(Q, t, w)
  OBVIOUS
<1> HIDE DEF t
<1>5. t[d] \o w \in Seq(Message)
  BY <1>2, ConcatProperties
<1>6. u \in [Ranks -> Seq(Message)]
  BY <1>2, <1>5
<1>7. GrownBy(u, t, d, w) /\ FreshIn(Q, t, w)
  BY <1>2, <1>4 DEF GrownBy
<1>8. Once(t)
  BY <1>4
<1>9. Table(t, Message) /\ Table(u, Message)
  BY <1>2, <1>6 DEF Table
<1> HIDE DEF u
<1>10. Once(u)
  BY <1>8, <1>7, <1>9, GrownOnce
<1>11. \A q \in ReqsIn(u) : q \in ReqsIn(t) \/ q \in Q
  BY <1>8, <1>7, <1>9, GrownOnce
<1>12. \A m \in Items(u) : m \in Items(t) \/ \E j \in 1 .. Len(w) : m = w[j]
  BY <1>8, <1>7, <1>9, GrownOnce
<1>13. net'[r] = u /\ \A p \in Ranks : p # r => net'[p] = net[p]
  BY <1>1, <1>3
<1>14. Tables(net', Message)
  BY <1>1, <1>3, <1>6 DEF Tables
<1>15. \A m \in Items(u) : m \in Items(t) \/ m \in Elems(w)
  BY <1>12 DEF Elems
<1> QED BY <1>10, <1>11, <1>13, <1>14, <1>15 DEF t

\* A receive is posted.
Posting(r, s, p) == posted' = [posted EXCEPT ![r][s] = Append(posted[r][s], p)]

LEMMA PostQueue ==
  ASSUME TypeInv, NEW r \in Ranks, NEW s \in Ranks, Once(posted[r]),
         NEW p \in Receive, p.req \notin ReqsIn(posted[r]),
         Posting(r, s, p)
  PROVE  /\ posted' \in [Ranks -> [Ranks -> Seq(Receive)]]
         /\ \A o \in Ranks : o # r => posted'[o] = posted[o]
         /\ Once(posted'[r])
         /\ \A q \in ReqsIn(posted'[r]) : q \in ReqsIn(posted[r]) \/ q = p.req
         /\ \A m \in Items(posted'[r]) : m \in Items(posted[r]) \/ m = p
<1> DEFINE t == posted[r]
           w == <<p>>
           u == [t EXCEPT ![s] = Append(t[s], p)]
           Q == {p.req}
<1>1. posted \in [Ranks -> [Ranks -> Seq(Receive)]]
  BY DEF TypeInv
<1>2. t \in [Ranks -> Seq(Receive)]
  BY <1>1
<1>3. posted' = [posted EXCEPT ![r] = u]
  BY <1>1 DEF Posting
<1>4. Once(t) /\ Q \cap ReqsIn(t) = {} /\ Q \in SUBSET Handles
  BY DEF Receive
<1>5. w \in Seq(Receive) /\ Len(w) = 1 /\ w[1] = p
  OBVIOUS
<1>6. \A j \in 1 .. Len(w) : w[j].req = Null \/ (j = Len(w) /\ w[j].req \in Q)
  BY <1>5
<1> HIDE DEF t
<1>7. Append(t[s], p) \in Seq(Receive) /\ Append(t[s], p) = t[s] \o w
  BY <1>2, <1>5, AppendIsConcat, AppendProperties
<1>8. u \in [Ranks -> Seq(Receive)]
  BY <1>2, <1>7
<1>9. GrownBy(u, t, s, w) /\ FreshIn(Q, t, w)
  BY <1>2, <1>4, <1>6, <1>7 DEF GrownBy, FreshIn
<1>10. w \in Seq(Receive) /\ Once(t)
  BY <1>4, <1>5
<1>11. Table(t, Receive) /\ Table(u, Receive)
  BY <1>2, <1>8 DEF Table
<1> HIDE DEF u, w, Q
<1>12. Once(u)
  BY <1>9, <1>11, <1>10, GrownOnce
<1>13. \A q \in ReqsIn(u) : q \in ReqsIn(t) \/ q \in Q
  BY <1>9, <1>11, <1>10, GrownOnce
<1>14. \A m \in Items(u) : m \in Items(t) \/ \E j \in 1 .. Len(w) : m = w[j]
  BY <1>9, <1>11, <1>10, GrownOnce
<1>15. \A m \in Items(u) : m \in Items(t) \/ m = p
  BY <1>5, <1>14
<1>16. posted'[r] = u /\ \A o \in Ranks : o # r => posted'[o] = posted[o]
  BY <1>1, <1>3
<1>17. posted' \in [Ranks -> [Ranks -> Seq(Receive)]]
  BY <1>1, <1>3, <1>8
<1> QED BY <1>12, <1>13, <1>15, <1>16, <1>17 DEF t, Q

\* The next batch is awaited: its receive carries the transfer on.
LEMMA LaterRank ==
  ASSUME NEW r \in Ranks, TypeInv, RankInv(r), RecvHandlerLater(r)
  PROVE  RankInv(r)'
<1> DEFINE h == Head(stack[r])
           q == NewRequest(r)
           s == info[r][h].peer
           b == info[r][h].buf
           n == BatchLen(Count(r, info[r][h]), info[r][h].ibatch)
           p == [req |-> q, dst |-> b, n |-> n]
           called == info[r][q].orig # Null
<1>1. /\ HandlerReady(r) /\ free[r] # {}
      /\ Posting(r, s, p)
      /\ net' = net /\ mem' = mem
      /\ NextStep(r, h, q)
      /\ stack' = [stack EXCEPT ![r] = IF called THEN <<q>> \o stack[r] ELSE stack[r]]
      /\ mode' = [mode EXCEPT ![r] = IF called THEN "call" ELSE "return"]
  BY Zenon DEF RecvHandlerLater, RecvNbPost, RecvHandlerNext, NextStep, Posting, loop
<1>2. h = Head(stack[r]) /\ q = NewRequest(r)
  OBVIOUS
<1> HIDE DEF h, q, n, called
<1>3. NextEffect(r, h, q)
  BY <1>1, <1>2, NextFacts
<1>4. /\ q \in free[r] /\ h \in Active(r) /\ h # q /\ Open(r)
      /\ h \notin InUCX(r) /\ h \in Handles /\ b \in Buffers
      /\ UNCHANGED <<ncaches, pc, idx, pending, cache, done>>
      /\ OwnInv(r)' /\ HeapInv(r)' /\ CountInv(r)' /\ CleanInv(r)'
      /\ \A g \in Handles : g # q =>
           /\ info'[r][g].orig = info[r][g].orig /\ info'[r][g].buf = info[r][g].buf
           /\ info'[r][g].completed = info[r][g].completed
      /\ info'[r][q].orig = info[r][h].orig /\ info'[r][q].buf = b
      /\ \A g : g \in free'[r] => g \in free[r] /\ g # q
  BY <1>3 DEF NextEffect
<1>5. /\ OwnInv(r) /\ PlaceInv(r) /\ CarryInv(r) /\ ReadInv(r)
  BY DEF RankInv
<1>6. ~ called
  BY <1>4, OpenFacts DEF called
<1>7. stack'[r] = stack[r] /\ mode'[r] = "return"
  <2>1. stack \in [Ranks -> Seq(Handles)] /\ mode \in [Ranks -> {"call", "return"}]
    BY DEF TypeInv
  <2> QED BY <1>1, <1>6, <2>1
<1>8. /\ s \in Ranks /\ info[r][h] \in Info
  <2>1. info[r][h] \in Info
    BY <1>4 DEF TypeInv
  <2> QED BY <2>1 DEF Info
<1>9. n \in Int
  <2>1. Count(r, info[r][h]) \in Int
    <3>1. countMem[r][info[r][h].peer] \in Word
      BY <1>8 DEF TypeInv
    <3> QED BY <3>1 DEF Count, Word
  <2>2. info[r][h].ibatch \in Int
    BY <1>8 DEF Info
  <2> QED BY <2>1, <2>2, BatchAssumption DEF n, BatchLen
<1>10. BufOf(r, h) = b
  BY DEF BufOf
<1>11. q \in Handles /\ q # Null /\ q \notin InUCX(r) /\ q \notin InStack(r)
  BY <1>4, OpenFacts
<1>12. p \in Receive /\ p.req = q /\ p.dst = b
  BY <1>4, <1>9, <1>11 DEF Receive, Buffers
<1> HIDE DEF b, s, p
<1>13. \A a \in InUCX(r) : a \in Active(r) /\ a \in Handles /\ a # h /\ a # q
  BY <1>4, <1>11, OpenFacts DEF Active
<1>14. \A o \in Transfers(r) : o \in Handles /\ o # q
  BY <1>4, OpenFacts
<1>15. /\ Once(posted'[r])
       /\ \A a \in ReqsIn(posted'[r]) : a \in ReqsIn(posted[r]) \/ a = q
       /\ \A m \in Items(posted'[r]) : m \in Items(posted[r]) \/ m = p
  <2>1. Once(posted[r]) /\ p.req \notin ReqsIn(posted[r])
    BY <1>5, <1>11, <1>12 DEF PlaceInv, InUCX
  <2> QED BY <1>1, <1>8, <1>12, <2>1, PostQueue
<1>16. \A a \in InUCX(r)' : a \in InUCX(r) \/ a = q
  BY <1>1, <1>4, <1>15 DEF InUCX
<1>17. PlaceInv(r)'
  <2>1. Open(r)' /\ Live(r)' /\ Live(r)
    BY <1>4 DEF Open, Live
  <2>2. stack'[r] # << >> => pc'[r] \in {"recv", "stop"}
    BY <1>4, <1>5, <1>7 DEF PlaceInv
  <2>3. Once(net'[r]) /\ ReqsIn(net'[r]) = ReqsIn(net[r]) /\ done'[r] = done[r]
    BY <1>1, <1>4, <1>5 DEF PlaceInv
  <2>4. q \notin done[r] /\ q \notin ReqsIn(net[r])
    BY <1>11 DEF InUCX
  <2>5. /\ done'[r] \cap ReqsIn(net'[r]) = {} /\ done'[r] \cap ReqsIn(posted'[r]) = {}
        /\ ReqsIn(net'[r]) \cap ReqsIn(posted'[r]) = {}
    BY <1>5, <1>15, <2>3, <2>4 DEF PlaceInv
  <2>6. InUCX(r) \cap InStack(r) = {} /\ (InUCX(r) \cup InStack(r)) \cap free[r] = {}
    BY <1>4, <1>5 DEF PlaceInv
  <2>7. InStack(r)' = InStack(r)
    BY <1>7 DEF InStack
  <2>8. InUCX(r)' \cap InStack(r)' = {} /\ (InUCX(r)' \cup InStack(r)') \cap free'[r] = {}
    BY <1>4, <1>11, <1>16, <2>6, <2>7
  <2>9. \A j, k \in 1 .. Len(stack'[r]) : stack'[r][j] = stack'[r][k] => j = k
    BY <1>5, <1>7 DEF PlaceInv
  <2>10. InUCX(r)' \cup InStack(r)' \subseteq Requests
    <3>1. q \in Requests /\ InUCX(r) \cup InStack(r) \subseteq Requests
      BY <1>4, <1>5 DEF TypeInv, PlaceInv
    <3> QED BY <1>16, <2>7, <3>1
  <2> QED BY <1>15, <2>1, <2>2, <2>3, <2>5, <2>8, <2>9, <2>10 DEF PlaceInv
<1>18. CarryInv(r)'
  <2> DEFINE M == {q}
  <2>1. \A a \in Active(r)' : (a \in Active(r) /\ a # h) \/ a \in M
    BY <1>7, <1>13, <1>16 DEF Active, Due, HandlerReady
  <2>2. \A a \in Active(r) : a \in Handles
    BY <1>4, OpenFacts
  <2>3. \A a \in Active(r) : a # h /\ a \notin M =>
          OrigOf(r, a)' = OrigOf(r, a) /\ BufOf(r, a)' = BufOf(r, a)
    BY <1>4, <2>2 DEF OrigOf, BufOf
  <2>4. /\ \A a \in M : OrigOf(r, a)' = OrigOf(r, h) /\ BufOf(r, a)' = BufOf(r, h)
        /\ \A x, y \in M : x = y
    BY <1>4, <1>10 DEF OrigOf, BufOf
  <2>5. \A o \in Transfers(r) :
           /\ BufOf(r, o)' = BufOf(r, o)
           /\ info'[r][o].completed =>
                info[r][o].completed \/ (M = {} /\ o = OrigOf(r, h))
    BY <1>4, <1>14 DEF BufOf
  <2>6. pending'[r] = pending[r]
    BY <1>4
  <2> HIDE DEF M
  <2> QED BY <1>4, <1>5, <2>1, <2>3, <2>4, <2>5, <2>6, TokenMoved
<1>19. ReadInv(r)'
  <2> DEFINE K == InUCX(r)
  <2>1. \A a \in K : BufOf(r, a)' = BufOf(r, a) /\ mem'[r][BufOf(r, a)] = mem[r][BufOf(r, a)]
    BY <1>1, <1>4, <1>13 DEF BufOf
  <2>2. \A m \in Items(net'[r]) : m.ref # Null => m \in Items(net[r]) /\ m.req \in K
    BY <1>1, <1>4, OpenFacts DEF InUCX
  <2>3. \A m \in Items(posted'[r]) : m.dst # Null =>
          (m \in Items(posted[r]) /\ m.req \in K) \/ m.dst = BufOf(r, m.req)'
    <3>1. \A m \in Items(posted[r]) : m.req \in K
      BY <1>4, OpenFacts DEF InUCX
    <3>2. p.dst = info'[r][p.req].buf
      BY <1>4, <1>12
    <3> QED BY <1>15, <3>1, <3>2 DEF BufOf
  <2> HIDE DEF K
  <2> QED BY <1>4, <1>5, <2>1, <2>2, <2>3, ReadKept
<1> QED BY <1>4, <1>17, <1>18, <1>19 DEF RankInv

\* A posted receive is taken up by the message that matches it.
Unposting(r, s) == posted' = [posted EXCEPT ![r][s] = Tail(posted[r][s])]

LEMMA UnpostQueue ==
  ASSUME TypeInv, NEW r \in Ranks, NEW s \in Ranks, Once(posted[r]),
         posted[r][s] # << >>, Unposting(r, s)
  PROVE  /\ posted' \in [Ranks -> [Ranks -> Seq(Receive)]]
         /\ \A o \in Ranks : o # r => posted'[o] = posted[o]
         /\ Once(posted'[r])
         /\ \A q \in ReqsIn(posted'[r]) : q \in ReqsIn(posted[r])
         /\ \A m \in Items(posted'[r]) : m \in Items(posted[r])
         /\ Head(posted[r][s]) \in Receive /\ Head(posted[r][s]) \in Items(posted[r])
         /\ Head(posted[r][s]).req \in Handles
         /\ Head(posted[r][s]).req \in ReqsIn(posted[r])
         /\ Head(posted[r][s]).req \notin ReqsIn(posted'[r])
<1> DEFINE t == posted[r]
           u == [t EXCEPT ![s] = Tail(t[s])]
<1>1. posted \in [Ranks -> [Ranks -> Seq(Receive)]]
  BY DEF TypeInv
<1>2. t \in [Ranks -> Seq(Receive)] /\ t[s] # << >> /\ Once(t)
  BY <1>1
<1>3. posted' = [posted EXCEPT ![r] = u]
  BY <1>1 DEF Unposting
<1> HIDE DEF t
<1>4. Tail(t[s]) \in Seq(Receive)
  BY <1>2, HeadTailProperties
<1>5. u \in [Ranks -> Seq(Receive)]
  BY <1>2, <1>4
<1>6. u[s] = Tail(t[s]) /\ \A e \in Ranks : e # s => u[e] = t[e]
  BY <1>2
<1>7. Table(t, Receive) /\ Table(u, Receive)
  BY <1>2, <1>5 DEF Table
<1>8. t[s] # << >> /\ Once(t)
  BY <1>2
<1> HIDE DEF u
<1>9. Once(u) /\ Head(t[s]) \in Receive
  BY <1>6, <1>7, <1>8, ShrunkOnce
<1>10. \A q \in ReqsIn(u) : q \in ReqsIn(t)
  BY <1>6, <1>7, <1>8, ShrunkOnce
<1>11. (\A m \in Items(u) : m \in Items(t)) /\ Head(t[s]) \in Items(t)
  BY <1>6, <1>7, <1>8, ShrunkOnce
<1>12. Head(t[s]).req \in Handles
  BY <1>9 DEF Receive
<1>13. Head(t[s]).req \in ReqsIn(t) /\ Head(t[s]).req \notin ReqsIn(u)
  BY <1>6, <1>7, <1>8, <1>12, ShrunkOnce
<1>14. posted'[r] = u /\ \A o \in Ranks : o # r => posted'[o] = posted[o]
  BY <1>1, <1>3
<1>15. posted' \in [Ranks -> [Ranks -> Seq(Receive)]]
  BY <1>1, <1>3, <1>5
<1> QED BY <1>9, <1>10, <1>11, <1>12, <1>13, <1>14, <1>15 DEF t

LEMMA ProgressRecvRank ==
  ASSUME NEW r \in Ranks, NEW s \in Ranks, TypeInv, \A p \in Ranks : RankInv(p),
         ProgressRecv(r, s)
  PROVE  RankInv(r)' /\ Elsewhere(r)
<1> DEFINE p == Head(posted[r][s])
           v == Landing(Head(net[s][r]), p.n)
           h == p.req
           b == p.dst
<1>1. /\ pc[r] = "stop" /\ stack[r] = << >>
      /\ posted[r][s] # << >> /\ Arrived(s, r)
      /\ Land(r, s, b, v)
      /\ net' = [net EXCEPT ![s][r] = Tail(net[s][r])]
      /\ Unposting(r, s)
      /\ stack' = [stack EXCEPT ![r] = <<h>>]
      /\ mode' = [mode EXCEPT ![r] = "call"]
      /\ UNCHANGED <<ncaches, pc, idx, pending, cache, info, free, done>>
  BY Zenon DEF ProgressRecv, Polling, Idle, Unposting, loop
<1>2. RankInv(r) /\ Open(r)
  BY <1>1 DEF Open
<1> HIDE DEF v
<1>3. /\ OwnInv(r) /\ HeapInv(r) /\ CountInv(r)
      /\ PlaceInv(r) /\ CarryInv(r) /\ CleanInv(r) /\ ReadInv(r)
  BY <1>2 DEF RankInv
<1>4. \A o \in Ranks : NetLess(o)
  <2>1. \A o \in Ranks : Once(net[o])
    BY DEF RankInv, PlaceInv
  <2> QED BY <1>1, <2>1, MatchNet
<1>5. /\ \A o \in Ranks : o # r => posted'[o] = posted[o]
      /\ Once(posted'[r])
      /\ \A q \in ReqsIn(posted'[r]) : q \in ReqsIn(posted[r])
      /\ \A m \in Items(posted'[r]) : m \in Items(posted[r])
      /\ p \in Receive /\ p \in Items(posted[r])
      /\ h \in Handles /\ h \in ReqsIn(posted[r]) /\ h \notin ReqsIn(posted'[r])
  <2>1. Once(posted[r])
    BY <1>3 DEF PlaceInv
  <2> QED BY <1>1, <2>1, UnpostQueue
<1>6. b # Null => b = BufOf(r, h)
  BY <1>2, <1>3, <1>5 DEF ReadInv
<1>7. h \in InUCX(r) /\ h \in Active(r) /\ h \notin free[r]
  BY <1>2, <1>5, OpenFacts DEF InUCX, Active
<1> HIDE DEF p, h, b
<1>8. stack'[r] = <<h>> /\ mode'[r] = "call"
  BY <1>1 DEF TypeInv
<1>9. /\ stack'[r] # << >> /\ stack'[r][1] = h /\ InStack(r)' = {h}
      /\ \A j, k \in 1 .. Len(stack'[r]) : stack'[r][j] = stack'[r][k] => j = k
  BY <1>8 DEF InStack
<1>10. \A a \in InUCX(r)' : a \in InUCX(r) /\ a # h
  <2>1. h \notin done[r] /\ h \notin ReqsIn(net[r])
    BY <1>3, <1>5 DEF PlaceInv
  <2> QED BY <1>1, <1>4, <1>5, <2>1 DEF InUCX, NetLess
<1>11. \A g \in Handles : OrigOf(r, g)' = OrigOf(r, g) /\ BufOf(r, g)' = BufOf(r, g)
  BY <1>1 DEF OrigOf, BufOf
<1>12. OwnInv(r)' /\ HeapInv(r)' /\ CountInv(r)'
  <2>1. \A o \in Transfers(r) :
           /\ OrigOf(r, o)' = OrigOf(r, o) /\ BufOf(r, o)' = BufOf(r, o)
           /\ o \notin free[r] => o \notin free'[r]
           /\ info[r][o].custom => info'[r][o].custom
    BY <1>1 DEF OrigOf, BufOf
  <2> QED BY <1>1, <1>3, <2>1, UserKept DEF Kept
<1>13. PlaceInv(r)'
  <2>1. Open(r)' /\ Live(r)' /\ Live(r) /\ pc'[r] \in {"recv", "stop"}
    BY <1>1, <1>2 DEF Open, Live
  <2>2. Once(net'[r]) /\ (\A a \in ReqsIn(net'[r]) : a \in ReqsIn(net[r])) /\ done'[r] = done[r]
    BY <1>1, <1>4 DEF NetLess
  <2>3. /\ done'[r] \cap ReqsIn(net'[r]) = {} /\ done'[r] \cap ReqsIn(posted'[r]) = {}
        /\ ReqsIn(net'[r]) \cap ReqsIn(posted'[r]) = {}
    BY <1>3, <1>5, <2>2 DEF PlaceInv
  <2>4. InUCX(r) \cap free[r] = {}
    BY <1>2, <1>3 DEF PlaceInv
  <2>5. InUCX(r)' \cap InStack(r)' = {} /\ (InUCX(r)' \cup InStack(r)') \cap free'[r] = {}
    BY <1>1, <1>7, <1>9, <1>10, <2>4
  <2>6. InUCX(r)' \cup InStack(r)' \subseteq Requests
    <3>1. InUCX(r) \subseteq Requests
      BY <1>3 DEF PlaceInv
    <3> QED BY <1>7, <1>9, <1>10, <3>1
  <2> QED BY <1>5, <1>9, <2>1, <2>2, <2>3, <2>5, <2>6 DEF PlaceInv
<1>14. CarryInv(r)'
  <2> DEFINE M == {h}
  <2>1. \A a \in Active(r)' : (a \in Active(r) /\ a # h) \/ a \in M
    BY <1>9, <1>10 DEF Active, Due
  <2>2. \A a \in Active(r) : a # h /\ a \notin M =>
          OrigOf(r, a)' = OrigOf(r, a) /\ BufOf(r, a)' = BufOf(r, a)
    BY <1>2, <1>11, OpenFacts
  <2>3. /\ \A a \in M : OrigOf(r, a)' = OrigOf(r, h) /\ BufOf(r, a)' = BufOf(r, h)
        /\ \A x, y \in M : x = y
    BY <1>5, <1>11
  <2>4. \A o \in Transfers(r) :
           /\ BufOf(r, o)' = BufOf(r, o)
           /\ info'[r][o].completed =>
                info[r][o].completed \/ (M = {} /\ o = OrigOf(r, h))
    BY <1>1 DEF BufOf
  <2>5. pending'[r] = pending[r]
    BY <1>1
  <2> HIDE DEF M
  <2> QED BY <1>2, <1>3, <1>7, <2>1, <2>2, <2>3, <2>4, <2>5, TokenMoved
<1>15. CleanInv(r)'
  BY <1>1, <1>3 DEF CleanInv, OrigOf
<1>16. ReadInv(r)'
  <2> DEFINE K == InUCX(r) \ {h}
  <2>1. ASSUME NEW a \in K
        PROVE  BufOf(r, a)' = BufOf(r, a) /\ mem'[r][BufOf(r, a)] = mem[r][BufOf(r, a)]
    <3>1. BufOf(r, a) \in Buffers /\ BufOf(r, a) # BufOf(r, h) /\ a \in Handles
      BY <1>2, <1>3, <1>7, BufsApart, OpenFacts DEF Active
    <3>2. mem \in [Ranks -> [Buffers -> Seq(Word)]]
      BY DEF TypeInv
    <3>3. mem'[r][BufOf(r, a)] = mem[r][BufOf(r, a)]
      <4>1. CASE b = Null
        BY <1>1, <4>1 DEF Land
      <4>2. CASE b # Null
        <5>1. mem' = [mem EXCEPT ![r][b] = v] /\ b = BufOf(r, h)
          BY <1>1, <1>6, <4>2 DEF Land
        <5> QED BY <3>1, <3>2, <5>1
      <4> QED BY <4>1, <4>2
    <3> QED BY <1>11, <3>1, <3>3
  <2>2. /\ \A m \in Items(net'[r]) : m.ref # Null => m \in Items(net[r]) /\ m.req \in K
        /\ \A m \in Items(posted'[r]) : m \in Items(posted[r]) /\ m.req \in K
    <3>1. /\ \A m \in Items(net'[r]) : m \in Items(net[r])
          /\ \A m \in Items(posted'[r]) : m \in Items(posted[r])
      BY <1>4, <1>5 DEF NetLess
    <3>2. \A m \in Items(net[r]) : m.ref # Null => m.req \in ReqsIn(net[r])
      BY <1>2, OpenFacts
    <3>3. h \notin ReqsIn(net[r])
      BY <1>3, <1>5 DEF PlaceInv
    <3>4. \A m \in Items(posted'[r]) : m.req \in ReqsIn(posted'[r])
      BY <3>1, ItemsTyped DEF ReqsIn, Receive
    <3> QED BY <1>5, <3>1, <3>2, <3>3, <3>4 DEF InUCX
  <2> HIDE DEF K
  <2> QED BY <1>2, <1>3, <2>1, <2>2, ReadKept
<1>17. Elsewhere(r)
  <2> SUFFICES ASSUME NEW o \in Ranks, o # r
               PROVE  Same(o) /\ NetLess(o)
    BY DEF Elsewhere
  <2>1. mem'[o] = mem[o]
    BY <1>1 DEF Land, TypeInv
  <2>2. stack'[o] = stack[o] /\ mode'[o] = mode[o]
    BY <1>1 DEF TypeInv
  <2> QED BY <1>1, <1>4, <1>5, <2>1, <2>2 DEF Same, Kept
<1> QED BY <1>12, <1>13, <1>14, <1>15, <1>16, <1>17 DEF RankInv

-----------------------------------------------------------------------------
\* send_handler: what it gives to UCX and what it does to the handles.
LEMMA BatchWords ==
  ASSUME NEW r \in Ranks, round[r] \in Int, NEW i \in Info, NEW b \in Int
  PROVE  Batch(r, i, b) \in Seq(Word)
<1> DEFINE n == BatchLen(i.count, b)
           f == Batch(r, i, b)
<1>1. i.count \in Int /\ i.peer \in Int /\ r \in Int
  BY DEF Info, Ranks
<1>2. n \in Int
  BY <1>1, BatchAssumption DEF BatchLen
<1>3. f = [j \in 1 .. n |-> DataWord(r, i.peer, round[r], b * PerBatch + j)]
  BY Zenon DEF Batch
<1>4. \A j \in 1 .. n : DataWord(r, i.peer, round[r], b * PerBatch + j) \in Word
  BY <1>1, <1>2, BatchAssumption DEF DataWord, Word
<1> HIDE DEF n, f
<1>5. f = [j \in 1 .. n |-> f[j]] /\ \A j \in 1 .. n : f[j] \in Word
  BY <1>3, <1>4
<1> QED BY <1>2, <1>5, Listed DEF f

Silent(w)    == \A j \in 1 .. Len(w) : w[j].req = Null /\ w[j].ref = Null
Tipped(w, m) == \A j \in 1 .. Len(w) :
                  (w[j].req = Null /\ w[j].ref = Null) \/ (j = Len(w) /\ w[j] = m)

LEMMA EagerMessages ==
  ASSUME NEW r \in Ranks, round[r] \in Int, NEW i \in Info, NEW k \in Int,
         NEW w, w \in Seq(Message), Silent(w)
  PROVE  /\ SendHandlerEager(r, i, w, k) \in Seq(Message)
         /\ Silent(SendHandlerEager(r, i, w, k))
<1> DEFINE f == [j \in 1 .. k |-> Msg(Batch(r, i, i.ibatch + j - 1))]
           e == SendHandlerEager(r, i, w, k)
<1>1. \A j \in 1 .. k : Batch(r, i, i.ibatch + j - 1) \in Seq(Word)
  <2>1. i.ibatch \in Int
    BY DEF Info
  <2> QED BY <2>1, BatchWords
<1>2. \A v \in Seq(Word) : Msg(v) \in Message /\ Msg(v).req = Null /\ Msg(v).ref = Null
  BY DEF Msg, Message, Null
<1>3. \A j \in 1 .. k : f[j] \in Message /\ f[j].req = Null /\ f[j].ref = Null
  BY <1>1, <1>2
<1>4. f = [j \in 1 .. k |-> f[j]] /\ DOMAIN f = 1 .. k
  OBVIOUS
<1>5. e = w \o f
  BY DEF SendHandlerEager
<1> HIDE DEF f, e
<1>6. f \in Seq(Message)
  BY <1>3, <1>4, Listed
<1>7. \A j \in 1 .. Len(f) : f[j].req = Null /\ f[j].ref = Null
  <2>1. 1 .. Len(f) = 1 .. k
    BY <1>4, <1>6, LenProperties
  <2> QED BY <1>3, <2>1
<1>8. /\ e \in Seq(Message) /\ Len(e) = Len(w) + Len(f) /\ Len(w) \in Nat /\ Len(f) \in Nat
      /\ \A j \in 1 .. Len(w) + Len(f) : e[j] = IF j <= Len(w) THEN w[j] ELSE f[j - Len(w)]
  BY <1>5, <1>6, ConcatProperties, LenProperties
<1>9. ASSUME NEW j \in 1 .. Len(e)
      PROVE  e[j].req = Null /\ e[j].ref = Null
  <2>1. CASE j <= Len(w)
    BY <1>8, <2>1 DEF Silent
  <2>2. CASE ~ (j <= Len(w))
    <3>1. j - Len(w) \in 1 .. Len(f) /\ e[j] = f[j - Len(w)]
      BY <1>8, <2>2
    <3> QED BY <1>7, <3>1
  <2> QED BY <2>1, <2>2
<1> QED BY <1>8, <1>9 DEF e, Silent

\* The same followed by the message in progress.
LEMMA BusyMessages ==
  ASSUME NEW w, w \in Seq(Message), Silent(w), NEW m \in Message, NEW x, x = w \o <<m>>
  PROVE  x \in Seq(Message) /\ Tipped(x, m)
<1> DEFINE f == <<m>>
<1>1. f \in Seq(Message) /\ Len(f) = 1 /\ f[1] = m /\ x = w \o f
  OBVIOUS
<1> HIDE DEF f
<1>2. /\ x \in Seq(Message) /\ Len(x) = Len(w) + 1 /\ Len(w) \in Nat
      /\ \A j \in 1 .. Len(w) + 1 : x[j] = IF j <= Len(w) THEN w[j] ELSE f[j - Len(w)]
  BY <1>1, ConcatProperties, LenProperties
<1>3. ASSUME NEW j \in 1 .. Len(x)
      PROVE  (x[j].req = Null /\ x[j].ref = Null) \/ (j = Len(x) /\ x[j] = m)
  <2>1. CASE j <= Len(w)
    BY <1>2, <2>1 DEF Silent
  <2>2. CASE ~ (j <= Len(w))
    <3>1. j = Len(w) + 1 /\ j - Len(w) = 1
      BY <1>2, <2>2
    <3> QED BY <1>1, <1>2, <2>2, <3>1
  <2> QED BY <2>1, <2>2
<1>4. \A j \in 1 .. Len(x) :
        (x[j].req = Null /\ x[j].ref = Null) \/ (j = Len(x) /\ x[j] = m)
  BY <1>3
<1>5. x \in Seq(Message)
  BY <1>2
<1> QED BY <1>4, <1>5, Zenon DEF Tipped

DoneTable(t, h) == FreeInternal([t EXCEPT ![t[h].orig].completed = TRUE], h)
MoreTable(t, h, q, b) ==
  FreeInternal([t EXCEPT ![q] = [t[h] EXCEPT !.ibatch = b, !.custom = FALSE]], h)

LEMMA DoneFacts ==
  ASSUME ncaches \in Nat, NEW t \in [Handles -> Info], NEW h \in Handles,
         t[h].orig \in Handles, NEW u, u = DoneTable(t, h)
  PROVE  /\ u \in [Handles -> Info]
         /\ \A g \in Handles : (g # h \/ t[h].orig = h) =>
              /\ u[g].orig = t[g].orig /\ u[g].buf = t[g].buf /\ u[g].custom = t[g].custom
              /\ g # t[h].orig => u[g] = t[g]
         /\ t[h].orig # h => ~ u[h].completed /\ ~ u[h].custom /\ u[h].orig = Null
<1> DEFINE o == t[h].orig
           v == [t EXCEPT ![o].completed = TRUE]
<1>1. /\ v \in [Handles -> Info]
      /\ \A g \in Handles :
           /\ v[g].orig = t[g].orig /\ v[g].buf = t[g].buf /\ v[g].custom = t[g].custom
           /\ g # o => v[g] = t[g]
  BY DEF Info
<1>2. u = FreeInternal(v, h)
  BY Zenon DEF DoneTable
<1> HIDE DEF v
<1>3. /\ u \in [Handles -> Info]
      /\ \A g \in Handles : (g # h \/ v[h].orig = h) => u[g] = v[g]
      /\ v[h].orig # h => ~ u[h].completed /\ ~ u[h].custom /\ u[h].orig = Null
  BY <1>1, <1>2, Release
<1> QED BY <1>1, <1>3

LEMMA MoreFacts ==
  ASSUME ncaches \in Nat, NEW t \in [Handles -> Info], NEW h \in Handles,
         NEW q \in Handles, q # h, NEW b \in Int, NEW u, u = MoreTable(t, h, q, b)
  PROVE  /\ u \in [Handles -> Info]
         /\ \A g \in Handles : g # q /\ (g # h \/ t[h].orig = h) => u[g] = t[g]
         /\ u[q].orig = t[h].orig /\ u[q].buf = t[h].buf /\ u[q].completed = t[h].completed
         /\ t[h].orig # h => ~ u[h].completed /\ ~ u[h].custom /\ u[h].orig = Null
<1>1. PICK f \in BOOLEAN : f = FALSE
  OBVIOUS
<1> DEFINE i == [t[h] EXCEPT !.ibatch = b, !.custom = f]
           v == [t EXCEPT ![q] = i]
<1>2. t[h] \in Info
  OBVIOUS
<1>3. i \in Info /\ i.orig = t[h].orig /\ i.buf = t[h].buf /\ i.completed = t[h].completed
  BY <1>2 DEF Info
<1>4. u = FreeInternal([t EXCEPT ![q] = i], h)
  BY <1>1, Zenon DEF MoreTable
<1> HIDE DEF i
<1>5. v \in [Handles -> Info] /\ v[q] = i /\ \A g \in Handles : g # q => v[g] = t[g]
  BY <1>3
<1>6. u = FreeInternal(v, h)
  BY <1>4
<1> HIDE DEF v
<1>7. /\ u \in [Handles -> Info]
      /\ \A g \in Handles : (g # h \/ v[h].orig = h) => u[g] = v[g]
      /\ v[h].orig # h => ~ u[h].completed /\ ~ u[h].custom /\ u[h].orig = Null
  BY <1>5, <1>6, Release
<1> QED BY <1>3, <1>5, <1>7

\* What send_handler does, run for handle h of table t: the handles in M (at
\* most one) carry its transfer on, or it is completed.
SendEffect(r, h, t, M) ==
  /\ M \in SUBSET free[r] /\ \A a, b \in M : a = b
  /\ net' \in [Ranks -> [Ranks -> Seq(Message)]]
  /\ mem' \in [Ranks -> [Buffers -> Seq(Word)]]
  /\ info' \in [Ranks -> [Handles -> Info]]
  /\ free' \in [Ranks -> SUBSET Requests]
  /\ \A p \in Ranks : p # r => /\ net'[p] = net[p] /\ mem'[p] = mem[p]
                               /\ info'[p] = info[p] /\ free'[p] = free[p]
  /\ Once(net'[r])
  /\ \A q \in ReqsIn(net'[r]) : q \in ReqsIn(net[r]) \/ q \in M
  /\ \A m \in Items(net'[r]) : m.ref # Null =>
       \/ m \in Items(net[r])
       \/ m.req \in M /\ m.ref = t[h].buf /\ mem'[r][m.ref] = m.val
  /\ \A b \in Buffers : b # t[h].buf => mem'[r][b] = mem[r][b]
  /\ \A g \in Handles : g \notin M /\ (g # h \/ t[h].orig = h) =>
       /\ info'[r][g].orig = t[g].orig /\ info'[r][g].buf = t[g].buf
       /\ info'[r][g].custom = t[g].custom
       /\ info'[r][g].completed => t[g].completed \/ (M = {} /\ g = t[h].orig)
       /\ g # t[h].orig => info'[r][g] = t[g]
  /\ \A g \in M : info'[r][g].orig = t[h].orig /\ info'[r][g].buf = t[h].buf
  /\ \A g \in free'[r] :
       \/ g \in free[r] /\ g \notin M
       \/ /\ g = h /\ t[h].orig # h
          /\ ~ info'[r][h].completed /\ ~ info'[r][h].custom /\ info'[r][h].orig = Null

\* What send_handler may be called with.
SendCall(r, h, t, w) ==
  /\ Once(net[r]) /\ free[r] \cap ReqsIn(net[r]) = {}
  /\ t \in [Handles -> Info] /\ h \in Handles /\ h \notin free[r]
  /\ t[h].orig \in Handles /\ t[h].orig \notin free[r] /\ t[h].buf \in Buffers
  /\ t[h].orig # h => h \in Requests
  /\ w \in Seq(Message) /\ Silent(w)

LEMMA SendLastFacts ==
  ASSUME NEW r \in Ranks, TypeInv, NEW h, NEW t, NEW w, SendCall(r, h, t, w),
         SendHandlerLast(r, h, t, w)
  PROVE  SendEffect(r, h, t, {})
<1> DEFINE i == t[h]
           k == Batches(i.count) - i.ibatch
           x == SendHandlerEager(r, i, w, k)
           v == IF k > 0 THEN Batch(r, i, i.ibatch + k - 1) ELSE mem[r][i.buf]
           u == DoneTable(t, h)
           F == free[r] \cup Freed(t, h)
           Q == {}
<1>1. /\ Sending(r, i.peer, x)
      /\ mem' = [mem EXCEPT ![r][i.buf] = v]
      /\ info' = [info EXCEPT ![r] = u]
      /\ free' = [free EXCEPT ![r] = F]
  BY Zenon DEF SendHandlerLast, Sending, DoneTable
<1>2. /\ mem \in [Ranks -> [Buffers -> Seq(Word)]] /\ info \in [Ranks -> [Handles -> Info]]
      /\ free \in [Ranks -> SUBSET Requests] /\ round[r] \in Int /\ ncaches \in Nat
  BY DEF TypeInv
<1>3. /\ t \in [Handles -> Info] /\ h \in Handles /\ h \notin free[r]
      /\ i.orig \in Handles /\ i.buf \in Buffers /\ (i.orig # h => h \in Requests)
      /\ w \in Seq(Message) /\ Silent(w) /\ Once(net[r]) /\ i.orig \notin free[r]
  BY DEF SendCall
<1>4. i \in Info
  BY <1>3
<1>5. i.peer \in Ranks /\ i.count \in Int /\ i.ibatch \in Int
  BY <1>4 DEF Info
<1>6. k \in Int
  BY <1>5, BatchAssumption DEF Batches
<1> HIDE DEF k
<1>7. x \in Seq(Message) /\ Silent(x)
  BY <1>2, <1>3, <1>4, <1>6, EagerMessages
<1>8. v \in Seq(Word)
  <2> DEFINE b == i.ibatch + k - 1
  <2>1. b \in Int
    BY <1>5, <1>6
  <2> HIDE DEF b
  <2>2. Batch(r, i, b) \in Seq(Word)
    BY <1>2, <1>4, <2>1, BatchWords
  <2> QED BY <1>2, <1>3, <2>2 DEF b
<1>9. /\ u \in [Handles -> Info]
      /\ \A g \in Handles : (g # h \/ i.orig = h) =>
           /\ u[g].orig = t[g].orig /\ u[g].buf = t[g].buf /\ u[g].custom = t[g].custom
           /\ g # i.orig => u[g] = t[g]
      /\ i.orig # h => ~ u[h].completed /\ ~ u[h].custom /\ u[h].orig = Null
  <2>1. /\ ncaches \in Nat /\ t \in [Handles -> Info] /\ h \in Handles
        /\ t[h].orig \in Handles /\ u = DoneTable(t, h)
    BY <1>2, <1>3
  <2> HIDE DEF u
  <2>2. u \in [Handles -> Info]
    BY <2>1, DoneFacts
  <2>3. \A g \in Handles : (g # h \/ t[h].orig = h) =>
          /\ u[g].orig = t[g].orig /\ u[g].buf = t[g].buf /\ u[g].custom = t[g].custom
          /\ g # t[h].orig => u[g] = t[g]
    BY <2>1, DoneFacts
  <2>4. t[h].orig # h => ~ u[h].completed /\ ~ u[h].custom /\ u[h].orig = Null
    BY <2>1, DoneFacts
  <2> QED BY <2>2, <2>3, <2>4
<1>10. Freed(t, h) = IF i.orig # h THEN {h} ELSE {}
  BY Zenon DEF Freed
<1> HIDE DEF i, x, v, u
<1>11. /\ net' \in [Ranks -> [Ranks -> Seq(Message)]]
       /\ \A p \in Ranks : p # r => net'[p] = net[p]
       /\ Once(net'[r])
       /\ \A q \in ReqsIn(net'[r]) : q \in ReqsIn(net[r]) \/ q \in Q
       /\ \A m \in Items(net'[r]) : m \in Items(net[r]) \/ \E j \in 1 .. Len(x) : m = x[j]
  <2>1. \A j \in 1 .. Len(x) : x[j].req = Null \/ (j = Len(x) /\ x[j].req \in Q)
    BY <1>7 DEF Silent
  <2>2. FreshIn(Q, net[r], x)
    BY <2>1 DEF FreshIn
  <2> DEFINE d == i.peer
  <2>3. d \in Ranks /\ Sending(r, d, x) /\ Once(net[r]) /\ x \in Seq(Message)
    BY <1>1, <1>3, <1>5, <1>7
  <2> HIDE DEF Q, d
  <2>4. Once(net'[r]) /\ \A p \in Ranks : p # r => net'[p] = net[p]
    BY <2>2, <2>3, SendQueue
  <2>5. \A q \in ReqsIn(net'[r]) : q \in ReqsIn(net[r]) \/ q \in Q
    BY <2>2, <2>3, SendQueue
  <2>6. \A m \in Items(net'[r]) : m \in Items(net[r]) \/ m \in Elems(x)
    BY <2>2, <2>3, SendQueue
  <2>7. Tables(net', Message)
    BY <2>2, <2>3, SendQueue
  <2> QED BY <2>4, <2>5, <2>6, <2>7 DEF Tables, Elems
<1>12. \A m \in Items(net'[r]) : m.ref # Null => m \in Items(net[r])
  BY <1>7, <1>11 DEF Silent
<1>13. /\ mem' \in [Ranks -> [Buffers -> Seq(Word)]]
       /\ \A b \in Buffers : b # i.buf => mem'[r][b] = mem[r][b]
       /\ \A p \in Ranks : p # r => mem'[p] = mem[p]
  BY <1>1, <1>2, <1>3, <1>8
<1>14. /\ info' \in [Ranks -> [Handles -> Info]] /\ info'[r] = u
       /\ \A p \in Ranks : p # r => info'[p] = info[p]
  BY <1>1, <1>2, <1>9
<1>15. /\ free' \in [Ranks -> SUBSET Requests] /\ free'[r] = F
       /\ \A p \in Ranks : p # r => free'[p] = free[p]
  BY <1>1, <1>2, <1>3, <1>10
<1>16. \A g \in free'[r] :
         \/ g \in free[r]
         \/ /\ g = h /\ i.orig # h
            /\ ~ info'[r][h].completed /\ ~ info'[r][h].custom /\ info'[r][h].orig = Null
  BY <1>9, <1>10, <1>14, <1>15
<1>17. \A g \in Handles : (g # h \/ i.orig = h) =>
         /\ info'[r][g].orig = t[g].orig /\ info'[r][g].buf = t[g].buf
         /\ info'[r][g].custom = t[g].custom
         /\ info'[r][g].completed => t[g].completed \/ g = i.orig
         /\ g # i.orig => info'[r][g] = t[g]
  BY <1>9, <1>14
<1>18. net' \in [Ranks -> [Ranks -> Seq(Message)]] /\ Once(net'[r])
       /\ (\A q \in ReqsIn(net'[r]) : q \in ReqsIn(net[r]))
       /\ \A p \in Ranks : p # r => net'[p] = net[p]
  BY <1>11
<1> HIDE DEF F, Q
<1> QED BY <1>12, <1>13, <1>14, <1>15, <1>16, <1>17, <1>18 DEF SendEffect, i

LEMMA SendMoreFacts ==
  ASSUME NEW r \in Ranks, TypeInv, NEW h, NEW t, NEW w, SendCall(r, h, t, w),
         SendHandlerMore(r, h, t, w)
  PROVE  SendEffect(r, h, t, {NewRequest(r)})
<1> DEFINE i == t[h]
           q == NewRequest(r)
<1>1. PICK k \in 0 .. Batches(i.count) - i.ibatch - 1 :
        /\ free[r] # {}
        /\ net' = [net EXCEPT ![r][i.peer] =
                     net[r][i.peer] \o SendHandlerEager(r, i, w, k)
                       \o <<MsgBusy(Batch(r, i, i.ibatch + k), i.buf, q)>>]
        /\ mem' = [mem EXCEPT ![r][i.buf] = Batch(r, i, i.ibatch + k)]
        /\ info' = [info EXCEPT ![r] =
                      FreeInternal([t EXCEPT ![q] = [i EXCEPT !.ibatch = i.ibatch + k + 1,
                                                              !.custom = FALSE]], h)]
        /\ free' = [free EXCEPT ![r] = (free[r] \ {q}) \cup Freed(t, h)]
  BY Zenon DEF SendHandlerMore
<1> DEFINE b == i.ibatch + k
           v == Batch(r, i, b)
           m == MsgBusy(v, i.buf, q)
           e == SendHandlerEager(r, i, w, k)
           x == e \o <<m>>
           n == b + 1
           u == MoreTable(t, h, q, n)
           F == (free[r] \ {q}) \cup Freed(t, h)
           Q == {q}
<1>2. /\ mem \in [Ranks -> [Buffers -> Seq(Word)]] /\ info \in [Ranks -> [Handles -> Info]]
      /\ free \in [Ranks -> SUBSET Requests] /\ round[r] \in Int /\ ncaches \in Nat
      /\ net \in [Ranks -> [Ranks -> Seq(Message)]]
  BY DEF TypeInv
<1>3. /\ t \in [Handles -> Info] /\ h \in Handles /\ h \notin free[r]
      /\ i.orig \in Handles /\ i.buf \in Buffers /\ (i.orig # h => h \in Requests)
      /\ w \in Seq(Message) /\ Silent(w) /\ Once(net[r]) /\ i.orig \notin free[r]
      /\ free[r] \cap ReqsIn(net[r]) = {}
  BY DEF SendCall
<1>4. i \in Info
  BY <1>3
<1>5. i.peer \in Ranks /\ i.count \in Int /\ i.ibatch \in Int /\ k \in Int
  BY <1>4 DEF Info
<1>6. b \in Int /\ n \in Int
  BY <1>5
<1>7. q \in free[r]
  BY <1>1, <1>2, NewRequestFree
<1>8. q \in Handles /\ q \in Requests /\ q # h /\ q # i.orig /\ Q \cap ReqsIn(net[r]) = {}
  <2>1. Requests \subseteq Handles
    BY BoundsAssumption, NAssumption DEF Requests, Handles
  <2> QED BY <1>2, <1>3, <1>7, <2>1
<1> HIDE DEF q
<1> HIDE DEF b
<1>9. v \in Seq(Word)
  BY <1>2, <1>4, <1>6, BatchWords
<1>10. e \in Seq(Message) /\ Silent(e)
  BY <1>2, <1>3, <1>4, <1>5, EagerMessages
<1>11. m \in Message /\ m.req = q /\ m.ref = i.buf /\ m.val = v
  <2>1. i.buf \in Int
    BY <1>3, <1>2 DEF Buffers
  <2> HIDE DEF i, v
  <2> QED BY <1>8, <1>9, <2>1 DEF MsgBusy, Message
<1>12. /\ Sending(r, i.peer, x)
       /\ mem' = [mem EXCEPT ![r][i.buf] = v]
       /\ info' = [info EXCEPT ![r] = u]
       /\ free' = [free EXCEPT ![r] = F]
  <2>1. i.ibatch + k + 1 = n
    BY DEF b
  <2>2. /\ net' = [net EXCEPT ![r][i.peer] = (net[r][i.peer] \o e) \o <<m>>]
        /\ mem' = [mem EXCEPT ![r][i.buf] = v]
        /\ free' = [free EXCEPT ![r] = F]
    BY <1>1, Zenon DEF b
  <2>3. info' = [info EXCEPT ![r] = u]
    BY <1>1, <2>1, Zenon DEF MoreTable
  <2>4. (net[r][i.peer] \o e) \o <<m>> = net[r][i.peer] \o x
    <3>1. net[r][i.peer] \in Seq(Message) /\ <<m>> \in Seq(Message)
      BY <1>2, <1>5, <1>11
    <3>2. e \in Seq(Message)
      BY <1>10
    <3> DEFINE a == net[r][i.peer]
               c == <<m>>
    <3>3. (a \o e) \o c = a \o (e \o c)
      <4> HIDE DEF a, c, e
      <4>1. a \in Seq(Message) /\ c \in Seq(Message)
        BY <3>1 DEF a, c
      <4> QED BY <3>2, <4>1, ConcatAssociative
    <3> QED BY <3>3, Zenon
  <2> QED BY <2>2, <2>3, <2>4 DEF Sending
<1>13. /\ u \in [Handles -> Info]
       /\ \A g \in Handles : g # q /\ (g # h \/ i.orig = h) => u[g] = t[g]
       /\ u[q].orig = i.orig /\ u[q].buf = i.buf
       /\ i.orig # h => ~ u[h].completed /\ ~ u[h].custom /\ u[h].orig = Null
  <2> HIDE DEF n, u
  <2>1. u = MoreTable(t, h, q, n)
    BY DEF u
  <2>2. /\ ncaches \in Nat /\ t \in [Handles -> Info] /\ h \in Handles
        /\ q \in Handles /\ q # h /\ n \in Int
    BY <1>2, <1>3, <1>6, <1>8
  <2>3. u \in [Handles -> Info]
    BY <2>1, <2>2, MoreFacts
  <2>4. \A g \in Handles : g # q /\ (g # h \/ t[h].orig = h) => u[g] = t[g]
    BY <2>1, <2>2, MoreFacts
  <2>5. /\ u[q].orig = t[h].orig /\ u[q].buf = t[h].buf
        /\ t[h].orig # h => ~ u[h].completed /\ ~ u[h].custom /\ u[h].orig = Null
    BY <2>1, <2>2, MoreFacts
  <2> QED BY <2>3, <2>4, <2>5
<1>14. Freed(t, h) = IF i.orig # h THEN {h} ELSE {}
  BY Zenon DEF Freed
<1>15. x \in Seq(Message) /\ Tipped(x, m)
  <2> HIDE DEF e, m, x
  <2>1. x = e \o <<m>> /\ m \in Message
    BY <1>11 DEF x
  <2> QED BY <1>10, <2>1, BusyMessages
<1> HIDE DEF i, x, v, u, e, m
<1>16. /\ Tables(net', Message)
       /\ \A p \in Ranks : p # r => net'[p] = net[p]
       /\ Once(net'[r])
       /\ \A g \in ReqsIn(net'[r]) : g \in ReqsIn(net[r]) \/ g \in Q
       /\ \A a \in Items(net'[r]) : a \in Items(net[r]) \/ a \in Elems(x)
  <2>1. FreshIn(Q, net[r], x)
    BY <1>8, <1>11, <1>15 DEF FreshIn, Tipped
  <2> DEFINE d == i.peer
  <2>2. d \in Ranks /\ Sending(r, d, x) /\ Once(net[r]) /\ x \in Seq(Message)
    BY <1>3, <1>5, <1>12, <1>15
  <2> HIDE DEF Q, d
  <2>3. Once(net'[r]) /\ \A p \in Ranks : p # r => net'[p] = net[p]
    BY <2>1, <2>2, SendQueue
  <2>4. \A g \in ReqsIn(net'[r]) : g \in ReqsIn(net[r]) \/ g \in Q
    BY <2>1, <2>2, SendQueue
  <2>5. \A a \in Items(net'[r]) : a \in Items(net[r]) \/ a \in Elems(x)
    BY <2>1, <2>2, SendQueue
  <2>6. Tables(net', Message)
    BY <2>1, <2>2, SendQueue
  <2> QED BY <2>3, <2>4, <2>5, <2>6
<1>17. /\ mem' \in [Ranks -> [Buffers -> Seq(Word)]]
       /\ mem'[r][i.buf] = v
       /\ \A c \in Buffers : c # i.buf => mem'[r][c] = mem[r][c]
       /\ \A p \in Ranks : p # r => mem'[p] = mem[p]
  BY <1>2, <1>3, <1>9, <1>12
<1>18. \A a \in Items(net'[r]) : a.ref # Null =>
         \/ a \in Items(net[r])
         \/ a.req \in Q /\ a.ref = i.buf /\ mem'[r][a.ref] = a.val
  <2>1. \A a \in Elems(x) : a.ref = Null \/ a = m
    BY <1>15 DEF Elems, Tipped
  <2> QED BY <1>11, <1>16, <1>17, <2>1
<1>19. /\ info' \in [Ranks -> [Handles -> Info]] /\ info'[r] = u
       /\ \A p \in Ranks : p # r => info'[p] = info[p]
  BY <1>2, <1>12, <1>13
<1>20. /\ free' \in [Ranks -> SUBSET Requests] /\ free'[r] = F
       /\ \A p \in Ranks : p # r => free'[p] = free[p]
  BY <1>2, <1>3, <1>12, <1>14
<1>21. \A g \in free'[r] :
         \/ g \in free[r] /\ g \notin Q
         \/ /\ g = h /\ i.orig # h
            /\ ~ info'[r][h].completed /\ ~ info'[r][h].custom /\ info'[r][h].orig = Null
  BY <1>13, <1>14, <1>19, <1>20
<1>22. \A g \in Handles : g \notin Q /\ (g # h \/ i.orig = h) => info'[r][g] = t[g]
  BY <1>13, <1>19
<1>23. /\ Q \in SUBSET free[r] /\ (\A a, c \in Q : a = c)
       /\ \A g \in Q : info'[r][g].orig = i.orig /\ info'[r][g].buf = i.buf
  BY <1>7, <1>13, <1>19
<1>24. net' \in [Ranks -> [Ranks -> Seq(Message)]]
  BY <1>16 DEF Tables
<1>25. SendEffect(r, h, t, Q)
  <2> HIDE DEF F, Q
  <2> QED BY <1>16, <1>17, <1>18, <1>19, <1>20, <1>21, <1>22, <1>23, <1>24
          DEF SendEffect, i
<1> QED BY <1>25 DEF q

LEMMA SendFacts ==
  ASSUME NEW r \in Ranks, TypeInv, NEW h, NEW t, NEW w, SendCall(r, h, t, w),
         SendHandler(r, h, t, w)
  PROVE  \E M : SendEffect(r, h, t, M)
BY SendLastFacts, SendMoreFacts DEF SendHandler

LEMMA TypeStep ==
  ASSUME TypeInv, ncaches' = ncaches,
         pc' \in [Ranks -> PCs], idx' \in [Ranks -> Ranks], round' \in [Ranks -> Int],
         pending' \in [Ranks -> Seq(Handles)], cache' \in [Ranks -> Seq(Buffers)],
         mem' \in [Ranks -> [Buffers -> Seq(Word)]], info' \in [Ranks -> [Handles -> Info]],
         free' \in [Ranks -> SUBSET Requests], done' \in [Ranks -> SUBSET Handles],
         posted' \in [Ranks -> [Ranks -> Seq(Receive)]],
         net' \in [Ranks -> [Ranks -> Seq(Message)]],
         stack' \in [Ranks -> Seq(Handles)], mode' \in [Ranks -> {"call", "return"}],
         countMem' \in [Ranks -> [Ranks -> Word]]
  PROVE  TypeInv'
<1>1. Buffers' = Buffers /\ Info' = Info
  BY Zenon DEF Buffers, Info
<1>2. ncaches' \in Nat
  BY DEF TypeInv
<1> QED BY <1>1, <1>2, Zenon DEF TypeInv

\* A send has completed: its callback sends the next batches.
LEMMA ProgressSendRank ==
  ASSUME NEW r \in Ranks, TypeInv, \A p \in Ranks : RankInv(p), ProgressSend(r)
  PROVE  RankInv(r)' /\ Elsewhere(r) /\ TypeInv'
<1>1. PICK h \in done[r] :
        /\ pc[r] = "stop" /\ stack[r] = << >>
        /\ done' = [done EXCEPT ![r] = done[r] \ {h}]
        /\ SendHandler(r, h, info[r], << >>)
        /\ UNCHANGED <<ncaches, pc, idx, round, pending, cache, posted, stack, mode, countMem>>
  BY Zenon DEF ProgressSend, Polling, Idle, loop, callbacks, user
<1>2. RankInv(r) /\ Open(r)
  BY <1>1 DEF Open
<1>3. /\ OwnInv(r) /\ HeapInv(r) /\ CountInv(r)
      /\ PlaceInv(r) /\ CarryInv(r) /\ CleanInv(r) /\ ReadInv(r)
  BY <1>2 DEF RankInv
<1> DEFINE t == info[r]
           w == << >>
           o == t[h].orig
<1>4. h \in InUCX(r) /\ h \in Active(r) /\ h \in Handles /\ h \notin free[r] /\ h \in Requests
  <2>1. h \in InUCX(r) /\ h \in Active(r)
    BY DEF InUCX, Active
  <2> QED BY <1>2, <1>3, <2>1, OpenFacts DEF PlaceInv
<1>5. /\ BufOf(r, h) \in Buffers /\ o \in Transfers(r) /\ OrigOf(r, h) = o
      /\ \A b \in Active(r) : BufOf(r, h) = BufOf(r, b) => h = b
  BY <1>2, <1>3, <1>4, BufsApart DEF OrigOf
<1>6. o \in Handles /\ o \notin free[r] /\ t[h].buf \in Buffers
  BY <1>2, <1>5, OpenFacts DEF BufOf
<1>7. SendCall(r, h, t, w)
  <2>1. t \in [Handles -> Info]
    BY DEF TypeInv
  <2>2. w \in Seq(Message) /\ Silent(w)
    BY EmptySeq DEF Silent
  <2>3. Once(net[r]) /\ free[r] \cap ReqsIn(net[r]) = {}
    BY <1>2, <1>3 DEF PlaceInv, InUCX
  <2> QED BY <1>4, <1>6, <2>1, <2>2, <2>3 DEF SendCall
<1> HIDE DEF w
<1>8. PICK M : SendEffect(r, h, t, M)
  BY <1>1, <1>7, SendFacts DEF w
<1> HIDE DEF o
<1>9. /\ M \in SUBSET free[r] /\ (\A a, b \in M : a = b)
      /\ Once(net'[r])
      /\ (\A q \in ReqsIn(net'[r]) : q \in ReqsIn(net[r]) \/ q \in M)
      /\ \A m \in Items(net'[r]) : m.ref # Null =>
           \/ m \in Items(net[r])
           \/ m.req \in M /\ m.ref = BufOf(r, h) /\ mem'[r][m.ref] = m.val
  BY <1>8 DEF SendEffect, BufOf
<1>10. \A b \in Buffers : b # BufOf(r, h) => mem'[r][b] = mem[r][b]
  BY <1>8 DEF SendEffect, BufOf
<1>11. \A g \in Handles : g \notin M /\ (g # h \/ o = h) =>
         /\ info'[r][g].orig = info[r][g].orig /\ info'[r][g].buf = info[r][g].buf
         /\ info'[r][g].custom = info[r][g].custom
         /\ info'[r][g].completed => info[r][g].completed \/ (M = {} /\ g = o)
         /\ g # o => info'[r][g] = info[r][g]
  BY <1>8 DEF SendEffect, o
<1>12. \A g \in M : info'[r][g].orig = o /\ info'[r][g].buf = BufOf(r, h)
  BY <1>8 DEF SendEffect, o, BufOf
<1>13. \A g \in free'[r] :
         \/ g \in free[r] /\ g \notin M
         \/ /\ g = h /\ o # h
            /\ ~ info'[r][h].completed /\ ~ info'[r][h].custom /\ info'[r][h].orig = Null
  BY <1>8 DEF SendEffect, o
<1>14. done'[r] = done[r] \ {h} /\ \A p \in Ranks : p # r => done'[p] = done[p]
  BY <1>1 DEF TypeInv
<1>15. /\ \A g \in M : /\ g \in Handles /\ g \in Requests /\ g \notin InUCX(r)
                       /\ g \notin InStack(r) /\ g \notin Transfers(r) /\ g # h
       /\ \A a \in InUCX(r) : a \in Active(r) /\ a \in Handles /\ a \notin M
       /\ \A p \in Transfers(r) : p \in Handles /\ p \notin M /\ p \notin free[r]
                                  /\ OrigOf(r, p) = p
  <2>1. free[r] \subseteq Requests
    BY DEF TypeInv
  <2> QED BY <1>2, <1>4, <1>9, <2>1, OpenFacts DEF Active
<1>16. \A a \in InUCX(r)' : (a \in InUCX(r) /\ a # h) \/ a \in M
  <2>1. h \notin ReqsIn(net[r]) /\ h \notin ReqsIn(posted[r])
    BY <1>3 DEF PlaceInv
  <2> QED BY <1>1, <1>9, <1>14, <2>1 DEF InUCX
<1>17. InStack(r)' = {} /\ InStack(r) = {} /\ Due(r)' = {}
  BY <1>1 DEF InStack, Due, HandlerReady
<1>18. \A p \in Transfers(r) : p = h => o = h
  BY <1>5, <1>15
<1>19. OwnInv(r)' /\ HeapInv(r)' /\ CountInv(r)'
  <2>1. \A p \in Transfers(r) :
           /\ OrigOf(r, p)' = OrigOf(r, p) /\ BufOf(r, p)' = BufOf(r, p)
           /\ p \notin free[r] => p \notin free'[r]
           /\ info[r][p].custom => info'[r][p].custom
    BY <1>11, <1>13, <1>15, <1>18 DEF OrigOf, BufOf
  <2> QED BY <1>1, <1>3, <2>1, UserKept DEF Kept
<1>20. PlaceInv(r)'
  <2>1. Open(r)' /\ Live(r)' /\ Live(r) /\ stack'[r] = << >>
    BY <1>1, <1>2 DEF Open, Live
  <2>2. Once(posted'[r]) /\ posted'[r] = posted[r]
    BY <1>1, <1>3 DEF PlaceInv
  <2>3. /\ done'[r] \cap ReqsIn(net'[r]) = {} /\ done'[r] \cap ReqsIn(posted'[r]) = {}
        /\ ReqsIn(net'[r]) \cap ReqsIn(posted'[r]) = {}
    BY <1>3, <1>9, <1>14, <1>15, <2>2 DEF PlaceInv, InUCX
  <2>4. InUCX(r)' \cap free'[r] = {}
    BY <1>2, <1>9, <1>13, <1>15, <1>16, OpenFacts
  <2>5. InUCX(r)' \subseteq Requests
    BY <1>3, <1>15, <1>16 DEF PlaceInv
  <2>6. \A j, k \in 1 .. Len(stack'[r]) : stack'[r][j] = stack'[r][k] => j = k
    BY <1>1, <1>3 DEF PlaceInv
  <2> QED BY <1>9, <1>17, <2>1, <2>2, <2>3, <2>4, <2>5, <2>6 DEF PlaceInv
<1>21. CarryInv(r)'
  <2>1. \A a \in Active(r)' : (a \in Active(r) /\ a # h) \/ a \in M
    BY <1>15, <1>16, <1>17 DEF Active
  <2>2. \A a \in Active(r) : a # h /\ a \notin M =>
          OrigOf(r, a)' = OrigOf(r, a) /\ BufOf(r, a)' = BufOf(r, a)
    BY <1>2, <1>11, OpenFacts DEF OrigOf, BufOf
  <2>3. \A a \in M : OrigOf(r, a)' = OrigOf(r, h) /\ BufOf(r, a)' = BufOf(r, h)
    BY <1>5, <1>12 DEF OrigOf, BufOf
  <2>4. \A p \in Transfers(r) :
           /\ BufOf(r, p)' = BufOf(r, p)
           /\ info'[r][p].completed =>
                info[r][p].completed \/ (M = {} /\ p = OrigOf(r, h))
    BY <1>5, <1>11, <1>15, <1>18 DEF BufOf
  <2>5. pending'[r] = pending[r] /\ \A a, b \in M : a = b
    BY <1>1, <1>9
  <2> QED BY <1>2, <1>3, <1>4, <2>1, <2>2, <2>3, <2>4, <2>5, TokenMoved
<1>22. CleanInv(r)'
  <2>1. \A g \in free[r] : /\ g \in Handles /\ g # h /\ g # o
                           /\ ~ info[r][g].completed /\ ~ info[r][g].custom
                           /\ info[r][g].orig = Null
    BY <1>2, <1>4, <1>6, OpenFacts
  <2>2. \A g \in free'[r] :
          ~ info'[r][g].completed /\ ~ info'[r][g].custom /\ info'[r][g].orig = Null
    BY <1>11, <1>13, <2>1
  <2> QED BY <2>2 DEF CleanInv, OrigOf
<1>23. ReadInv(r)'
  <2> DEFINE K == InUCX(r) \ {h}
  <2>1. ASSUME NEW a \in K
        PROVE  BufOf(r, a)' = BufOf(r, a) /\ mem'[r][BufOf(r, a)] = mem[r][BufOf(r, a)]
    <3>1. BufOf(r, a) \in Buffers /\ BufOf(r, a) # BufOf(r, h)
      BY <1>2, <1>3, <1>5, <1>15, BufsApart
    <3>2. BufOf(r, a)' = BufOf(r, a)
      BY <1>11, <1>15 DEF BufOf
    <3> QED BY <1>10, <3>1, <3>2
  <2>2. \A m \in Items(net'[r]) : m.ref # Null =>
          \/ m \in Items(net[r]) /\ m.req \in K
          \/ m.req \in Handles /\ m.ref = BufOf(r, m.req)' /\ mem'[r][m.ref] = m.val
    <3>1. \A m \in Items(net[r]) : m.ref # Null => m.req \in ReqsIn(net[r])
      BY <1>2, OpenFacts
    <3>2. h \notin ReqsIn(net[r])
      BY <1>3 DEF PlaceInv
    <3>3. \A g \in M : BufOf(r, g)' = BufOf(r, h) /\ g \in Handles
      BY <1>12, <1>15 DEF BufOf
    <3>4. ReqsIn(net[r]) \subseteq InUCX(r)
      BY DEF InUCX
    <3> QED BY <1>9, <3>1, <3>2, <3>3, <3>4
  <2>3. \A m \in Items(posted'[r]) : m.dst # Null => m \in Items(posted[r]) /\ m.req \in K
    <3>1. \A m \in Items(posted[r]) : m.req \in ReqsIn(posted[r])
      BY <1>2, OpenFacts
    <3>2. h \notin ReqsIn(posted[r])
      BY <1>3 DEF PlaceInv
    <3> QED BY <1>1, <3>1, <3>2 DEF InUCX
  <2> HIDE DEF K
  <2> QED BY <1>2, <1>3, <2>1, <2>2, <2>3, ReadKept
<1>24. Elsewhere(r)
  <2> SUFFICES ASSUME NEW p \in Ranks, p # r
               PROVE  Same(p) /\ NetLess(p)
    BY DEF Elsewhere
  <2>1. net'[p] = net[p] /\ mem'[p] = mem[p] /\ info'[p] = info[p] /\ free'[p] = free[p]
    BY <1>8 DEF SendEffect
  <2>2. NetLess(p)
    BY <2>1, NetSame
  <2> QED BY <1>1, <1>14, <2>1, <2>2 DEF Same, Kept
<1>25. TypeInv'
  <2>1. /\ pc' = pc /\ idx' = idx /\ round' = round /\ pending' = pending /\ cache' = cache
        /\ posted' = posted /\ stack' = stack /\ mode' = mode /\ countMem' = countMem
        /\ ncaches' = ncaches
    BY <1>1
  <2>2. done' \in [Ranks -> SUBSET Handles]
    BY <1>1 DEF TypeInv
  <2>3. /\ net' \in [Ranks -> [Ranks -> Seq(Message)]]
        /\ mem' \in [Ranks -> [Buffers -> Seq(Word)]]
        /\ info' \in [Ranks -> [Handles -> Info]]
        /\ free' \in [Ranks -> SUBSET Requests]
    BY <1>8 DEF SendEffect
  <2> QED BY <2>1, <2>2, <2>3, TypeStep, Zenon DEF TypeInv
<1> QED BY <1>19, <1>20, <1>21, <1>22, <1>23, <1>24, <1>25 DEF RankInv

-----------------------------------------------------------------------------
\* The loops over the peers, and how many of them are behind.
Before(r, i) == {s \in Peers(r) : s < i}

LEMMA PeerLoop ==
  ASSUME NEW r \in Ranks, NEW i \in Peers(r), NEW j, j = From(r, i + 1)
  PROVE  /\ j \in Int /\ j > i
         /\ j < N => j \in Peers(r) /\ Before(r, j) = Before(r, i) \cup {i}
         /\ ~ (j < N) => Peers(r) = Before(r, i) \cup {i}
<1>1. /\ N \in Nat /\ r \in 0 .. N - 1 /\ i \in 0 .. N - 1 /\ (IncludeSelf \/ i # r)
  BY NAssumption DEF Ranks, Peers
<1>2. j = IF ~ IncludeSelf /\ i + 1 = r THEN i + 2 ELSE i + 1
  <2>1. j = IF ~ IncludeSelf /\ i + 1 = r THEN i + 1 + 1 ELSE i + 1
    BY Zenon DEF From
  <2> QED BY <1>1, <2>1
<1>3. \A s : s \in Peers(r) <=> s \in 0 .. N - 1 /\ (IncludeSelf \/ s # r)
  BY DEF Peers, Ranks
<1>4. j \in Int /\ j > i /\ (IncludeSelf \/ j # r)
  BY <1>1, <1>2
<1>5. \A s \in Peers(r) : s < j <=> s < i \/ s = i
  BY <1>1, <1>2, <1>3
<1>6. j < N => j \in Peers(r)
  BY <1>1, <1>3, <1>4
<1>7. Before(r, j) = Before(r, i) \cup {i}
  BY <1>5 DEF Before
<1>8. ASSUME ~ (j < N)
      PROVE  Peers(r) = Before(r, i) \cup {i}
  <2>1. \A s \in Peers(r) : s < j
    BY <1>1, <1>3, <1>4, <1>8
  <2> QED BY <1>5, <2>1 DEF Before
<1> QED BY <1>4, <1>6, <1>7, <1>8

LEMMA PeerFirst ==
  ASSUME NEW r \in Ranks, NEW j, j = From(r, 0)
  PROVE  j \in Peers(r) /\ j \in Ranks /\ Before(r, j) = {}
<1>1. /\ N \in Nat /\ N > 0 /\ r \in 0 .. N - 1 /\ (IncludeSelf \/ N > 1)
  BY NAssumption, SelfAssumption DEF Ranks
<1>2. j = IF ~ IncludeSelf /\ 0 = r THEN 1 ELSE 0
  <2>1. j = IF ~ IncludeSelf /\ 0 = r THEN 0 + 1 ELSE 0
    BY Zenon DEF From
  <2> QED BY <2>1
<1>3. \A s : s \in Peers(r) <=> s \in 0 .. N - 1 /\ (IncludeSelf \/ s # r)
  BY DEF Peers, Ranks
<1>4. j \in Peers(r)
  BY <1>1, <1>2, <1>3
<1>5. \A s \in Peers(r) : ~ (s < j)
  BY <1>1, <1>2, <1>3
<1>6. Before(r, j) = {}
  BY <1>5 DEF Before
<1>7. j \in Ranks
  BY <1>4 DEF Peers
<1> QED BY <1>4, <1>6, <1>7

LEMMA PeerCount ==
  ASSUME NEW r \in Ranks, NEW i \in Peers(r)
  PROVE  /\ Cardinality(Before(r, i) \cup {i}) = Cardinality(Before(r, i)) + 1
         /\ Cardinality(Before(r, i)) \in Nat
<1>1. IsFiniteSet(Ranks)
  BY NAssumption, FS_Interval DEF Ranks
<1>2. Before(r, i) \subseteq Ranks
  BY DEF Before, Peers
<1>3. IsFiniteSet(Before(r, i))
  BY <1>1, <1>2, FS_Subset
<1>4. i \notin Before(r, i)
  BY NAssumption DEF Before, Peers, Ranks
<1> QED BY <1>3, <1>4, FS_AddElement, FS_CardinalityType

\* The loop goes on to the next peer, or to the next loop.
LoopStep(r) == LoopNext(r, pc[r], IF pc[r] = "send" THEN "recv" ELSE "stop")

LEMMA LoopMoves ==
  ASSUME NEW r \in Ranks, TypeInv, CountInv(r), pc[r] \in {"send", "recv"},
         LoopStep(r)
  PROVE  /\ idx[r] \in Peers(r) /\ idx' \in [Ranks -> Ranks] /\ pc' \in [Ranks -> PCs]
         /\ \A q \in Ranks : q # r => pc'[q] = pc[q] /\ idx'[q] = idx[q]
         /\ \/ /\ pc'[r] = pc[r] /\ idx'[r] > idx[r] /\ idx'[r] \in Peers(r)
               /\ Passed(r)' = Passed(r) + 1
            \/ /\ pc'[r] = IF pc[r] = "send" THEN "recv" ELSE "stop"
               /\ idx'[r] \in Peers(r) /\ Passed(r)' = 0 /\ All(r) = Passed(r) + 1
<1> DEFINE next == IF pc[r] = "send" THEN "recv" ELSE "stop"
           i == idx[r]
           j == From(r, i + 1)
           f == From(r, 0)
<1>1. /\ pc \in [Ranks -> PCs] /\ idx \in [Ranks -> Ranks]
  BY DEF TypeInv
<1>2. i \in Peers(r)
  BY DEF CountInv
<1>3. /\ pc' = [pc EXCEPT ![r] = IF j < N THEN pc[r] ELSE next]
      /\ idx' = [idx EXCEPT ![r] = IF j < N THEN j ELSE f]
  BY Zenon DEF LoopStep, LoopNext
<1>4. next \in {"recv", "stop"} /\ next \in PCs /\ pc[r] \in PCs
  BY DEF PCs
<1> HIDE DEF next, i, f
<1>5. /\ j \in Int /\ j > i
      /\ j < N => j \in Peers(r) /\ Before(r, j) = Before(r, i) \cup {i}
      /\ ~ (j < N) => Peers(r) = Before(r, i) \cup {i}
  BY <1>2, PeerLoop
<1>6. f \in Peers(r) /\ f \in Ranks /\ Before(r, f) = {}
  BY PeerFirst DEF f
<1> HIDE DEF j
<1>7. j < N => j \in Ranks
  BY <1>5 DEF Peers
<1>8. /\ pc' \in [Ranks -> PCs] /\ idx' \in [Ranks -> Ranks]
      /\ \A q \in Ranks : q # r => pc'[q] = pc[q] /\ idx'[q] = idx[q]
      /\ pc'[r] = IF j < N THEN pc[r] ELSE next
      /\ idx'[r] = IF j < N THEN j ELSE f
  BY <1>1, <1>3, <1>4, <1>6, <1>7
<1>9. /\ Passed(r) = Cardinality(Before(r, i))
      /\ Passed(r)' = Cardinality(Before(r, idx'[r]))
      /\ All(r) = Cardinality(Peers(r))
  BY Zenon DEF Passed, Before, All, i, Peers
<1>10. /\ Cardinality(Before(r, i) \cup {i}) = Cardinality(Before(r, i)) + 1
       /\ Cardinality({}) = 0
  BY <1>2, PeerCount, FS_EmptySet
<1>11. CASE j < N
  BY <1>2, <1>5, <1>8, <1>9, <1>10, <1>11 DEF i
<1>12. CASE ~ (j < N)
  BY <1>2, <1>5, <1>6, <1>8, <1>9, <1>10, <1>12 DEF i, next
<1> QED BY <1>11, <1>12

\* A transfer begins: its handle is x, its buffer the first of the cache.
Begins(r, x) ==
  /\ ncaches' = ncaches /\ cache[r] # << >>
  /\ pending' = [pending EXCEPT ![r] = Append(pending[r], x)]
  /\ cache' = [cache EXCEPT ![r] = Tail(cache[r])]
  /\ pc[r] \in {"send", "recv"} /\ LoopStep(r)
  /\ x \in Handles /\ x \notin Transfers(r) /\ x \notin free'[r]
  /\ info'[r][x].orig = x /\ info'[r][x].buf = Head(cache[r])
  /\ pc[r] = "send" => x <= MaxReq \/ x = Heap(idx[r])
  /\ x \in Requests \/ info'[r][x].custom
  /\ \A p \in Transfers(r) :
       /\ info'[r][p].orig = info[r][p].orig /\ info'[r][p].buf = info[r][p].buf
       /\ info'[r][p].custom = info[r][p].custom
       /\ p \notin free'[r]

LEMMA BeginsFacts ==
  ASSUME NEW r \in Ranks, TypeInv, OwnInv(r), NEW x, Begins(r, x)
  PROVE  /\ Len(pending[r]) \in Nat /\ Len(pending'[r]) = Len(pending[r]) + 1
         /\ \A j \in 1 .. Len(pending[r]) :
              pending'[r][j] = pending[r][j] /\ pending[r][j] \in Transfers(r)
         /\ pending'[r][Len(pending[r]) + 1] = x
         /\ Len(cache[r]) \in Nat /\ Len(cache'[r]) = Len(cache[r]) - 1
         /\ \A k \in 1 .. Len(cache'[r]) :
              /\ k + 1 \in 1 .. Len(cache[r]) /\ cache'[r][k] = cache[r][k + 1]
              /\ cache'[r][k] # cache[r][1]
         /\ 1 \in 1 .. Len(cache[r]) /\ Head(cache[r]) = cache[r][1] /\ cache[r][1] \in Buffers
         /\ Transfers(r)' = Transfers(r) \cup {x}
         /\ pending' \in [Ranks -> Seq(Handles)] /\ cache' \in [Ranks -> Seq(Buffers)]
         /\ \A q \in Ranks : q # r => pending'[q] = pending[q] /\ cache'[q] = cache[q]
<1> DEFINE p == pending[r]
           c == cache[r]
           P == Append(p, x)
           C == Tail(c)
<1>1. /\ pending \in [Ranks -> Seq(Handles)] /\ cache \in [Ranks -> Seq(Buffers)]
  BY DEF TypeInv
<1>2. /\ pending' = [pending EXCEPT ![r] = P] /\ cache' = [cache EXCEPT ![r] = C]
      /\ c # << >> /\ x \in Handles
  BY Zenon DEF Begins
<1>3. p \in Seq(Handles) /\ c \in Seq(Buffers)
  BY <1>1
<1> HIDE DEF p, c
<1>4. /\ P \in Seq(Handles) /\ Len(P) = Len(p) + 1 /\ Len(p) \in Nat
      /\ (\A j \in 1 .. Len(p) : P[j] = p[j]) /\ P[Len(p) + 1] = x
  BY <1>2, <1>3, AppendProperties, LenProperties
<1>5. /\ C \in Seq(Buffers) /\ Len(C) = Len(c) - 1 /\ Len(c) \in Nat /\ Len(c) >= 1
      /\ (\A j \in 1 .. Len(C) : C[j] = c[j + 1])
      /\ Head(c) = c[1] /\ c[1] \in Buffers
  BY <1>2, <1>3, HeadTailProperties, EmptySeq, LenProperties
<1> HIDE DEF P, C
<1>6. /\ pending'[r] = P /\ cache'[r] = C
      /\ pending' \in [Ranks -> Seq(Handles)] /\ cache' \in [Ranks -> Seq(Buffers)]
      /\ \A q \in Ranks : q # r => pending'[q] = pending[q] /\ cache'[q] = cache[q]
  BY <1>1, <1>2, <1>4, <1>5
<1>7. \A j, k \in 1 .. Len(c) : c[j] = c[k] => j = k
  BY DEF OwnInv, CacheDistinct, c
<1>8. 1 \in 1 .. Len(c) /\ \A k \in 1 .. Len(C) : k + 1 \in 1 .. Len(c) /\ k + 1 # 1
  BY <1>5
<1>9. \A k \in 1 .. Len(C) : C[k] # c[1]
  BY <1>5, <1>7, <1>8
<1>10. Transfers(r) = {p[j] : j \in 1 .. Len(p)} /\ Transfers(r)' = {P[j] : j \in 1 .. Len(P)}
  BY <1>6 DEF Transfers, p
<1>11. Transfers(r)' = Transfers(r) \cup {x}
  <2>1. \A j \in 1 .. Len(P) : j \in 1 .. Len(p) \/ j = Len(p) + 1
    BY <1>4
  <2>2. \A j \in 1 .. Len(p) : j \in 1 .. Len(P)
    BY <1>4
  <2>3. Len(p) + 1 \in 1 .. Len(P)
    BY <1>4
  <2> QED BY <1>4, <1>10, <2>1, <2>2, <2>3
<1>12. \A j \in 1 .. Len(p) : p[j] \in Transfers(r)
  BY <1>10
<1> QED BY <1>4, <1>5, <1>6, <1>8, <1>9, <1>11, <1>12 DEF p, c

LEMMA UserBegins ==
  ASSUME NEW r \in Ranks, TypeInv, OwnInv(r), HeapInv(r), CountInv(r), NEW x, Begins(r, x)
  PROVE  OwnInv(r)' /\ HeapInv(r)' /\ CountInv(r)'
<1> DEFINE n == Len(pending[r])
           b == cache[r][1]
<1>1. /\ n \in Nat /\ Len(pending'[r]) = n + 1
      /\ \A j \in 1 .. n : pending'[r][j] = pending[r][j] /\ pending[r][j] \in Transfers(r)
      /\ pending'[r][n + 1] = x
      /\ Len(cache[r]) \in Nat /\ Len(cache'[r]) = Len(cache[r]) - 1
      /\ \A k \in 1 .. Len(cache'[r]) :
           /\ k + 1 \in 1 .. Len(cache[r]) /\ cache'[r][k] = cache[r][k + 1]
           /\ cache'[r][k] # b
      /\ 1 \in 1 .. Len(cache[r]) /\ Head(cache[r]) = b /\ b \in Buffers
      /\ Transfers(r)' = Transfers(r) \cup {x}
  BY BeginsFacts
<1>2. /\ ncaches' = ncaches /\ pc[r] \in {"send", "recv"} /\ LoopStep(r)
      /\ x \in Handles /\ x \notin Transfers(r) /\ x \notin free'[r]
      /\ info'[r][x].orig = x /\ info'[r][x].buf = b
      /\ pc[r] = "send" => x <= MaxReq \/ x = Heap(idx[r])
      /\ x \in Requests \/ info'[r][x].custom
      /\ \A p \in Transfers(r) :
           /\ info'[r][p].orig = info[r][p].orig /\ info'[r][p].buf = info[r][p].buf
           /\ info'[r][p].custom = info[r][p].custom
           /\ p \notin free'[r]
  BY <1>1 DEF Begins
<1>3. /\ idx[r] \in Peers(r) /\ idx'[r] \in Peers(r) /\ idx'[r] \in Int /\ idx[r] \in Int
      /\ \/ pc'[r] = pc[r] /\ idx'[r] > idx[r] /\ Passed(r)' = Passed(r) + 1
         \/ /\ pc'[r] = IF pc[r] = "send" THEN "recv" ELSE "stop"
            /\ Passed(r)' = 0 /\ All(r) = Passed(r) + 1
  <2>1. \A s \in Peers(r) : s \in Int
    BY DEF Peers, Ranks
  <2> QED BY <1>2, <2>1, LoopMoves
<1>4. Live(r) /\ Live(r)' /\ Open(r) /\ Buffers' = Buffers
  BY <1>2, <1>3 DEF Live, Open, Buffers
<1> HIDE DEF n, b
<1>5. \A j \in 1 .. n + 1 : j \in 1 .. n \/ j = n + 1
  BY <1>1
<1>6. \A j \in 1 .. n :
        /\ pending[r][j] \notin free[r] /\ info[r][pending[r][j]].orig = pending[r][j]
        /\ info[r][pending[r][j]].buf \in Buffers
        /\ \A k \in 1 .. Len(cache[r]) : cache[r][k] # info[r][pending[r][j]].buf
        /\ \A k \in 1 .. n : info[r][pending[r][k]].buf = info[r][pending[r][j]].buf => j = k
  BY <1>4 DEF OwnInv, OrigOf, BufOf, n
<1>7. CacheDistinct(r)'
  <2>1. \A j, k \in 1 .. Len(cache[r]) : cache[r][j] = cache[r][k] => j = k
    BY DEF OwnInv, CacheDistinct
  <2>2. ASSUME NEW j \in 1 .. Len(cache'[r]), NEW k \in 1 .. Len(cache'[r]),
               cache'[r][j] = cache'[r][k]
        PROVE  j = k
    <3>1. j + 1 = k + 1
      BY <1>1, <2>1, <2>2
    <3> QED BY <3>1
  <2> QED BY <2>2 DEF CacheDistinct
<1>8. ASSUME NEW c \in Buffers
      PROVE  Accounted(r, c)'
  <2>1. CASE \E k \in 1 .. Len(cache[r]) : cache[r][k] = c
    <3>1. PICK k \in 1 .. Len(cache[r]) : cache[r][k] = c
      BY <2>1
    <3>2. CASE k = 1
      <4>1. n + 1 \in 1 .. Len(pending'[r]) /\ info'[r][pending'[r][n + 1]].buf = c
        BY <1>1, <1>2, <3>1, <3>2 DEF b
      <4> QED BY <1>4, <4>1 DEF Accounted, BufOf
    <3>3. CASE k # 1
      <4>1. k - 1 \in 1 .. Len(cache'[r]) /\ k - 1 + 1 = k
        BY <1>1, <3>3
      <4>2. cache'[r][k - 1] = c
        BY <1>1, <3>1, <4>1
      <4> QED BY <4>1, <4>2 DEF Accounted
    <3> QED BY <3>2, <3>3
  <2>2. CASE \E j \in 1 .. n : info[r][pending[r][j]].buf = c
    <3>1. PICK j \in 1 .. n : info[r][pending[r][j]].buf = c
      BY <2>2
    <3>2. j \in 1 .. Len(pending'[r]) /\ info'[r][pending'[r][j]].buf = c
      BY <1>1, <1>2, <3>1
    <3> QED BY <1>4, <3>2 DEF Accounted, BufOf
  <2> QED BY <2>1, <2>2 DEF OwnInv, Accounted, BufOf, n
<1>9. ASSUME NEW j \in 1 .. Len(pending'[r])
      PROVE  /\ pending'[r][j] \notin free'[r]
             /\ info'[r][pending'[r][j]].orig = pending'[r][j]
             /\ info'[r][pending'[r][j]].buf \in Buffers
             /\ \A k \in 1 .. Len(cache'[r]) : cache'[r][k] # info'[r][pending'[r][j]].buf
             /\ \A k \in 1 .. Len(pending'[r]) :
                  info'[r][pending'[r][k]].buf = info'[r][pending'[r][j]].buf => j = k
  <2> DEFINE old(k) == info[r][pending[r][k]].buf
             new(k) == info'[r][pending'[r][k]].buf
  <2>1. \A k \in 1 .. Len(pending'[r]) : k \in 1 .. n \/ k = n + 1
    BY <1>1
  <2>2. \A k \in 1 .. n : new(k) = old(k)
    BY <1>1, <1>2
  <2>3. new(n + 1) = b
    BY <1>1, <1>2
  <2>4. \A k \in 1 .. n : /\ old(k) \in Buffers /\ old(k) # b
                          /\ \A i \in 1 .. Len(cache[r]) : cache[r][i] # old(k)
                          /\ \A i \in 1 .. n : old(i) = old(k) => k = i
    BY <1>1, <1>6 DEF b
  <2>5. pending'[r][j] \notin free'[r] /\ info'[r][pending'[r][j]].orig = pending'[r][j]
    <3> DEFINE y == pending'[r][j]
    <3>1. y \in Transfers(r) \/ y = x
      BY <1>1, <2>1
    <3>2. \A o \in Transfers(r) : info[r][o].orig = o
      BY <1>4 DEF Transfers, OwnInv, OrigOf
    <3> HIDE DEF y
    <3>3. y \notin free'[r] /\ info'[r][y].orig = y
      BY <1>2, <3>1, <3>2
    <3> QED BY <3>3 DEF y
  <2> HIDE DEF old, new
  <2>6. new(j) \in Buffers
    BY <1>1, <2>1, <2>2, <2>3, <2>4
  <2>7. \A k \in 1 .. Len(cache'[r]) : cache'[r][k] # new(j)
    <3>1. \A k \in 1 .. Len(cache'[r]) :
            cache'[r][k] # b /\ \E i \in 1 .. Len(cache[r]) : cache'[r][k] = cache[r][i]
      BY <1>1
    <3> QED BY <2>1, <2>2, <2>3, <2>4, <3>1
  <2>8. \A k \in 1 .. Len(pending'[r]) : new(k) = new(j) => j = k
    BY <2>1, <2>2, <2>3, <2>4
  <2> QED BY <2>5, <2>6, <2>7, <2>8 DEF new
<1>10. OwnInv(r)'
  <2>1. \A c \in Buffers : Accounted(r, c)'
    BY <1>8
  <2> QED BY <1>4, <1>7, <1>9, <2>1 DEF OwnInv, OrigOf, BufOf
<1>11. HeapInv(r)'
  <2>1. ASSUME pc'[r] = "send", NEW h \in Transfers(r)'
        PROVE  h <= MaxReq \/ h < MaxReq + 1 + idx'[r]
    <3>1. pc[r] = "send" /\ idx'[r] > idx[r]
      BY <1>2, <1>3, <2>1
    <3>2. h \in Transfers(r) => h <= MaxReq \/ h < MaxReq + 1 + idx[r]
      BY <3>1 DEF HeapInv, Heap
    <3>3. h = x => h <= MaxReq \/ h = MaxReq + 1 + idx[r]
      BY <1>2, <3>1 DEF Heap
    <3>4. h \in Int
      <4>1. Transfers(r) \subseteq Handles
        <5>1. pending[r] \in Seq(Handles)
          BY DEF TypeInv
        <5> QED BY <5>1, ElementOfSeq DEF Transfers
      <4> QED BY <1>1, <1>2, <4>1 DEF Handles
    <3> QED BY <1>1, <1>3, <3>1, <3>2, <3>3, <3>4, BoundsAssumption
  <2>2. \A p \in Transfers(r)' : p \in Requests \/ info'[r][p].custom
    <3>1. \A p \in Transfers(r) : p \in Requests \/ info[r][p].custom
      BY <1>4 DEF HeapInv
    <3>2. \A p \in Transfers(r)' : p \in Transfers(r) \/ p = x
      BY <1>1
    <3> QED BY <1>2, <3>1, <3>2
  <2> QED BY <2>1, <2>2 DEF HeapInv, Heap
<1>12. CountInv(r)'
  <2>1. Len(cache[r]) = ncaches - n /\ ncaches \in Nat
    BY <1>4 DEF CountInv, TypeInv, n
  <2>2. Len(cache'[r]) = ncaches' - Len(pending'[r])
    BY <1>1, <1>2, <2>1
  <2>3. /\ pc[r] = "send" => n = Passed(r)
        /\ pc[r] = "recv" => n = All(r) + Passed(r)
    BY DEF CountInv, n
  <2>4. All(r)' = All(r) /\ Peers(r)' = Peers(r)
    BY Zenon DEF All, Peers
  <2>5. Passed(r) \in Nat /\ All(r) \in Nat
    <3>1. Passed(r) = Cardinality(Before(r, idx[r])) /\ All(r) = Cardinality(Peers(r))
      BY Zenon DEF Passed, Before, All
    <3>2. IsFiniteSet(Peers(r))
      <4>1. IsFiniteSet(Ranks)
        BY NAssumption, FS_Interval DEF Ranks
      <4> QED BY <4>1, FS_Subset DEF Peers
    <3> QED BY <1>3, <3>1, <3>2, PeerCount, FS_CardinalityType
  <2>6. /\ pc'[r] = "send" => Len(pending'[r]) = Passed(r)'
        /\ pc'[r] = "recv" => Len(pending'[r]) = All(r)' + Passed(r)'
    <3>1. Len(pending'[r]) = n + 1 /\ pc[r] \in {"send", "recv"}
      BY <1>1, <1>2
    <3>2. CASE pc'[r] = pc[r] /\ Passed(r)' = Passed(r) + 1
      BY <2>3, <2>4, <2>5, <3>1, <3>2
    <3>3. CASE /\ pc'[r] = IF pc[r] = "send" THEN "recv" ELSE "stop"
               /\ Passed(r)' = 0 /\ All(r) = Passed(r) + 1
      BY <2>3, <2>4, <2>5, <3>1, <3>3
    <3> QED BY <1>3, <3>2, <3>3
  <2>7. pc'[r] # "thrown"
    BY <1>2, <1>3
  <2> QED BY <1>3, <1>4, <2>2, <2>4, <2>6, <2>7 DEF CountInv
<1> QED BY <1>10, <1>11, <1>12

\* The new transfer is carried on by the handles in T (at most one).
LEMMA CarryBegins ==
  ASSUME NEW r \in Ranks, TypeInv, Open(r), OwnInv(r), CarryInv(r), NEW x, Begins(r, x),
         NEW T, \A a, b \in T : a = b,
         \A a \in Active(r)' : (a \in Active(r) /\ a \notin T) \/ a \in T,
         \A a \in Active(r) : a \notin T =>
           info'[r][a].orig = info[r][a].orig /\ info'[r][a].buf = info[r][a].buf,
         \A a \in T : info'[r][a].orig = x /\ info'[r][a].buf = info'[r][x].buf,
         T # {} => ~ info'[r][x].completed,
         \A p \in Transfers(r) : info'[r][p].completed => info[r][p].completed
  PROVE  CarryInv(r)'
<1>1. Transfers(r)' = Transfers(r) \cup {x}
  BY BeginsFacts
<1>2. /\ x \notin Transfers(r)
      /\ \A p \in Transfers(r) : info'[r][p].buf = info[r][p].buf
  BY DEF Begins
<1>3. /\ \A a \in Active(r) :
           /\ info[r][a].orig \in Transfers(r)
           /\ ~ info[r][info[r][a].orig].completed
           /\ info[r][a].buf = info[r][info[r][a].orig].buf
      /\ \A a, b \in Active(r) : info[r][a].orig = info[r][b].orig => a = b
  BY DEF CarryInv, OrigOf, BufOf
<1>4. ASSUME NEW a \in Active(r)'
      PROVE  /\ info'[r][a].orig \in Transfers(r)'
             /\ ~ info'[r][info'[r][a].orig].completed
             /\ info'[r][a].buf = info'[r][info'[r][a].orig].buf
  <2>1. CASE a \in T
    BY <1>1, <2>1
  <2>2. CASE a \in Active(r) /\ a \notin T
    BY <1>1, <1>2, <1>3, <2>2
  <2> QED BY <2>1, <2>2
<1>5. ASSUME NEW a \in Active(r)', NEW b \in Active(r)',
             info'[r][a].orig = info'[r][b].orig
      PROVE  a = b
  <2>1. CASE a \in T /\ b \in T
    BY <2>1
  <2>2. CASE a \notin T /\ b \notin T
    BY <1>3, <1>5, <2>2
  <2>3. CASE (a \in T /\ b \notin T) \/ (a \notin T /\ b \in T)
    BY <1>2, <1>3, <1>5, <2>3
  <2> QED BY <2>1, <2>2, <2>3
<1> QED BY <1>4, <1>5 DEF CarryInv, OrigOf, BufOf

\* The new request goes to the network (A), to the posted receives (B) or to
\* the stack (C).
Goes(r, A, B, C) ==
  /\ A \cup B \cup C \subseteq free[r] /\ A \cap B = {} /\ A \cap C = {} /\ B \cap C = {}
  /\ pc'[r] \in {"send", "recv", "stop"} /\ (C # {} => pc'[r] \in {"recv", "stop"})
  /\ done'[r] = done[r] /\ Once(net'[r]) /\ Once(posted'[r])
  /\ \A q \in ReqsIn(net'[r]) : q \in ReqsIn(net[r]) \/ q \in A
  /\ \A q \in ReqsIn(posted'[r]) : q \in ReqsIn(posted[r]) \/ q \in B
  /\ InStack(r)' = C /\ (stack'[r] # << >> => C # {})
  /\ \A j, k \in 1 .. Len(stack'[r]) : stack'[r][j] = stack'[r][k] => j = k
  /\ \A g \in free'[r] : g \in free[r] /\ g \notin A \cup B \cup C

LEMMA PlaceBegins ==
  ASSUME NEW r \in Ranks, TypeInv, RankInv(r), Open(r), NEW A, NEW B, NEW C, Goes(r, A, B, C)
  PROVE  PlaceInv(r)'
<1> USE DEF Goes
<1>1. Open(r)' /\ Live(r)'
  BY DEF Open, Live
<1>2. PlaceInv(r)
  BY DEF RankInv
<1>3. \A q \in free[r] : q \notin InUCX(r) /\ q \in Requests
  BY OpenFacts DEF TypeInv
<1>4. InUCX(r) = done[r] \cup ReqsIn(net[r]) \cup ReqsIn(posted[r])
  BY DEF InUCX
<1>5. InUCX(r)' = done'[r] \cup ReqsIn(net'[r]) \cup ReqsIn(posted'[r])
  BY DEF InUCX
<1>6. /\ done[r] \cap ReqsIn(net[r]) = {} /\ done[r] \cap ReqsIn(posted[r]) = {}
      /\ ReqsIn(net[r]) \cap ReqsIn(posted[r]) = {}
      /\ InUCX(r) \cap free[r] = {} /\ InUCX(r) \subseteq Requests
  BY <1>2 DEF PlaceInv
<1>7. \A q \in A \cup B \cup C : q \notin done[r] /\ q \notin ReqsIn(net[r])
                                 /\ q \notin ReqsIn(posted[r]) /\ q \in Requests
  BY <1>3, <1>4
<1>8. /\ done'[r] \cap ReqsIn(net'[r]) = {} /\ done'[r] \cap ReqsIn(posted'[r]) = {}
      /\ ReqsIn(net'[r]) \cap ReqsIn(posted'[r]) = {}
  BY <1>6, <1>7
<1>9. \A a \in InUCX(r)' : a \in InUCX(r) \/ a \in A \cup B
  BY <1>4, <1>5
<1>10. InUCX(r)' \cap InStack(r)' = {} /\ (InUCX(r)' \cup InStack(r)') \cap free'[r] = {}
       /\ InUCX(r)' \cup InStack(r)' \subseteq Requests
  BY <1>3, <1>6, <1>7, <1>9
<1> QED BY <1>1, <1>8, <1>10 DEF PlaceInv

\* What UCX reads and writes, when a transfer begins.
LEMMA ReadBegins ==
  ASSUME NEW r \in Ranks, TypeInv, RankInv(r), Open(r), cache[r] # << >>,
         \A a \in InUCX(r) : info'[r][a].buf = info[r][a].buf,
         \A b \in Buffers : b # Head(cache[r]) => mem'[r][b] = mem[r][b],
         \A m \in Items(net'[r]) : m.ref # Null =>
           \/ m \in Items(net[r])
           \/ m.req \in Handles /\ m.ref = info'[r][m.req].buf /\ mem'[r][m.ref] = m.val,
         \A p \in Items(posted'[r]) : p.dst # Null => p \in Items(posted[r])
  PROVE  ReadInv(r)'
<1> DEFINE K == InUCX(r)
<1>1. OwnInv(r) /\ CarryInv(r) /\ ReadInv(r)
  BY DEF RankInv
<1>2. Head(cache[r]) = cache[r][1] /\ 1 \in 1 .. Len(cache[r])
  BY EmptySeq, LenProperties, HeadTailProperties DEF TypeInv
<1>3. ASSUME NEW a \in K
      PROVE  BufOf(r, a)' = BufOf(r, a) /\ mem'[r][BufOf(r, a)] = mem[r][BufOf(r, a)]
  <2>1. a \in Active(r)
    BY DEF Active
  <2>2. BufOf(r, a) \in Buffers /\ BufOf(r, a) # Head(cache[r])
    BY <1>1, <1>2, <2>1, BufsApart
  <2> QED BY <2>2 DEF BufOf
<1>4. /\ \A m \in Items(net[r]) : m.ref # Null => m.req \in K
      /\ \A p \in Items(posted[r]) : p.req \in K
  BY OpenFacts DEF InUCX
<1>5. \A m \in Items(net'[r]) : m.ref # Null =>
        \/ m \in Items(net[r]) /\ m.req \in K
        \/ m.req \in Handles /\ m.ref = BufOf(r, m.req)' /\ mem'[r][m.ref] = m.val
  <2>1. \A m : BufOf(r, m)' = info'[r][m].buf
    BY DEF BufOf
  <2> QED BY <1>4, <2>1
<1>6. \A p \in Items(posted'[r]) : p.dst # Null => p \in Items(posted[r]) /\ p.req \in K
  BY <1>4
<1> HIDE DEF K
<1> QED BY <1>1, <1>3, <1>5, <1>6, ReadKept

\* What the bookkeeping of a send says.
Booked(r, x) ==
  /\ pending' = [pending EXCEPT ![r] = Append(pending[r], x)]
  /\ cache' = [cache EXCEPT ![r] = Tail(cache[r])]
  /\ pc[r] \in {"send", "recv"} /\ LoopStep(r)
  /\ UNCHANGED <<ncaches, round, done>>

LEMMA BookedOthers ==
  ASSUME NEW r \in Ranks, TypeInv, RankInv(r), NEW x, Booked(r, x), Begins(r, x)
  PROVE  /\ \A q \in Ranks : q # r => Kept(q) /\ done'[q] = done[q]
         /\ pending' \in [Ranks -> Seq(Handles)] /\ cache' \in [Ranks -> Seq(Buffers)]
         /\ idx' \in [Ranks -> Ranks] /\ pc' \in [Ranks -> PCs]
         /\ pc'[r] \in {"send", "recv", "stop"} /\ (pc[r] = "recv" => pc'[r] \in {"recv", "stop"})
<1>1. OwnInv(r) /\ CountInv(r)
  BY DEF RankInv
<1>2. pc[r] \in {"send", "recv"} /\ LoopStep(r) /\ ncaches' = ncaches /\ done' = done
  BY DEF Booked
<1>3. /\ idx' \in [Ranks -> Ranks] /\ pc' \in [Ranks -> PCs]
      /\ \A q \in Ranks : q # r => pc'[q] = pc[q] /\ idx'[q] = idx[q]
      /\ pc'[r] = pc[r] \/ pc'[r] = IF pc[r] = "send" THEN "recv" ELSE "stop"
  BY <1>1, <1>2, LoopMoves
<1>4. /\ pending' \in [Ranks -> Seq(Handles)] /\ cache' \in [Ranks -> Seq(Buffers)]
      /\ \A q \in Ranks : q # r => pending'[q] = pending[q] /\ cache'[q] = cache[q]
  BY <1>1, BeginsFacts
<1> QED BY <1>2, <1>3, <1>4 DEF Kept

\* SendFill, of any table and any old contents.
Fill(t, h, i, b, c, d) ==
  [t EXCEPT ![h] = [i EXCEPT !.orig = h, !.buf = b, !.count = c, !.peer = d, !.ibatch = 0]]

LEMMA Filled ==
  ASSUME ncaches \in Nat, NEW t \in [Handles -> Info], NEW h \in Handles, NEW i \in Info,
         NEW b \in Buffers, NEW c \in Int, NEW d \in Ranks, NEW u,
         u = Fill(t, h, i, b, c, d)
  PROVE  /\ u \in [Handles -> Info] /\ \A g \in Handles : g # h => u[g] = t[g]
         /\ u[h].orig = h /\ u[h].buf = b
         /\ u[h].completed = i.completed /\ u[h].custom = i.custom
<1>1. PICK z \in Int : z = 0
  OBVIOUS
<1> DEFINE k == [i EXCEPT !.orig = h, !.buf = b, !.count = c, !.peer = d, !.ibatch = z]
<1>2. h \in Int /\ b \in 0 .. ncaches
  BY DEF Handles, Buffers
<1>3. k \in Info /\ k.orig = h /\ k.buf = b /\ k.completed = i.completed /\ k.custom = i.custom
  BY <1>2 DEF Info
<1>4. u = [t EXCEPT ![h] = k]
  BY <1>1, Zenon DEF Fill
<1> HIDE DEF k
<1> QED BY <1>3, <1>4

\* The count went out at once: the handle is from malloc.
LEMMA SendNowRank ==
  ASSUME NEW r \in Ranks, NEW c \in Int, TypeInv, \A p \in Ranks : RankInv(p), SendNow(r, c)
  PROVE  RankInv(r)' /\ Elsewhere(r) /\ TypeInv'
<1> DEFINE d == idx[r]
           h == Heap(d)
           old == [InitInfo EXCEPT !.custom = TRUE]
           t == SendFill(r, h, old, d, c)
           v == <<CountWord(r, d, round[r], c)>>
           w == <<Msg(v)>>
           b == Head(cache[r])
<1>1. /\ pc[r] = "send" /\ stack[r] = << >> /\ cache[r] # << >>
      /\ SendHandler(r, h, t, w)
      /\ Booked(r, h)
      /\ UNCHANGED <<ncaches, round, done, posted, stack, mode, countMem>>
  <2>1. /\ pc[r] = "send" /\ stack[r] = << >> /\ cache[r] # << >>
        /\ SendHandler(r, h, t, w) /\ SendBook(r, h, d, c)
    BY Zenon DEF SendNow, SendReady, Idle
  <2>2. /\ cache' = [cache EXCEPT ![r] = Tail(cache[r])]
        /\ pending' = [pending EXCEPT ![r] = Append(pending[r], h)]
        /\ LoopNext(r, "send", "recv")
        /\ UNCHANGED <<ncaches, round, done, posted, stack, mode, countMem>>
    BY <2>1, Zenon DEF SendBook, Pop, callbacks
  <2>3. LoopStep(r)
    BY <2>1, <2>2 DEF LoopStep
  <2> QED BY <2>1, <2>2, <2>3 DEF Booked
<1>2. RankInv(r) /\ Open(r)
  BY <1>1 DEF Open
<1>3. /\ OwnInv(r) /\ HeapInv(r) /\ CountInv(r)
      /\ PlaceInv(r) /\ CarryInv(r) /\ CleanInv(r) /\ ReadInv(r)
  BY <1>2 DEF RankInv
<1>4. /\ ncaches \in Nat /\ round[r] \in Int /\ info[r] \in [Handles -> Info] /\ d \in Ranks
      /\ cache[r] \in Seq(Buffers)
  BY DEF TypeInv
<1>5. h \in Handles /\ h > MaxReq
  BY <1>4, NAssumption, BoundsAssumption DEF Heap, Handles, Ranks
<1>6. h \notin free[r] /\ h \notin Active(r) /\ h \notin Transfers(r)
  <2>1. \A g \in Requests : g <= MaxReq
    BY BoundsAssumption DEF Requests
  <2>2. free[r] \subseteq Requests /\ InUCX(r) \cup InStack(r) \subseteq Requests
    BY <1>3 DEF TypeInv, PlaceInv
  <2>3. Due(r) = {}
    BY <1>1 DEF Due, HandlerReady
  <2>4. h \notin Transfers(r)
    <3>1. \A g \in Transfers(r) : g <= MaxReq \/ g < h
      BY <1>1, <1>3 DEF HeapInv
    <3> QED BY <1>5, <3>1, BoundsAssumption DEF Handles
  <2> QED BY <1>5, <2>1, <2>2, <2>3, <2>4, BoundsAssumption DEF Active, Handles
<1>7. b \in Buffers /\ b = cache[r][1]
  BY <1>1, <1>4, HeadTailProperties
<1>8. /\ t \in [Handles -> Info] /\ (\A g \in Handles : g # h => t[g] = info[r][g])
      /\ t[h].orig = h /\ t[h].buf = b /\ ~ t[h].completed /\ t[h].custom
  <2> DEFINE T == info[r]
             i == old
  <2>1. i \in Info /\ ~ i.completed /\ i.custom
    <3>1. InitInfo \in Info /\ ~ InitInfo.completed
      <4>1. PICK j \in Info : TRUE
        BY <1>4, <1>5
      <4> QED BY <1>4, <4>1, ResetInfo
    <3>2. PICK f \in BOOLEAN : f = TRUE
      OBVIOUS
    <3>3. i = [InitInfo EXCEPT !.custom = f]
      BY <3>2, Zenon
    <3> QED BY <3>1, <3>3 DEF Info
  <2>2. t = Fill(T, h, i, b, c, d)
    BY Zenon DEF SendFill, Fill
  <2> HIDE DEF T, i, h, b, d, t
  <2>3. /\ ncaches \in Nat /\ T \in [Handles -> Info] /\ h \in Handles /\ i \in Info
        /\ b \in Buffers /\ c \in Int /\ d \in Ranks
    BY <1>4, <1>5, <1>7, <2>1 DEF T
  <2>4. t \in [Handles -> Info]
    BY <2>2, <2>3, Filled
  <2>5. \A g \in Handles : g # h => t[g] = T[g]
    BY <2>2, <2>3, Filled
  <2>6. /\ t[h].orig = h /\ t[h].buf = b
        /\ t[h].completed = i.completed /\ t[h].custom = i.custom
    BY <2>2, <2>3, Filled
  <2> QED BY <2>1, <2>4, <2>5, <2>6 DEF T
<1>9. w \in Seq(Message) /\ Silent(w)
  <2>1. CountWord(r, d, round[r], c) \in Word
    BY <1>4 DEF CountWord, Word, Ranks
  <2>2. v \in Seq(Word)
    BY <2>1
  <2> HIDE DEF v
  <2>3. Msg(v) \in Message /\ Msg(v).req = Null /\ Msg(v).ref = Null
    BY <2>2 DEF Msg, Message, Null
  <2> DEFINE m == Msg(v)
  <2> HIDE DEF m
  <2>4. <<m>> \in Seq(Message) /\ Len(<<m>>) = 1 /\ <<m>>[1] = m
    BY <2>3 DEF m
  <2> QED BY <2>3, <2>4 DEF Silent, m
<1> HIDE DEF t, w, b, h, d
<1>10. SendCall(r, h, t, w)
  <2>1. Once(net[r]) /\ free[r] \cap ReqsIn(net[r]) = {}
    BY <1>2, <1>3 DEF PlaceInv, InUCX
  <2> QED BY <1>5, <1>6, <1>7, <1>8, <1>9, <2>1 DEF SendCall
<1>11. PICK M : SendEffect(r, h, t, M)
  BY <1>1, <1>10, SendFacts
<1>12. /\ M \in SUBSET free[r] /\ (\A x, y \in M : x = y)
       /\ Once(net'[r])
       /\ (\A q \in ReqsIn(net'[r]) : q \in ReqsIn(net[r]) \/ q \in M)
       /\ \A m \in Items(net'[r]) : m.ref # Null =>
            \/ m \in Items(net[r])
            \/ m.req \in M /\ m.ref = b /\ mem'[r][m.ref] = m.val
  BY <1>8, <1>11 DEF SendEffect
<1>13. \A a \in Buffers : a # b => mem'[r][a] = mem[r][a]
  BY <1>8, <1>11 DEF SendEffect
<1>14. /\ \A g \in Handles : g \notin M /\ g # h => info'[r][g] = info[r][g]
       /\ h \notin M => info'[r][h].orig = h /\ info'[r][h].buf = b /\ info'[r][h].custom
       /\ (h \notin M /\ M # {}) => ~ info'[r][h].completed
       /\ \A g \in M : info'[r][g].orig = h /\ info'[r][g].buf = b
       /\ \A g \in free'[r] : g \in free[r] /\ g \notin M
  BY <1>5, <1>8, <1>11 DEF SendEffect
<1>15. /\ h \notin M
       /\ \A g \in M : g \in Handles
       /\ \A a \in InUCX(r) : a \in Active(r) /\ a \in Handles /\ a # h /\ a \notin M
       /\ \A p \in Transfers(r) : p \in Handles /\ p # h /\ p \notin M /\ p \notin free[r]
  BY <1>2, <1>6, <1>12, OpenFacts DEF Active
<1>16. Begins(r, h)
  <2>1. \A p \in Transfers(r) :
          /\ info'[r][p].orig = info[r][p].orig /\ info'[r][p].buf = info[r][p].buf
          /\ info'[r][p].custom = info[r][p].custom
          /\ p \notin free'[r]
    BY <1>14, <1>15
  <2>2. pc[r] = "send" => h <= MaxReq \/ h = Heap(idx[r])
    BY DEF h, d
  <2>3. info'[r][h].custom
    BY <1>14, <1>15
  <2> QED BY <1>1, <1>5, <1>6, <1>14, <1>15, <2>1, <2>2, <2>3 DEF Begins, Booked, b
<1>17. OwnInv(r)' /\ HeapInv(r)' /\ CountInv(r)'
  BY <1>3, <1>16, UserBegins
<1>18. /\ \A q \in Ranks : q # r => Kept(q) /\ done'[q] = done[q]
       /\ pending' \in [Ranks -> Seq(Handles)] /\ cache' \in [Ranks -> Seq(Buffers)]
       /\ idx' \in [Ranks -> Ranks] /\ pc' \in [Ranks -> PCs]
       /\ pc'[r] \in {"send", "recv", "stop"}
  BY <1>1, <1>2, <1>16, BookedOthers
<1>19. /\ InStack(r)' = {} /\ InStack(r) = {} /\ Due(r)' = {} /\ stack'[r] = << >>
       /\ posted' = posted /\ done'[r] = done[r]
  BY <1>1 DEF InStack, Due, HandlerReady
<1>20. PlaceInv(r)'
  <2> DEFINE B == {}
  <2>1. M \cup B \cup B \subseteq free[r] /\ M \cap B = {} /\ B \cap B = {}
        /\ ~ (B # {}) /\ InStack(r)' = B
    BY <1>12, <1>19
  <2>2. \A g \in free'[r] : g \in free[r] /\ g \notin M \cup B \cup B
    BY <1>14
  <2>3. Once(posted'[r]) /\ \A q \in ReqsIn(posted'[r]) : q \in ReqsIn(posted[r]) \/ q \in B
    BY <1>3, <1>19 DEF PlaceInv
  <2>4. \A j, k \in 1 .. Len(stack'[r]) : stack'[r][j] = stack'[r][k] => j = k
    BY <1>1, <1>3 DEF PlaceInv
  <2>5. /\ stack[r] = << >> /\ pc'[r] \in {"send", "recv", "stop"} /\ done'[r] = done[r]
        /\ Once(net'[r]) /\ ~ (stack'[r] # << >>)
    BY <1>1, <1>12, <1>18, <1>19
  <2>6. \A q \in ReqsIn(net'[r]) : q \in ReqsIn(net[r]) \/ q \in M
    BY <1>12
  <2> HIDE DEF B
  <2>7. Goes(r, M, B, B)
    BY <2>1, <2>2, <2>3, <2>4, <2>5, <2>6 DEF Goes
  <2> QED BY <1>2, <2>7, PlaceBegins
<1>21. CarryInv(r)'
  <2>1. \A a \in Active(r)' : (a \in Active(r) /\ a \notin M) \/ a \in M
    BY <1>12, <1>15, <1>19 DEF Active, InUCX
  <2>2. \A a \in Active(r) : a \notin M =>
          info'[r][a].orig = info[r][a].orig /\ info'[r][a].buf = info[r][a].buf
    BY <1>2, <1>6, <1>14, OpenFacts
  <2>3. \A a \in M : info'[r][a].orig = h /\ info'[r][a].buf = info'[r][h].buf
    BY <1>14, <1>15
  <2>4. M # {} => ~ info'[r][h].completed
    BY <1>14, <1>15
  <2>5. \A p \in Transfers(r) : info'[r][p].completed => info[r][p].completed
    BY <1>14, <1>15
  <2>6. \A x, y \in M : x = y
    BY <1>12
  <2> QED BY <1>2, <1>3, <1>16, <2>1, <2>2, <2>3, <2>4, <2>5, <2>6, CarryBegins
<1>22. CleanInv(r)'
  <2>1. \A g \in free'[r] : g \in free[r] /\ info'[r][g] = info[r][g]
    BY <1>2, <1>6, <1>14, OpenFacts
  <2> QED BY <1>3, <2>1 DEF CleanInv, OrigOf
<1>23. ReadInv(r)'
  <2>1. \A a \in InUCX(r) : info'[r][a].buf = info[r][a].buf
    BY <1>14, <1>15
  <2>2. \A a \in Buffers : a # Head(cache[r]) => mem'[r][a] = mem[r][a]
    BY <1>13 DEF b
  <2>3. \A m \in Items(net'[r]) : m.ref # Null =>
          \/ m \in Items(net[r])
          \/ m.req \in Handles /\ m.ref = info'[r][m.req].buf /\ mem'[r][m.ref] = m.val
    BY <1>12, <1>14, <1>15
  <2>4. \A p \in Items(posted'[r]) : p.dst # Null => p \in Items(posted[r])
    BY <1>19
  <2> QED BY <1>1, <1>2, <2>1, <2>2, <2>3, <2>4, ReadBegins
<1>24. /\ net' \in [Ranks -> [Ranks -> Seq(Message)]]
       /\ mem' \in [Ranks -> [Buffers -> Seq(Word)]]
       /\ info' \in [Ranks -> [Handles -> Info]]
       /\ free' \in [Ranks -> SUBSET Requests]
       /\ \A p \in Ranks : p # r => /\ net'[p] = net[p] /\ mem'[p] = mem[p]
                                    /\ info'[p] = info[p] /\ free'[p] = free[p]
  BY <1>11 DEF SendEffect
<1>25. Elsewhere(r)
  <2> SUFFICES ASSUME NEW p \in Ranks, p # r
               PROVE  Same(p) /\ NetLess(p)
    BY DEF Elsewhere
  <2>1. NetLess(p)
    BY <1>24, NetSame
  <2> QED BY <1>1, <1>18, <1>24, <2>1 DEF Same
<1>26. TypeInv'
  <2>1. /\ round' = round /\ done' = done /\ posted' = posted /\ stack' = stack
        /\ mode' = mode /\ countMem' = countMem /\ ncaches' = ncaches
    BY <1>1
  <2>2. /\ net' \in [Ranks -> [Ranks -> Seq(Message)]]
        /\ mem' \in [Ranks -> [Buffers -> Seq(Word)]]
        /\ info' \in [Ranks -> [Handles -> Info]]
        /\ free' \in [Ranks -> SUBSET Requests]
    BY <1>24
  <2>3. /\ pending' \in [Ranks -> Seq(Handles)] /\ cache' \in [Ranks -> Seq(Buffers)]
        /\ idx' \in [Ranks -> Ranks] /\ pc' \in [Ranks -> PCs]
    BY <1>18
  <2> QED BY <2>1, <2>2, <2>3, TypeStep, Zenon DEF TypeInv
<1> QED BY <1>17, <1>20, <1>21, <1>22, <1>23, <1>25, <1>26 DEF RankInv

\* A transfer begins with a request q of UCX, which is the user's handle.
BeginsWith(r, q) ==
  /\ q \in free[r] /\ Begins(r, q) /\ mem' = mem
  /\ \E A, B, C : A \cup B \cup C = {q} /\ Goes(r, A, B, C)
  /\ ~ info'[r][q].completed
  /\ \A g \in Handles : g # q => info'[r][g] = info[r][g]
  /\ Due(r)' \subseteq {q}
  /\ \A m \in Items(net'[r]) : m.ref # Null => m \in Items(net[r])
  /\ \A p \in Items(posted'[r]) : p.dst # Null => p \in Items(posted[r])

LEMMA BeginsRank ==
  ASSUME NEW r \in Ranks, TypeInv, RankInv(r), NEW q, BeginsWith(r, q)
  PROVE  RankInv(r)'
<1>1. /\ q \in free[r] /\ Begins(r, q) /\ mem' = mem
      /\ ~ info'[r][q].completed
      /\ \A g \in Handles : g # q => info'[r][g] = info[r][g]
      /\ Due(r)' \subseteq {q}
  BY DEF BeginsWith
<1>2. Open(r) /\ cache[r] # << >> /\ info'[r][q].orig = q
  BY <1>1 DEF Begins, Open
<1>3. /\ OwnInv(r) /\ HeapInv(r) /\ CountInv(r)
      /\ PlaceInv(r) /\ CarryInv(r) /\ CleanInv(r) /\ ReadInv(r)
  BY DEF RankInv
<1>4. PICK A, B, C : A \cup B \cup C = {q} /\ Goes(r, A, B, C)
  BY DEF BeginsWith
<1>5. /\ \A a \in InUCX(r) : a \in Active(r) /\ a \in Handles /\ a # q
      /\ \A a \in Active(r) : a \in Handles /\ a # q
      /\ \A p \in Transfers(r) : p \in Handles /\ p # q
      /\ \A g \in free[r] : g \in Handles
  BY <1>1, <1>2, OpenFacts DEF Active
<1>6. OwnInv(r)' /\ HeapInv(r)' /\ CountInv(r)'
  BY <1>1, <1>3, UserBegins
<1>7. PlaceInv(r)'
  BY <1>2, <1>4, PlaceBegins
<1>8. CarryInv(r)'
  <2> DEFINE T == {q}
  <2>1. \A a \in Active(r)' : (a \in Active(r) /\ a \notin T) \/ a \in T
    <3>1. \A a \in InUCX(r)' : a \in InUCX(r) \/ a \in A \cup B
      BY <1>4 DEF Goes, InUCX
    <3> QED BY <1>1, <1>4, <1>5, <3>1 DEF Active
  <2>2. \A a \in Active(r) : a \notin T =>
          info'[r][a].orig = info[r][a].orig /\ info'[r][a].buf = info[r][a].buf
    BY <1>1, <1>5
  <2>3. \A a \in T : info'[r][a].orig = q /\ info'[r][a].buf = info'[r][q].buf
    BY <1>2
  <2>4. T # {} => ~ info'[r][q].completed
    BY <1>1
  <2>5. \A p \in Transfers(r) : info'[r][p].completed => info[r][p].completed
    BY <1>1, <1>5
  <2>6. \A x, y \in T : x = y
    OBVIOUS
  <2>7. Begins(r, q)
    BY <1>1
  <2> HIDE DEF T
  <2> QED BY <1>2, <1>3, <2>1, <2>2, <2>3, <2>4, <2>5, <2>6, <2>7, CarryBegins
<1>9. CleanInv(r)'
  <2>1. \A g \in free'[r] : g \in free[r] /\ info'[r][g] = info[r][g]
    BY <1>1, <1>4, <1>5 DEF Goes
  <2> QED BY <1>3, <2>1 DEF CleanInv, OrigOf
<1>10. ReadInv(r)'
  <2>1. \A a \in InUCX(r) : info'[r][a].buf = info[r][a].buf
    BY <1>1, <1>5
  <2>2. \A a \in Buffers : a # Head(cache[r]) => mem'[r][a] = mem[r][a]
    BY <1>1
  <2>3. \A m \in Items(net'[r]) : m.ref # Null =>
          \/ m \in Items(net[r])
          \/ m.req \in Handles /\ m.ref = info'[r][m.req].buf /\ mem'[r][m.ref] = m.val
    BY DEF BeginsWith
  <2>4. \A p \in Items(posted'[r]) : p.dst # Null => p \in Items(posted[r])
    BY DEF BeginsWith
  <2> QED BY <1>2, <2>1, <2>2, <2>3, <2>4, ReadBegins
<1> QED BY <1>6, <1>7, <1>8, <1>9, <1>10 DEF RankInv

\* The count is in progress: its request is the user's handle.
LEMMA SendLaterRank ==
  ASSUME NEW r \in Ranks, NEW c \in Int, TypeInv, \A p \in Ranks : RankInv(p), SendLater(r, c)
  PROVE  RankInv(r)' /\ Elsewhere(r) /\ TypeInv'
<1> DEFINE d == idx[r]
           q == NewRequest(r)
           t == SendFill(r, q, info[r][q], d, c)
           v == <<CountWord(r, d, round[r], c)>>
           m == MsgBusy(v, Null, q)
           w == <<m>>
           b == Head(cache[r])
<1>1. /\ pc[r] = "send" /\ stack[r] = << >> /\ cache[r] # << >> /\ free[r] # {}
      /\ net' = [net EXCEPT ![r][d] = Append(net[r][d], m)]
      /\ info' = [info EXCEPT ![r] = t]
      /\ free' = [free EXCEPT ![r] = free[r] \ {q}]
      /\ mem' = mem
      /\ Booked(r, q)
      /\ UNCHANGED <<ncaches, round, done, posted, stack, mode, countMem>>
  <2>1. /\ pc[r] = "send" /\ stack[r] = << >> /\ cache[r] # << >> /\ free[r] # {}
        /\ net' = [net EXCEPT ![r][d] = Append(net[r][d], m)]
        /\ info' = [info EXCEPT ![r] = t]
        /\ free' = [free EXCEPT ![r] = free[r] \ {q}]
        /\ mem' = mem /\ SendBook(r, q, d, c)
    BY Zenon DEF SendLater, SendReady, Idle
  <2>2. /\ cache' = [cache EXCEPT ![r] = Tail(cache[r])]
        /\ pending' = [pending EXCEPT ![r] = Append(pending[r], q)]
        /\ LoopNext(r, "send", "recv")
        /\ UNCHANGED <<ncaches, round, done, posted, stack, mode, countMem>>
    BY <2>1, Zenon DEF SendBook, Pop, callbacks
  <2>3. LoopStep(r)
    BY <2>1, <2>2 DEF LoopStep
  <2> HIDE DEF q
  <2> QED BY <2>1, <2>2, <2>3 DEF Booked
<1>2. RankInv(r) /\ Open(r)
  BY <1>1 DEF Open
<1>3. /\ OwnInv(r) /\ PlaceInv(r)
  BY <1>2 DEF RankInv
<1>4. /\ ncaches \in Nat /\ round[r] \in Int /\ info[r] \in [Handles -> Info] /\ d \in Ranks
      /\ cache[r] \in Seq(Buffers) /\ free \in [Ranks -> SUBSET Requests]
      /\ info \in [Ranks -> [Handles -> Info]] /\ net[r][d] \in Seq(Message)
  BY DEF TypeInv
<1>5. q \in free[r]
  BY <1>1, <1>4, NewRequestFree
<1> HIDE DEF q
<1>6. /\ q \in Handles /\ q <= MaxReq /\ q \notin Transfers(r) /\ q \notin InUCX(r)
      /\ ~ info[r][q].completed
      /\ \A p \in Transfers(r) : p \in Handles /\ p # q /\ p \notin free[r]
  BY <1>2, <1>5, OpenFacts
<1>7. b \in Buffers
  BY <1>1, <1>4, HeadTailProperties
<1>8. /\ t \in [Handles -> Info] /\ (\A g \in Handles : g # q => t[g] = info[r][g])
      /\ t[q].orig = q /\ t[q].buf = b /\ ~ t[q].completed
  <2> DEFINE T == info[r]
             i == T[q]
  <2>1. t = Fill(T, q, i, b, c, d)
    BY Zenon DEF SendFill, Fill
  <2>2. i \in Info /\ ~ i.completed
    BY <1>4, <1>6
  <2> HIDE DEF T, i, b, d, t
  <2>3. /\ ncaches \in Nat /\ T \in [Handles -> Info] /\ q \in Handles /\ i \in Info
        /\ b \in Buffers /\ c \in Int /\ d \in Ranks
    BY <1>4, <1>6, <1>7, <2>2 DEF T
  <2>4. t \in [Handles -> Info]
    BY <2>1, <2>3, Filled
  <2>5. \A g \in Handles : g # q => t[g] = T[g]
    BY <2>1, <2>3, Filled
  <2>6. t[q].orig = q /\ t[q].buf = b /\ t[q].completed = i.completed
    BY <2>1, <2>3, Filled
  <2> QED BY <2>2, <2>4, <2>5, <2>6 DEF T
<1>9. m \in Message /\ m.req = q /\ m.ref = Null
  <2>1. CountWord(r, d, round[r], c) \in Word
    BY <1>4 DEF CountWord, Word, Ranks
  <2>2. v \in Seq(Word)
    BY <2>1
  <2> HIDE DEF v
  <2> QED BY <1>6, <2>2 DEF MsgBusy, Message, Null
<1> HIDE DEF m
<1>10. /\ w \in Seq(Message) /\ Elems(w) = {m} /\ Sending(r, d, w)
       /\ FreshIn({q}, net[r], w)
  <2>1. w \in Seq(Message) /\ Len(w) = 1 /\ w[1] = m
    BY <1>9
  <2>2. Append(net[r][d], m) = net[r][d] \o w
    BY <1>4, <1>9, AppendIsConcat
  <2> HIDE DEF w
  <2>3. Sending(r, d, w)
    BY <1>1, <2>2 DEF Sending
  <2>4. FreshIn({q}, net[r], w)
    BY <1>6, <1>9, <2>1 DEF FreshIn, InUCX
  <2>5. Elems(w) = {m}
    BY <2>1 DEF Elems
  <2> QED BY <2>1, <2>3, <2>4, <2>5
<1> HIDE DEF t, w, b, d
<1> DEFINE Q == {q}
<1>11. /\ Tables(net', Message)
       /\ \A p \in Ranks : p # r => net'[p] = net[p]
       /\ Once(net'[r])
       /\ \A g \in ReqsIn(net'[r]) : g \in ReqsIn(net[r]) \/ g \in Q
       /\ \A a \in Items(net'[r]) : a \in Items(net[r]) \/ a \in Elems(w)
  <2>1. FreshIn(Q, net[r], w) /\ Once(net[r]) /\ d \in Ranks /\ w \in Seq(Message)
        /\ Sending(r, d, w)
    BY <1>3, <1>4, <1>10 DEF PlaceInv
  <2> HIDE DEF Q
  <2>2. Once(net'[r]) /\ \A p \in Ranks : p # r => net'[p] = net[p]
    BY <2>1, SendQueue
  <2>3. \A g \in ReqsIn(net'[r]) : g \in ReqsIn(net[r]) \/ g \in Q
    BY <2>1, SendQueue
  <2>4. \A a \in Items(net'[r]) : a \in Items(net[r]) \/ a \in Elems(w)
    BY <2>1, SendQueue
  <2>5. Tables(net', Message)
    BY <2>1, SendQueue
  <2> QED BY <2>2, <2>3, <2>4, <2>5
<1>12. /\ info'[r] = t /\ info' \in [Ranks -> [Handles -> Info]]
       /\ \A p \in Ranks : p # r => info'[p] = info[p]
  BY <1>1, <1>4, <1>8
<1>13. /\ free'[r] = free[r] \ {q} /\ free' \in [Ranks -> SUBSET Requests]
       /\ \A p \in Ranks : p # r => free'[p] = free[p]
  BY <1>1, <1>4
<1>14. Begins(r, q)
  <2>1. \A p \in Transfers(r) :
          /\ info'[r][p].orig = info[r][p].orig /\ info'[r][p].buf = info[r][p].buf
          /\ info'[r][p].custom = info[r][p].custom
          /\ p \notin free'[r]
    BY <1>6, <1>8, <1>12, <1>13
  <2>2. q \in Requests
    BY <1>4, <1>5
  <2> QED BY <1>1, <1>6, <1>8, <1>12, <1>13, <2>1, <2>2 DEF Begins, Booked, b
<1>15. /\ \A p \in Ranks : p # r => Kept(p) /\ done'[p] = done[p]
       /\ pending' \in [Ranks -> Seq(Handles)] /\ cache' \in [Ranks -> Seq(Buffers)]
       /\ idx' \in [Ranks -> Ranks] /\ pc' \in [Ranks -> PCs]
       /\ pc'[r] \in {"send", "recv", "stop"}
  BY <1>1, <1>2, <1>14, BookedOthers
<1>16. /\ InStack(r)' = {} /\ Due(r)' = {} /\ stack'[r] = << >>
       /\ posted' = posted /\ done'[r] = done[r]
  BY <1>1 DEF InStack, Due, HandlerReady
<1>17. BeginsWith(r, q)
  <2> DEFINE B == {}
  <2>1. Q \cup B \cup B \subseteq free[r] /\ Q \cap B = {} /\ B \cap B = {}
        /\ ~ (B # {}) /\ InStack(r)' = B /\ Q \cup B \cup B = {q}
    BY <1>5, <1>16
  <2>2. \A g \in free'[r] : g \in free[r] /\ g \notin Q \cup B \cup B
    BY <1>13
  <2>3. Once(posted'[r]) /\ \A g \in ReqsIn(posted'[r]) : g \in ReqsIn(posted[r]) \/ g \in B
    BY <1>3, <1>16 DEF PlaceInv
  <2>4. \A j, k \in 1 .. Len(stack'[r]) : stack'[r][j] = stack'[r][k] => j = k
    BY <1>1, <1>3 DEF PlaceInv
  <2>5. /\ pc'[r] \in {"send", "recv", "stop"} /\ done'[r] = done[r]
        /\ Once(net'[r]) /\ ~ (stack'[r] # << >>)
    BY <1>11, <1>15, <1>16
  <2>6. \A g \in ReqsIn(net'[r]) : g \in ReqsIn(net[r]) \/ g \in Q
    BY <1>11
  <2>7. \A a \in Items(net'[r]) : a.ref # Null => a \in Items(net[r])
    BY <1>9, <1>10, <1>11
  <2>8. \A a \in Items(posted'[r]) : a \in Items(posted[r])
    BY <1>16
  <2>9. ~ info'[r][q].completed /\ \A g \in Handles : g # q => info'[r][g] = info[r][g]
    BY <1>8, <1>12
  <2> HIDE DEF B, Q
  <2>10. Goes(r, Q, B, B)
    BY <2>1, <2>2, <2>3, <2>4, <2>5, <2>6 DEF Goes
  <2> QED BY <1>1, <1>5, <1>14, <1>16, <2>1, <2>7, <2>8, <2>9, <2>10 DEF BeginsWith
<1>18. RankInv(r)'
  BY <1>2, <1>17, BeginsRank
<1>19. Elsewhere(r)
  <2> SUFFICES ASSUME NEW p \in Ranks, p # r
               PROVE  Same(p) /\ NetLess(p)
    BY DEF Elsewhere
  <2>1. NetLess(p)
    BY <1>11, NetSame
  <2> QED BY <1>1, <1>12, <1>13, <1>15, <2>1 DEF Same
<1>20. TypeInv'
  <2>1. /\ round' = round /\ done' = done /\ posted' = posted /\ stack' = stack
        /\ mode' = mode /\ countMem' = countMem /\ ncaches' = ncaches /\ mem' = mem
    BY <1>1
  <2>2. net' \in [Ranks -> [Ranks -> Seq(Message)]]
    BY <1>11 DEF Tables
  <2>3. /\ pending' \in [Ranks -> Seq(Handles)] /\ cache' \in [Ranks -> Seq(Buffers)]
        /\ idx' \in [Ranks -> Ranks] /\ pc' \in [Ranks -> PCs]
        /\ info' \in [Ranks -> [Handles -> Info]]
        /\ free' \in [Ranks -> SUBSET Requests]
    BY <1>12, <1>13, <1>15
  <2> QED BY <2>1, <2>2, <2>3, TypeStep, Zenon DEF TypeInv
<1> QED BY <1>18, <1>19, <1>20

-----------------------------------------------------------------------------
\* What lands in memory is made of words.
LEMMA Landed ==
  ASSUME TypeInv, NEW r \in Ranks, NEW s \in Ranks, NEW m \in Message, NEW n,
         NEW dst, dst = Null \/ dst \in Buffers, Land(r, s, dst, Landing(m, n))
  PROVE  /\ mem' \in [Ranks -> [Buffers -> Seq(Word)]]
         /\ countMem' \in [Ranks -> [Ranks -> Word]]
         /\ \A p \in Ranks : p # r => mem'[p] = mem[p]
<1> DEFINE v == Landing(m, n)
           a == At(v, 1)
<1>1. /\ mem \in [Ranks -> [Buffers -> Seq(Word)]] /\ countMem \in [Ranks -> [Ranks -> Word]]
  BY DEF TypeInv
<1>2. v \in Seq(Word)
  <2>1. m.val \in Seq(Word) /\ << >> \in Seq(Word)
    BY EmptySeq DEF Message
  <2> QED BY <2>1 DEF Landing
<1> HIDE DEF v
<1>3. a \in Word
  <2>1. Garbage \in Word
    BY DEF Garbage, Word
  <2>2. 1 \in DOMAIN v => v[1] \in Word
    BY <1>2, ElementOfSeq, LenProperties
  <2> QED BY <2>1, <2>2 DEF At
<1> HIDE DEF a
<1>4. CASE dst = Null
  <2>1. countMem' = [countMem EXCEPT ![r][s] = a] /\ mem' = mem
    BY <1>4, Zenon DEF Land, a, v
  <2> QED BY <1>1, <1>3, <2>1
<1>5. CASE dst # Null
  <2>1. mem' = [mem EXCEPT ![r][dst] = v] /\ countMem' = countMem /\ dst \in Buffers
    BY <1>5, Zenon DEF Land, v
  <2> QED BY <1>1, <1>2, <2>1
<1> QED BY <1>4, <1>5

LEMMA Marks ==
  ASSUME NEW i \in Info, i.orig = Null
  PROVE  Mark(i) \in Info /\ Mark(i).orig # Null /\ Mark(i).completed = i.completed
BY DEF Mark, Marked, Null, Info

LEMMA RecvFilled ==
  ASSUME ncaches \in Nat, NEW i \in Info, NEW q \in Handles, NEW b \in Buffers, NEW s \in Ranks,
         NEW k, k = RecvFill(i, q, b, s)
  PROVE  k \in Info /\ k.orig = q /\ k.buf = b /\ k.completed = i.completed
<1>1. PICK z \in Int : z = 0
  OBVIOUS
<1>2. PICK f \in BOOLEAN : f = FALSE
  OBVIOUS
<1>3. k = [i EXCEPT !.orig = q, !.buf = b, !.custom = f, !.peer = s, !.ibatch = z]
  BY <1>1, <1>2, Zenon DEF RecvFill
<1>4. q \in Int /\ b \in 0 .. ncaches
  BY DEF Handles, Buffers
<1> QED BY <1>3, <1>4 DEF Info

\* What the two ways a receive begins have in common.
RecvBegins(r, q, i) ==
  /\ pc[r] = "recv" /\ stack[r] = << >> /\ cache[r] # << >> /\ free[r] # {}
  /\ info' = [info EXCEPT ![r][q] = RecvFill(i, q, Head(cache[r]), idx[r])]
  /\ free' = [free EXCEPT ![r] = free[r] \ {q}]
  /\ stack' = [stack EXCEPT ![r] = IF i.orig # Null THEN <<q>> ELSE << >>]
  /\ mode' = [mode EXCEPT ![r] = "call"]
  /\ Booked(r, q)

RecvEffect(r, q, i) ==
  /\ q \in free[r] /\ q \in Handles /\ Open(r) /\ Begins(r, q)
  /\ ~ info'[r][q].completed
  /\ \A g \in Handles : g # q => info'[r][g] = info[r][g]
  /\ free'[r] = free[r] \ {q}
  /\ mode'[r] = "call" /\ stack'[r] = IF i.orig # Null THEN <<q>> ELSE << >>
  /\ info' \in [Ranks -> [Handles -> Info]] /\ free' \in [Ranks -> SUBSET Requests]
  /\ stack' \in [Ranks -> Seq(Handles)] /\ mode' \in [Ranks -> {"call", "return"}]
  /\ \A p \in Ranks : p # r => /\ info'[p] = info[p] /\ free'[p] = free[p]
                               /\ stack'[p] = stack[p] /\ mode'[p] = mode[p]

LEMMA RecvFacts ==
  ASSUME NEW r \in Ranks, TypeInv, RankInv(r), NEW q, q = NewRequest(r), NEW i \in Info,
         ~ i.completed, RecvBegins(r, q, i)
  PROVE  RecvEffect(r, q, i)
<1> DEFINE b == Head(cache[r])
           k == RecvFill(i, q, b, idx[r])
           w == IF i.orig # Null THEN <<q>> ELSE << >>
<1>1. /\ pc[r] = "recv" /\ stack[r] = << >> /\ cache[r] # << >> /\ free[r] # {}
      /\ info' = [info EXCEPT ![r][q] = k]
      /\ free' = [free EXCEPT ![r] = free[r] \ {q}]
      /\ stack' = [stack EXCEPT ![r] = w]
      /\ mode' = [mode EXCEPT ![r] = "call"]
      /\ Booked(r, q)
  BY Zenon DEF RecvBegins
<1>2. /\ info \in [Ranks -> [Handles -> Info]] /\ free \in [Ranks -> SUBSET Requests]
      /\ stack \in [Ranks -> Seq(Handles)] /\ mode \in [Ranks -> {"call", "return"}]
      /\ cache[r] \in Seq(Buffers) /\ ncaches \in Nat /\ idx[r] \in Ranks
  BY DEF TypeInv
<1>3. Open(r)
  BY <1>1 DEF Open
<1>4. q \in free[r]
  BY <1>1, <1>2, NewRequestFree
<1>5. /\ q \in Handles /\ q <= MaxReq /\ q \notin Transfers(r)
      /\ \A p \in Transfers(r) : p \in Handles /\ p # q /\ p \notin free[r]
  BY <1>3, <1>4, OpenFacts
<1>6. b \in Buffers
  BY <1>1, <1>2, HeadTailProperties
<1> HIDE DEF b
<1>7. k \in Info /\ k.orig = q /\ k.buf = b /\ k.completed = i.completed
  BY <1>2, <1>5, <1>6, RecvFilled
<1>8. w \in Seq(Handles)
  <2>1. <<q>> \in Seq(Handles) /\ << >> \in Seq(Handles)
    BY <1>5, EmptySeq
  <2> QED BY <2>1
<1> HIDE DEF k, w
<1>9. /\ info'[r][q] = k /\ (\A g \in Handles : g # q => info'[r][g] = info[r][g])
      /\ info' \in [Ranks -> [Handles -> Info]]
      /\ \A p \in Ranks : p # r => info'[p] = info[p]
  BY <1>1, <1>2, <1>5, <1>7
<1>10. /\ free'[r] = free[r] \ {q} /\ free' \in [Ranks -> SUBSET Requests]
       /\ \A p \in Ranks : p # r => free'[p] = free[p]
  BY <1>1, <1>2
<1>11. /\ stack'[r] = w /\ mode'[r] = "call"
       /\ stack' \in [Ranks -> Seq(Handles)] /\ mode' \in [Ranks -> {"call", "return"}]
       /\ \A p \in Ranks : p # r => stack'[p] = stack[p] /\ mode'[p] = mode[p]
  BY <1>1, <1>2, <1>8
<1>12. Begins(r, q)
  <2>1. \A p \in Transfers(r) :
          /\ info'[r][p].orig = info[r][p].orig /\ info'[r][p].buf = info[r][p].buf
          /\ info'[r][p].custom = info[r][p].custom
          /\ p \notin free'[r]
    BY <1>5, <1>9, <1>10
  <2>2. q \in Requests
    BY <1>2, <1>4
  <2> QED BY <1>1, <1>5, <1>7, <1>9, <1>10, <2>1, <2>2 DEF Begins, Booked, b
<1> QED BY <1>3, <1>4, <1>5, <1>7, <1>9, <1>10, <1>11, <1>12 DEF w, RecvEffect

\* The count has arrived: the callback runs at once.
LEMMA RecvNowRank ==
  ASSUME NEW r \in Ranks, TypeInv, \A p \in Ranks : RankInv(p), RecvNow(r)
  PROVE  RankInv(r)' /\ Elsewhere(r) /\ TypeInv'
<1> DEFINE s == idx[r]
           q == NewRequest(r)
           i == Mark(info[r][q])
<1>1. /\ RecvBegins(r, q, i)
      /\ Arrived(s, r) /\ posted' = posted
      /\ Land(r, s, Null, Landing(Head(net[s][r]), 1))
      /\ net' = [net EXCEPT ![s][r] = Tail(net[s][r])]
      /\ UNCHANGED <<ncaches, round, done>>
  <2>1. /\ pc[r] = "recv" /\ stack[r] = << >> /\ free[r] # {} /\ cache[r] # << >>
        /\ RecvNbEarly(r, s, Null, 1) /\ RecvBook(r, q, s, i, i.orig # Null)
    BY Zenon DEF RecvNow, RecvReady, Idle
  <2>2. /\ info' = [info EXCEPT ![r][q] = RecvFill(i, q, Head(cache[r]), idx[r])]
        /\ free' = [free EXCEPT ![r] = free[r] \ {q}]
        /\ cache' = [cache EXCEPT ![r] = Tail(cache[r])]
        /\ pending' = [pending EXCEPT ![r] = Append(pending[r], q)]
        /\ stack' = [stack EXCEPT ![r] = IF i.orig # Null THEN <<q>> ELSE << >>]
        /\ mode' = [mode EXCEPT ![r] = "call"]
        /\ LoopNext(r, "recv", "stop")
        /\ UNCHANGED <<ncaches, round, done>>
    BY <2>1, Zenon DEF RecvBook, Pop
  <2>3. LoopStep(r)
    BY <2>1, <2>2 DEF LoopStep
  <2>4. /\ Arrived(s, r) /\ posted' = posted
        /\ Land(r, s, Null, Landing(Head(net[s][r]), 1))
        /\ net' = [net EXCEPT ![s][r] = Tail(net[s][r])]
    BY <2>1, Zenon DEF RecvNbEarly
  <2> HIDE DEF q, i
  <2> QED BY <2>1, <2>2, <2>3, <2>4 DEF RecvBegins, Booked
<1>2. RankInv(r) /\ q = NewRequest(r)
  OBVIOUS
<1>3. q \in free[r] /\ s \in Ranks /\ q \in Handles /\ Open(r)
  <2>1. free[r] \in SUBSET Requests /\ s \in Ranks
    BY DEF TypeInv
  <2>2. free[r] # {} /\ Open(r)
    BY <1>1 DEF RecvBegins, Open
  <2>3. q \in free[r]
    BY <2>1, <2>2, NewRequestFree
  <2> QED BY <2>1, <2>2, <2>3, OpenFacts
<1> HIDE DEF q
<1>4. i \in Info /\ i.orig # Null /\ ~ i.completed
  <2> DEFINE j == info[r][q]
  <2>1. j \in Info
    BY <1>3 DEF TypeInv
  <2>2. j.orig = Null /\ ~ j.completed
    BY <1>3, OpenFacts
  <2> HIDE DEF j
  <2> QED BY <2>1, <2>2, Marks DEF j
<1> HIDE DEF i
<1>5. /\ q \in free[r] /\ q \in Handles /\ Open(r) /\ Begins(r, q)
      /\ ~ info'[r][q].completed
      /\ \A g \in Handles : g # q => info'[r][g] = info[r][g]
      /\ free'[r] = free[r] \ {q}
      /\ mode'[r] = "call" /\ stack'[r] = <<q>>
      /\ \A p \in Ranks : p # r => /\ info'[p] = info[p] /\ free'[p] = free[p]
                                   /\ stack'[p] = stack[p] /\ mode'[p] = mode[p]
      /\ info' \in [Ranks -> [Handles -> Info]] /\ free' \in [Ranks -> SUBSET Requests]
      /\ stack' \in [Ranks -> Seq(Handles)] /\ mode' \in [Ranks -> {"call", "return"}]
  <2>1. RecvEffect(r, q, i)
    <3>1. RecvBegins(r, q, i)
      BY <1>1
    <3> QED BY <1>2, <1>4, <3>1, RecvFacts
  <2> QED BY <1>4, <2>1 DEF RecvEffect
<1>6. /\ info' \in [Ranks -> [Handles -> Info]] /\ free' \in [Ranks -> SUBSET Requests]
      /\ stack' \in [Ranks -> Seq(Handles)] /\ mode' \in [Ranks -> {"call", "return"}]
  BY <1>5, Zenon
<1>7. Booked(r, q) /\ pc[r] = "recv"
  BY <1>1 DEF RecvBegins
<1>8. /\ \A p \in Ranks : p # r => Kept(p) /\ done'[p] = done[p]
      /\ pending' \in [Ranks -> Seq(Handles)] /\ cache' \in [Ranks -> Seq(Buffers)]
      /\ idx' \in [Ranks -> Ranks] /\ pc' \in [Ranks -> PCs]
      /\ pc'[r] \in {"recv", "stop"}
  BY <1>2, <1>5, <1>7, BookedOthers
<1>9. /\ \A p \in Ranks : NetLess(p)
      /\ net' \in [Ranks -> [Ranks -> Seq(Message)]] /\ Head(net[s][r]) \in Message
  <2>1. \A p \in Ranks : Once(net[p])
    BY DEF RankInv, PlaceInv
  <2> QED BY <1>1, <1>3, <2>1, MatchNet
<1>10. /\ mem' = mem /\ countMem' \in [Ranks -> [Ranks -> Word]]
  <2>1. mem' = mem
    BY <1>1 DEF Land
  <2> DEFINE z == Null
             m == Head(net[s][r])
             n == 1
  <2>2. Land(r, s, z, Landing(m, n)) /\ z = Null /\ m \in Message
    BY <1>1, <1>9
  <2> HIDE DEF z, m, n
  <2>3. countMem' \in [Ranks -> [Ranks -> Word]]
    BY <1>3, <2>2, Landed
  <2> QED BY <2>1, <2>3
<1> HIDE DEF s
<1>11. /\ InStack(r)' = {q} /\ Due(r)' = {q} /\ done'[r] = done[r]
       /\ \A j, k \in 1 .. Len(stack'[r]) : stack'[r][j] = stack'[r][k] => j = k
  BY <1>1, <1>5 DEF InStack, Due, HandlerReady
<1>12. BeginsWith(r, q)
  <2> DEFINE B == {}
             Q == {q}
  <2>1. B \cup B \cup Q \subseteq free[r] /\ Q \cap B = {} /\ B \cap Q = {} /\ B \cap B = {}
        /\ (Q # {}) /\ InStack(r)' = Q /\ B \cup B \cup Q = {q}
    BY <1>5, <1>11
  <2>2. \A g \in free'[r] : g \in free[r] /\ g \notin B \cup B \cup Q
    BY <1>5
  <2>3. Once(posted'[r]) /\ \A g \in ReqsIn(posted'[r]) : g \in ReqsIn(posted[r]) \/ g \in B
    BY <1>1, <1>2 DEF RankInv, PlaceInv
  <2>4. pc'[r] \in {"send", "recv", "stop"} /\ pc'[r] \in {"recv", "stop"} /\ Once(net'[r])
    BY <1>8, <1>9 DEF NetLess
  <2>5. \A g \in ReqsIn(net'[r]) : g \in ReqsIn(net[r]) \/ g \in B
    BY <1>9 DEF NetLess
  <2>6. \A a \in Items(net'[r]) : a.ref # Null => a \in Items(net[r])
    BY <1>9 DEF NetLess
  <2>7. \A a \in Items(posted'[r]) : a \in Items(posted[r])
    BY <1>1
  <2> HIDE DEF B, Q
  <2>8. Goes(r, B, B, Q)
    BY <1>11, <2>1, <2>2, <2>3, <2>4, <2>5 DEF Goes
  <2> QED BY <1>5, <1>10, <1>11, <2>1, <2>6, <2>7, <2>8 DEF BeginsWith
<1>13. RankInv(r)'
  BY <1>2, <1>12, BeginsRank
<1>14. Elsewhere(r)
  BY <1>1, <1>5, <1>8, <1>9, <1>10 DEF Elsewhere, Same
<1>15. TypeInv'
  <2>1. round' = round /\ done' = done /\ posted' = posted /\ ncaches' = ncaches /\ mem' = mem
    BY <1>1, <1>10
  <2>2. net' \in [Ranks -> [Ranks -> Seq(Message)]] /\ countMem' \in [Ranks -> [Ranks -> Word]]
    BY <1>9, <1>10
  <2>3. /\ pending' \in [Ranks -> Seq(Handles)] /\ cache' \in [Ranks -> Seq(Buffers)]
        /\ idx' \in [Ranks -> Ranks] /\ pc' \in [Ranks -> PCs]
    BY <1>8
  <2> QED BY <1>6, <2>1, <2>2, <2>3, TypeStep, Zenon DEF TypeInv
<1> QED BY <1>13, <1>14, <1>15

\* The count has not arrived: the receive of it carries the transfer on.
LEMMA RecvLaterRank ==
  ASSUME NEW r \in Ranks, TypeInv, \A p \in Ranks : RankInv(p), RecvLater(r)
  PROVE  RankInv(r)' /\ Elsewhere(r) /\ TypeInv'
<1> DEFINE s == idx[r]
           q == NewRequest(r)
           i == info[r][q]
           p == [req |-> q, dst |-> Null, n |-> 1]
<1>1. /\ RecvBegins(r, q, i) /\ Posting(r, s, p)
      /\ UNCHANGED <<ncaches, round, done, net, mem, countMem>>
  <2>1. /\ pc[r] = "recv" /\ stack[r] = << >> /\ free[r] # {} /\ cache[r] # << >>
        /\ RecvNbPost(r, s, Null, 1, q) /\ RecvBook(r, q, s, i, i.orig # Null)
    BY Zenon DEF RecvLater, RecvReady, Idle
  <2>2. /\ info' = [info EXCEPT ![r][q] = RecvFill(i, q, Head(cache[r]), idx[r])]
        /\ free' = [free EXCEPT ![r] = free[r] \ {q}]
        /\ cache' = [cache EXCEPT ![r] = Tail(cache[r])]
        /\ pending' = [pending EXCEPT ![r] = Append(pending[r], q)]
        /\ stack' = [stack EXCEPT ![r] = IF i.orig # Null THEN <<q>> ELSE << >>]
        /\ mode' = [mode EXCEPT ![r] = "call"]
        /\ LoopNext(r, "recv", "stop")
        /\ UNCHANGED <<ncaches, round, done>>
    BY <2>1, Zenon DEF RecvBook, Pop
  <2>3. LoopStep(r)
    BY <2>1, <2>2 DEF LoopStep
  <2>4. Posting(r, s, p) /\ UNCHANGED <<net, mem, countMem>>
    BY <2>1, Zenon DEF RecvNbPost, Posting
  <2> HIDE DEF q, i, p
  <2> QED BY <2>1, <2>2, <2>3, <2>4 DEF RecvBegins, Booked
<1>2. RankInv(r) /\ q = NewRequest(r)
  OBVIOUS
<1>3. q \in free[r] /\ s \in Ranks /\ q \in Handles /\ Open(r) /\ q \notin InUCX(r)
  <2>1. free[r] \in SUBSET Requests /\ s \in Ranks
    BY DEF TypeInv
  <2>2. free[r] # {} /\ Open(r)
    BY <1>1 DEF RecvBegins, Open
  <2>3. q \in free[r]
    BY <2>1, <2>2, NewRequestFree
  <2> QED BY <2>1, <2>2, <2>3, OpenFacts
<1> HIDE DEF q
<1>4. i \in Info /\ i.orig = Null /\ ~ i.completed
  <2>1. i \in Info
    BY <1>3 DEF TypeInv
  <2> QED BY <1>3, <2>1, OpenFacts
<1> HIDE DEF i
<1>5. /\ q \in free[r] /\ q \in Handles /\ Open(r) /\ Begins(r, q)
      /\ ~ info'[r][q].completed
      /\ \A g \in Handles : g # q => info'[r][g] = info[r][g]
      /\ free'[r] = free[r] \ {q}
      /\ mode'[r] = "call" /\ stack'[r] = << >>
      /\ \A o \in Ranks : o # r => /\ info'[o] = info[o] /\ free'[o] = free[o]
                                   /\ stack'[o] = stack[o] /\ mode'[o] = mode[o]
      /\ info' \in [Ranks -> [Handles -> Info]] /\ free' \in [Ranks -> SUBSET Requests]
      /\ stack' \in [Ranks -> Seq(Handles)] /\ mode' \in [Ranks -> {"call", "return"}]
  <2>1. RecvEffect(r, q, i)
    <3>1. RecvBegins(r, q, i)
      BY <1>1
    <3> QED BY <1>2, <1>4, <3>1, RecvFacts
  <2> QED BY <1>4, <2>1 DEF RecvEffect
<1>6. Booked(r, q) /\ pc[r] = "recv"
  BY <1>1 DEF RecvBegins
<1>7. /\ \A o \in Ranks : o # r => Kept(o) /\ done'[o] = done[o]
      /\ pending' \in [Ranks -> Seq(Handles)] /\ cache' \in [Ranks -> Seq(Buffers)]
      /\ idx' \in [Ranks -> Ranks] /\ pc' \in [Ranks -> PCs]
      /\ pc'[r] \in {"recv", "stop"}
  BY <1>2, <1>5, <1>6, BookedOthers
<1>8. p \in Receive /\ p.req = q /\ p.dst = Null
  BY <1>3 DEF Receive, Null
<1> HIDE DEF p, s
<1>9. /\ posted' \in [Ranks -> [Ranks -> Seq(Receive)]]
      /\ \A o \in Ranks : o # r => posted'[o] = posted[o]
      /\ Once(posted'[r])
      /\ \A a \in ReqsIn(posted'[r]) : a \in ReqsIn(posted[r]) \/ a = q
      /\ \A m \in Items(posted'[r]) : m \in Items(posted[r]) \/ m = p
  <2>1. Once(posted[r]) /\ p.req \notin ReqsIn(posted[r]) /\ p \in Receive
    BY <1>2, <1>3, <1>8 DEF RankInv, PlaceInv, InUCX
  <2>2. Posting(r, s, p)
    BY <1>1
  <2> QED BY <1>3, <1>8, <2>1, <2>2, PostQueue
<1>10. /\ InStack(r)' = {} /\ Due(r)' = {} /\ done'[r] = done[r]
       /\ \A j, k \in 1 .. Len(stack'[r]) : stack'[r][j] = stack'[r][k] => j = k
  BY <1>1, <1>5 DEF InStack, Due, HandlerReady
<1>11. BeginsWith(r, q)
  <2> DEFINE A == {}
             Q == {q}
  <2>1. A \cup Q \cup A \subseteq free[r] /\ A \cap Q = {} /\ Q \cap A = {} /\ A \cap A = {}
        /\ ~ (A # {}) /\ InStack(r)' = A /\ A \cup Q \cup A = {q}
    BY <1>5, <1>10
  <2>2. \A g \in free'[r] : g \in free[r] /\ g \notin A \cup Q \cup A
    BY <1>5
  <2>3. Once(posted'[r]) /\ \A g \in ReqsIn(posted'[r]) : g \in ReqsIn(posted[r]) \/ g \in Q
    BY <1>9
  <2>4. pc'[r] \in {"send", "recv", "stop"} /\ Once(net'[r]) /\ ~ (stack'[r] # << >>)
    BY <1>1, <1>2, <1>5, <1>7 DEF RankInv, PlaceInv
  <2>5. \A g \in ReqsIn(net'[r]) : g \in ReqsIn(net[r]) \/ g \in A
    BY <1>1
  <2>6. \A a \in Items(net'[r]) : a.ref # Null => a \in Items(net[r])
    BY <1>1
  <2>7. \A a \in Items(posted'[r]) : a.dst # Null => a \in Items(posted[r])
    BY <1>8, <1>9
  <2> HIDE DEF A, Q
  <2>8. Goes(r, A, Q, A)
    BY <1>10, <2>1, <2>2, <2>3, <2>4, <2>5 DEF Goes
  <2> QED BY <1>1, <1>5, <1>10, <2>1, <2>6, <2>7, <2>8 DEF BeginsWith
<1>12. RankInv(r)'
  BY <1>2, <1>11, BeginsRank
<1>13. Elsewhere(r)
  <2>1. \A o \in Ranks : NetLess(o)
    BY <1>1, NetSame
  <2> QED BY <1>1, <1>5, <1>7, <1>9, <2>1 DEF Elsewhere, Same
<1>14. TypeInv'
  <2>1. /\ round' = round /\ done' = done /\ net' = net /\ ncaches' = ncaches /\ mem' = mem
        /\ countMem' = countMem
    BY <1>1
  <2>2. /\ pending' \in [Ranks -> Seq(Handles)] /\ cache' \in [Ranks -> Seq(Buffers)]
        /\ idx' \in [Ranks -> Ranks] /\ pc' \in [Ranks -> PCs]
        /\ posted' \in [Ranks -> [Ranks -> Seq(Receive)]]
    BY <1>7, <1>9
  <2> QED BY <1>5, <2>1, <2>2, TypeStep, Zenon DEF TypeInv
<1> QED BY <1>12, <1>13, <1>14

-----------------------------------------------------------------------------
\* No buffer is left: the exception leaves send or recv.  UCX may have the
\* count's message (A) or its receive (B).
Throws(r, A, B) ==
  /\ pc[r] \in {"send", "recv"} /\ stack[r] = << >> /\ cache[r] = << >>
  /\ pc' = [pc EXCEPT ![r] = "thrown"]
  /\ UNCHANGED <<ncaches, idx, round, pending, cache, mem, done, stack, mode>>
  /\ A \cup B \subseteq free[r] /\ A \cap B = {}
  /\ Once(net'[r]) /\ Once(posted'[r])
  /\ \A q \in ReqsIn(net'[r]) : q \in ReqsIn(net[r]) \/ q \in A
  /\ \A q \in ReqsIn(posted'[r]) : q \in ReqsIn(posted[r]) \/ q \in B
  /\ \A m \in Items(net'[r]) : m.ref # Null => m \in Items(net[r])
  /\ \A g \in free'[r] : g \in free[r] /\ info'[r][g] = info[r][g]
  /\ \A g \in Transfers(r) : info'[r][g] = info[r][g]

\* With two buffers per peer the loops never exhaust the cache.
LEMMA CacheLasts ==
  ASSUME NEW r \in Ranks, TypeInv, CountInv(r), pc[r] \in {"send", "recv"}, cache[r] = << >>
  PROVE  ~ Enough /\ ncaches = Len(pending[r])
<1> DEFINE i == idx[r]
           S == Before(r, i) \cup {i}
<1>1. i \in Peers(r) /\ Live(r)
  BY DEF CountInv, Live, Open
<1>2. IsFiniteSet(Ranks) /\ Peers(r) \subseteq Ranks
  BY NAssumption, FS_Interval DEF Ranks, Peers
<1>3. IsFiniteSet(Peers(r)) /\ S \subseteq Peers(r)
  BY <1>1, <1>2, FS_Subset DEF Before
<1>4. Cardinality(S) <= All(r) /\ All(r) \in Nat
  BY <1>3, FS_Subset, FS_CardinalityType DEF All
<1>5. Passed(r) = Cardinality(Before(r, i))
  BY Zenon DEF Passed, Before
<1> HIDE DEF i
<1>6. Cardinality(S) = Cardinality(Before(r, i)) + 1 /\ Cardinality(Before(r, i)) \in Nat
  BY <1>1, PeerCount
<1> HIDE DEF S
<1>7. Passed(r) + 1 <= All(r) /\ Passed(r) \in Nat
  BY <1>4, <1>5, <1>6
<1>8. /\ Len(cache[r]) = ncaches - Len(pending[r])
      /\ Len(pending[r]) = Passed(r) \/ Len(pending[r]) = All(r) + Passed(r)
  BY <1>1 DEF CountInv
<1>9. Len(cache[r]) = 0 /\ ncaches \in Nat /\ Len(pending[r]) \in Nat
  BY LenProperties, EmptySeq DEF TypeInv
<1>10. ncaches = Len(pending[r])
  BY <1>8, <1>9
<1>11. ncaches < 2 * All(r)
  BY <1>4, <1>7, <1>8, <1>10
<1>12. ~ (ncaches >= 2 * Cardinality(Peers(r)))
  BY <1>4, <1>9, <1>11 DEF All
<1> QED BY <1>10, <1>12 DEF Enough

LEMMA ThrowRank ==
  ASSUME NEW r \in Ranks, TypeInv, RankInv(r), NEW A, NEW B, Throws(r, A, B)
  PROVE  RankInv(r)'
<1> USE DEF Throws
<1>1. /\ OwnInv(r) /\ CountInv(r) /\ PlaceInv(r) /\ CleanInv(r) /\ ReadInv(r)
  BY DEF RankInv
<1>2. Open(r) /\ Live(r) /\ pc'[r] = "thrown"
  BY DEF Open, Live, TypeInv
<1>3. Live(r)' /\ ~ Open(r)'
  BY <1>2 DEF Live, Open
<1>4. /\ \A j \in 1 .. Len(pending[r]) : pending[r][j] \in Transfers(r)
      /\ \A p \in Transfers(r) : p \notin free[r]
  BY <1>2, OpenFacts DEF Transfers
<1>5. OwnInv(r)'
  <2>1. \A j \in 1 .. Len(pending[r]) :
          /\ OrigOf(r, pending[r][j])' = OrigOf(r, pending[r][j])
          /\ BufOf(r, pending[r][j])' = BufOf(r, pending[r][j])
          /\ pending[r][j] \notin free'[r]
    BY <1>4 DEF OrigOf, BufOf
  <2>2. CacheDistinct(r)' /\ Buffers' = Buffers
    BY <1>1 DEF OwnInv, CacheDistinct, Buffers
  <2>3. \A b \in Buffers : Accounted(r, b)'
    BY <1>1, <1>2, <1>3, <2>1 DEF OwnInv, Accounted
  <2>4. ASSUME NEW j \in 1 .. Len(pending[r])
        PROVE  /\ pending[r][j] \notin free'[r]
               /\ OrigOf(r, pending[r][j])' = pending[r][j]
               /\ BufOf(r, pending[r][j])' \in Buffers
               /\ \A k \in 1 .. Len(cache[r]) : cache[r][k] # BufOf(r, pending[r][j])'
               /\ \A k \in 1 .. Len(pending[r]) :
                    BufOf(r, pending[r][k])' = BufOf(r, pending[r][j])' => j = k
    BY <1>1, <1>2, <2>1 DEF OwnInv
  <2> QED BY <1>3, <2>2, <2>3, <2>4 DEF OwnInv, BufOf, OrigOf
<1>6. HeapInv(r)'
  BY <1>2, <1>3 DEF HeapInv
<1>7. CountInv(r)'
  <2>1. ~ Enough /\ (Enough' <=> Enough)
    BY <1>1, CacheLasts DEF Enough
  <2> QED BY <1>1, <1>2, <1>3, <2>1 DEF CountInv
<1>8. PlaceInv(r)'
  <2>1. \A q \in A \cup B : q \notin InUCX(r) /\ q \in Requests
    BY <1>2, OpenFacts DEF TypeInv
  <2>2. InUCX(r) = done[r] \cup ReqsIn(net[r]) \cup ReqsIn(posted[r])
    BY DEF InUCX
  <2>3. InUCX(r)' = done[r] \cup ReqsIn(net'[r]) \cup ReqsIn(posted'[r])
    BY DEF InUCX
  <2>4. InStack(r) = {} /\ InStack(r)' = {}
    BY DEF InStack
  <2>5. /\ done[r] \cap ReqsIn(net[r]) = {} /\ done[r] \cap ReqsIn(posted[r]) = {}
        /\ ReqsIn(net[r]) \cap ReqsIn(posted[r]) = {} /\ InUCX(r) \subseteq Requests
    BY <1>1 DEF PlaceInv
  <2>6. /\ done[r] \cap ReqsIn(net'[r]) = {} /\ done[r] \cap ReqsIn(posted'[r]) = {}
        /\ ReqsIn(net'[r]) \cap ReqsIn(posted'[r]) = {} /\ InUCX(r)' \subseteq Requests
    BY <2>1, <2>2, <2>3, <2>5
  <2>7. \A j, k \in 1 .. Len(stack[r]) : stack[r][j] = stack[r][k] => j = k
    BY <1>1 DEF PlaceInv
  <2> QED BY <1>3, <2>4, <2>6, <2>7 DEF PlaceInv
<1>9. CarryInv(r)'
  BY <1>3 DEF CarryInv
<1>10. CleanInv(r)'
  BY <1>1 DEF CleanInv, OrigOf
<1>11. ReadInv(r)'
  BY <1>1, <1>3 DEF ReadInv
<1> QED BY <1>5, <1>6, <1>7, <1>8, <1>9, <1>10, <1>11 DEF RankInv

\* What other ranks see of the exception: at most a message from r is matched.
LEMMA ThrowElsewhere ==
  ASSUME NEW r \in Ranks, TypeInv, NEW A, NEW B, Throws(r, A, B),
         \A o \in Ranks : o # r => /\ NetLess(o) /\ posted'[o] = posted[o]
                                   /\ info'[o] = info[o] /\ free'[o] = free[o],
         info' \in [Ranks -> [Handles -> Info]], free' \in [Ranks -> SUBSET Requests],
         posted' \in [Ranks -> [Ranks -> Seq(Receive)]],
         net' \in [Ranks -> [Ranks -> Seq(Message)]],
         countMem' \in [Ranks -> [Ranks -> Word]]
  PROVE  Elsewhere(r) /\ TypeInv'
<1>1. /\ pc' = [pc EXCEPT ![r] = "thrown"]
      /\ UNCHANGED <<ncaches, idx, round, pending, cache, mem, done, stack, mode>>
  BY DEF Throws
<1>2. pc' \in [Ranks -> PCs] /\ \A o \in Ranks : o # r => pc'[o] = pc[o]
  BY <1>1 DEF TypeInv, PCs
<1>3. Elsewhere(r)
  BY <1>1, <1>2 DEF Elsewhere, Same, Kept
<1>4. TypeInv'
  <2>1. /\ idx' = idx /\ round' = round /\ pending' = pending /\ cache' = cache /\ mem' = mem
        /\ done' = done /\ stack' = stack /\ mode' = mode /\ ncaches' = ncaches
    BY <1>1
  <2> QED BY <1>2, <2>1, TypeStep, Zenon DEF TypeInv
<1> QED BY <1>3, <1>4

LEMMA SendThrowRank ==
  ASSUME NEW r \in Ranks, TypeInv, \A p \in Ranks : RankInv(p), SendThrow(r)
  PROVE  RankInv(r)' /\ Elsewhere(r) /\ TypeInv'
<1> DEFINE d == idx[r]
           q == NewRequest(r)
           v(c) == <<CountWord(r, d, round[r], c)>>
           m(c, now) == IF now THEN Msg(v(c)) ELSE MsgBusy(v(c), Null, q)
<1>1. /\ pc[r] = "send" /\ stack[r] = << >> /\ cache[r] = << >> /\ free[r] # {}
      /\ \E c \in Counts[r][d], now \in BOOLEAN :
           /\ net' = [net EXCEPT ![r][d] = Append(net[r][d], m(c, now))]
           /\ free' = [free EXCEPT ![r] = IF now THEN free[r] ELSE free[r] \ {q}]
      /\ pc' = [pc EXCEPT ![r] = "thrown"]
      /\ UNCHANGED <<ncaches, idx, round, pending, cache, mem, info, done, posted, stack, mode,
                     countMem>>
  BY Zenon DEF SendThrow, ThrowReady, Idle, callbacks
<1>2. PICK c \in Counts[r][d], now \in BOOLEAN :
        /\ net' = [net EXCEPT ![r][d] = Append(net[r][d], m(c, now))]
        /\ free' = [free EXCEPT ![r] = IF now THEN free[r] ELSE free[r] \ {q}]
  BY <1>1, Zenon
<1>3. RankInv(r) /\ Open(r)
  BY <1>1 DEF Open
<1>4. /\ ncaches \in Nat /\ round[r] \in Int /\ d \in Ranks /\ free \in [Ranks -> SUBSET Requests]
      /\ net[r][d] \in Seq(Message) /\ c \in Int
  <2>1. d \in Ranks /\ d \in 0 .. N - 1 /\ r \in 0 .. N - 1
    BY DEF TypeInv, Ranks
  <2>2. Counts[r][d] \in SUBSET (0 .. MaxCount)
    BY <2>1, BoundsAssumption
  <2>3. c \in Int
    BY <2>2
  <2> QED BY <2>1, <2>3 DEF TypeInv
<1>5. q \in free[r]
  BY <1>1, <1>4, NewRequestFree
<1> HIDE DEF q
<1>6. q \in Handles /\ q \notin InUCX(r) /\ \A p \in Transfers(r) : p \notin free[r]
  BY <1>3, <1>5, OpenFacts
<1> DEFINE A == IF now THEN {} ELSE {q}
           B == {}
           a == m(c, now)
           w == <<a>>
<1>7. a \in Message /\ a.ref = Null /\ a.req = IF now THEN Null ELSE q
  <2>1. CountWord(r, d, round[r], c) \in Word
    BY <1>4 DEF CountWord, Word, Ranks
  <2>2. v(c) \in Seq(Word)
    BY <2>1
  <2> HIDE DEF v
  <2> QED BY <1>6, <2>2 DEF Msg, MsgBusy, Message, Null
<1>8. /\ net' = [net EXCEPT ![r][d] = Append(net[r][d], a)]
      /\ free' = [free EXCEPT ![r] = IF now THEN free[r] ELSE free[r] \ {q}]
  BY <1>2, Zenon
<1> HIDE DEF m, a
<1>9. /\ w \in Seq(Message) /\ Elems(w) = {a} /\ Sending(r, d, w)
      /\ FreshIn(A, net[r], w)
  <2>1. w \in Seq(Message) /\ Len(w) = 1 /\ w[1] = a
    BY <1>7
  <2>2. Append(net[r][d], a) = net[r][d] \o w
    BY <1>4, <1>7, AppendIsConcat
  <2> HIDE DEF w
  <2>3. Sending(r, d, w)
    BY <1>8, <2>2 DEF Sending
  <2>4. FreshIn(A, net[r], w)
    BY <1>6, <1>7, <2>1 DEF FreshIn, InUCX
  <2>5. Elems(w) = {a}
    BY <2>1 DEF Elems
  <2> QED BY <2>1, <2>3, <2>4, <2>5
<1> HIDE DEF w, d
<1>10. /\ Tables(net', Message)
       /\ \A p \in Ranks : p # r => net'[p] = net[p]
       /\ Once(net'[r])
       /\ \A g \in ReqsIn(net'[r]) : g \in ReqsIn(net[r]) \/ g \in A
       /\ \A g \in Items(net'[r]) : g \in Items(net[r]) \/ g \in Elems(w)
  <2>1. FreshIn(A, net[r], w) /\ Once(net[r]) /\ d \in Ranks /\ w \in Seq(Message)
        /\ Sending(r, d, w)
    BY <1>3, <1>4, <1>9 DEF RankInv, PlaceInv
  <2> HIDE DEF A
  <2>2. Once(net'[r]) /\ \A p \in Ranks : p # r => net'[p] = net[p]
    BY <2>1, SendQueue
  <2>3. \A g \in ReqsIn(net'[r]) : g \in ReqsIn(net[r]) \/ g \in A
    BY <2>1, SendQueue
  <2>4. \A g \in Items(net'[r]) : g \in Items(net[r]) \/ g \in Elems(w)
    BY <2>1, SendQueue
  <2>5. Tables(net', Message)
    BY <2>1, SendQueue
  <2> QED BY <2>2, <2>3, <2>4, <2>5
<1>11. /\ free'[r] \subseteq free[r] /\ free' \in [Ranks -> SUBSET Requests]
       /\ \A p \in Ranks : p # r => free'[p] = free[p]
  BY <1>4, <1>8
<1>12. Throws(r, A, B)
  <2>1. A \cup B \subseteq free[r] /\ A \cap B = {}
    BY <1>5
  <2>2. \A g \in Items(net'[r]) : g.ref # Null => g \in Items(net[r])
    BY <1>7, <1>9, <1>10
  <2>3. Once(posted'[r]) /\ \A g \in ReqsIn(posted'[r]) : g \in ReqsIn(posted[r]) \/ g \in B
    BY <1>1, <1>3 DEF RankInv, PlaceInv
  <2>4. /\ \A g \in free'[r] : g \in free[r] /\ info'[r][g] = info[r][g]
        /\ \A g \in Transfers(r) : info'[r][g] = info[r][g]
    BY <1>1, <1>11
  <2> HIDE DEF A, B
  <2> QED BY <1>1, <1>10, <2>1, <2>2, <2>3, <2>4 DEF Throws
<1> HIDE DEF A, B
<1>13. RankInv(r)'
  BY <1>3, <1>12, ThrowRank
<1>14. \A o \in Ranks : o # r => /\ NetLess(o) /\ posted'[o] = posted[o]
                                 /\ info'[o] = info[o] /\ free'[o] = free[o]
  BY <1>1, <1>10, <1>11, NetSame
<1>15. /\ info' \in [Ranks -> [Handles -> Info]]
       /\ posted' \in [Ranks -> [Ranks -> Seq(Receive)]]
       /\ net' \in [Ranks -> [Ranks -> Seq(Message)]]
       /\ countMem' \in [Ranks -> [Ranks -> Word]]
  BY <1>1, <1>10 DEF TypeInv, Tables
<1>16. Elsewhere(r) /\ TypeInv'
  BY <1>11, <1>12, <1>14, <1>15, ThrowElsewhere
<1> QED BY <1>13, <1>16

LEMMA RecvThrowRank ==
  ASSUME NEW r \in Ranks, TypeInv, \A p \in Ranks : RankInv(p), RecvThrow(r)
  PROVE  RankInv(r)' /\ Elsewhere(r) /\ TypeInv'
<1> DEFINE s == idx[r]
           q == NewRequest(r)
           x == [req |-> q, dst |-> Null, n |-> 1]
           Early == /\ RecvNbEarly(r, s, Null, 1)
                    /\ info' = [info EXCEPT ![r][q] = Mark(info[r][q])]
           Late  == RecvNbPost(r, s, Null, 1, q) /\ info' = info
<1>1. /\ pc[r] = "recv" /\ stack[r] = << >> /\ cache[r] = << >> /\ free[r] # {}
      /\ Early \/ Late
      /\ free' = [free EXCEPT ![r] = free[r] \ {q}]
      /\ pc' = [pc EXCEPT ![r] = "thrown"]
      /\ UNCHANGED <<ncaches, idx, round, pending, cache, done, stack, mode>>
  BY Zenon DEF RecvThrow, ThrowReady, Idle, callbacks
<1>2. RankInv(r) /\ Open(r)
  BY <1>1 DEF Open
<1>3. /\ s \in Ranks /\ free \in [Ranks -> SUBSET Requests]
      /\ info \in [Ranks -> [Handles -> Info]]
      /\ net \in [Ranks -> [Ranks -> Seq(Message)]] /\ countMem \in [Ranks -> [Ranks -> Word]]
      /\ posted \in [Ranks -> [Ranks -> Seq(Receive)]]
  BY DEF TypeInv
<1>4. q \in free[r]
  BY <1>1, <1>3, NewRequestFree
<1> HIDE DEF q
<1>5. /\ q \in Handles /\ q \notin InUCX(r) /\ info[r][q].orig = Null
      /\ \A p \in Transfers(r) : p \notin free[r] /\ p \in Handles
  BY <1>2, <1>4, OpenFacts
<1>6. /\ free'[r] = free[r] \ {q} /\ free' \in [Ranks -> SUBSET Requests]
      /\ \A o \in Ranks : o # r => free'[o] = free[o]
  BY <1>1, <1>3
<1>7. \A o \in Ranks : Once(net[o]) /\ Once(posted[o])
  BY DEF RankInv, PlaceInv
<1> DEFINE A == {}
<1>8. CASE Early
  <2> DEFINE i == info[r][q]
             k == Mark(i)
  <2>1. /\ Arrived(s, r) /\ posted' = posted
        /\ Land(r, s, Null, Landing(Head(net[s][r]), 1))
        /\ net' = [net EXCEPT ![s][r] = Tail(net[s][r])]
        /\ info' = [info EXCEPT ![r][q] = k]
    BY <1>8, Zenon DEF RecvNbEarly
  <2>2. k \in Info
    <3>1. i \in Info /\ i.orig = Null
      BY <1>3, <1>5
    <3> HIDE DEF i
    <3> QED BY <3>1, Marks
  <2> HIDE DEF k
  <2>3. /\ info' \in [Ranks -> [Handles -> Info]]
        /\ \A o \in Ranks : o # r => info'[o] = info[o]
        /\ \A g \in Handles : g # q => info'[r][g] = info[r][g]
    BY <1>3, <1>5, <2>1, <2>2
  <2>4. /\ \A p \in Ranks : NetLess(p)
        /\ net' \in [Ranks -> [Ranks -> Seq(Message)]] /\ Head(net[s][r]) \in Message
    <3>1. \A p \in Ranks : Once(net[p])
      BY <1>7
    <3> QED BY <1>3, <2>1, <3>1, MatchNet
  <2>5. mem' = mem /\ countMem' \in [Ranks -> [Ranks -> Word]]
    <3>1. mem' = mem
      BY <2>1 DEF Land
    <3> DEFINE z == Null
               m == Head(net[s][r])
               n == 1
    <3>2. Land(r, s, z, Landing(m, n)) /\ z = Null /\ m \in Message
      BY <2>1, <2>4
    <3> HIDE DEF z, m, n
    <3>3. countMem' \in [Ranks -> [Ranks -> Word]]
      BY <1>3, <3>2, Landed
    <3> QED BY <3>1, <3>3
  <2> HIDE DEF s
  <2>6. Throws(r, A, A)
    <3>1. A \cup A \subseteq free[r] /\ A \cap A = {}
      OBVIOUS
    <3>2. /\ \A g \in Items(net'[r]) : g.ref # Null => g \in Items(net[r])
          /\ \A g \in ReqsIn(net'[r]) : g \in ReqsIn(net[r]) \/ g \in A
          /\ Once(net'[r])
      BY <2>4 DEF NetLess
    <3>3. Once(posted'[r]) /\ \A g \in ReqsIn(posted'[r]) : g \in ReqsIn(posted[r]) \/ g \in A
      BY <1>7, <2>1
    <3>4. /\ \A g \in free'[r] : g \in free[r] /\ info'[r][g] = info[r][g]
          /\ \A g \in Transfers(r) : info'[r][g] = info[r][g]
      <4>1. \A g \in free'[r] : g \in free[r] /\ g # q /\ g \in Handles
        BY <1>2, <1>6, OpenFacts
      <4> QED BY <1>4, <1>5, <2>3, <4>1
    <3> HIDE DEF A
    <3> QED BY <1>1, <2>5, <3>1, <3>2, <3>3, <3>4 DEF Throws
  <2> HIDE DEF A
  <2>7. RankInv(r)'
    BY <1>2, <2>6, ThrowRank
  <2>8. \A o \in Ranks : o # r => /\ NetLess(o) /\ posted'[o] = posted[o]
                                  /\ info'[o] = info[o] /\ free'[o] = free[o]
    BY <1>6, <2>1, <2>3, <2>4
  <2>9. posted' \in [Ranks -> [Ranks -> Seq(Receive)]]
    BY <1>3, <2>1
  <2>10. Elsewhere(r) /\ TypeInv'
    BY <1>6, <2>3, <2>4, <2>5, <2>6, <2>8, <2>9, ThrowElsewhere
  <2> QED BY <2>7, <2>10
<1>9. CASE Late
  <2> DEFINE B == {q}
  <2>1. Posting(r, s, x) /\ UNCHANGED <<net, mem, countMem>> /\ info' = info
    BY <1>9, Zenon DEF RecvNbPost, Posting
  <2>2. x \in Receive /\ x.req = q /\ x.dst = Null
    BY <1>5 DEF Receive, Null
  <2> HIDE DEF x, s
  <2>3. /\ posted' \in [Ranks -> [Ranks -> Seq(Receive)]]
        /\ \A o \in Ranks : o # r => posted'[o] = posted[o]
        /\ Once(posted'[r])
        /\ \A a \in ReqsIn(posted'[r]) : a \in ReqsIn(posted[r]) \/ a = q
    <3>1. Once(posted[r]) /\ x.req \notin ReqsIn(posted[r]) /\ x \in Receive
      BY <1>5, <1>7, <2>2 DEF InUCX
    <3>2. Posting(r, s, x)
      BY <2>1
    <3> QED BY <1>3, <2>2, <3>1, <3>2, PostQueue
  <2>4. Throws(r, A, B)
    <3>1. A \cup B \subseteq free[r] /\ A \cap B = {}
      BY <1>4
    <3>2. /\ \A g \in Items(net'[r]) : g.ref # Null => g \in Items(net[r])
          /\ \A g \in ReqsIn(net'[r]) : g \in ReqsIn(net[r]) \/ g \in A
          /\ Once(net'[r])
      BY <1>7, <2>1
    <3>3. Once(posted'[r]) /\ \A g \in ReqsIn(posted'[r]) : g \in ReqsIn(posted[r]) \/ g \in B
      BY <2>3
    <3>4. /\ \A g \in free'[r] : g \in free[r] /\ info'[r][g] = info[r][g]
          /\ \A g \in Transfers(r) : info'[r][g] = info[r][g]
      BY <1>6, <2>1
    <3> HIDE DEF A, B
    <3> QED BY <1>1, <2>1, <3>1, <3>2, <3>3, <3>4 DEF Throws
  <2> HIDE DEF A, B
  <2>5. RankInv(r)'
    BY <1>2, <2>4, ThrowRank
  <2>6. \A o \in Ranks : o # r => /\ NetLess(o) /\ posted'[o] = posted[o]
                                  /\ info'[o] = info[o] /\ free'[o] = free[o]
    BY <1>6, <2>1, <2>3, NetSame
  <2>7. /\ info' \in [Ranks -> [Handles -> Info]]
        /\ net' \in [Ranks -> [Ranks -> Seq(Message)]]
        /\ countMem' \in [Ranks -> [Ranks -> Word]]
    BY <1>3, <2>1
  <2>8. Elsewhere(r) /\ TypeInv'
    BY <1>6, <2>3, <2>4, <2>6, <2>7, ThrowElsewhere
  <2> QED BY <2>5, <2>8
<1> HIDE DEF Early, Late
<1> QED BY <1>1, <1>8, <1>9

-----------------------------------------------------------------------------
\* Nothing is in UCX for a rank outside of its rounds.
LEMMA QuietItems ==
  ASSUME NEW r \in Ranks, TypeInv, RankInv(r), InUCX(r) = {}
  PROVE  /\ \A m \in Items(net[r]) : m.ref = Null
         /\ \A p \in Items(posted[r]) : FALSE
<1>1. ReqsIn(net[r]) = {} /\ ReqsIn(posted[r]) = {}
  BY DEF InUCX
<1>2. ReadInv(r)
  BY DEF RankInv
<1>3. \A m \in Items(net[r]) : m.ref # Null => m.req \in ReqsIn(net[r])
  BY <1>2 DEF ReadInv, ReqsIn
<1>4. \A p \in Items(posted[r]) : p.req \in ReqsIn(posted[r])
  BY ItemsTyped DEF Receive, ReqsIn
<1> QED BY <1>1, <1>3, <1>4

\* start(): the round begins with every buffer in the cache.
LEMMA StartRank ==
  ASSUME NEW r \in Ranks, TypeInv, \A p \in Ranks : RankInv(p), Start(r)
  PROVE  RankInv(r)' /\ Elsewhere(r) /\ TypeInv'
<1> DEFINE i == From(r, 0)
<1>1. /\ pc[r] = "start"
      /\ pc' = [pc EXCEPT ![r] = "send"] /\ idx' = [idx EXCEPT ![r] = i]
      /\ round' = [round EXCEPT ![r] = round[r] + 1]
      /\ pending' = [pending EXCEPT ![r] = << >>]
      /\ UNCHANGED <<ncaches, cache, mem, info, free, done, posted, net, stack, mode, countMem>>
  BY Zenon DEF Start, callbacks, user
<1>2. i \in Peers(r) /\ i \in Ranks /\ Before(r, i) = {}
  BY PeerFirst
<1> HIDE DEF i
<1>3. /\ pc' \in [Ranks -> PCs] /\ idx' \in [Ranks -> Ranks] /\ round' \in [Ranks -> Int]
      /\ pending' \in [Ranks -> Seq(Handles)]
      /\ pc'[r] = "send" /\ idx'[r] = i /\ pending'[r] = << >>
      /\ \A o \in Ranks : o # r => /\ pc'[o] = pc[o] /\ idx'[o] = idx[o]
                                   /\ pending'[o] = pending[o]
  <2>1. << >> \in Seq(Handles)
    BY EmptySeq
  <2>2. /\ pc \in [Ranks -> PCs] /\ idx \in [Ranks -> Ranks] /\ round \in [Ranks -> Int]
        /\ pending \in [Ranks -> Seq(Handles)]
    BY DEF TypeInv
  <2>3. "send" \in PCs
    BY DEF PCs
  <2> QED BY <1>1, <1>2, <2>1, <2>2, <2>3
<1>4. RankInv(r) /\ ~ Live(r) /\ Live(r)' /\ Open(r)'
  BY <1>1, <1>3 DEF Live, Open
<1>5. /\ OwnInv(r) /\ CountInv(r) /\ PlaceInv(r) /\ CleanInv(r) /\ ReadInv(r)
  BY <1>4 DEF RankInv
<1>6. InUCX(r) = {} /\ stack[r] = << >>
  BY <1>1, <1>4, <1>5 DEF PlaceInv
<1>7. InUCX(r)' = {} /\ InStack(r)' = {} /\ Due(r)' = {} /\ Len(pending'[r]) = 0
  BY <1>1, <1>3, <1>6 DEF InUCX, InStack, Due, HandlerReady
<1>8. OwnInv(r)'
  <2>1. CacheDistinct(r)' /\ Buffers' = Buffers
    BY <1>1, <1>5 DEF OwnInv, CacheDistinct, Buffers
  <2>2. \A b \in Buffers : Accounted(r, b)'
    BY <1>1, <1>4, <1>5 DEF OwnInv, Accounted
  <2> QED BY <1>4, <1>7, <2>1, <2>2 DEF OwnInv
<1>9. HeapInv(r)'
  BY <1>7 DEF HeapInv, Transfers
<1>10. CountInv(r)'
  <2>1. Passed(r)' = Cardinality(Before(r, idx'[r])) /\ Peers(r)' = Peers(r)
    BY Zenon DEF Passed, Before, Peers
  <2>2. Passed(r)' = 0
    BY <1>2, <1>3, <2>1, FS_EmptySet
  <2> QED BY <1>1, <1>2, <1>3, <1>4, <1>5, <1>7, <2>1, <2>2 DEF CountInv
<1>11. PlaceInv(r)'
  <2>1. Live(r)' /\ stack'[r] = << >> /\ net' = net /\ posted' = posted
        /\ done' = done
    BY <1>1, <1>4, <1>6
  <2> QED BY <1>1, <1>5, <1>7, <2>1 DEF PlaceInv, InStack
<1>12. CarryInv(r)'
  BY <1>7 DEF CarryInv, Active
<1>13. CleanInv(r)'
  BY <1>1, <1>5 DEF CleanInv, OrigOf
<1>14. ReadInv(r)'
  BY <1>1, <1>4, <1>6, QuietItems DEF ReadInv
<1>15. Elsewhere(r)
  <2>1. \A o \in Ranks : NetLess(o)
    BY <1>1, NetSame
  <2> QED BY <1>1, <1>3, <2>1 DEF Elsewhere, Same, Kept
<1>16. TypeInv'
  <2>1. /\ cache' = cache /\ mem' = mem /\ info' = info /\ free' = free /\ done' = done
        /\ posted' = posted /\ net' = net /\ stack' = stack /\ mode' = mode
        /\ countMem' = countMem /\ ncaches' = ncaches
    BY <1>1
  <2> QED BY <1>3, <2>1, TypeStep, Zenon DEF TypeInv
<1> QED BY <1>8, <1>9, <1>10, <1>11, <1>12, <1>13, <1>14, <1>15, <1>16 DEF RankInv

\* A rank that is in no round, after the step.
LEMMA QuietRank ==
  ASSUME NEW r \in Ranks, TypeInv, RankInv(r), ncaches' = ncaches,
         pc'[r] \notin {"send", "recv", "stop", "thrown"},
         net' = net, posted' = posted, done' = done, stack' = stack,
         pending' = pending, InUCX(r) = {}, stack[r] = << >>,
         CacheDistinct(r)', Len(cache'[r]) = ncaches,
         \A b \in Buffers : \E k \in 1 .. Len(cache'[r]) : cache'[r][k] = b,
         \A p \in Transfers(r) : info'[r][p].buf = Null, CleanInv(r)'
  PROVE  RankInv(r)'
<1>1. ~ Live(r)' /\ ~ Open(r)' /\ pc'[r] \notin {"send", "recv", "thrown"}
  BY DEF Live, Open
<1>2. PlaceInv(r)
  BY DEF RankInv
<1>3. InUCX(r)' = {} /\ InStack(r)' = InStack(r) /\ Buffers' = Buffers
  BY DEF InUCX, InStack, Buffers
<1>4. OwnInv(r)'
  <2>1. \A j \in 1 .. Len(pending[r]) : info'[r][pending[r][j]].buf = Null
    BY DEF Transfers
  <2>2. \A b \in Buffers : Accounted(r, b)'
    BY DEF Accounted
  <2> QED BY <1>1, <1>3, <2>1, <2>2 DEF OwnInv, BufOf
<1>5. HeapInv(r)' /\ CarryInv(r)'
  BY <1>1 DEF HeapInv, CarryInv
<1>6. CountInv(r)'
  <2>1. ncaches \in Nat
    BY DEF TypeInv
  <2> QED BY <1>1, <2>1 DEF CountInv
<1>7. PlaceInv(r)'
  BY <1>1, <1>2, <1>3 DEF PlaceInv
<1>8. ReadInv(r)'
  BY <1>1, QuietItems DEF ReadInv
<1> QED BY <1>4, <1>5, <1>6, <1>7, <1>8 DEF RankInv

\* finalize(): closing the endpoints, and the barrier.
LEMMA CloseRank ==
  ASSUME NEW r \in Ranks, TypeInv, \A p \in Ranks : RankInv(p), Finalize(r) \/ Barrier(r)
  PROVE  RankInv(r)' /\ Elsewhere(r) /\ TypeInv'
<1> DEFINE next == IF pc[r] = "finalize" THEN "barrier" ELSE "closed"
<1>1. /\ pc[r] \in {"finalize", "barrier"} /\ pc' = [pc EXCEPT ![r] = next]
      /\ UNCHANGED <<ncaches, idx, round, pending, cache, mem, info, free, done, posted, net,
                     stack, mode, countMem>>
  <2>1. CASE Finalize(r)
    BY <2>1 DEF Finalize, callbacks, user
  <2>2. CASE Barrier(r)
    BY <2>2 DEF Barrier, callbacks, user
  <2> QED BY <2>1, <2>2
<1>2. /\ pc' \in [Ranks -> PCs] /\ \A o \in Ranks : o # r => pc'[o] = pc[o]
      /\ pc'[r] \notin {"send", "recv", "stop", "thrown"}
  BY <1>1 DEF TypeInv, PCs
<1>3. RankInv(r) /\ ~ Live(r)
  BY <1>1 DEF Live, Open
<1>4. OwnInv(r) /\ CountInv(r) /\ PlaceInv(r) /\ CleanInv(r)
  BY <1>3 DEF RankInv
<1>5. InUCX(r) = {} /\ stack[r] = << >>
  BY <1>1, <1>3, <1>4 DEF PlaceInv
<1>6. /\ CacheDistinct(r)' /\ Len(cache'[r]) = ncaches
      /\ \A b \in Buffers : \E k \in 1 .. Len(cache'[r]) : cache'[r][k] = b
      /\ \A p \in Transfers(r) : info'[r][p].buf = Null
      /\ CleanInv(r)'
  <2>1. Len(cache[r]) = ncaches - 0 /\ ncaches \in Nat
    BY <1>3, <1>4 DEF CountInv, TypeInv
  <2>2. \A b \in Buffers : \E k \in 1 .. Len(cache[r]) : cache[r][k] = b
    BY <1>3, <1>4 DEF OwnInv, Accounted
  <2>3. \A p \in Transfers(r) : info[r][p].buf = Null
    BY <1>3, <1>4 DEF OwnInv, BufOf, Transfers
  <2> QED BY <1>1, <1>4, <2>1, <2>2, <2>3 DEF OwnInv, CacheDistinct, CleanInv, OrigOf
<1>7. RankInv(r)'
  BY <1>1, <1>2, <1>3, <1>5, <1>6, QuietRank
<1>8. Elsewhere(r)
  <2>1. \A o \in Ranks : NetLess(o)
    BY <1>1, NetSame
  <2> QED BY <1>1, <1>2, <2>1 DEF Elsewhere, Same, Kept
<1>9. TypeInv'
  <2>1. /\ cache' = cache /\ mem' = mem /\ info' = info /\ free' = free /\ done' = done
        /\ posted' = posted /\ net' = net /\ stack' = stack /\ mode' = mode
        /\ countMem' = countMem /\ ncaches' = ncaches
        /\ idx' = idx /\ round' = round /\ pending' = pending
    BY <1>1
  <2> QED BY <1>2, <2>1, TypeStep, Zenon DEF TypeInv
<1> QED BY <1>7, <1>8, <1>9

\* What two queues of different buffers hold one after the other.
Distinct(c)      == \A j, k \in 1 .. Len(c) : c[j] = c[k] => j = k
Different(c, w)  == \A j \in 1 .. Len(c), k \in 1 .. Len(w) : c[j] # w[k]
Includes(v, c)   == \A j \in 1 .. Len(c) : \E k \in 1 .. Len(v) : v[k] = c[j]

LEMMA Rejoined ==
  ASSUME NEW S, NEW c \in Seq(S), NEW w \in Seq(S), NEW v, v = c \o w,
         Distinct(c), Distinct(w), Different(c, w)
  PROVE  /\ v \in Seq(S) /\ Len(v) = Len(c) + Len(w)
         /\ Distinct(v) /\ Includes(v, c) /\ Includes(v, w)
<1> DEFINE m == Len(c)
           n == Len(w)
<1>1. /\ v \in Seq(S) /\ Len(v) = m + n /\ m \in Nat /\ n \in Nat
      /\ \A j \in 1 .. Len(v) : v[j] = IF j <= m THEN c[j] ELSE w[j - m]
  BY ConcatProperties, LenProperties
<1> HIDE DEF m, n
<1>2. \A j \in 1 .. Len(v) : j <= m => j \in 1 .. m /\ v[j] = c[j]
  BY <1>1
<1>3. \A j \in 1 .. Len(v) : ~ (j <= m) => j - m \in 1 .. n /\ v[j] = w[j - m]
  BY <1>1
<1>4. ASSUME NEW j \in 1 .. Len(v), NEW k \in 1 .. Len(v), v[j] = v[k]
      PROVE  j = k
  <2>1. CASE j <= m /\ k <= m
    BY <1>2, <1>4, <2>1 DEF m, Distinct
  <2>2. CASE ~ (j <= m) /\ ~ (k <= m)
    <3>1. j - m = k - m
      BY <1>3, <1>4, <2>2 DEF n, Distinct
    <3> QED BY <1>1, <3>1
  <2>3. CASE (j <= m /\ ~ (k <= m)) \/ (~ (j <= m) /\ k <= m)
    BY <1>2, <1>3, <1>4, <2>3 DEF m, n, Different
  <2> QED BY <2>1, <2>2, <2>3
<1>5. ASSUME NEW j \in 1 .. m
      PROVE  \E k \in 1 .. Len(v) : v[k] = c[j]
  <2>1. j \in 1 .. Len(v) /\ j <= m
    BY <1>1
  <2> QED BY <1>2, <2>1
<1>6. ASSUME NEW j \in 1 .. n
      PROVE  \E k \in 1 .. Len(v) : v[k] = w[j]
  <2>1. j + m \in 1 .. Len(v) /\ ~ (j + m <= m) /\ j + m - m = j
    BY <1>1
  <2>2. v[j + m] = w[j + m - m]
    BY <1>1, <2>1
  <2> QED BY <2>1, <2>2
<1> QED BY <1>1, <1>4, <1>5, <1>6 DEF m, n, Distinct, Includes

\* waitall: everything is completed, so nothing is in UCX any more; buffers
\* and handles are given back.
LEMMA WaitAllRank ==
  ASSUME NEW r \in Ranks, TypeInv, \A p \in Ranks : RankInv(p), WaitAll(r)
  PROVE  RankInv(r)' /\ Elsewhere(r) /\ TypeInv'
<1> DEFINE hs == {pending[r][j] : j \in DOMAIN pending[r]}
           next == IF round[r] < Rounds THEN "start" ELSE "finalize"
           t == [h \in Handles |->
                   IF h \notin hs THEN info[r][h]
                   ELSE IF info[r][h].custom THEN InitInfo ELSE WaitReset(info[r][h])]
           x == [b \in Buffers |-> IF \E h \in hs : info[r][h].buf = b
                                   THEN << >> ELSE mem[r][b]]
           f == free[r] \cup {h \in hs : ~ info[r][h].custom}
           c == cache[r]
           w == Returned(r)
           v == c \o w
<1>1. /\ pc[r] = "stop" /\ stack[r] = << >> /\ AllFinished(r)
      /\ cache' = [cache EXCEPT ![r] = v]
      /\ mem' = [mem EXCEPT ![r] = x]
      /\ info' = [info EXCEPT ![r] = t]
      /\ free' = [free EXCEPT ![r] = f]
      /\ pc' = [pc EXCEPT ![r] = next]
      /\ UNCHANGED <<ncaches, idx, round, pending, done, posted, net, stack, mode, countMem>>
  BY Zenon DEF WaitAll, Idle, callbacks, user
<1>2. RankInv(r) /\ Open(r) /\ Live(r)
  BY <1>1 DEF Open, Live
<1>3. OwnInv(r) /\ CountInv(r) /\ PlaceInv(r) /\ CarryInv(r) /\ CleanInv(r)
  BY <1>2 DEF RankInv
<1>4. /\ pending[r] \in Seq(Handles) /\ DOMAIN pending[r] = 1 .. Len(pending[r])
      /\ Len(pending[r]) \in Nat /\ ncaches \in Nat
      /\ info \in [Ranks -> [Handles -> Info]] /\ free \in [Ranks -> SUBSET Requests]
      /\ mem \in [Ranks -> [Buffers -> Seq(Word)]] /\ cache \in [Ranks -> Seq(Buffers)]
      /\ pc \in [Ranks -> PCs]
  BY LenProperties DEF TypeInv
<1>5. hs = Transfers(r)
  BY <1>4 DEF Transfers
<1>6. \A p \in Transfers(r) : p \in Handles /\ p \notin free[r] /\ info[r][p].completed
  BY <1>1, <1>2, <1>4, OpenFacts DEF AllFinished, Transfers
<1>7. InUCX(r) = {}
  <2>1. \A a \in Active(r) : FALSE
    BY <1>2, <1>3, <1>6 DEF CarryInv, OrigOf
  <2> QED BY <2>1 DEF Active
<1>8. /\ w \in Seq(Buffers) /\ Len(w) = Len(pending[r])
      /\ \A j \in 1 .. Len(pending[r]) : w[j] = BufOf(r, pending[r][j])
  <2>1. w = [j \in 1 .. Len(pending[r]) |-> BufOf(r, pending[r][j])]
    BY <1>4 DEF Returned, BufOf
  <2>2. \A j \in 1 .. Len(pending[r]) : BufOf(r, pending[r][j]) \in Buffers
    BY <1>2, <1>3 DEF OwnInv
  <2> HIDE DEF w
  <2>3. w \in [1 .. Len(pending[r]) -> Buffers]
    BY <2>1, <2>2
  <2> DEFINE n == Len(pending[r])
  <2>4. n \in Nat /\ w \in [1 .. n -> Buffers]
    BY <1>4, <2>3
  <2> HIDE DEF n
  <2>5. w \in Seq(Buffers)
    BY <2>4, SeqDef
  <2>6. Len(w) = n
    BY <2>4, <2>5, LenProperties
  <2> QED BY <2>1, <2>5, <2>6 DEF n
<1> HIDE DEF w
<1>9. /\ v \in Seq(Buffers) /\ Len(v) = Len(c) + Len(w)
      /\ Distinct(v) /\ Includes(v, c) /\ Includes(v, w)
  <2>1. c \in Seq(Buffers)
    BY <1>4
  <2>2. Distinct(c)
    BY <1>3 DEF OwnInv, CacheDistinct, Distinct
  <2>3. Distinct(w)
    BY <1>2, <1>3, <1>8 DEF OwnInv, Distinct
  <2>4. Different(c, w)
    BY <1>2, <1>3, <1>8 DEF OwnInv, Different
  <2>5. w \in Seq(Buffers) /\ v = c \o w
    BY <1>8
  <2> DEFINE S == Buffers
  <2>6. c \in Seq(S) /\ w \in Seq(S)
    BY <2>1, <2>5
  <2> HIDE DEF c, v, S
  <2>7. v \in Seq(S) /\ Len(v) = Len(c) + Len(w)
    BY <2>2, <2>3, <2>4, <2>5, <2>6, Rejoined
  <2>8. Distinct(v) /\ Includes(v, c) /\ Includes(v, w)
    BY <2>2, <2>3, <2>4, <2>5, <2>6, Rejoined
  <2> QED BY <2>7, <2>8 DEF S
<1> HIDE DEF v
<1>10. cache'[r] = v /\ cache' \in [Ranks -> Seq(Buffers)]
       /\ \A o \in Ranks : o # r => cache'[o] = cache[o]
  BY <1>1, <1>4, <1>9
<1>11. /\ t \in [Handles -> Info]
       /\ \A h \in Handles : h \notin hs => t[h] = info[r][h]
       /\ \A h \in hs : h \in Handles /\ t[h].buf = Null
       /\ \A h \in hs : ~ info[r][h].custom =>
            ~ t[h].completed /\ ~ t[h].custom /\ t[h].orig = Null
  <2> DEFINE T == info[r]
             z(h) == IF T[h].custom THEN InitInfo ELSE WaitReset(T[h])
  <2>1. T \in [Handles -> Info] /\ hs \subseteq Handles
    BY <1>4, <1>5, <1>6
  <2>2. t = [h \in Handles |-> IF h \notin hs THEN T[h] ELSE z(h)]
    BY Zenon
  <2> HIDE DEF T, hs, t
  <2>3. ASSUME NEW h \in Handles
        PROVE  /\ z(h) \in Info /\ z(h).buf = Null
               /\ ~ T[h].custom => ~ z(h).completed /\ ~ z(h).custom /\ z(h).orig = Null
    BY <1>4, <2>1, ResetInfo
  <2> HIDE DEF z
  <2> QED BY <2>1, <2>2, <2>3 DEF T
<1> HIDE DEF t
<1>12. info'[r] = t /\ info' \in [Ranks -> [Handles -> Info]]
       /\ \A o \in Ranks : o # r => info'[o] = info[o]
  BY <1>1, <1>4, <1>11
<1>13. f \in SUBSET Requests
  <2>1. \A h \in hs : h \in Requests \/ info[r][h].custom
    BY <1>2, <1>5 DEF RankInv, HeapInv
  <2> QED BY <1>4, <2>1
<1>14. free'[r] = f /\ free' \in [Ranks -> SUBSET Requests]
       /\ \A o \in Ranks : o # r => free'[o] = free[o]
  BY <1>1, <1>4, <1>13
<1>15. x \in [Buffers -> Seq(Word)]
  BY <1>4, EmptySeq
<1>16. mem' \in [Ranks -> [Buffers -> Seq(Word)]] /\ \A o \in Ranks : o # r => mem'[o] = mem[o]
  BY <1>1, <1>4, <1>15
<1>17. /\ pc' \in [Ranks -> PCs] /\ \A o \in Ranks : o # r => pc'[o] = pc[o]
       /\ pc'[r] \notin {"send", "recv", "stop", "thrown"}
  BY <1>1, <1>4 DEF PCs
<1>18. CacheDistinct(r)' /\ Len(cache'[r]) = ncaches
  <2>1. Len(c) = ncaches - Len(pending[r]) /\ Len(c) \in Nat
    BY <1>2, <1>3, <1>4, LenProperties DEF CountInv
  <2>2. Len(v) = ncaches
    BY <1>4, <1>8, <1>9, <2>1
  <2> QED BY <1>9, <1>10, <2>2 DEF CacheDistinct, Distinct
<1>19. \A b \in Buffers : \E k \in 1 .. Len(cache'[r]) : cache'[r][k] = b
  <2> SUFFICES ASSUME NEW b \in Buffers
               PROVE  \E k \in 1 .. Len(v) : v[k] = b
    BY <1>10
  <2>1. CASE \E k \in 1 .. Len(c) : c[k] = b
    BY <1>9, <2>1 DEF Includes
  <2>2. CASE \E j \in 1 .. Len(pending[r]) : BufOf(r, pending[r][j]) = b
    BY <1>8, <1>9, <2>2 DEF Includes
  <2> QED BY <1>3, <2>1, <2>2 DEF OwnInv, Accounted
<1>20. \A p \in Transfers(r) : info'[r][p].buf = Null
  BY <1>5, <1>11, <1>12
<1>21. CleanInv(r)'
  <2>1. ASSUME NEW q \in f
        PROVE  ~ t[q].completed /\ ~ t[q].custom /\ t[q].orig = Null
    <3>1. CASE q \in free[r]
      <4>1. q \in Handles /\ q \notin hs
        BY <1>2, <1>5, <3>1, OpenFacts
      <4> QED BY <1>3, <1>11, <3>1, <4>1 DEF CleanInv, OrigOf
    <3>2. CASE q \in hs /\ ~ info[r][q].custom
      BY <1>11, <3>2
    <3> QED BY <3>1, <3>2
  <2> QED BY <1>12, <1>14, <2>1 DEF CleanInv, OrigOf
<1>22. RankInv(r)'
  BY <1>1, <1>2, <1>7, <1>17, <1>18, <1>19, <1>20, <1>21, QuietRank
<1>23. Elsewhere(r)
  <2>1. \A o \in Ranks : NetLess(o)
    BY <1>1, NetSame
  <2> QED BY <1>1, <1>10, <1>12, <1>14, <1>16, <1>17, <2>1 DEF Elsewhere, Same, Kept
<1>24. TypeInv'
  <2>1. /\ done' = done /\ posted' = posted /\ net' = net /\ stack' = stack /\ mode' = mode
        /\ countMem' = countMem /\ ncaches' = ncaches
        /\ idx' = idx /\ round' = round /\ pending' = pending
    BY <1>1
  <2> QED BY <1>10, <1>12, <1>14, <1>16, <1>17, <2>1, TypeStep, Zenon DEF TypeInv
<1> QED BY <1>22, <1>23, <1>24

\* The network takes over the contents of an incomplete send.
LEMMA FlushRank ==
  ASSUME NEW r \in Ranks, NEW d \in Ranks, TypeInv, \A p \in Ranks : RankInv(p), Flush(r, d)
  PROVE  RankInv(r)' /\ Elsewhere(r) /\ TypeInv'
<1> DEFINE t == net[r]
           Val(m) == IF m.ref = Null THEN m.val
                     ELSE [j \in DOMAIN m.val |-> At(mem[r][m.ref], j)]
<1>1. PICK i \in DOMAIN net[r][d] :
        /\ net[r][d][i].req # Null
        /\ net' = [net EXCEPT ![r][d][i] = Msg(Val(net[r][d][i]))]
        /\ done' = [done EXCEPT ![r] = done[r] \cup {net[r][d][i].req}]
        /\ UNCHANGED <<ncaches, pc, idx, round, pending, cache, mem, info, free, posted,
                       stack, mode, countMem>>
  BY Zenon DEF Flush, loop, callbacks, user
<1>2. /\ OwnInv(r) /\ HeapInv(r) /\ CountInv(r)
      /\ PlaceInv(r) /\ CarryInv(r) /\ CleanInv(r) /\ ReadInv(r)
  BY DEF RankInv
<1>3. /\ t \in [Ranks -> Seq(Message)] /\ net \in [Ranks -> [Ranks -> Seq(Message)]]
      /\ done \in [Ranks -> SUBSET Handles] /\ Table(t, Message) /\ Once(t)
  BY <1>2 DEF TypeInv, Table, PlaceInv
<1>4. i \in 1 .. Len(t[d]) /\ t[d][i] \in Message /\ t[d][i] \in Items(t)
  <2>1. t[d] \in Seq(Message) /\ i \in DOMAIN t[d]
    BY <1>3
  <2>2. i \in 1 .. Len(t[d])
    BY <2>1, LenProperties
  <2>3. t[d][i] \in Message
    BY <2>1, <2>2, ElementOfSeq
  <2> QED BY <2>2, <2>3 DEF Items
<1> DEFINE m == t[d][i]
           q == m.req
           v == Msg(Val(m))
           c == [t[d] EXCEPT ![i] = v]
           u == [t EXCEPT ![d] = c]
<1>5. q \in Handles /\ m \in Message /\ m \in Items(t)
  BY <1>1, <1>4 DEF Message
<1>6. net' = [net EXCEPT ![r] = u] /\ done' = [done EXCEPT ![r] = done[r] \cup {q}]
  BY <1>1, <1>3
<1>7. v \in Message /\ v.req = Null /\ v.ref = Null
  <2>1. m.val \in Seq(Word)
    BY <1>5 DEF Message
  <2>2. m.ref # Null => mem[r][m.ref] = m.val
    BY <1>2, <1>5 DEF ReadInv
  <2> HIDE DEF m
  <2>3. Val(m) = m.val
    <3>1. CASE m.ref = Null
      BY <3>1
    <3>2. CASE m.ref # Null
      <4> DEFINE w == m.val
      <4>1. Val(m) = [j \in DOMAIN w |-> At(w, j)]
        BY <2>2, <3>2
      <4>2. w = [j \in DOMAIN w |-> w[j]]
        BY <2>1
      <4>3. \A j \in DOMAIN w : At(w, j) = w[j]
        BY DEF At
      <4> HIDE DEF w
      <4> QED BY <4>1, <4>2, <4>3 DEF w
    <3> QED BY <3>1, <3>2
  <2> HIDE DEF Val
  <2> QED BY <2>1, <2>3 DEF Msg, Message, Null
<1> HIDE DEF v, m, Val
<1>8. /\ u \in [Ranks -> Seq(Message)] /\ u[d] = c /\ \A e \in Ranks : e # d => u[e] = t[e]
      /\ Table(u, Message)
  <2>1. c \in Seq(Message)
    BY <1>3, <1>4, <1>7, ExceptSeq
  <2> HIDE DEF c
  <2> QED BY <1>3, <2>1 DEF Table
<1> HIDE DEF u
<1>9. /\ net'[r] = u /\ net' \in [Ranks -> [Ranks -> Seq(Message)]]
      /\ \A o \in Ranks : o # r => net'[o] = net[o]
  BY <1>3, <1>6, <1>8
<1>10. /\ done'[r] = done[r] \cup {q} /\ done' \in [Ranks -> SUBSET Handles]
       /\ \A o \in Ranks : o # r => done'[o] = done[o]
  BY <1>3, <1>5, <1>6
<1>11. /\ Once(u) /\ (\A h \in ReqsIn(u) : h \in ReqsIn(t))
       /\ (\A g \in Items(u) : g \in Items(t) \/ g = v)
       /\ q \in ReqsIn(t) /\ q \notin ReqsIn(u)
  <2>1. /\ Table(t, Message) /\ i \in 1 .. Len(t[d]) /\ v \in Message /\ v.req = Null
        /\ Table(u, Message) /\ u[d] = [t[d] EXCEPT ![i] = v] /\ Once(t)
        /\ t[d][i].req \in Handles
    BY <1>3, <1>4, <1>5, <1>7, <1>8 DEF m
  <2>2. \A e \in Ranks : e # d => u[e] = t[e]
    BY <1>8
  <2> HIDE DEF t
  <2>3. Once(u) /\ \A h \in ReqsIn(u) : h \in ReqsIn(t)
    BY <2>1, <2>2, ClearedOnce
  <2>4. \A g \in Items(u) : g \in Items(t) \/ g = v
    BY <2>1, <2>2, ClearedOnce
  <2>5. t[d][i].req \in ReqsIn(t) /\ t[d][i].req \notin ReqsIn(u)
    BY <2>1, <2>2, ClearedOnce
  <2> QED BY <2>3, <2>4, <2>5 DEF m
<1> HIDE DEF q
<1>12. /\ \A a \in InUCX(r)' : a \in InUCX(r)
       /\ \A a \in Active(r)' : a \in Active(r)
  <2>1. InUCX(r) = done[r] \cup ReqsIn(net[r]) \cup ReqsIn(posted[r])
    BY DEF InUCX
  <2>2. InUCX(r)' = done'[r] \cup ReqsIn(net'[r]) \cup ReqsIn(posted[r])
    BY <1>1 DEF InUCX
  <2>3. \A a \in InUCX(r)' : a \in InUCX(r)
    BY <1>9, <1>10, <1>11, <2>1, <2>2
  <2>4. Due(r)' = Due(r)
    BY <1>1 DEF Due, HandlerReady
  <2> QED BY <2>3, <2>4 DEF Active
<1>13. Kept(r) /\ (Open(r)' <=> Open(r)) /\ (Live(r)' <=> Live(r))
  BY <1>1 DEF Kept, Open, Live
<1>14. OwnInv(r)' /\ HeapInv(r)' /\ CountInv(r)'
  <2>1. \A p \in Transfers(r) :
          /\ OrigOf(r, p)' = OrigOf(r, p) /\ BufOf(r, p)' = BufOf(r, p)
          /\ p \notin free[r] => p \notin free'[r]
          /\ info[r][p].custom => info'[r][p].custom
    BY <1>1 DEF OrigOf, BufOf
  <2> QED BY <1>2, <1>13, <2>1, UserKept
<1>15. PlaceInv(r)'
  <2>1. /\ done'[r] \cap ReqsIn(net'[r]) = {} /\ done'[r] \cap ReqsIn(posted[r]) = {}
        /\ ReqsIn(net'[r]) \cap ReqsIn(posted[r]) = {}
    BY <1>2, <1>9, <1>10, <1>11 DEF PlaceInv
  <2>2. InStack(r)' = InStack(r)
    BY <1>1 DEF InStack
  <2>3. Once(net'[r])
    BY <1>9, <1>11
  <2> QED BY <1>1, <1>2, <1>12, <1>13, <2>1, <2>2, <2>3 DEF PlaceInv
<1>16. CarryInv(r)'
  <2>1. Transfers(r)' = Transfers(r)
    BY <1>1 DEF Transfers
  <2> QED BY <1>1, <1>2, <1>12, <1>13, <2>1 DEF CarryInv, OrigOf, BufOf
<1>17. CleanInv(r)'
  BY <1>1, <1>2 DEF CleanInv, OrigOf
<1>18. ReadInv(r)'
  <2>1. \A g \in Items(net'[r]) : g.ref # Null => g \in Items(net[r])
    BY <1>7, <1>9, <1>11
  <2> QED BY <1>1, <1>2, <1>13, <2>1 DEF ReadInv, BufOf
<1>19. Elsewhere(r)
  <2>1. \A o \in Ranks : o # r => NetLess(o)
    BY <1>9, NetSame
  <2> QED BY <1>1, <1>10, <2>1 DEF Elsewhere, Same, Kept
<1>20. TypeInv'
  <2>1. /\ pc' = pc /\ cache' = cache /\ mem' = mem /\ info' = info /\ free' = free
        /\ posted' = posted /\ stack' = stack /\ mode' = mode
        /\ countMem' = countMem /\ ncaches' = ncaches
        /\ idx' = idx /\ round' = round /\ pending' = pending
    BY <1>1
  <2> QED BY <1>9, <1>10, <2>1, TypeStep, Zenon DEF TypeInv
<1> QED BY <1>14, <1>15, <1>16, <1>17, <1>18, <1>19, <1>20 DEF RankInv

-----------------------------------------------------------------------------
\* What the steps of recv_handler leave alone, and the types of what they change.
LEMMA LastTyped ==
  ASSUME NEW r \in Ranks, TypeInv, \A p \in Ranks : RankInv(p), RecvHandlerLast(r)
  PROVE  Elsewhere(r) /\ TypeInv'
<1> DEFINE o == info[r][Head(stack[r])].orig
<1>1. /\ info' = [info EXCEPT ![r][o].completed = TRUE]
      /\ mode' = [mode EXCEPT ![r] = "return"]
      /\ UNCHANGED <<ncaches, pc, idx, round, pending, cache, mem, free, done, posted, net,
                     stack, countMem>>
  BY DEF RecvHandlerLast, loop
<1>2. info \in [Ranks -> [Handles -> Info]] /\ mode \in [Ranks -> {"call", "return"}]
  BY DEF TypeInv
<1> DEFINE t == info[r]
           v == [t EXCEPT ![o].completed = TRUE]
<1>3. info' = [info EXCEPT ![r] = v] /\ t \in [Handles -> Info]
  BY <1>1, <1>2
<1> HIDE DEF o, t
<1>4. v \in [Handles -> Info]
  BY <1>3 DEF Info
<1> HIDE DEF v
<1>5. /\ info' \in [Ranks -> [Handles -> Info]]
      /\ \A p \in Ranks : p # r => info'[p] = info[p]
  BY <1>2, <1>3, <1>4
<1>6. /\ mode' \in [Ranks -> {"call", "return"}]
      /\ \A p \in Ranks : p # r => mode'[p] = mode[p]
  BY <1>1, <1>2
<1>7. Elsewhere(r)
  <2>1. \A p \in Ranks : NetLess(p)
    BY <1>1, NetSame
  <2> QED BY <1>1, <1>5, <1>6, <2>1 DEF Elsewhere, Same, Kept
<1>8. TypeInv'
  <2>1. /\ pc' = pc /\ idx' = idx /\ round' = round /\ pending' = pending /\ cache' = cache
        /\ mem' = mem /\ free' = free /\ done' = done /\ posted' = posted /\ net' = net
        /\ stack' = stack /\ countMem' = countMem /\ ncaches' = ncaches
    BY <1>1
  <2> QED BY <1>5, <1>6, <2>1, TypeStep, Zenon DEF TypeInv
<1> QED BY <1>7, <1>8

LEMMA ReturnTyped ==
  ASSUME NEW r \in Ranks, TypeInv, \A p \in Ranks : RankInv(p), RecvHandlerReturn(r)
  PROVE  Elsewhere(r) /\ TypeInv'
<1> DEFINE h == Head(stack[r])
           t == info[r]
           u == FreeInternal(t, h)
           f == Freed(t, h)
           w == Tail(stack[r])
<1>1. /\ stack[r] # << >>
      /\ info' = [info EXCEPT ![r] = u]
      /\ free' = [free EXCEPT ![r] = free[r] \cup f]
      /\ stack' = [stack EXCEPT ![r] = w]
      /\ UNCHANGED <<ncaches, pc, idx, round, pending, cache, mem, done, posted, net, mode,
                     countMem>>
  BY Zenon DEF RecvHandlerReturn, loop, user
<1>2. /\ info \in [Ranks -> [Handles -> Info]] /\ free \in [Ranks -> SUBSET Requests]
      /\ stack \in [Ranks -> Seq(Handles)] /\ ncaches \in Nat
  BY DEF TypeInv
<1>3. h \in Handles /\ h \in InStack(r) /\ w \in Seq(Handles)
  <2>1. w \in Seq(Handles)
    BY <1>1, <1>2, HeadTailProperties
  <2> QED BY <1>1, <2>1, Innermost
<1>4. h \in Requests
  BY <1>3 DEF RankInv, PlaceInv
<1> HIDE DEF h
<1>5. u \in [Handles -> Info] /\ (f = {h} \/ f = {})
  <2>1. t \in [Handles -> Info] /\ u = FreeInternal(t, h)
    BY <1>2
  <2> HIDE DEF t, u
  <2>2. u \in [Handles -> Info]
    BY <1>2, <1>3, <2>1, Release
  <2> QED BY <2>2 DEF Freed
<1> HIDE DEF u, f, w
<1>6. /\ info' \in [Ranks -> [Handles -> Info]] /\ free' \in [Ranks -> SUBSET Requests]
      /\ stack' \in [Ranks -> Seq(Handles)]
      /\ \A p \in Ranks : p # r => /\ info'[p] = info[p] /\ free'[p] = free[p]
                                   /\ stack'[p] = stack[p]
  <2>1. free[r] \cup f \in SUBSET Requests
    BY <1>2, <1>4, <1>5
  <2> QED BY <1>1, <1>2, <1>3, <1>5, <2>1
<1>7. Elsewhere(r)
  <2>1. \A p \in Ranks : NetLess(p)
    BY <1>1, NetSame
  <2> QED BY <1>1, <1>6, <2>1 DEF Elsewhere, Same, Kept
<1>8. TypeInv'
  <2>1. /\ pc' = pc /\ idx' = idx /\ round' = round /\ pending' = pending /\ cache' = cache
        /\ mem' = mem /\ done' = done /\ posted' = posted /\ net' = net
        /\ mode' = mode /\ countMem' = countMem /\ ncaches' = ncaches
    BY <1>1
  <2> QED BY <1>6, <2>1, TypeStep, Zenon DEF TypeInv
<1> QED BY <1>7, <1>8

\* The two ways to ask for the next batch.
NextStack(r, q, called) ==
  /\ stack' = [stack EXCEPT ![r] = IF called THEN <<q>> \o stack[r] ELSE stack[r]]
  /\ mode' = [mode EXCEPT ![r] = IF called THEN "call" ELSE "return"]

LEMMA NextTyped ==
  ASSUME NEW r \in Ranks, TypeInv, RankInv(r), HandlerReady(r), free[r] # {},
         NEW h, h = Head(stack[r]), NEW q, q = NewRequest(r), NextStep(r, h, q),
         NEW called, NextStack(r, q, called)
  PROVE  /\ info' \in [Ranks -> [Handles -> Info]] /\ free' \in [Ranks -> SUBSET Requests]
         /\ stack' \in [Ranks -> Seq(Handles)] /\ mode' \in [Ranks -> {"call", "return"}]
         /\ \A p \in Ranks : p # r => /\ info'[p] = info[p] /\ free'[p] = free[p]
                                      /\ stack'[p] = stack[p] /\ mode'[p] = mode[p]
         /\ info[r][h].buf \in Buffers /\ info[r][h].peer \in Ranks
         /\ q \in Handles /\ q \notin InUCX(r)
<1>1. NextEffect(r, h, q)
  BY NextFacts
<1>2. /\ q \in free[r] /\ Open(r) /\ info[r][h].buf \in Buffers /\ h \in Handles
      /\ info' \in [Ranks -> [Handles -> Info]] /\ free' \in [Ranks -> SUBSET Requests]
  BY <1>1 DEF NextEffect
<1>3. q \in Handles /\ q \notin InUCX(r)
  BY <1>2, OpenFacts
<1>4. /\ stack \in [Ranks -> Seq(Handles)] /\ mode \in [Ranks -> {"call", "return"}]
      /\ info \in [Ranks -> [Handles -> Info]] /\ free \in [Ranks -> SUBSET Requests]
  BY DEF TypeInv
<1> DEFINE w == IF called THEN <<q>> \o stack[r] ELSE stack[r]
<1>5. w \in Seq(Handles)
  <2> DEFINE o == <<q>>
             c == o \o stack[r]
  <2>1. o \in Seq(Handles) /\ stack[r] \in Seq(Handles)
    BY <1>3, <1>4
  <2> HIDE DEF o
  <2>2. c \in Seq(Handles)
    BY <2>1, ConcatProperties
  <2> QED BY <2>1, <2>2 DEF o
<1> DEFINE x == IF called THEN "call" ELSE "return"
<1>6. stack' = [stack EXCEPT ![r] = w] /\ mode' = [mode EXCEPT ![r] = x]
  BY Zenon DEF NextStack
<1>7. x \in {"call", "return"}
  OBVIOUS
<1> HIDE DEF w, x
<1>8. /\ stack' \in [Ranks -> Seq(Handles)] /\ mode' \in [Ranks -> {"call", "return"}]
      /\ \A p \in Ranks : p # r => stack'[p] = stack[p] /\ mode'[p] = mode[p]
  BY <1>4, <1>5, <1>6, <1>7
<1>9. \A p \in Ranks : p # r => info'[p] = info[p] /\ free'[p] = free[p]
  BY <1>4 DEF NextStep
<1>10. info[r][h].peer \in Ranks
  <2>1. info[r][h] \in Info
    BY <1>2, <1>4
  <2> QED BY <2>1 DEF Info
<1> QED BY <1>2, <1>3, <1>8, <1>9, <1>10

LEMMA LaterTyped ==
  ASSUME NEW r \in Ranks, TypeInv, \A o \in Ranks : RankInv(o), RecvHandlerLater(r)
  PROVE  Elsewhere(r) /\ TypeInv'
<1> DEFINE h == Head(stack[r])
           q == NewRequest(r)
           i == info[r][h]
           n == BatchLen(Count(r, i), i.ibatch)
           p == [req |-> q, dst |-> i.buf, n |-> n]
           s == i.peer
           called == info[r][q].orig # Null
<1>1. /\ HandlerReady(r) /\ free[r] # {} /\ Posting(r, s, p)
      /\ NextStep(r, h, q) /\ NextStack(r, q, called)
      /\ UNCHANGED <<ncaches, pc, idx, round, pending, cache, mem, done, net, countMem>>
  BY Zenon DEF RecvHandlerLater, RecvNbPost, RecvHandlerNext, NextStep, NextStack, Posting, loop
<1>2. h = Head(stack[r]) /\ q = NewRequest(r) /\ RankInv(r)
  OBVIOUS
<1> HIDE DEF called, h, q
<1>3. /\ info' \in [Ranks -> [Handles -> Info]] /\ free' \in [Ranks -> SUBSET Requests]
      /\ stack' \in [Ranks -> Seq(Handles)] /\ mode' \in [Ranks -> {"call", "return"}]
      /\ \A o \in Ranks : o # r => /\ info'[o] = info[o] /\ free'[o] = free[o]
                                   /\ stack'[o] = stack[o] /\ mode'[o] = mode[o]
      /\ i.buf \in Buffers /\ s \in Ranks
      /\ q \in Handles /\ q \notin InUCX(r)
  <2>1. HandlerReady(r) /\ free[r] # {} /\ NextStep(r, h, q) /\ NextStack(r, q, called)
    BY <1>1
  <2> QED BY <1>2, <2>1, NextTyped
<1>4. n \in Int
  <2>1. info[r][h] \in Info
    <3>1. h \in Handles
      BY <1>1, <1>2, Innermost DEF HandlerReady
    <3> QED BY <3>1 DEF TypeInv
  <2>2. countMem[r][s] \in Word
    BY <1>3 DEF TypeInv
  <2>3. Count(r, i) \in Int /\ i.ibatch \in Int
    BY <2>1, <2>2 DEF Count, Word, Info
  <2> HIDE DEF i
  <2> QED BY <2>3, BatchAssumption DEF BatchLen
<1>5. p \in Receive /\ p.req = q
  <2>1. i.buf \in Int
    BY <1>3 DEF Buffers
  <2> HIDE DEF i, n
  <2> QED BY <1>3, <1>4, <2>1 DEF Receive
<1> HIDE DEF i, p, s
<1>6. /\ posted' \in [Ranks -> [Ranks -> Seq(Receive)]]
      /\ \A o \in Ranks : o # r => posted'[o] = posted[o]
  <2>1. Once(posted[r]) /\ p.req \notin ReqsIn(posted[r]) /\ p \in Receive
    BY <1>2, <1>3, <1>5 DEF RankInv, PlaceInv, InUCX
  <2>2. Posting(r, s, p)
    BY <1>1
  <2> QED BY <1>3, <2>1, <2>2, PostQueue
<1>7. Elsewhere(r)
  <2>1. \A o \in Ranks : NetLess(o)
    BY <1>1, NetSame
  <2> QED BY <1>1, <1>3, <1>6, <2>1 DEF Elsewhere, Same, Kept
<1>8. TypeInv'
  <2>1. /\ pc' = pc /\ idx' = idx /\ round' = round /\ pending' = pending /\ cache' = cache
        /\ mem' = mem /\ done' = done /\ net' = net /\ countMem' = countMem
        /\ ncaches' = ncaches
    BY <1>1
  <2> QED BY <1>3, <1>6, <2>1, TypeStep, Zenon DEF TypeInv
<1> QED BY <1>7, <1>8

LEMMA NowTyped ==
  ASSUME NEW r \in Ranks, TypeInv, \A o \in Ranks : RankInv(o), RecvHandlerNow(r)
  PROVE  TypeInv'
<1> DEFINE h == Head(stack[r])
           q == NewRequest(r)
           i == info[r][h]
           n == BatchLen(Count(r, i), i.ibatch)
           s == i.peer
           b == i.buf
           m == Head(net[s][r])
           called == Mark(info[r][q]).orig # Null
<1>1. /\ HandlerReady(r) /\ free[r] # {} /\ Arrived(s, r)
      /\ Land(r, s, b, Landing(m, n))
      /\ net' = [net EXCEPT ![s][r] = Tail(net[s][r])]
      /\ posted' = posted
      /\ NextStep(r, h, q) /\ NextStack(r, q, called)
      /\ UNCHANGED <<ncaches, pc, idx, round, pending, cache, done>>
  BY Zenon DEF RecvHandlerNow, RecvNbEarly, RecvHandlerNext, NextStep, NextStack, loop
<1>2. h = Head(stack[r]) /\ q = NewRequest(r) /\ RankInv(r)
  OBVIOUS
<1> HIDE DEF called, h, q, n
<1>3. /\ info' \in [Ranks -> [Handles -> Info]] /\ free' \in [Ranks -> SUBSET Requests]
      /\ stack' \in [Ranks -> Seq(Handles)] /\ mode' \in [Ranks -> {"call", "return"}]
      /\ b \in Buffers /\ s \in Ranks
  <2>1. HandlerReady(r) /\ free[r] # {} /\ NextStep(r, h, q) /\ NextStack(r, q, called)
    BY <1>1
  <2> QED BY <1>2, <2>1, NextTyped
<1> HIDE DEF i, s, b
<1>4. net' \in [Ranks -> [Ranks -> Seq(Message)]] /\ m \in Message
  <2>1. \A o \in Ranks : Once(net[o])
    BY DEF RankInv, PlaceInv
  <2> QED BY <1>1, <1>3, <2>1, MatchNet
<1> HIDE DEF m
<1>5. /\ mem' \in [Ranks -> [Buffers -> Seq(Word)]] /\ countMem' \in [Ranks -> [Ranks -> Word]]
  <2>1. Land(r, s, b, Landing(m, n))
    BY <1>1
  <2> QED BY <1>3, <1>4, <2>1, Landed
<1> QED
  <2>1. /\ pc' = pc /\ idx' = idx /\ round' = round /\ pending' = pending /\ cache' = cache
        /\ done' = done /\ posted' = posted /\ ncaches' = ncaches
    BY <1>1
  <2> QED BY <1>3, <1>4, <1>5, <2>1, TypeStep, Zenon DEF TypeInv

LEMMA ProgressRecvTyped ==
  ASSUME NEW r \in Ranks, NEW s \in Ranks, TypeInv, \A o \in Ranks : RankInv(o),
         ProgressRecv(r, s)
  PROVE  TypeInv'
<1> DEFINE p == Head(posted[r][s])
           m == Head(net[s][r])
           h == p.req
           b == p.dst
           n == p.n
           w == <<h>>
<1>1. /\ pc[r] = "stop" /\ posted[r][s] # << >> /\ Arrived(s, r)
      /\ Land(r, s, b, Landing(m, n))
      /\ net' = [net EXCEPT ![s][r] = Tail(net[s][r])]
      /\ Unposting(r, s)
      /\ stack' = [stack EXCEPT ![r] = w]
      /\ mode' = [mode EXCEPT ![r] = "call"]
      /\ UNCHANGED <<ncaches, pc, idx, round, pending, cache, info, free, done>>
  BY Zenon DEF ProgressRecv, Polling, Unposting, loop
<1>2. RankInv(r) /\ Open(r)
  BY <1>1 DEF Open
<1>3. /\ posted' \in [Ranks -> [Ranks -> Seq(Receive)]]
      /\ p \in Items(posted[r]) /\ h \in Handles /\ h \in ReqsIn(posted[r])
  <2>1. Once(posted[r])
    BY <1>2 DEF RankInv, PlaceInv
  <2> QED BY <1>1, <2>1, UnpostQueue
<1>4. b = Null \/ b \in Buffers
  <2>1. h \in Active(r) /\ (b # Null => b = BufOf(r, h))
    BY <1>2, <1>3 DEF RankInv, ReadInv, Active, InUCX
  <2> HIDE DEF h, b
  <2>2. OwnInv(r) /\ CarryInv(r)
    BY <1>2 DEF RankInv
  <2> QED BY <1>2, <2>1, <2>2, BufsApart
<1>5. net' \in [Ranks -> [Ranks -> Seq(Message)]] /\ m \in Message
  <2>1. \A o \in Ranks : Once(net[o])
    BY DEF RankInv, PlaceInv
  <2> QED BY <1>1, <2>1, MatchNet
<1>6. w \in Seq(Handles)
  BY <1>3
<1> HIDE DEF m, p, h, b, n, w
<1>7. /\ mem' \in [Ranks -> [Buffers -> Seq(Word)]] /\ countMem' \in [Ranks -> [Ranks -> Word]]
  <2>1. Land(r, s, b, Landing(m, n))
    BY <1>1
  <2> QED BY <1>4, <1>5, <2>1, Landed
<1>8. stack' \in [Ranks -> Seq(Handles)] /\ mode' \in [Ranks -> {"call", "return"}]
  BY <1>1, <1>6 DEF TypeInv
<1> QED
  <2>1. /\ pc' = pc /\ idx' = idx /\ round' = round /\ pending' = pending /\ cache' = cache
        /\ done' = done /\ info' = info /\ free' = free /\ ncaches' = ncaches
    BY <1>1
  <2> QED BY <1>3, <1>5, <1>7, <1>8, <2>1, TypeStep, Zenon DEF TypeInv

-----------------------------------------------------------------------------
\* Every step keeps the invariant of the rank that takes it.
LEMMA RankStepKeeps ==
  ASSUME NEW r \in Ranks, TypeInv, \A p \in Ranks : RankInv(p), RankStep(r)
  PROVE  RankInv(r)' /\ Elsewhere(r) /\ TypeInv'
<1>1. CASE Start(r)
  BY <1>1, StartRank
<1>2. CASE \E c \in 0 .. MaxCount : SendNow(r, c) \/ SendLater(r, c)
  <2>1. PICK c \in Int : SendNow(r, c) \/ SendLater(r, c)
    BY <1>2
  <2> QED BY <2>1, SendNowRank, SendLaterRank
<1>3. CASE RecvNow(r)
  BY <1>3, RecvNowRank
<1>4. CASE RecvLater(r)
  BY <1>4, RecvLaterRank
<1>5. CASE SendThrow(r)
  BY <1>5, SendThrowRank
<1>6. CASE RecvThrow(r)
  BY <1>6, RecvThrowRank
<1>7. CASE RecvHandlerNow(r)
  BY <1>7, NowRank, NowTyped
<1>8. CASE RecvHandlerLater(r)
  BY <1>8, LaterRank, LaterTyped
<1>9. CASE RecvHandlerLast(r)
  BY <1>9, LastRank, LastTyped
<1>10. CASE RecvHandlerReturn(r)
  BY <1>10, ReturnRank, ReturnTyped
<1>11. CASE ProgressSend(r)
  BY <1>11, ProgressSendRank
<1>12. CASE \E s \in Ranks : ProgressRecv(r, s)
  BY <1>12, ProgressRecvRank, ProgressRecvTyped
<1>13. CASE WaitAll(r)
  BY <1>13, WaitAllRank
<1>14. CASE Finalize(r) \/ Barrier(r)
  BY <1>14, CloseRank
<1> QED BY <1>1, <1>2, <1>3, <1>4, <1>5, <1>6, <1>7, <1>8, <1>9, <1>10, <1>11, <1>12, <1>13,
           <1>14, Zenon DEF RankStep

LEMMA NextIInv == IInv /\ [Next]_vars => IInv'
<1> SUFFICES ASSUME TypeInv, \A q \in Ranks : RankInv(q), [Next]_vars
             PROVE  TypeInv' /\ \A q \in Ranks : RankInv(q)'
  BY Zenon DEF IInv
<1>1. ASSUME NEW r \in Ranks, RankInv(r)' /\ Elsewhere(r) /\ TypeInv'
      PROVE  TypeInv' /\ \A q \in Ranks : RankInv(q)'
  <2>1. ASSUME NEW q \in Ranks, q # r
        PROVE  RankInv(q)'
    BY <1>1, <2>1, Frame DEF Elsewhere
  <2> QED BY <1>1, <2>1
<1>2. CASE \E r \in Ranks : RankStep(r)
  <2>1. PICK r \in Ranks : RankStep(r)
    BY <1>2
  <2>2. RankInv(r)' /\ Elsewhere(r) /\ TypeInv'
    BY <2>1, RankStepKeeps
  <2> QED BY <1>1, <2>2
<1>3. CASE NetStep
  <2>1. PICK r \in Ranks, d \in Ranks : Flush(r, d)
    BY <1>3 DEF NetStep
  <2>2. RankInv(r)' /\ Elsewhere(r) /\ TypeInv'
    BY <2>1, FlushRank
  <2> QED BY <1>1, <2>2
<1>4. CASE UNCHANGED vars
  <2>1. ASSUME NEW q \in Ranks
        PROVE  RankInv(q)'
    <3>1. net' = net
      BY <1>4 DEF vars
    <3>2. NetLess(q)
      BY <3>1, NetSame
    <3>3. Same(q)
      BY <1>4 DEF vars, Same, Kept
    <3> QED BY <3>2, <3>3, Frame
  <2>2. TypeInv'
    <3>1. Buffers' = Buffers /\ Info' = Info
      BY <1>4, Zenon DEF vars, Buffers, Info
    <3> QED BY <1>4, <3>1, Zenon DEF vars, TypeInv
  <2> QED BY <2>1, <2>2
<1> QED BY <1>2, <1>3, <1>4 DEF Next, Ended

\* After setup() every buffer is in the cache and UCX knows of nothing.
LEMMA InitIInv == Init => IInv
<1> SUFFICES ASSUME Init
             PROVE  IInv
  OBVIOUS
<1>1. /\ ncaches \in Nat
      /\ pc = [r \in Ranks |-> "start"]
      /\ idx = [r \in Ranks |-> 0]
      /\ round = [r \in Ranks |-> 0]
      /\ pending = [r \in Ranks |-> << >>]
      /\ cache = [r \in Ranks |-> SetupCache]
      /\ mem = [r \in Ranks |-> [b \in Buffers |-> << >>]]
      /\ info = [r \in Ranks |-> [h \in Handles |-> InitInfo]]
      /\ free = [r \in Ranks |-> Requests]
      /\ done = [r \in Ranks |-> {}]
      /\ posted = [r \in Ranks |-> [s \in Ranks |-> << >>]]
      /\ net = [s \in Ranks |-> [d \in Ranks |-> << >>]]
      /\ stack = [r \in Ranks |-> << >>]
      /\ mode = [r \in Ranks |-> "call"]
      /\ countMem = [r \in Ranks |-> [s \in Ranks |-> Garbage]]
  BY BuffersAssumption DEF Init
<1>2. 0 \in Ranks
  BY NAssumption DEF Ranks
<1>3. InitInfo \in Info /\ ~ InitInfo.completed /\ ~ InitInfo.custom /\ InitInfo.orig = Null
  <2>1. PICK z \in Int : z = 0
    OBVIOUS
  <2>2. PICK f \in BOOLEAN : f = FALSE
    OBVIOUS
  <2>3. InitInfo = [completed |-> f, orig |-> z, custom |-> f,
                    buf |-> z, count |-> z, peer |-> z, ibatch |-> z]
    BY <2>1, <2>2, Zenon DEF InitInfo, Null
  <2> QED BY <1>1, <1>2, <2>1, <2>2, <2>3 DEF Info, Null
<1>4. /\ SetupCache \in Seq(Buffers) /\ Len(SetupCache) = ncaches
      /\ \A j \in 1 .. ncaches : SetupCache[j] = j
  <2>1. SetupCache = [j \in 1 .. ncaches |-> j]
    BY Zenon DEF SetupCache, Buffers
  <2>2. SetupCache \in [1 .. ncaches -> Buffers]
    BY <2>1 DEF Buffers
  <2> QED BY <1>1, <2>1, <2>2, SeqDef, LenProperties
<1>5. Garbage \in Word
  BY DEF Garbage, Word
<1> HIDE DEF InitInfo, SetupCache, Garbage
<1>6. TypeInv
  <2>1. << >> \in Seq(Handles) /\ << >> \in Seq(Word) /\ << >> \in Seq(Receive)
        /\ << >> \in Seq(Message) /\ "start" \in PCs
    BY EmptySeq DEF PCs
  <2>2. /\ pc \in [Ranks -> PCs] /\ idx \in [Ranks -> Ranks] /\ round \in [Ranks -> Int]
        /\ pending \in [Ranks -> Seq(Handles)] /\ stack \in [Ranks -> Seq(Handles)]
        /\ mode \in [Ranks -> {"call", "return"}]
    BY <1>1, <1>2, <2>1
  <2>3. cache \in [Ranks -> Seq(Buffers)]
    BY <1>1, <1>4
  <2>4. mem \in [Ranks -> [Buffers -> Seq(Word)]] /\ info \in [Ranks -> [Handles -> Info]]
    BY <1>1, <1>3, <2>1
  <2>5. free \in [Ranks -> SUBSET Requests] /\ done \in [Ranks -> SUBSET Handles]
    BY <1>1
  <2>6. /\ posted \in [Ranks -> [Ranks -> Seq(Receive)]]
        /\ net \in [Ranks -> [Ranks -> Seq(Message)]]
    BY <1>1, <2>1
  <2>7. countMem \in [Ranks -> [Ranks -> Word]]
    BY <1>1, <1>5
  <2> QED BY <1>1, <2>2, <2>3, <2>4, <2>5, <2>6, <2>7, Zenon DEF TypeInv
<1>7. ASSUME NEW r \in Ranks
      PROVE  RankInv(r)
  <2>1. /\ pc[r] = "start" /\ pending[r] = << >> /\ cache[r] = SetupCache
        /\ info[r] = [h \in Handles |-> InitInfo] /\ free[r] = Requests /\ done[r] = {}
        /\ posted[r] = [s \in Ranks |-> << >>] /\ net[r] = [d \in Ranks |-> << >>]
        /\ stack[r] = << >>
    BY <1>1
  <2>2. ~ Live(r) /\ ~ Open(r) /\ Len(pending[r]) = 0
    BY <2>1 DEF Live, Open
  <2>3. OwnInv(r)
    <3>1. CacheDistinct(r)
      BY <1>1, <1>4, <2>1 DEF CacheDistinct
    <3>2. \A b \in Buffers : Accounted(r, b)
      BY <1>1, <1>4, <2>1 DEF Accounted, Buffers
    <3> QED BY <2>2, <3>1, <3>2 DEF OwnInv
  <2>4. HeapInv(r) /\ CarryInv(r)
    BY <2>1, <2>2 DEF HeapInv, CarryInv
  <2>5. CountInv(r)
    BY <1>1, <1>4, <2>1, <2>2 DEF CountInv
  <2>6. Items(net[r]) = {} /\ Items(posted[r]) = {}
    BY <2>1 DEF Items
  <2>7. ReqsIn(net[r]) = {} /\ ReqsIn(posted[r]) = {} /\ InUCX(r) = {} /\ InStack(r) = {}
    BY <2>1, <2>6 DEF ReqsIn, InUCX, InStack
  <2>8. PlaceInv(r)
    <3>1. Once(net[r]) /\ Once(posted[r])
      BY <2>1 DEF Once
    <3> QED BY <2>1, <2>2, <2>7, <3>1 DEF PlaceInv
  <2>9. CleanInv(r)
    <3>1. Requests \subseteq Handles
      BY BoundsAssumption, NAssumption DEF Requests, Handles
    <3> QED BY <1>3, <2>1, <3>1 DEF CleanInv, OrigOf
  <2>10. ReadInv(r)
    BY <2>6 DEF ReadInv
  <2> QED BY <2>3, <2>4, <2>5, <2>8, <2>9, <2>10 DEF RankInv
<1> QED BY <1>6, <1>7 DEF IInv

LEMMA SpecIInv == Spec => []IInv
BY InitIInv, NextIInv, PTL DEF Spec

-----------------------------------------------------------------------------
(***************************************************************************)
(* UCXBufferCommunicator::send and recv take a buffer from buffer_cache,   *)
(* waitall pushes it back: at any time every communication buffer is in    *)
(* the queue once or belongs to exactly one pending request, so that no    *)
(* two transfers of a rank write into the same memory.                     *)
(***************************************************************************)
THEOREM BuffersExclusive == Spec => []BufferExclusive
<1>1. IInv => BufferExclusive
  <2> SUFFICES ASSUME TypeInv, \A p \in Ranks : RankInv(p), NEW r \in Ranks, NEW b \in Buffers
               PROVE  Cardinality(Holds(r, b)) + Cardinality(InCache(r, b)) = 1
    BY DEF IInv, BufferExclusive
  <2>1. OwnInv(r) /\ b # Null
    BY DEF RankInv, Buffers, Null
  <2>2. /\ Holds(r, b) = {j \in 1 .. Len(pending[r]) : BufOf(r, pending[r][j]) = b}
        /\ InCache(r, b) = {j \in 1 .. Len(cache[r]) : cache[r][j] = b}
    <3>1. DOMAIN pending[r] = 1 .. Len(pending[r]) /\ DOMAIN cache[r] = 1 .. Len(cache[r])
      BY LenProperties DEF TypeInv
    <3> QED BY <3>1 DEF Holds, InCache, BufOf
  <2>3. CASE \E k \in 1 .. Len(cache[r]) : cache[r][k] = b
    <3>1. PICK k \in 1 .. Len(cache[r]) : cache[r][k] = b
      BY <2>3
    <3>2. InCache(r, b) = {k}
      <4>1. \A i \in 1 .. Len(cache[r]) : cache[r][i] = b => i = k
        BY <2>1, <3>1 DEF OwnInv, CacheDistinct
      <4> QED BY <2>2, <3>1, <4>1
    <3>3. Holds(r, b) = {}
      <4>1. \A j \in 1 .. Len(pending[r]) : BufOf(r, pending[r][j]) # b
        BY <2>1, <3>1 DEF OwnInv
      <4> QED BY <2>2, <4>1
    <3>4. Cardinality(InCache(r, b)) = 1
      BY <3>2, FS_Singleton
    <3>5. Cardinality(Holds(r, b)) = 0
      BY <3>3, FS_EmptySet
    <3> QED BY <3>4, <3>5
  <2>4. CASE \A k \in 1 .. Len(cache[r]) : cache[r][k] # b
    <3>1. Live(r)
      BY <2>1, <2>4 DEF OwnInv, Accounted
    <3>2. PICK j \in 1 .. Len(pending[r]) : BufOf(r, pending[r][j]) = b
      BY <2>1, <2>4 DEF OwnInv, Accounted
    <3>3. Holds(r, b) = {j}
      <4>1. \A i \in 1 .. Len(pending[r]) : BufOf(r, pending[r][i]) = b => i = j
        BY <2>1, <3>1, <3>2 DEF OwnInv
      <4> QED BY <2>2, <3>2, <4>1
    <3>4. InCache(r, b) = {}
      BY <2>2, <2>4
    <3>5. Cardinality(Holds(r, b)) = 1
      BY <3>3, FS_Singleton
    <3>6. Cardinality(InCache(r, b)) = 0
      BY <3>4, FS_EmptySet
    <3> QED BY <3>5, <3>6
  <2> QED BY <2>3, <2>4
<1> QED BY <1>1, SpecIInv, PTL

(***************************************************************************)
(* setup() creates 2 * mpi_size buffers: when there are as many as sends   *)
(* and receives in a round, send and recv_helper never find buffer_cache   *)
(* empty and never throw.                                                  *)
(***************************************************************************)
THEOREM CacheSuffices == Spec => []NoThrow
<1>1. IInv => NoThrow
  BY DEF IInv, RankInv, CountInv, NoThrow
<1> QED BY <1>1, SpecIInv, PTL

(***************************************************************************)
(* request_init runs once per request: the callbacks and waitall reset     *)
(* what they free, so a request that UCX hands out again has no            *)
(* orig_info, is not completed and is not custom_allocated.                *)
(***************************************************************************)
THEOREM RequestsReset == Spec => []FreeRequestsClean
<1>1. IInv => FreeRequestsClean
  BY DEF IInv, RankInv, CleanInv, FreeRequestsClean, OrigOf
<1> QED BY <1>1, SpecIInv, PTL

(***************************************************************************)
(* ucp_tag_send_nb returns before it has read the buffer: until the send   *)
(* completes nobody writes to that communication buffer, neither the next  *)
(* batch of the same message nor another transfer's.                       *)
(***************************************************************************)
THEOREM SendsUndisturbed == Spec => []InFlightStable
<1>1. IInv => InFlightStable
  <2> SUFFICES ASSUME TypeInv, \A p \in Ranks : RankInv(p), NEW s \in Ranks, NEW d \in Ranks,
                      NEW j \in DOMAIN net[s][d], net[s][d][j].ref # Null
               PROVE  mem[s][net[s][d][j].ref] = net[s][d][j].val
    BY DEF IInv, InFlightStable
  <2>1. net[s][d] \in Seq(Message)
    BY DEF TypeInv
  <2>2. j \in 1 .. Len(net[s][d])
    BY <2>1, LenProperties
  <2>3. net[s][d][j] \in Items(net[s])
    BY <2>2 DEF Items
  <2> QED BY <2>3 DEF RankInv, ReadInv
<1> QED BY <1>1, SpecIInv, PTL
=============================================================================
