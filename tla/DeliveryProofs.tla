---------------------------- MODULE DeliveryProofs ----------------------------
(***************************************************************************)
(* The buffered UCX communicator delivers what its interface promises, for *)
(* any ranks, buffers, requests, rounds, counts and batch lengths.         *)
(*                                                                         *)
(* The argument follows the stream of messages from one rank to another:   *)
(* what is under way lies between the receiver's position and the sender's.*)
(***************************************************************************)
EXTENDS BufferCommProofs

(***************************************************************************)
(* Delivery.  The messages under way between two ranks are those between   *)
(* the receiver's position in the stream of all messages of all rounds and *)
(* the sender's: <<k, 0>> is the count of round k, <<k, i>> its i-th batch. *)
(***************************************************************************)
CountOf(s, d, k) == sent[s][d][k]
Issued(s, d, k, i) == k \in 1 .. Len(sent[s][d]) /\ i \in 0 .. Batches(CountOf(s, d, k))

\* The position <<l, m>> after <<k, i>>.
IsAfter(s, d, k, i, l, m) ==
  IF i < Batches(CountOf(s, d, k)) THEN l = k /\ m = i + 1 ELSE l = k + 1 /\ m = 0

BatchOf(s, d, k, b) ==
  [j \in 1 .. BatchLen(CountOf(s, d, k), b) |-> DataWord(s, d, k, b * PerBatch + j)]
ValueAt(s, d, k, i) ==
  IF i = 0 THEN <<CountWord(s, d, k, CountOf(s, d, k))>> ELSE BatchOf(s, d, k, i - 1)

\* What is under way from s to d is in positions <<ro[j], ba[j]>>, in order; the
\* last of them is the position of what s sends next.
Ordered(s, d, ro, ba) ==
  \A j \in 1 .. Len(net[s][d]) :
    /\ Issued(s, d, ro[j], ba[j])
    /\ net[s][d][j].val = ValueAt(s, d, ro[j], ba[j])
    /\ IsAfter(s, d, ro[j], ba[j], ro[j + 1], ba[j + 1])

\* The sender: at most one request carries its message on.
Carries(t, a) == \E j \in 1 .. Len(t) : t[j].req = a
SendReqs(s, d) ==
  {a \in Handles : Carries(net[s][d], a) \/ (a \in done[s] /\ info[s][a].peer = d)}

InProgress(s, d, a, k, i) ==
  /\ Len(sent[s][d]) = round[s] /\ round[s] >= 1
  /\ info[s][a].peer = d /\ info[s][a].count = CountOf(s, d, round[s])
  /\ info[s][a].ibatch \in 0 .. Batches(CountOf(s, d, round[s]))
  /\ IsAfter(s, d, round[s], info[s][a].ibatch, k, i)

SentRounds(s, d) == IF pc[s] = "send" /\ d >= idx[s] THEN round[s] - 1 ELSE round[s]

\* Nothing is sent to a rank that is no peer.
SenderAt(s, d, k, i) ==
  /\ d \notin Peers(s) => k = 0 /\ i = 0
  /\ pc[s] # "thrown" =>
       IF d \notin Peers(s) THEN SendReqs(s, d) = {}
       ELSE /\ Len(sent[s][d]) = SentRounds(s, d)
            /\ \/ SendReqs(s, d) = {} /\ k = Len(sent[s][d]) + 1 /\ i = 0
               \/ \E a \in Handles : SendReqs(s, d) = {a} /\ InProgress(s, d, a, k, i)

\* The receiver: what it has of the message of its round.
CountGot(r, s) ==
  /\ round[r] \in 1 .. Len(sent[s][r])
  /\ countMem[r][s] = CountWord(s, r, round[r], CountOf(s, r, round[r]))

FilledTo(r, s, n) ==
  /\ Len(recvBuf[r][s]) >= CountOf(s, r, round[r])
  /\ \A e \in 1 .. CountOf(s, r, round[r]) : e <= n => recvBuf[r][s][e] = DataWord(s, r, round[r], e)

Got(r, s) == CountGot(r, s) /\ FilledTo(r, s, CountOf(s, r, round[r]))

Fresh(r, s) == recvBuf[r][s] = << >> \/ recvBuf[r][s] = Blank(MaxCount)

DueFor(r, s) == {a \in Due(r) : info[r][a].peer = s}
NotYet(r, s) == pc[r] = "send" \/ (pc[r] = "recv" /\ s >= idx[r])

Awaits(r, s, p, k, i) ==
  /\ info[r][p.req].peer = s /\ k = round[r] /\ i = info[r][p.req].ibatch
  /\ IF p.dst = Null
     THEN p.n = 1 /\ i = 0 /\ Fresh(r, s)
     ELSE /\ CountGot(r, s) /\ i \in 1 .. Batches(CountOf(s, r, round[r]))
          /\ p.n = BatchLen(CountOf(s, r, round[r]), i - 1)
          /\ FilledTo(r, s, (i - 1) * PerBatch)

Takes(r, s, a, k, i) ==
  LET b == info[r][a].ibatch IN
  /\ CountGot(r, s) /\ b \in 0 .. Batches(CountOf(s, r, round[r]))
  /\ IsAfter(s, r, round[r], b, k, i)
  /\ IF b = 0 THEN Fresh(r, s)
     ELSE /\ mem[r][info[r][a].buf] = ValueAt(s, r, round[r], b)
          /\ FilledTo(r, s, (b - 1) * PerBatch)

\* The receive has not been called, is complete, is posted, is in a callback.
Quiet(r, s) == posted[r][s] = << >> /\ DueFor(r, s) = {}

ToCome(r, s, k, i) == NotYet(r, s) /\ Quiet(r, s) /\ k = round[r] /\ i = 0

HasAll(r, s, k, i) ==
  /\ ~ NotYet(r, s) /\ Quiet(r, s)
  /\ k = round[r] + 1 /\ i = 0 /\ (round[r] > 0 => Got(r, s))

IsPosted(r, s, k, i) ==
  /\ ~ NotYet(r, s) /\ Open(r) /\ DueFor(r, s) = {}
  /\ \E p \in Receive : posted[r][s] = <<p>> /\ Awaits(r, s, p, k, i)

IsCalled(r, s, k, i) ==
  /\ ~ NotYet(r, s) /\ Open(r) /\ posted[r][s] = << >>
  /\ \E a \in Due(r) : DueFor(r, s) = {a} /\ Takes(r, s, a, k, i)

ReceiverAt(r, s, k, i) ==
  IF s \notin Peers(r) THEN Quiet(r, s) /\ k = 0 /\ i = 0
  ELSE pc[r] # "thrown" =>
         ToCome(r, s, k, i) \/ HasAll(r, s, k, i) \/ IsPosted(r, s, k, i) \/ IsCalled(r, s, k, i)

Between(s, d) ==
  \E ro, ba : /\ Ordered(s, d, ro, ba)
              /\ ReceiverAt(d, s, ro[1], ba[1])
              /\ SenderAt(s, d, ro[Len(net[s][d]) + 1], ba[Len(net[s][d]) + 1])

\* Batches cut a message without a rest.
LEMMA BatchBounds ==
  ASSUME NEW c \in Nat
  PROVE  /\ Batches(c) \in Nat
         /\ c <= Batches(c) * PerBatch
         /\ \A b \in Nat : b < Batches(c) => b * PerBatch < c
         /\ \A b \in Nat : b >= Batches(c) => b * PerBatch >= c
<1> DEFINE P == PerBatch
           B == Batches(c)
<1>1. P \in Nat /\ P >= 1
  BY BatchAssumption
<1>2. B = (c + P - 1) \div P /\ c + P - 1 \in Nat
  BY <1>1 DEF Batches
<1> HIDE DEF P, B
<1>3. B \in Nat /\ P * B <= c + P - 1 /\ c + P - 1 < P * B + P
  BY <1>1, <1>2
<1>4. B * P = P * B /\ c <= P * B
  BY <1>1, <1>3
<1>5. ASSUME NEW b \in Nat, b < B PROVE b * P < c
  <2>1. P * (b + 1) <= P * B
    BY <1>1, <1>3, <1>5
  <2>2. P * (b + 1) = b * P + P /\ b * P \in Nat
    BY <1>1
  <2> QED BY <1>1, <1>3, <2>1, <2>2
<1>6. ASSUME NEW b \in Nat, b >= B PROVE b * P >= c
  <2>1. b * P >= B * P
    BY <1>1, <1>3, <1>6
  <2> QED BY <1>1, <1>3, <1>4, <2>1
<1> QED BY <1>3, <1>4, <1>5, <1>6 DEF P, B

\* The elements of a batch are those up to the next one, or to the end.
LEMMA BatchEnds ==
  ASSUME NEW c \in Nat, NEW i \in 1 .. Batches(c)
  PROVE  /\ BatchLen(c, i - 1) \in Nat /\ BatchLen(c, i - 1) >= 1
         /\ BatchLen(c, i - 1) <= PerBatch
         /\ (i - 1) * PerBatch \in Nat /\ i * PerBatch \in Nat
         /\ i * PerBatch = (i - 1) * PerBatch + PerBatch
         /\ \A e \in 1 .. c : e > (i - 1) * PerBatch /\ e <= i * PerBatch =>
              e <= (i - 1) * PerBatch + BatchLen(c, i - 1)
<1>1. PerBatch \in Nat /\ PerBatch >= 1
  BY BatchAssumption
<1>2. i - 1 \in Nat /\ i - 1 < Batches(c) /\ i \in Nat
  BY BatchBounds
<1>3. PICK x : x = (i - 1) * PerBatch
  OBVIOUS
<1>4. x \in Nat /\ x < c /\ i * PerBatch = x + PerBatch
  <2>1. (i - 1) * PerBatch \in Nat
    BY <1>1, <1>2
  <2>2. i * PerBatch = (i - 1) * PerBatch + PerBatch
    BY <1>1, <1>2
  <2> QED BY <1>2, <1>3, <2>1, <2>2, BatchBounds
<1>5. BatchLen(c, i - 1) = IF c - x < PerBatch THEN c - x ELSE PerBatch
  BY <1>3 DEF BatchLen
<1> QED BY <1>1, <1>3, <1>4, <1>5

\* What has been sent stays sent.
SentGrows(s, d) ==
  \A k \in 1 .. Len(sent[s][d]) : k \in 1 .. Len(sent'[s][d]) /\ sent'[s][d][k] = sent[s][d][k]

\* A position keeps its value and its successor while more is sent.
LEMMA PointKept ==
  ASSUME NEW s, NEW d, SentGrows(s, d), NEW k, NEW i, k \in 1 .. Len(sent[s][d])
  PROVE  /\ CountOf(s, d, k)' = CountOf(s, d, k) /\ k \in 1 .. Len(sent'[s][d])
         /\ Issued(s, d, k, i) => Issued(s, d, k, i)'
         /\ ValueAt(s, d, k, i)' = ValueAt(s, d, k, i)
         /\ \A b : BatchOf(s, d, k, b)' = BatchOf(s, d, k, b)
         /\ \A l, m : IsAfter(s, d, k, i, l, m)' <=> IsAfter(s, d, k, i, l, m)
<1>1. CountOf(s, d, k)' = CountOf(s, d, k) /\ k \in 1 .. Len(sent'[s][d])
  BY DEF SentGrows, CountOf
<1>2. Batches(CountOf(s, d, k))' = Batches(CountOf(s, d, k))
  BY <1>1 DEF Batches
<1>3. \A b : BatchOf(s, d, k, b)' = BatchOf(s, d, k, b)
  BY <1>1, Zenon DEF BatchOf, BatchLen, DataWord
<1>4. ValueAt(s, d, k, i)' = ValueAt(s, d, k, i)
  BY <1>1, <1>3, Zenon DEF ValueAt, CountWord
<1>5. Issued(s, d, k, i) => Issued(s, d, k, i)'
  BY <1>1, <1>2 DEF Issued
<1>6. \A l, m : IsAfter(s, d, k, i, l, m)' <=> IsAfter(s, d, k, i, l, m)
  BY <1>2 DEF IsAfter
<1> QED BY <1>1, <1>3, <1>4, <1>5, <1>6

\* A channel whose messages stay.
LEMMA OrderedKept ==
  ASSUME NEW s, NEW d, SentGrows(s, d), Len(net'[s][d]) = Len(net[s][d]),
         \A j \in 1 .. Len(net[s][d]) : net'[s][d][j].val = net[s][d][j].val,
         NEW ro, NEW ba, Ordered(s, d, ro, ba)
  PROVE  Ordered(s, d, ro, ba)'
<1> SUFFICES ASSUME NEW j \in 1 .. Len(net[s][d])
             PROVE  /\ Issued(s, d, ro[j], ba[j])'
                    /\ net'[s][d][j].val = ValueAt(s, d, ro[j], ba[j])'
                    /\ IsAfter(s, d, ro[j], ba[j], ro[j + 1], ba[j + 1])'
  BY DEF Ordered
<1>1. PICK k, i, l, m : k = ro[j] /\ i = ba[j] /\ l = ro[j + 1] /\ m = ba[j + 1]
  OBVIOUS
<1>2. Issued(s, d, k, i) /\ net[s][d][j].val = ValueAt(s, d, k, i) /\ IsAfter(s, d, k, i, l, m)
  BY <1>1 DEF Ordered
<1>3. k \in 1 .. Len(sent[s][d])
  BY <1>2 DEF Issued
<1>4. Issued(s, d, k, i)' /\ net'[s][d][j].val = ValueAt(s, d, k, i)' /\ IsAfter(s, d, k, i, l, m)'
  BY <1>2, <1>3, PointKept
<1> QED BY <1>1, <1>4

\* The receiver takes the oldest message: it is the one at its position.
Shifted(s, d, ro, ba, l, m, rp, bp) ==
  /\ Ordered(s, d, rp, bp)' /\ rp[1] = l /\ bp[1] = m
  /\ rp[Len(net'[s][d]) + 1] = ro[Len(net[s][d]) + 1]
  /\ bp[Len(net'[s][d]) + 1] = ba[Len(net[s][d]) + 1]

\* Taking the first message of an ordered stream leaves the rest ordered, from the next position on.
LEMMA OrderedTaken ==
  ASSUME NEW s, NEW d, sent' = sent, NEW S, net[s][d] \in Seq(S), net[s][d] # << >>,
         net'[s][d] = Tail(net[s][d]), NEW ro, NEW ba, Ordered(s, d, ro, ba)
  PROVE  \E l, m :
           /\ Issued(s, d, ro[1], ba[1])
           /\ Head(net[s][d]).val = ValueAt(s, d, ro[1], ba[1])
           /\ IsAfter(s, d, ro[1], ba[1], l, m)
           /\ \E rp, bp : Shifted(s, d, ro, ba, l, m, rp, bp)
<1>1. PICK n : n = Len(net[s][d])
  OBVIOUS
<1>2. /\ n \in Nat /\ n >= 1 /\ Len(net'[s][d]) = n - 1
      /\ \A j \in 1 .. n - 1 : net'[s][d][j] = net[s][d][j + 1]
      /\ Head(net[s][d]) = net[s][d][1]
  BY <1>1, HeadTailProperties, EmptySeq, LenProperties
<1>3. PICK rp, bp : rp = [j \in 1 .. n |-> ro[j + 1]] /\ bp = [j \in 1 .. n |-> ba[j + 1]]
  OBVIOUS
<1>4. /\ Issued(s, d, ro[1], ba[1])
      /\ Head(net[s][d]).val = ValueAt(s, d, ro[1], ba[1])
      /\ IsAfter(s, d, ro[1], ba[1], ro[2], ba[2])
  BY <1>1, <1>2 DEF Ordered
<1>5. rp[1] = ro[2] /\ bp[1] = ba[2]
  BY <1>2, <1>3
<1>6. rp[Len(net'[s][d]) + 1] = ro[n + 1] /\ bp[Len(net'[s][d]) + 1] = ba[n + 1]
  BY <1>2, <1>3
<1>7. Ordered(s, d, rp, bp)'
  <2> SUFFICES ASSUME NEW j \in 1 .. n - 1
               PROVE  /\ Issued(s, d, rp[j], bp[j])'
                      /\ net'[s][d][j].val = ValueAt(s, d, rp[j], bp[j])'
                      /\ IsAfter(s, d, rp[j], bp[j], rp[j + 1], bp[j + 1])'
    BY <1>2 DEF Ordered
  <2>1. /\ rp[j] = ro[j + 1] /\ bp[j] = ba[j + 1]
        /\ rp[j + 1] = ro[j + 2] /\ bp[j + 1] = ba[j + 2]
    BY <1>2, <1>3
  <2>2. PICK k, i, l, m : k = ro[j + 1] /\ i = ba[j + 1] /\ l = ro[j + 2] /\ m = ba[j + 2]
    OBVIOUS
  <2>3. Issued(s, d, k, i) /\ net[s][d][j + 1].val = ValueAt(s, d, k, i) /\ IsAfter(s, d, k, i, l, m)
    <3>1. j + 1 \in 1 .. Len(net[s][d]) /\ (j + 1) + 1 = j + 2
      BY <1>1, <1>2
    <3> QED BY <2>2, <3>1 DEF Ordered
  <2>4. SentGrows(s, d) /\ k \in 1 .. Len(sent[s][d])
    BY <2>3 DEF SentGrows, Issued
  <2>5. Issued(s, d, k, i)' /\ net'[s][d][j].val = ValueAt(s, d, k, i)' /\ IsAfter(s, d, k, i, l, m)'
    BY <1>2, <2>3, <2>4, PointKept
  <2> QED BY <2>1, <2>2, <2>5
<1>8. Shifted(s, d, ro, ba, ro[2], ba[2], rp, bp)
  BY <1>1, <1>5, <1>6, <1>7 DEF Shifted
<1> QED BY <1>4, <1>8

\* Messages of one round that follow each other from position <<k, i>> up to
\* the one before <<l, m>>.
Run(s, d, w, k, i, l, m) ==
  IF Len(w) = 0 THEN l = k /\ m = i
  ELSE /\ k \in 1 .. Len(sent[s][d]) /\ i \in Nat
       /\ i + Len(w) - 1 <= Batches(CountOf(s, d, k))
       /\ \A j \in 1 .. Len(w) : w[j].val = ValueAt(s, d, k, i + j - 1)
       /\ IsAfter(s, d, k, i + Len(w) - 1, l, m)

\* The sender's messages join the end of the channel.
Joined(s, d, ro, ba, l, m, rp, bp) ==
  /\ Ordered(s, d, rp, bp)' /\ rp[1] = ro[1] /\ bp[1] = ba[1]
  /\ rp[Len(net'[s][d]) + 1] = l /\ bp[Len(net'[s][d]) + 1] = m

\* A run of messages put behind an ordered stream, from its end on, makes one longer ordered stream.
LEMMA OrderedSent ==
  ASSUME NEW s, NEW d, SentGrows(s, d), sent'[s][d] \in Seq(0 .. MaxCount),
         NEW S, net[s][d] \in Seq(S), NEW w \in Seq(S), net'[s][d] = net[s][d] \o w,
         NEW ro, NEW ba, Ordered(s, d, ro, ba), NEW l, NEW m, NEW k, NEW i,
         k = ro[Len(net[s][d]) + 1], i = ba[Len(net[s][d]) + 1], Run(s, d, w, k, i, l, m)'
  PROVE  \E rp, bp : Joined(s, d, ro, ba, l, m, rp, bp)
<1>1. PICK n, L : n = Len(net[s][d]) /\ L = Len(w) /\ k = ro[n + 1] /\ i = ba[n + 1]
  OBVIOUS
<1>2. n \in Nat /\ L \in Nat /\ Run(s, d, w, k, i, l, m)'
  BY <1>1, LenProperties
<1>3. /\ Len(net'[s][d]) = n + L
      /\ \A j \in 1 .. n : net'[s][d][j] = net[s][d][j]
      /\ \A j \in n + 1 .. n + L : net'[s][d][j] = w[j - n]
  <2>1. PICK c : c = net[s][d] \o w
    OBVIOUS
  <2>2. Len(c) = n + L /\ \A j \in 1 .. Len(c) : c[j] = IF j <= n THEN net[s][d][j] ELSE w[j - n]
    BY <1>1, <2>1, ConcatProperties
  <2>3. net'[s][d] = c
    BY <2>1
  <2> QED BY <1>2, <2>2, <2>3
<1>4. PICK rp, bp :
        /\ rp = [j \in 1 .. n + L + 1 |-> IF j <= n THEN ro[j] ELSE IF j <= n + L THEN k ELSE l]
        /\ bp = [j \in 1 .. n + L + 1 |-> IF j <= n THEN ba[j] ELSE IF j <= n + L THEN i + j - n - 1 ELSE m]
  OBVIOUS
<1>5. L = 0 => l = k /\ m = i
  BY <1>1, <1>2 DEF Run
<1>6. L # 0 => /\ k \in 1 .. Len(sent'[s][d]) /\ i \in Nat
               /\ i + L - 1 <= Batches(CountOf(s, d, k))'
               /\ \A j \in 1 .. L : w[j].val = ValueAt(s, d, k, i + j - 1)'
               /\ IsAfter(s, d, k, i + L - 1, l, m)'
  BY <1>1, <1>2 DEF Run
<1>7. L # 0 => Batches(CountOf(s, d, k))' \in Nat
  <2> SUFFICES ASSUME L # 0 PROVE Batches(CountOf(s, d, k))' \in Nat
    OBVIOUS
  <2>1. sent'[s][d][k] \in Nat
    <3>1. PICK q : q = sent'[s][d]
      OBVIOUS
    <3>2. q \in Seq(0 .. MaxCount) /\ k \in 1 .. Len(q)
      BY <1>6, <3>1
    <3>3. q[k] \in 0 .. MaxCount
      BY <3>2, ElementOfSeq, Zenon
    <3> QED BY <3>1, <3>3, BoundsAssumption
  <2>2. PICK c \in Nat : c = sent'[s][d][k]
    BY <2>1
  <2>3. Batches(c) \in Nat
    BY BatchBounds
  <2>4. Batches(CountOf(s, d, k))' = Batches(c)
    BY <2>2 DEF CountOf, Batches
  <2> QED BY <2>3, <2>4
<1>8. rp[n + 1] = k /\ bp[n + 1] = i
  <2>1. i + (n + 1) - n - 1 = i \/ L = 0
    BY <1>2, <1>6
  <2> QED BY <1>2, <1>4, <1>5, <2>1
<1>9. rp[1] = ro[1] /\ bp[1] = ba[1]
  <2>1. CASE n = 0
    BY <1>1, <1>8, <2>1
  <2>2. CASE n # 0
    <3>1. 1 <= n /\ 1 \in 1 .. n + L + 1
      BY <1>2, <2>2
    <3> QED BY <1>4, <3>1
  <2> QED BY <2>1, <2>2
<1>10. rp[n + L + 1] = l /\ bp[n + L + 1] = m
  BY <1>2, <1>4
<1>11. ASSUME NEW j \in 1 .. n
       PROVE  /\ Issued(s, d, rp[j], bp[j])'
              /\ net'[s][d][j].val = ValueAt(s, d, rp[j], bp[j])'
              /\ IsAfter(s, d, rp[j], bp[j], rp[j + 1], bp[j + 1])'
  <2>1. /\ rp[j] = ro[j] /\ bp[j] = ba[j] /\ rp[j + 1] = ro[j + 1] /\ bp[j + 1] = ba[j + 1]
    <3>1. rp[j] = ro[j] /\ bp[j] = ba[j]
      BY <1>2, <1>4
    <3>2. CASE j < n
      BY <1>2, <1>4, <3>1, <3>2
    <3>3. CASE j = n
      BY <1>1, <1>8, <3>1, <3>3
    <3> QED BY <1>2, <3>2, <3>3
  <2>2. PICK a, b, e, f : a = ro[j] /\ b = ba[j] /\ e = ro[j + 1] /\ f = ba[j + 1]
    OBVIOUS
  <2>3. Issued(s, d, a, b) /\ net[s][d][j].val = ValueAt(s, d, a, b) /\ IsAfter(s, d, a, b, e, f)
    BY <1>1, <2>2 DEF Ordered
  <2>4. a \in 1 .. Len(sent[s][d])
    BY <2>3 DEF Issued
  <2>5. Issued(s, d, a, b)' /\ net'[s][d][j].val = ValueAt(s, d, a, b)' /\ IsAfter(s, d, a, b, e, f)'
    BY <1>3, <2>3, <2>4, PointKept
  <2> QED BY <2>1, <2>2, <2>5
<1>12. ASSUME NEW j \in n + 1 .. n + L
       PROVE  /\ Issued(s, d, rp[j], bp[j])'
              /\ net'[s][d][j].val = ValueAt(s, d, rp[j], bp[j])'
              /\ IsAfter(s, d, rp[j], bp[j], rp[j + 1], bp[j + 1])'
  <2>1. L # 0 /\ n \in Nat /\ L \in Nat /\ j \in Int /\ n + 1 <= j /\ j <= n + L
    BY <1>2
  <2>2. PICK x \in Nat : x = i + j - n - 1
    BY <1>2, <1>6, <2>1
  <2>3. rp[j] = k /\ bp[j] = x
    BY <1>2, <1>4, <2>2
  <2>4. j - n \in 1 .. L /\ i + (j - n) - 1 = x
    BY <1>2, <1>6, <2>1, <2>2
  <2>5. net'[s][d][j].val = ValueAt(s, d, k, x)'
    BY <1>3, <1>6, <2>1, <2>4
  <2>6. x <= Batches(CountOf(s, d, k))'
    <3>1. PICK B : B = Batches(CountOf(s, d, k))'
      OBVIOUS
    <3>2. PICK y \in Nat : y = i
      BY <1>6, <2>1
    <3>3. B \in Nat /\ y + L - 1 <= B /\ x = y + j - n - 1
      BY <1>6, <1>7, <2>1, <2>2, <3>1, <3>2
    <3>4. x <= B
      BY <2>1, <3>3
    <3> QED BY <3>1, <3>4
  <2>7. Issued(s, d, k, x)'
    BY <1>6, <1>7, <2>1, <2>6 DEF Issued
  <2>8. IsAfter(s, d, k, x, rp[j + 1], bp[j + 1])'
    <3>1. CASE j = n + L
      <4>1. x = i + L - 1 /\ j + 1 = n + L + 1
        BY <1>2, <1>6, <2>1, <2>2, <3>1
      <4> QED BY <1>6, <1>10, <2>1, <4>1
    <3>2. CASE j < n + L
      <4>1. rp[j + 1] = k /\ bp[j + 1] = i + (j + 1) - n - 1
        <5>1. j + 1 \in 1 .. n + L + 1 /\ ~ (j + 1 <= n) /\ j + 1 <= n + L
          BY <1>2, <3>2
        <5> QED BY <1>4, <5>1
      <4>2. x < Batches(CountOf(s, d, k))' /\ i + (j + 1) - n - 1 = x + 1
        <5>1. PICK B : B = Batches(CountOf(s, d, k))'
          OBVIOUS
        <5>2. PICK y \in Nat : y = i
          BY <1>6, <2>1
        <5>3. B \in Nat /\ y + L - 1 <= B /\ x = y + j - n - 1
          BY <1>6, <1>7, <2>1, <2>2, <5>1, <5>2
        <5>4. x < B /\ y + (j + 1) - n - 1 = x + 1
          BY <2>1, <3>2, <5>3
        <5> QED BY <5>1, <5>2, <5>4
      <4> QED BY <4>1, <4>2 DEF IsAfter
    <3>3. j = n + L \/ j < n + L
      BY <2>1
    <3> QED BY <3>1, <3>2, <3>3
  <2> QED BY <2>3, <2>5, <2>7, <2>8
<1>13. Ordered(s, d, rp, bp)'
  <2>1. \A j \in 1 .. n + L : j \in 1 .. n \/ j \in n + 1 .. n + L
    BY <1>2
  <2> QED BY <1>3, <1>11, <1>12, <2>1 DEF Ordered
<1> QED BY <1>3, <1>9, <1>10, <1>13 DEF Joined

\* What the receiver's and the sender's position are read from.
RecvSame(r, s) ==
  /\ pc'[r] # "thrown" => pc[r] # "thrown"
  /\ Open(r)' <=> Open(r)
  /\ NotYet(r, s)' <=> NotYet(r, s)
  /\ round'[r] = round[r] /\ posted'[r][s] = posted[r][s]
  /\ countMem'[r][s] = countMem[r][s] /\ recvBuf'[r][s] = recvBuf[r][s]
  /\ DueFor(r, s)' = DueFor(r, s)
  /\ \A a \in DueFor(r, s) :
       /\ info'[r][a].ibatch = info[r][a].ibatch
       /\ mem'[r][info'[r][a].buf] = mem[r][info[r][a].buf]
  /\ \A p \in Receive : posted[r][s] = <<p>> =>
       info'[r][p.req].peer = info[r][p.req].peer /\ info'[r][p.req].ibatch = info[r][p.req].ibatch

SendSame(s, d) ==
  /\ pc'[s] # "thrown" => pc[s] # "thrown" /\ SentRounds(s, d)' = SentRounds(s, d)
  /\ round'[s] = round[s] /\ sent'[s][d] = sent[s][d]
  /\ pc'[s] # "thrown" => SendReqs(s, d)' = SendReqs(s, d)
  /\ \A a \in SendReqs(s, d) :
       /\ info'[s][a].peer = info[s][a].peer /\ info'[s][a].count = info[s][a].count
       /\ info'[s][a].ibatch = info[s][a].ibatch

\* What the receiver has stays what it was.
LEMMA GotKept ==
  ASSUME NEW r, NEW s, SentGrows(s, r), round'[r] = round[r],
         countMem'[r][s] = countMem[r][s], recvBuf'[r][s] = recvBuf[r][s]
  PROVE  /\ CountGot(r, s) => CountGot(r, s)'
         /\ CountGot(r, s) => CountOf(s, r, round[r])' = CountOf(s, r, round[r])
         /\ \A n : CountGot(r, s) /\ FilledTo(r, s, n) => FilledTo(r, s, n)'
         /\ Got(r, s) => Got(r, s)'
<1>1. PICK k : k = round[r]
  OBVIOUS
<1>2. CountGot(r, s) => CountOf(s, r, k)' = CountOf(s, r, k) /\ k \in 1 .. Len(sent'[s][r])
  BY <1>1, PointKept DEF CountGot
<1>3. CountGot(r, s) => CountGot(r, s)' /\ CountOf(s, r, round[r])' = CountOf(s, r, round[r])
  BY <1>1, <1>2 DEF CountGot, CountWord, CountOf
<1>4. \A n : CountGot(r, s) /\ FilledTo(r, s, n) => FilledTo(r, s, n)'
  BY <1>3 DEF FilledTo, DataWord
<1>5. Got(r, s) => Got(r, s)'
  BY <1>3, <1>4 DEF Got
<1> QED BY <1>3, <1>4, <1>5

\* A receiver whose own state and open rounds are the same is still at its position.
LEMMA RecvStays ==
  ASSUME NEW r, NEW s, SentGrows(s, r), RecvSame(r, s), NEW k, NEW i, ReceiverAt(r, s, k, i)
  PROVE  ReceiverAt(r, s, k, i)'
<1>1. Quiet(r, s) => Quiet(r, s)'
  BY DEF RecvSame, Quiet
<1>2. Peers(r)' = Peers(r)
  BY DEF Peers
<1>3. CASE s \notin Peers(r)
  BY <1>1, <1>2, <1>3 DEF ReceiverAt
<1>4. ASSUME ToCome(r, s, k, i) PROVE ToCome(r, s, k, i)'
  BY <1>1, <1>4 DEF ToCome, RecvSame
<1>5. ASSUME HasAll(r, s, k, i) PROVE HasAll(r, s, k, i)'
  BY <1>1, <1>5, GotKept DEF HasAll, RecvSame
<1>6. ASSUME IsPosted(r, s, k, i) PROVE IsPosted(r, s, k, i)'
  <2>1. PICK p \in Receive : posted[r][s] = <<p>> /\ Awaits(r, s, p, k, i)
    BY <1>6 DEF IsPosted
  <2>2. Awaits(r, s, p, k, i)'
    <3>1. /\ info'[r][p.req].peer = s /\ k = round'[r] /\ i = info'[r][p.req].ibatch
      BY <2>1 DEF Awaits, RecvSame
    <3>2. CASE p.dst = Null
      BY <2>1, <3>1, <3>2 DEF Awaits, RecvSame, Fresh
    <3>3. CASE p.dst # Null
      <4>1. /\ CountGot(r, s) /\ i \in 1 .. Batches(CountOf(s, r, round[r]))
            /\ p.n = BatchLen(CountOf(s, r, round[r]), i - 1)
            /\ FilledTo(r, s, (i - 1) * PerBatch)
        BY <2>1, <3>3 DEF Awaits
      <4>2. /\ CountGot(r, s)' /\ CountOf(s, r, round[r])' = CountOf(s, r, round[r])
            /\ FilledTo(r, s, (i - 1) * PerBatch)'
        BY <4>1, GotKept DEF RecvSame
      <4>3. /\ i \in 1 .. Batches(CountOf(s, r, round[r]))'
            /\ p.n = BatchLen(CountOf(s, r, round[r]), i - 1)'
        BY <4>1, <4>2 DEF Batches, BatchLen
      <4> QED BY <3>1, <3>3, <4>2, <4>3 DEF Awaits
    <3> QED BY <3>2, <3>3
  <2> QED BY <1>6, <2>1, <2>2 DEF IsPosted, RecvSame
<1>7. ASSUME IsCalled(r, s, k, i) PROVE IsCalled(r, s, k, i)'
  <2>1. PICK a \in Due(r) : DueFor(r, s) = {a} /\ Takes(r, s, a, k, i)
    BY <1>7 DEF IsCalled
  <2>2. PICK b : b = info[r][a].ibatch
    OBVIOUS
  <2>3. /\ CountGot(r, s) /\ b \in 0 .. Batches(CountOf(s, r, round[r]))
        /\ IsAfter(s, r, round[r], b, k, i)
        /\ b = 0 => Fresh(r, s)
        /\ b # 0 => /\ mem[r][info[r][a].buf] = ValueAt(s, r, round[r], b)
                    /\ FilledTo(r, s, (b - 1) * PerBatch)
    BY <2>1, <2>2 DEF Takes
  <2>4. PICK n : n = round[r]
    OBVIOUS
  <2>5. /\ CountOf(s, r, n)' = CountOf(s, r, n) /\ ValueAt(s, r, n, b)' = ValueAt(s, r, n, b)
        /\ IsAfter(s, r, n, b, k, i)'
    BY <2>3, <2>4, PointKept DEF CountGot
  <2>6. b \in 0 .. Batches(CountOf(s, r, n))'
    BY <2>3, <2>4, <2>5 DEF Batches
  <2>7. /\ CountGot(r, s)' /\ (b # 0 => FilledTo(r, s, (b - 1) * PerBatch)') /\ (b = 0 => Fresh(r, s)')
    BY <2>3, GotKept DEF RecvSame, Fresh
  <2>8. b = info'[r][a].ibatch /\ mem'[r][info'[r][a].buf] = mem[r][info[r][a].buf]
        /\ n = round'[r] /\ DueFor(r, s)' = {a}
    BY <2>1, <2>2, <2>4 DEF RecvSame
  <2>9. Takes(r, s, a, k, i)'
    BY <2>3, <2>4, <2>5, <2>6, <2>7, <2>8, Zenon DEF Takes
  <2>10. a \in Due(r)'
    BY <2>8 DEF DueFor
  <2> QED BY <1>7, <2>8, <2>9, <2>10 DEF IsCalled, RecvSame
<1>8. CASE s \in Peers(r)
  <2>1. SUFFICES ASSUME pc'[r] # "thrown"
                 PROVE  (ToCome(r, s, k, i) \/ HasAll(r, s, k, i)
                           \/ IsPosted(r, s, k, i) \/ IsCalled(r, s, k, i))'
    BY <1>2, <1>8 DEF ReceiverAt
  <2>2. pc[r] # "thrown"
    BY <2>1 DEF RecvSame
  <2> QED BY <1>4, <1>5, <1>6, <1>7, <1>8, <2>2 DEF ReceiverAt
<1> QED BY <1>3, <1>8

\* A sender whose own state is the same is still at its position.
LEMMA SendStays ==
  ASSUME NEW s, NEW d, SendSame(s, d), NEW k, NEW i, SenderAt(s, d, k, i)
  PROVE  SenderAt(s, d, k, i)'
<1>1. Peers(s)' = Peers(s)
  BY DEF Peers
<1>2. d \notin Peers(s) => k = 0 /\ i = 0
  BY DEF SenderAt
<1> SUFFICES ASSUME pc'[s] # "thrown"
             PROVE  (IF d \notin Peers(s) THEN SendReqs(s, d) = {}
                     ELSE /\ Len(sent[s][d]) = SentRounds(s, d)
                          /\ \/ SendReqs(s, d) = {} /\ k = Len(sent[s][d]) + 1 /\ i = 0
                             \/ \E a \in Handles : SendReqs(s, d) = {a} /\ InProgress(s, d, a, k, i))'
  BY <1>1, <1>2 DEF SenderAt
<1>3. pc[s] # "thrown" /\ SendReqs(s, d)' = SendReqs(s, d) /\ SentRounds(s, d)' = SentRounds(s, d)
  BY DEF SendSame
<1>4. CASE d \notin Peers(s)
  BY <1>1, <1>3, <1>4 DEF SenderAt
<1>5. CASE d \in Peers(s)
  <2>1. Len(sent'[s][d]) = SentRounds(s, d)' /\ sent'[s][d] = sent[s][d]
    BY <1>3, <1>5 DEF SenderAt, SendSame
  <2>2. CASE SendReqs(s, d) = {} /\ k = Len(sent[s][d]) + 1 /\ i = 0
    BY <1>1, <1>3, <1>5, <2>1, <2>2
  <2>3. CASE \E a \in Handles : SendReqs(s, d) = {a} /\ InProgress(s, d, a, k, i)
    <3>1. PICK a \in Handles : SendReqs(s, d) = {a} /\ InProgress(s, d, a, k, i)
      BY <2>3
    <3>2. PICK n : n = round[s]
      OBVIOUS
    <3>3. CountOf(s, d, n)' = CountOf(s, d, n) /\ n = round'[s]
      BY <3>2 DEF SendSame, CountOf
    <3>4. Batches(CountOf(s, d, n))' = Batches(CountOf(s, d, n))
      BY <3>3 DEF Batches
    <3>5. /\ info'[s][a].peer = info[s][a].peer /\ info'[s][a].count = info[s][a].count
          /\ info'[s][a].ibatch = info[s][a].ibatch
      BY <3>1 DEF SendSame
    <3>6. InProgress(s, d, a, k, i)'
      BY <2>1, <3>1, <3>2, <3>3, <3>4, <3>5 DEF InProgress, IsAfter
    <3> QED BY <1>1, <1>3, <1>5, <2>1, <3>1, <3>6
  <2> QED BY <1>3, <1>5, <2>2, <2>3 DEF SenderAt
<1> QED BY <1>4, <1>5

\* A step that moves neither position and no payload keeps the stream between two ranks.
LEMMA BetweenKept ==
  ASSUME NEW s, NEW d, SentGrows(s, d), Len(net'[s][d]) = Len(net[s][d]),
         \A j \in 1 .. Len(net[s][d]) : net'[s][d][j].val = net[s][d][j].val,
         \A k, i : ReceiverAt(d, s, k, i) => ReceiverAt(d, s, k, i)',
         \A k, i : SenderAt(s, d, k, i) => SenderAt(s, d, k, i)',
         Between(s, d)
  PROVE  Between(s, d)'
<1>1. PICK ro, ba : /\ Ordered(s, d, ro, ba)
                    /\ ReceiverAt(d, s, ro[1], ba[1])
                    /\ SenderAt(s, d, ro[Len(net[s][d]) + 1], ba[Len(net[s][d]) + 1])
  BY DEF Between
<1>2. PICK k, i, l, m : k = ro[1] /\ i = ba[1]
        /\ l = ro[Len(net[s][d]) + 1] /\ m = ba[Len(net[s][d]) + 1]
  OBVIOUS
<1>3. ReceiverAt(d, s, k, i)' /\ SenderAt(s, d, l, m)'
  BY <1>1, <1>2
<1>4. Ordered(s, d, ro, ba)'
  BY <1>1, OrderedKept
<1>5. l = ro[Len(net'[s][d]) + 1] /\ m = ba[Len(net'[s][d]) + 1]
  BY <1>2
<1> QED BY <1>2, <1>3, <1>4, <1>5 DEF Between, Joined

\* The receiver at <<k, i>> is given that position's message.
Given(r, s, v, k, i, l, m) ==
  /\ ReceiverAt(r, s, k, i) /\ Issued(s, r, k, i)
  /\ v = ValueAt(s, r, k, i) /\ IsAfter(s, r, k, i, l, m)

\* A step that takes the first message and moves the receiver past it keeps the stream.
LEMMA BetweenTaken ==
  ASSUME NEW s, NEW d, sent' = sent, NEW S, net[s][d] \in Seq(S), net[s][d] # << >>,
         net'[s][d] = Tail(net[s][d]),
         \A k, i, l, m : Given(d, s, Head(net[s][d]).val, k, i, l, m) => ReceiverAt(d, s, l, m)',
         \A k, i : SenderAt(s, d, k, i) => SenderAt(s, d, k, i)',
         Between(s, d)
  PROVE  Between(s, d)'
<1>1. PICK ro, ba : /\ Ordered(s, d, ro, ba)
                    /\ ReceiverAt(d, s, ro[1], ba[1])
                    /\ SenderAt(s, d, ro[Len(net[s][d]) + 1], ba[Len(net[s][d]) + 1])
  BY DEF Between
<1>2. PICK k, i, x, y : k = ro[1] /\ i = ba[1]
        /\ x = ro[Len(net[s][d]) + 1] /\ y = ba[Len(net[s][d]) + 1]
  OBVIOUS
<1>3. PICK l, m :
           /\ Issued(s, d, ro[1], ba[1])
           /\ Head(net[s][d]).val = ValueAt(s, d, ro[1], ba[1])
           /\ IsAfter(s, d, ro[1], ba[1], l, m)
           /\ \E rp, bp : Shifted(s, d, ro, ba, l, m, rp, bp)
  BY <1>1, OrderedTaken
<1>4. PICK rp, bp : Shifted(s, d, ro, ba, l, m, rp, bp)
  BY <1>3
<1>5. Given(d, s, Head(net[s][d]).val, k, i, l, m)
  BY <1>1, <1>2, <1>3 DEF Given
<1>6. ReceiverAt(d, s, l, m)' /\ SenderAt(s, d, x, y)'
  BY <1>1, <1>2, <1>5
<1>7. /\ Ordered(s, d, rp, bp)' /\ rp[1] = l /\ bp[1] = m
      /\ rp[Len(net'[s][d]) + 1] = x /\ bp[Len(net'[s][d]) + 1] = y
  BY <1>2, <1>4 DEF Shifted
<1> QED BY <1>6, <1>7 DEF Between

\* A step that sends a run of messages and moves the sender past them keeps the stream.
LEMMA BetweenSent ==
  ASSUME NEW s, NEW d, SentGrows(s, d), sent'[s][d] \in Seq(0 .. MaxCount),
         NEW S, net[s][d] \in Seq(S), NEW w \in Seq(S), net'[s][d] = net[s][d] \o w,
         \A k, i : ReceiverAt(d, s, k, i) => ReceiverAt(d, s, k, i)',
         \A k, i : SenderAt(s, d, k, i) =>
            \E l, m : Run(s, d, w, k, i, l, m)' /\ SenderAt(s, d, l, m)',
         Between(s, d)
  PROVE  Between(s, d)'
<1>1. PICK ro, ba : /\ Ordered(s, d, ro, ba)
                    /\ ReceiverAt(d, s, ro[1], ba[1])
                    /\ SenderAt(s, d, ro[Len(net[s][d]) + 1], ba[Len(net[s][d]) + 1])
  BY DEF Between
<1>2. PICK k, i, x, y : k = ro[1] /\ i = ba[1]
        /\ x = ro[Len(net[s][d]) + 1] /\ y = ba[Len(net[s][d]) + 1]
  OBVIOUS
<1>3. PICK l, m : Run(s, d, w, x, y, l, m)' /\ SenderAt(s, d, l, m)'
  BY <1>1, <1>2
<1>4. PICK rp, bp : Joined(s, d, ro, ba, l, m, rp, bp)
  <2>1. /\ Ordered(s, d, ro, ba) /\ Run(s, d, w, x, y, l, m)'
        /\ x = ro[Len(net[s][d]) + 1] /\ y = ba[Len(net[s][d]) + 1]
    BY <1>1, <1>2, <1>3
  <2>2. /\ SentGrows(s, d) /\ sent'[s][d] \in Seq(0 .. MaxCount)
        /\ net[s][d] \in Seq(S) /\ net'[s][d] = net[s][d] \o w
    OBVIOUS
  <2> QED BY <2>1, <2>2, OrderedSent
<1>5. ReceiverAt(d, s, k, i)'
  BY <1>1, <1>2
<1> QED BY <1>2, <1>3, <1>4, <1>5 DEF Between, Joined

\* What a step of r leaves alone at the other ranks.
Bystanders(r) ==
  \A q \in Ranks : q # r =>
    /\ Same(q) /\ round'[q] = round[q] /\ sent'[q] = sent[q]
    /\ countMem'[q] = countMem[q] /\ recvBuf'[q] = recvBuf[q]

\* A step of one rank leaves another rank where it is as a receiver.
LEMMA ReceiverElsewhere ==
  ASSUME NEW r, Bystanders(r), NEW q \in Ranks, q # r, NEW s, SentGrows(s, q),
         NEW k, NEW i, ReceiverAt(q, s, k, i)
  PROVE  ReceiverAt(q, s, k, i)'
<1>1. RecvSame(q, s)
  <2>1. /\ pc'[q] = pc[q] /\ idx'[q] = idx[q] /\ round'[q] = round[q]
        /\ posted'[q] = posted[q] /\ countMem'[q] = countMem[q] /\ recvBuf'[q] = recvBuf[q]
        /\ stack'[q] = stack[q] /\ mode'[q] = mode[q] /\ info'[q] = info[q] /\ mem'[q] = mem[q]
    BY DEF Bystanders, Same, Kept
  <2>2. Due(q)' = Due(q)
    BY <2>1 DEF Due, HandlerReady
  <2>3. DueFor(q, s)' = DueFor(q, s)
    BY <2>1, <2>2 DEF DueFor
  <2>4. (Open(q)' <=> Open(q)) /\ (NotYet(q, s)' <=> NotYet(q, s))
    BY <2>1 DEF Open, NotYet
  <2> QED BY <2>1, <2>3, <2>4 DEF RecvSame
<1> QED BY <1>1, RecvStays

\* The requests under way to d do not change when d matches a message.
LEMMA SenderElsewhere ==
  ASSUME NEW r, Bystanders(r), NEW q \in Ranks, q # r, NEW d,
         \A a \in Handles : Carries(net'[q][d], a) <=> Carries(net[q][d], a),
         NEW k, NEW i, SenderAt(q, d, k, i)
  PROVE  SenderAt(q, d, k, i)'
<1>1. SendSame(q, d)
  <2>1. /\ pc'[q] = pc[q] /\ idx'[q] = idx[q] /\ round'[q] = round[q] /\ sent'[q] = sent[q]
        /\ info'[q] = info[q] /\ done'[q] = done[q]
    BY DEF Bystanders, Same, Kept
  <2>2. SendReqs(q, d)' = SendReqs(q, d)
    BY <2>1 DEF SendReqs
  <2>3. SentRounds(q, d)' = SentRounds(q, d)
    BY <2>1 DEF SentRounds
  <2> QED BY <2>1, <2>2, <2>3 DEF SendSame
<1> QED BY <1>1, SendStays

\* Taking a message that has arrived takes no request.
LEMMA TakenReqs ==
  ASSUME NEW S, NEW t \in Seq(S), t # << >>, Head(t).req = Null, NEW u, u = Tail(t)
  PROVE  \A a \in Handles : Carries(u, a) <=> Carries(t, a)
<1>1. PICK n : n = Len(t)
  OBVIOUS
<1>2. /\ n \in Nat /\ n >= 1 /\ Len(u) = n - 1
      /\ \A j \in 1 .. n - 1 : u[j] = t[j + 1]
      /\ Head(t) = t[1]
  BY <1>1, HeadTailProperties, EmptySeq, LenProperties
<1> SUFFICES ASSUME NEW a \in Handles
             PROVE  (\E j \in 1 .. n - 1 : u[j].req = a) <=> (\E j \in 1 .. n : t[j].req = a)
  BY <1>1, <1>2 DEF Carries
<1>3. a # Null
  BY BoundsAssumption, NAssumption DEF Handles, Null
<1>4. ASSUME NEW j \in 1 .. n - 1, u[j].req = a PROVE \E x \in 1 .. n : t[x].req = a
  <2>1. j + 1 \in 1 .. n /\ t[j + 1].req = a
    BY <1>2, <1>4
  <2> QED BY <2>1
<1>5. ASSUME NEW j \in 1 .. n, t[j].req = a PROVE \E x \in 1 .. n - 1 : u[x].req = a
  <2>1. j # 1
    BY <1>2, <1>3, <1>5
  <2>2. j - 1 \in 1 .. n - 1 /\ (j - 1) + 1 = j
    BY <1>2, <2>1
  <2>3. u[j - 1].req = a
    BY <1>2, <1>5, <2>2
  <2> QED BY <2>2, <2>3
<1> QED BY <1>4, <1>5

UserType ==
  /\ sent \in [Ranks -> [Ranks -> Seq(0 .. MaxCount)]]
  /\ recvBuf \in [Ranks -> [Ranks -> Seq(Word)]]

DelInv == UserType /\ \A s, d \in Ranks : Between(s, d)

ReceiverStays(r, s) == \A k, i : ReceiverAt(r, s, k, i) => ReceiverAt(r, s, k, i)'
SenderStays(s, d)   == \A k, i : SenderAt(s, d, k, i) => SenderAt(s, d, k, i)'

\* A step of r that neither sends nor receives.
LEMMA NothingMoves ==
  ASSUME NEW r \in Ranks, DelInv, Bystanders(r), UserType', sent' = sent, net' = net,
         \A s \in Ranks : ReceiverStays(r, s) /\ SenderStays(r, s)
  PROVE  DelInv'
<1> SUFFICES ASSUME NEW s \in Ranks, NEW d \in Ranks
             PROVE  Between(s, d)'
  BY DEF DelInv
<1>1. \A q : SentGrows(s, q)
  BY DEF SentGrows
<1>2. \A k, i : ReceiverAt(d, s, k, i) => ReceiverAt(d, s, k, i)'
  BY <1>1, ReceiverElsewhere DEF ReceiverStays
<1>3. \A k, i : SenderAt(s, d, k, i) => SenderAt(s, d, k, i)'
  <2>1. CASE s = r
    BY <2>1 DEF SenderStays
  <2>2. CASE s # r
    <3>1. net'[s][d] = net[s][d]
      OBVIOUS
    <3> QED BY <2>2, <3>1, SenderElsewhere
  <2> QED BY <2>1, <2>2
<1> QED BY <1>1, <1>2, <1>3, BetweenKept DEF DelInv

\* A step of r that hands messages for d to UCX.
LEMMA OneSends ==
  ASSUME NEW r \in Ranks, NEW d \in Ranks, TypeInv, DelInv, Bystanders(r), UserType',
         NEW w \in Seq(Message), Sending(r, d, w), \A q \in Ranks : SentGrows(r, q),
         \A s \in Ranks : ReceiverStays(r, s),
         \A e \in Ranks : e # d => SenderStays(r, e),
         \A k, i : SenderAt(r, d, k, i) =>
            \E l, m : Run(r, d, w, k, i, l, m)' /\ SenderAt(r, d, l, m)'
  PROVE  DelInv'
<1>1. net \in [Ranks -> [Ranks -> Seq(Message)]]
  BY DEF TypeInv
<1>2. /\ net'[r][d] = net[r][d] \o w
      /\ \A e \in Ranks : e # d => net'[r][e] = net[r][e]
      /\ \A q \in Ranks : q # r => net'[q] = net[q]
  BY <1>1 DEF Sending
<1> SUFFICES ASSUME NEW s \in Ranks, NEW e \in Ranks
             PROVE  Between(s, e)'
  BY DEF DelInv
<1>3. SentGrows(s, e)
  BY DEF Bystanders, SentGrows
<1>4. \A k, i : ReceiverAt(e, s, k, i) => ReceiverAt(e, s, k, i)'
  BY <1>3, ReceiverElsewhere DEF ReceiverStays
<1>5. CASE s = r /\ e = d
  <2>1. sent'[r][d] \in Seq(0 .. MaxCount) /\ net[r][d] \in Seq(Message)
    BY <1>1 DEF UserType
  <2> QED BY <1>2, <1>3, <1>4, <1>5, <2>1, BetweenSent DEF DelInv
<1>6. CASE ~ (s = r /\ e = d)
  <2>1. net'[s][e] = net[s][e]
    BY <1>2, <1>6
  <2>2. \A k, i : SenderAt(s, e, k, i) => SenderAt(s, e, k, i)'
    <3>1. CASE s = r
      BY <1>6, <3>1 DEF SenderStays
    <3>2. CASE s # r
      BY <2>1, <3>2, SenderElsewhere
    <3> QED BY <3>1, <3>2
  <2> QED BY <1>3, <1>4, <2>1, <2>2, BetweenKept DEF DelInv
<1> QED BY <1>5, <1>6

\* A step of r that matches the oldest message from s.
LEMMA OneTakes ==
  ASSUME NEW r \in Ranks, NEW s \in Ranks, TypeInv, DelInv, Bystanders(r), UserType',
         sent' = sent, Arrived(s, r), net' = [net EXCEPT ![s][r] = Tail(net[s][r])],
         \A q \in Ranks : q # s => ReceiverStays(r, q),
         \A k, i, l, m : Given(r, s, Head(net[s][r]).val, k, i, l, m) => ReceiverAt(r, s, l, m)',
         \A d \in Ranks : SendReqs(r, d)' = SendReqs(r, d) => SenderStays(r, d),
         done' = done, \A a \in done[r] : info'[r][a].peer = info[r][a].peer
  PROVE  DelInv'
<1>1. net \in [Ranks -> [Ranks -> Seq(Message)]]
  BY DEF TypeInv
<1>2. /\ net'[s][r] = Tail(net[s][r])
      /\ \A q, e \in Ranks : ~ (q = s /\ e = r) => net'[q][e] = net[q][e]
  BY <1>1
<1>3. net[s][r] \in Seq(Message) /\ net[s][r] # << >> /\ Head(net[s][r]).req = Null
  BY <1>1 DEF Arrived
<1>4. \A q, e \in Ranks : \A a \in Handles :
        Carries(net'[q][e], a) <=> Carries(net[q][e], a)
  <2> SUFFICES ASSUME NEW q \in Ranks, NEW e \in Ranks, NEW a \in Handles
               PROVE  Carries(net'[q][e], a) <=> Carries(net[q][e], a)
    OBVIOUS
  <2>1. CASE q = s /\ e = r
    <3>1. PICK t \in Seq(Message) : t = net[s][r]
      BY <1>3
    <3>2. PICK u : u = Tail(t)
      OBVIOUS
    <3>3. Carries(u, a) <=> Carries(t, a)
      BY <1>3, <3>1, <3>2, TakenReqs
    <3> QED BY <1>2, <2>1, <3>1, <3>2, <3>3
  <2>2. CASE ~ (q = s /\ e = r)
    BY <1>2, <2>2
  <2> QED BY <2>1, <2>2
<1>5. \A d \in Ranks : SenderStays(r, d)
  <2> SUFFICES ASSUME NEW d \in Ranks PROVE SendReqs(r, d)' = SendReqs(r, d)
    OBVIOUS
  <2> QED BY <1>4 DEF SendReqs
<1> SUFFICES ASSUME NEW q \in Ranks, NEW e \in Ranks
             PROVE  Between(q, e)'
  BY DEF DelInv
<1>6. SentGrows(q, e)
  BY DEF SentGrows
<1>7. \A k, i : SenderAt(q, e, k, i) => SenderAt(q, e, k, i)'
  <2>1. CASE q = r
    BY <1>5, <2>1 DEF SenderStays
  <2>2. CASE q # r
    BY <1>4, <2>2, SenderElsewhere
  <2> QED BY <2>1, <2>2
<1>8. CASE q = s /\ e = r
  BY <1>2, <1>3, <1>7, <1>8, BetweenTaken DEF DelInv
<1>9. CASE ~ (q = s /\ e = r)
  <2>1. net'[q][e] = net[q][e]
    BY <1>2, <1>9
  <2>2. \A k, i : ReceiverAt(e, q, k, i) => ReceiverAt(e, q, k, i)'
    <3>1. CASE e = r
      BY <1>9, <3>1 DEF ReceiverStays
    <3>2. CASE e # r
      BY <1>6, <3>2, ReceiverElsewhere
    <3> QED BY <3>1, <3>2
  <2> QED BY <1>6, <1>7, <2>1, <2>2, BetweenKept DEF DelInv
<1> QED BY <1>8, <1>9

\* Nothing of a rank is under way: no request in UCX, no callback due.
LEMMA Resting ==
  ASSUME NEW r \in Ranks, TypeInv, RankInv(r), InUCX(r) = {}, stack[r] = << >>
  PROVE  \A s \in Ranks : Quiet(r, s) /\ SendReqs(r, s) = {}
<1> SUFFICES ASSUME NEW s \in Ranks
             PROVE  Quiet(r, s) /\ SendReqs(r, s) = {}
  OBVIOUS
<1>1. posted[r][s] = << >>
  <2>1. posted[r][s] \in Seq(Receive)
    BY DEF TypeInv
  <2>2. posted[r][s] # << >> => 1 \in 1 .. Len(posted[r][s])
    BY <2>1, EmptySeq, LenProperties
  <2>3. posted[r][s] # << >> => posted[r][s][1] \in Items(posted[r])
    BY <2>2 DEF Items
  <2> QED BY <2>3, QuietItems
<1>2. DueFor(r, s) = {}
  BY DEF DueFor, Due, HandlerReady
<1>3. SendReqs(r, s) = {}
  <2>1. ASSUME NEW a \in Handles, Carries(net[r][s], a) PROVE a \in ReqsIn(net[r])
    BY <2>1 DEF Carries, ReqsIn, Items
  <2> QED BY <2>1 DEF SendReqs, InUCX
<1> QED BY <1>1, <1>2, <1>3 DEF Quiet

\* A rank with nothing posted and nothing due from a peer it already received from has all of the round.
LEMMA RestingAt ==
  ASSUME NEW r, NEW s \in Peers(r), Quiet(r, s), ~ NotYet(r, s), pc[r] # "thrown",
         NEW k, NEW i, ReceiverAt(r, s, k, i)
  PROVE  HasAll(r, s, k, i)
<1>1. ~ ToCome(r, s, k, i)
  BY DEF ToCome
<1>2. ~ IsPosted(r, s, k, i)
  <2>1. \A p : <<p>> # << >>
    OBVIOUS
  <2> QED BY <2>1 DEF IsPosted, Quiet
<1>3. ~ IsCalled(r, s, k, i)
  BY DEF IsCalled, Quiet
<1> QED BY <1>1, <1>2, <1>3 DEF ReceiverAt

\* A rank without requests that still send to a peer has sent all it announced.
LEMMA RestingSends ==
  ASSUME NEW r, NEW d \in Peers(r), SendReqs(r, d) = {}, pc[r] # "thrown",
         NEW k, NEW i, SenderAt(r, d, k, i)
  PROVE  Len(sent[r][d]) = SentRounds(r, d) /\ k = Len(sent[r][d]) + 1 /\ i = 0
BY DEF SenderAt

\* start() opens the next round of the streams and moves no position.
LEMMA StartDel ==
  ASSUME NEW r \in Ranks, TypeInv, \A p \in Ranks : RankInv(p), DelInv, Start(r)
  PROVE  DelInv'
<1>1. /\ pc[r] = "start" /\ pc'[r] = "send" /\ idx'[r] = From(r, 0) /\ round'[r] = round[r] + 1
      /\ \A q \in Ranks : q # r => round'[q] = round[q]
      /\ UNCHANGED <<ncaches, cache, mem, info, free, done, posted, net, stack, mode,
                     countMem, recvBuf, sent>>
  BY DEF Start, callbacks, user, TypeInv
<1>2. Elsewhere(r)
  BY StartRank
<1>3. Bystanders(r)
  BY <1>1, <1>2 DEF Bystanders, Elsewhere
<1>4. ~ Live(r) /\ ~ Open(r) /\ RankInv(r)
  BY <1>1 DEF Live, Open
<1>5. \A s \in Ranks : Quiet(r, s) /\ SendReqs(r, s) = {}
  <2>1. InUCX(r) = {} /\ stack[r] = << >>
    BY <1>1, <1>4 DEF RankInv, PlaceInv
  <2> QED BY <1>4, <2>1, Resting
<1>6. \A s \in Ranks : Quiet(r, s)' /\ SendReqs(r, s)' = {}
  BY <1>1, <1>5 DEF Quiet, DueFor, Due, HandlerReady, SendReqs
<1>7. \A s \in Ranks : ReceiverStays(r, s)
  <2> SUFFICES ASSUME NEW s \in Ranks, NEW k, NEW i, ReceiverAt(r, s, k, i)
               PROVE  ReceiverAt(r, s, k, i)'
    BY DEF ReceiverStays
  <2>1. CASE s \notin Peers(r)
    BY <1>6, <2>1 DEF ReceiverAt, Peers
  <2>2. CASE s \in Peers(r)
    <3>1. ~ NotYet(r, s) /\ NotYet(r, s)' /\ pc[r] # "thrown"
      BY <1>1 DEF NotYet
    <3>2. HasAll(r, s, k, i)
      BY <1>5, <2>2, <3>1, RestingAt
    <3>3. ToCome(r, s, k, i)'
      BY <1>1, <1>6, <3>1, <3>2 DEF ToCome, HasAll
    <3> QED BY <2>2, <3>3 DEF ReceiverAt, Peers
  <2> QED BY <2>1, <2>2
<1>8. \A d \in Ranks : SenderStays(r, d)
  <2> SUFFICES ASSUME NEW d \in Ranks, NEW k, NEW i, SenderAt(r, d, k, i)
               PROVE  SenderAt(r, d, k, i)'
    BY DEF SenderStays
  <2>1. CASE d \notin Peers(r)
    BY <1>6, <2>1 DEF SenderAt, Peers
  <2>2. CASE d \in Peers(r)
    <3>1. Len(sent[r][d]) = round[r] /\ k = Len(sent[r][d]) + 1 /\ i = 0
      BY <1>1, <1>5, <2>2, RestingSends DEF SentRounds
    <3>2. d >= idx'[r]
      <4>1. idx'[r] \in Ranks /\ ~ (d < idx'[r])
        BY <1>1, <2>2, PeerFirst DEF Before
      <4> QED BY <4>1 DEF Ranks
    <3>3. SentRounds(r, d)' = round[r]
      <4>1. round[r] \in Int
        BY DEF TypeInv
      <4> QED BY <1>1, <3>2, <4>1 DEF SentRounds
    <3> QED BY <1>1, <1>6, <2>2, <3>1, <3>3 DEF SenderAt, Peers
  <2> QED BY <2>1, <2>2
<1>9. UserType'
  BY <1>1 DEF DelInv, UserType, Word
<1> QED BY <1>1, <1>3, <1>7, <1>8, <1>9, NothingMoves

\* A rank whose transfers are over leaves or has left the round.
LEMMA RestsDel ==
  ASSUME NEW r \in Ranks, TypeInv, \A p \in Ranks : RankInv(p), DelInv, Elsewhere(r),
         InUCX(r) = {}, stack[r] = << >>, pc[r] \notin {"send", "recv", "thrown"},
         pc'[r] \notin {"send", "recv", "thrown"}, UNCHANGED <<round, done, posted, net, stack, mode, user>>
  PROVE  DelInv'
<1>1. /\ round' = round /\ done' = done /\ posted' = posted /\ net' = net /\ stack' = stack
      /\ mode' = mode /\ countMem' = countMem /\ recvBuf' = recvBuf /\ sent' = sent
  BY DEF user
<1>2. Bystanders(r)
  BY <1>1 DEF Bystanders, Elsewhere
<1>3. \A s \in Ranks : Quiet(r, s) /\ SendReqs(r, s) = {}
  BY Resting
<1>4. \A s \in Ranks : Quiet(r, s)' /\ SendReqs(r, s)' = {}
  <2> SUFFICES ASSUME NEW s \in Ranks PROVE Quiet(r, s)' /\ SendReqs(r, s)' = {}
    OBVIOUS
  <2>1. Quiet(r, s) /\ done[r] = {} /\ \A a \in Handles : ~ Carries(net[r][s], a)
    BY <1>3 DEF SendReqs, InUCX
  <2>2. Due(r)' = {}
    BY <1>1 DEF Due, HandlerReady
  <2> QED BY <1>1, <2>1, <2>2 DEF Quiet, DueFor, SendReqs
<1>5. \A s \in Ranks : ReceiverStays(r, s)
  <2> SUFFICES ASSUME NEW s \in Ranks, NEW k, NEW i, ReceiverAt(r, s, k, i)
               PROVE  ReceiverAt(r, s, k, i)'
    BY DEF ReceiverStays
  <2>1. CASE s \notin Peers(r)
    BY <1>4, <2>1 DEF ReceiverAt, Peers
  <2>2. CASE s \in Peers(r)
    <3>1. ~ NotYet(r, s) /\ ~ NotYet(r, s)'
      BY DEF NotYet
    <3>2. HasAll(r, s, k, i)
      BY <1>3, <2>2, <3>1, RestingAt
    <3>3. SentGrows(s, r)
      BY <1>1 DEF SentGrows
    <3>4. HasAll(r, s, k, i)'
      BY <1>1, <1>4, <3>1, <3>2, <3>3, GotKept DEF HasAll
    <3> QED BY <2>2, <3>4 DEF ReceiverAt, Peers
  <2> QED BY <2>1, <2>2
<1>6. \A d \in Ranks : SenderStays(r, d)
  <2> SUFFICES ASSUME NEW d \in Ranks, NEW k, NEW i, SenderAt(r, d, k, i)
               PROVE  SenderAt(r, d, k, i)'
    BY DEF SenderStays
  <2>1. CASE d \notin Peers(r)
    BY <1>4, <2>1 DEF SenderAt, Peers
  <2>2. CASE d \in Peers(r)
    <3>1. Len(sent[r][d]) = SentRounds(r, d) /\ k = Len(sent[r][d]) + 1 /\ i = 0
      BY <1>3, <2>2, RestingSends
    <3>2. SentRounds(r, d)' = SentRounds(r, d)
      BY <1>1 DEF SentRounds
    <3> QED BY <1>1, <1>4, <2>2, <3>1, <3>2 DEF SenderAt, Peers
  <2> QED BY <2>1, <2>2
<1>7. UserType'
  BY <1>1 DEF DelInv, UserType, Word
<1> QED BY <1>1, <1>2, <1>5, <1>6, <1>7, NothingMoves

\* waitall: a transfer under way would not be completed.
LEMMA AllOver ==
  ASSUME NEW r \in Ranks, TypeInv, RankInv(r), Open(r), AllFinished(r)
  PROVE  Active(r) = {}
<1>1. DOMAIN pending[r] = 1 .. Len(pending[r])
  BY LenProperties DEF TypeInv
<1>2. \A p \in Transfers(r) : info[r][p].completed
  BY <1>1 DEF AllFinished, Transfers
<1> QED BY <1>2 DEF RankInv, CarryInv

\* stop() leaves a round in which both positions are already at the end.
LEMMA WaitAllDel ==
  ASSUME NEW r \in Ranks, TypeInv, \A p \in Ranks : RankInv(p), DelInv, WaitAll(r)
  PROVE  DelInv'
<1>1. /\ pc[r] = "stop" /\ stack[r] = << >> /\ AllFinished(r)
      /\ pc'[r] \in {"start", "finalize"}
      /\ UNCHANGED <<round, done, posted, net, stack, mode, user>>
  BY DEF WaitAll, Idle, callbacks, TypeInv
<1>2. Elsewhere(r)
  BY WaitAllRank
<1>3. InUCX(r) = {}
  <2>1. Open(r) /\ RankInv(r)
    BY <1>1 DEF Open
  <2> QED BY <1>1, <2>1, AllOver DEF Active
<1> QED BY <1>1, <1>2, <1>3, RestsDel

\* Closing endpoints and destroying the worker touches no stream.
LEMMA CloseDel ==
  ASSUME NEW r \in Ranks, TypeInv, \A p \in Ranks : RankInv(p), DelInv, Finalize(r) \/ Barrier(r)
  PROVE  DelInv'
<1>1. /\ pc[r] \in {"finalize", "barrier"} /\ pc'[r] \in {"barrier", "closed"}
      /\ UNCHANGED <<round, done, posted, net, stack, mode, user>>
  BY DEF Finalize, Barrier, callbacks, TypeInv
<1>2. Elsewhere(r)
  BY CloseRank
<1>3. InUCX(r) = {} /\ stack[r] = << >>
  BY <1>1 DEF RankInv, PlaceInv, Live, Open
<1> QED BY <1>1, <1>2, <1>3, RestsDel

\* A batch is copied behind those before it.
Patched(old, x, n, m) ==
  [j \in DOMAIN old |-> IF j \in x + 1 .. x + n THEN At(m, j - x) ELSE old[j]]
Piece(f, x, n) == [j \in 1 .. n |-> f[x + j]]
Agrees(u, f, c, y) == \A e \in 1 .. c : e <= y => u[e] = f[e]

\* Copying one batch behind those before it makes the destination agree one batch further.
LEMMA BatchStored ==
  ASSUME NEW c \in Nat, NEW b \in 1 .. Batches(c), NEW x, x = (b - 1) * PerBatch,
         NEW n, n = BatchLen(c, b - 1), NEW f \in [Int -> Word],
         NEW old \in Seq(Word), Len(old) >= c, Agrees(old, f, c, x),
         NEW m, m = Piece(f, x, n), NEW new, new = Patched(old, x, n, m)
  PROVE  new \in Seq(Word) /\ Len(new) >= c /\ Agrees(new, f, c, b * PerBatch)
<1>1. /\ n \in Nat /\ n >= 1 /\ x \in Nat /\ b * PerBatch \in Nat /\ b * PerBatch = x + PerBatch
      /\ \A e \in 1 .. c : e > x /\ e <= b * PerBatch => e <= x + n
  BY BatchEnds
<1>2. PICK L : L = Len(old)
  OBVIOUS
<1>3. L \in Nat /\ L >= c /\ DOMAIN old = 1 .. L /\ \A j \in 1 .. L : old[j] \in Word
  BY <1>2, LenProperties, ElementOfSeq
<1>4. \A j \in x + 1 .. x + n : At(m, j - x) = f[j]
  <2> SUFFICES ASSUME NEW j \in x + 1 .. x + n PROVE At(m, j - x) = f[j]
    OBVIOUS
  <2>1. j - x \in 1 .. n /\ x + (j - x) = j
    BY <1>1
  <2>2. j - x \in DOMAIN m /\ m[j - x] = f[x + (j - x)]
    BY <2>1 DEF Piece
  <2> QED BY <2>1, <2>2 DEF At
<1>5. new = [j \in 1 .. L |-> IF j \in x + 1 .. x + n THEN f[j] ELSE old[j]]
  BY <1>3, <1>4 DEF Patched
<1>6. new \in [1 .. L -> Word]
  <2>1. \A j \in 1 .. L : f[j] \in Word /\ old[j] \in Word
    <3>1. \A j \in 1 .. L : j \in Int
      OBVIOUS
    <3> QED BY <1>3, <3>1
  <2> QED BY <1>5, <2>1
<1>7. new \in Seq(Word) /\ Len(new) = L
  BY <1>3, <1>6, SeqDef, LenProperties
<1>8. ASSUME NEW e \in 1 .. c, e <= b * PerBatch PROVE new[e] = f[e]
  <2>1. e \in 1 .. L
    BY <1>3
  <2>2. CASE e <= x
    BY <1>1, <1>5, <2>1, <2>2 DEF Agrees
  <2>3. CASE e > x
    <3>1. e \in x + 1 .. x + n
      BY <1>1, <1>8, <2>3
    <3> QED BY <1>5, <2>1, <3>1
  <2> QED BY <1>1, <2>2, <2>3
<1> QED BY <1>3, <1>7, <1>8 DEF Agrees

\* A fresh allocation is a sequence of words of the length asked for.
LEMMA Blanks ==
  ASSUME NEW n \in Nat
  PROVE  Blank(n) \in Seq(Word) /\ Len(Blank(n)) = n
<1>1. Blank(n) = [j \in 1 .. n |-> Garbage] /\ Garbage \in Word
  BY DEF Blank, Garbage, Word
<1>2. Blank(n) \in [1 .. n -> Word]
  BY <1>1
<1>3. Blank(n) \in Seq(Word)
  BY <1>2, SeqDef
<1> QED BY <1>2, <1>3, LenProperties

\* recv_handler stores the batch it was called for.
LEMMA StoredFacts ==
  ASSUME NEW r \in Ranks, NEW s \in Ranks, TypeInv, UserType, NEW h \in Handles,
         info[r][h].peer = s, NEW k, NEW i, Takes(r, s, h, k, i),
         NEW c, c = CountOf(s, r, round[r]), NEW v, v = Stored(r, info[r][h])
  PROVE  /\ c \in 0 .. MaxCount /\ Count(r, info[r][h]) = c
         /\ v \in Seq(Word) /\ Len(v) >= c
         /\ \A e \in 1 .. c : e <= info[r][h].ibatch * PerBatch => v[e] = DataWord(s, r, round[r], e)
<1>1. PICK n, b : n = round[r] /\ b = info[r][h].ibatch
  OBVIOUS
<1>2. /\ n \in 1 .. Len(sent[s][r]) /\ countMem[r][s] = CountWord(s, r, n, c)
      /\ b \in 0 .. Batches(c)
      /\ b = 0 => Fresh(r, s)
      /\ b # 0 => mem[r][info[r][h].buf] = ValueAt(s, r, n, b) /\ FilledTo(r, s, (b - 1) * PerBatch)
  BY <1>1 DEF Takes, CountGot
<1>3. c \in 0 .. MaxCount /\ MaxCount \in Nat
  <2>1. PICK q : q = sent[s][r]
    OBVIOUS
  <2>2. q \in Seq(0 .. MaxCount) /\ n \in 1 .. Len(q) /\ c = q[n]
    BY <1>1, <1>2, <2>1 DEF UserType, CountOf
  <2>3. q[n] \in 0 .. MaxCount
    BY <2>2, ElementOfSeq, Zenon
  <2> QED BY <2>2, <2>3, BoundsAssumption
<1>4. Count(r, info[r][h]) = c
  BY <1>2 DEF Count, CountWord
<1>5. PICK old : old = UserBuf(r, info[r][h])
  OBVIOUS
<1>6. old = IF recvBuf[r][s] = << >> THEN Blank(c) ELSE recvBuf[r][s]
  BY <1>4, <1>5 DEF UserBuf
<1>7. old \in Seq(Word) /\ Len(old) >= c
  <2>1. CASE recvBuf[r][s] = << >>
    BY <1>3, <1>6, <2>1, Blanks
  <2>2. CASE recvBuf[r][s] # << >>
    <3>1. old = recvBuf[r][s] /\ old \in Seq(Word)
      BY <1>6, <2>2 DEF UserType
    <3>2. CASE b = 0
      <4>1. old = Blank(MaxCount)
        BY <1>2, <2>2, <3>1, <3>2 DEF Fresh
      <4> QED BY <1>3, <3>1, <4>1, Blanks
    <3>3. CASE b # 0
      <4>1. Len(old) >= CountOf(s, r, round[r])
        BY <1>2, <3>1, <3>3 DEF FilledTo
      <4> QED BY <3>1, <4>1
    <3> QED BY <3>2, <3>3
  <2> QED BY <2>1, <2>2
<1>8. CASE b = 0
  <2>1. v = old
    BY <1>1, <1>5, <1>8 DEF Stored
  <2>2. \A e \in 1 .. c : ~ (e <= b * PerBatch)
    BY <1>3, <1>8, BatchAssumption
  <2> QED BY <1>1, <1>3, <1>4, <1>7, <2>1, <2>2
<1>9. CASE b # 0
  <2>1. PICK x, m : x = (b - 1) * PerBatch /\ m = BatchLen(c, b - 1)
    OBVIOUS
  <2>2. PICK f : f = [e \in Int |-> DataWord(s, r, n, e)]
    OBVIOUS
  <2>3. f \in [Int -> Word]
    <3>1. s \in Int /\ r \in Int /\ n \in Int
      BY <1>2 DEF Ranks
    <3> QED BY <2>2, <3>1 DEF DataWord, Word
  <2>4. b \in 1 .. Batches(c) /\ c \in Nat /\ Batches(c) \in Nat
    BY <1>2, <1>3, <1>9, BatchBounds
  <2>5. x \in Nat /\ m \in Nat
    BY <2>1, <2>4, BatchEnds
  <2>6. Agrees(old, f, c, x)
    <3> SUFFICES ASSUME NEW e \in 1 .. c, e <= x PROVE old[e] = f[e]
      BY DEF Agrees
    <3>1. FilledTo(r, s, x)
      BY <1>2, <1>9, <2>1
    <3>2. recvBuf[r][s][e] = DataWord(s, r, n, e) /\ Len(recvBuf[r][s]) >= c
      BY <1>1, <3>1 DEF FilledTo
    <3>3. recvBuf[r][s] # << >>
      BY <1>3, <3>2
    <3> QED BY <1>6, <2>2, <3>2, <3>3
  <2>7. PICK w : w = mem[r][info[r][h].buf]
    OBVIOUS
  <2>8. w = Piece(f, x, m)
    <3>1. w = BatchOf(s, r, n, b - 1)
      BY <1>2, <1>9, <2>7 DEF ValueAt
    <3>2. w = [j \in 1 .. m |-> DataWord(s, r, n, x + j)]
      BY <1>1, <2>1, <3>1, Zenon DEF BatchOf
    <3>3. \A j \in 1 .. m : f[x + j] = DataWord(s, r, n, x + j)
      BY <2>2, <2>5
    <3> QED BY <3>2, <3>3 DEF Piece
  <2>9. v = Patched(old, x, m, w)
    BY <1>1, <1>4, <1>5, <1>9, <2>1, <2>7, Zenon DEF Stored, Patched
  <2>10. v \in Seq(Word) /\ Len(v) >= c /\ Agrees(v, f, c, b * PerBatch)
    BY <1>7, <2>1, <2>3, <2>4, <2>6, <2>8, <2>9, BatchStored
  <2>11. \A e \in 1 .. c : f[e] = DataWord(s, r, n, e)
    BY <1>3, <2>2
  <2> QED BY <1>1, <1>3, <1>4, <2>10, <2>11 DEF Agrees
<1> QED BY <1>8, <1>9

\* Who the requests of a channel are.
LEMMA PostedReq ==
  ASSUME NEW r \in Ranks, NEW s \in Ranks, TypeInv, RankInv(r), NEW p \in Receive,
         posted[r][s] = <<p>>
  PROVE  /\ p \in Items(posted[r]) /\ p.req \in Handles /\ p.req \in InUCX(r)
         /\ p.req \notin InStack(r) /\ p.req \notin done[r]
<1>1. p \in Items(posted[r])
  <2>1. Len(posted[r][s]) = 1 /\ posted[r][s][1] = p
    OBVIOUS
  <2>2. 1 \in 1 .. Len(posted[r][s])
    BY <2>1
  <2> QED BY <2>1, <2>2 DEF Items
<1>2. p.req \in Handles
  BY DEF Receive
<1>3. p.req \in ReqsIn(posted[r])
  BY <1>1, <1>2 DEF ReqsIn
<1> QED BY <1>1, <1>2, <1>3 DEF RankInv, PlaceInv, InUCX

\* A request that sends is one UCX holds and neither on the call stack nor posted.
LEMMA SendReqIs ==
  ASSUME NEW r \in Ranks, NEW d \in Ranks, TypeInv, RankInv(r), NEW a \in SendReqs(r, d)
  PROVE  /\ a \in Handles /\ a \in InUCX(r) /\ a \notin InStack(r)
         /\ a \notin ReqsIn(posted[r])
<1>1. Carries(net[r][d], a) => a \in ReqsIn(net[r])
  BY DEF Carries, ReqsIn, Items, SendReqs
<1>2. a \in ReqsIn(net[r]) \/ a \in done[r]
  BY <1>1 DEF SendReqs
<1> QED BY <1>2 DEF RankInv, PlaceInv, InUCX, SendReqs

\* A step of r's receives: its sends keep their position.
Unsent(r) ==
  /\ pc'[r] = pc[r] /\ idx'[r] = idx[r] /\ round'[r] = round[r] /\ sent' = sent
  /\ \A a \in InUCX(r) : /\ info'[r][a].peer = info[r][a].peer
                         /\ info'[r][a].count = info[r][a].count
                         /\ info'[r][a].ibatch = info[r][a].ibatch

\* A step that sends nothing keeps the sender's positions if it keeps its sending requests.
LEMMA SendersIf ==
  ASSUME NEW r \in Ranks, TypeInv, RankInv(r), Unsent(r)
  PROVE  \A d \in Ranks : SendReqs(r, d)' = SendReqs(r, d) => SenderStays(r, d)
<1> SUFFICES ASSUME NEW d \in Ranks, SendReqs(r, d)' = SendReqs(r, d), NEW k, NEW i,
                    SenderAt(r, d, k, i)
             PROVE  SenderAt(r, d, k, i)'
  BY DEF SenderStays
<1>1. SentRounds(r, d)' = SentRounds(r, d)
  BY DEF SentRounds, Unsent
<1>2. SendSame(r, d)
  BY <1>1, SendReqIs DEF SendSame, Unsent
<1> QED BY <1>2, SendStays

\* A step that leaves network and completed sends alone keeps all positions of the sender.
LEMMA SendersUntouched ==
  ASSUME NEW r \in Ranks, TypeInv, RankInv(r), Unsent(r), net' = net, done' = done
  PROVE  \A d \in Ranks : SenderStays(r, d)
<1>1. \A a \in done[r] : info'[r][a].peer = info[r][a].peer
  BY DEF Unsent, InUCX
<1>2. \A d \in Ranks : SendReqs(r, d)' = SendReqs(r, d)
  BY <1>1 DEF SendReqs
<1> QED BY <1>2, SendersIf

\* A receive that the step is not about.
LEMMA OtherReceive ==
  ASSUME NEW r \in Ranks, NEW s \in Ranks, TypeInv, RankInv(r), Unsent(r),
         posted'[r][s] = posted[r][s], countMem'[r][s] = countMem[r][s],
         recvBuf'[r][s] = recvBuf[r][s], DueFor(r, s) = {}, DueFor(r, s)' = {}
  PROVE  ReceiverStays(r, s)
<1>1. \A p \in Receive : posted[r][s] = <<p>> =>
        info'[r][p.req].peer = info[r][p.req].peer /\ info'[r][p.req].ibatch = info[r][p.req].ibatch
  BY PostedReq DEF Unsent
<1>2. (Open(r)' <=> Open(r)) /\ (NotYet(r, s)' <=> NotYet(r, s))
  BY DEF Open, NotYet, Unsent
<1>3. RecvSame(r, s)
  BY <1>1, <1>2 DEF RecvSame, Unsent
<1>4. SentGrows(s, r)
  BY DEF SentGrows, Unsent
<1> QED BY <1>3, <1>4, RecvStays DEF ReceiverStays

\* The receive that the innermost activation serves.
LEMMA CalledAt ==
  ASSUME NEW r \in Ranks, TypeInv, RankInv(r), HandlerReady(r), NEW h, h = Head(stack[r]),
         NEW s, s = info[r][h].peer, NEW k, NEW i, ReceiverAt(r, s, k, i)
  PROVE  /\ s \in Peers(r) /\ DueFor(r, s) = {h} /\ ~ NotYet(r, s) /\ posted[r][s] = << >>
         /\ Takes(r, s, h, k, i)
<1>1. stack[r] # << >> /\ h = stack[r][1] /\ Due(r) = {h} /\ Open(r)
  <2>1. stack[r] # << >>
    BY DEF HandlerReady
  <2> QED BY <2>1, Innermost DEF Due
<1>2. DueFor(r, s) = {h}
  BY <1>1 DEF DueFor
<1>3. s \in Peers(r)
  BY <1>2 DEF ReceiverAt, Quiet
<1>4. IsCalled(r, s, k, i)
  <2>1. pc[r] # "thrown"
    BY <1>1 DEF Open
  <2>2. ~ ToCome(r, s, k, i) /\ ~ HasAll(r, s, k, i) /\ ~ IsPosted(r, s, k, i)
    BY <1>2 DEF ToCome, HasAll, IsPosted, Quiet
  <2> QED BY <1>3, <2>1, <2>2 DEF ReceiverAt
<1>5. PICK a \in Due(r) : DueFor(r, s) = {a} /\ Takes(r, s, a, k, i)
  BY <1>4 DEF IsCalled
<1>6. a = h
  BY <1>1, <1>5
<1> QED BY <1>2, <1>3, <1>4, <1>5, <1>6 DEF IsCalled

\* The other receives have no activation.
LEMMA NotCalled ==
  ASSUME NEW r \in Ranks, TypeInv, RankInv(r), HandlerReady(r), NEW h, h = Head(stack[r])
  PROVE  \A s : s # info[r][h].peer => DueFor(r, s) = {}
<1>1. stack[r] # << >> /\ h = stack[r][1] /\ Due(r) = {h}
  <2>1. stack[r] # << >>
    BY DEF HandlerReady
  <2> QED BY <2>1, Innermost DEF Due
<1> QED BY <1>1 DEF DueFor

\* recv_handler that finds its transfer not complete returns and changes no stream.
LEMMA ReturnDel ==
  ASSUME NEW r \in Ranks, TypeInv, \A p \in Ranks : RankInv(p), DelInv, RecvHandlerReturn(r)
  PROVE  DelInv'
<1> DEFINE h == Head(stack[r])
<1>1. /\ stack[r] # << >> /\ mode[r] = "return"
      /\ info' = [info EXCEPT ![r] = FreeInternal(info[r], h)]
      /\ UNCHANGED <<ncaches, pc, idx, round, pending, cache, mem, done, posted, net, mode,
                     countMem, recvBuf, sent>>
  BY Zenon DEF RecvHandlerReturn, loop, user
<1>2. Elsewhere(r)
  BY ReturnTyped
<1>3. Bystanders(r)
  BY <1>1, <1>2 DEF Bystanders, Elsewhere
<1>4. h \in Handles /\ h \notin InUCX(r)
  BY <1>1, Innermost
<1> HIDE DEF h
<1>5. \A a \in InUCX(r) : info'[r][a] = info[r][a]
  <2>1. info[r] \in [Handles -> Info] /\ ncaches \in Nat
    BY DEF TypeInv
  <2>2. PICK u : u = FreeInternal(info[r], h)
    OBVIOUS
  <2>3. \A g \in Handles : g # h => u[g] = info[r][g]
    BY <1>4, <2>1, <2>2, Release
  <2>4. info'[r] = u
    BY <1>1, <2>2 DEF TypeInv
  <2>5. \A a \in InUCX(r) : a \in Handles
    BY DEF InUCX, ReqsIn, TypeInv
  <2> QED BY <1>4, <2>3, <2>4, <2>5
<1>6. Unsent(r)
  BY <1>1, <1>5 DEF Unsent
<1>7. \A s \in Ranks : DueFor(r, s) = {} /\ DueFor(r, s)' = {}
  BY <1>1 DEF DueFor, Due, HandlerReady
<1>8. \A s \in Ranks : ReceiverStays(r, s)
  BY <1>1, <1>6, <1>7, OtherReceive
<1>9. \A d \in Ranks : SenderStays(r, d)
  BY <1>1, <1>6, SendersUntouched
<1>10. UserType'
  BY <1>1 DEF DelInv, UserType, Word
<1> QED BY <1>1, <1>3, <1>8, <1>9, <1>10, NothingMoves

\* recv_handler on the last batch copies it, and the receiver is at the next round's count.
LEMMA LastDel ==
  ASSUME NEW r \in Ranks, TypeInv, \A p \in Ranks : RankInv(p), DelInv, RecvHandlerLast(r)
  PROVE  DelInv'
<1>0. PICK h, o, s, v : /\ h = Head(stack[r]) /\ o = info[r][h].orig /\ s = info[r][h].peer
                         /\ v = Stored(r, info[r][h])
  OBVIOUS
<1>1. /\ HandlerReady(r) /\ Remaining(r, info[r][h]) <= 0
      /\ info' = [info EXCEPT ![r][o].completed = TRUE]
      /\ recvBuf' = [recvBuf EXCEPT ![r][s] = v]
      /\ mode' = [mode EXCEPT ![r] = "return"]
      /\ UNCHANGED <<ncaches, pc, idx, round, pending, cache, mem, free, done, posted, net, stack,
                     countMem, sent>>
  BY <1>0, Zenon DEF RecvHandlerLast, loop
<1>2. Elsewhere(r)
  BY LastTyped
<1>3. stack[r] # << >> /\ RankInv(r)
  BY <1>1 DEF HandlerReady
<1>4. h \in Handles /\ h \notin InUCX(r) /\ h = stack[r][1]
  BY <1>0, <1>3, Innermost
<1>5. s \in Ranks
  BY <1>0, <1>4 DEF TypeInv, Info
<1>6. PICK k, i : ReceiverAt(r, s, k, i)
  BY <1>5 DEF DelInv, Between
<1>7. /\ s \in Peers(r) /\ DueFor(r, s) = {h} /\ ~ NotYet(r, s) /\ posted[r][s] = << >>
  BY <1>0, <1>1, <1>3, <1>6, CalledAt
<1>8. PICK c, n, b : c = CountOf(s, r, round[r]) /\ n = round[r] /\ b = info[r][h].ibatch
  OBVIOUS
<1>9. /\ c \in 0 .. MaxCount /\ Count(r, info[r][h]) = c
      /\ v \in Seq(Word) /\ Len(v) >= c
      /\ \A e \in 1 .. c : e <= b * PerBatch => v[e] = DataWord(s, r, n, e)
  <2>1. Takes(r, s, h, k, i)
    BY <1>0, <1>1, <1>3, <1>6, CalledAt
  <2>2. UserType
    BY DEF DelInv
  <2> QED BY <1>0, <1>4, <1>5, <1>8, <2>1, <2>2, StoredFacts
<1>10. /\ recvBuf'[r][s] = v /\ \A q \in Ranks : q # s => recvBuf'[r][q] = recvBuf[r][q]
       /\ \A q \in Ranks : q # r => recvBuf'[q] = recvBuf[q]
       /\ recvBuf' \in [Ranks -> [Ranks -> Seq(Word)]]
  BY <1>1, <1>5, <1>9 DEF DelInv, UserType
<1>11. Bystanders(r)
  BY <1>1, <1>2, <1>10 DEF Bystanders, Elsewhere
<1>12. Unsent(r)
  <2>0. o \in Int /\ info \in [Ranks -> [Handles -> Info]]
    <3>1. info \in [Ranks -> [Handles -> Info]]
      BY DEF TypeInv
    <3>2. info[r][h] \in Info
      BY <1>4, <3>1
    <3>3. info[r][h].orig \in Int
      BY <3>2 DEF Info
    <3> QED BY <1>0, <3>1, <3>3
  <2>1. \A a \in InUCX(r) : a \in Handles
    BY DEF InUCX, ReqsIn, TypeInv
  <2>2. \A a \in Handles : /\ info'[r][a].peer = info[r][a].peer
                           /\ info'[r][a].count = info[r][a].count
                           /\ info'[r][a].ibatch = info[r][a].ibatch
    BY <1>1, <2>0 DEF Info
  <2> QED BY <1>1, <2>1, <2>2 DEF Unsent
<1>13. mode'[r] = "return"
  BY <1>1 DEF TypeInv
<1>14. \A q \in Ranks : DueFor(r, q)' = {}
  BY <1>13 DEF DueFor, Due, HandlerReady
<1>15. \A q \in Ranks : q # s => ReceiverStays(r, q)
  <2>1. \A q \in Ranks : q # s => DueFor(r, q) = {}
    BY <1>0, <1>1, <1>3, NotCalled
  <2> QED BY <1>1, <1>3, <1>10, <1>12, <1>14, <2>1, OtherReceive
<1>16. ReceiverStays(r, s)
  <2> SUFFICES ASSUME NEW l, NEW m, ReceiverAt(r, s, l, m)
               PROVE  ReceiverAt(r, s, l, m)'
    BY DEF ReceiverStays
  <2>1. Takes(r, s, h, l, m)
    BY <1>0, <1>1, <1>3, CalledAt
  <2>2. /\ n \in 1 .. Len(sent[s][r]) /\ countMem[r][s] = CountWord(s, r, n, c)
        /\ b \in 0 .. Batches(c) /\ IsAfter(s, r, n, b, l, m)
    BY <1>8, <2>1 DEF Takes, CountGot
  <2>3. b = Batches(c) /\ c <= b * PerBatch
    <3>1. c - PerBatch * b <= 0 /\ c \in Nat /\ Batches(c) \in Nat /\ b \in Nat
      BY <1>1, <1>8, <1>9, <2>2, BatchBounds DEF Remaining
    <3>2. PICK y : y = b * PerBatch
      OBVIOUS
    <3>3. y \in Nat /\ y = PerBatch * b
      BY <3>1, <3>2, BatchAssumption
    <3>4. c <= y
      BY <3>1, <3>3
    <3>5. ~ (b < Batches(c))
      <4>1. b < Batches(c) => y < c
        BY <3>1, <3>2, BatchBounds
      <4> QED BY <3>1, <3>3, <3>4, <4>1
    <3> QED BY <2>2, <3>1, <3>2, <3>4, <3>5
  <2>4. l = n + 1 /\ m = 0
    BY <1>8, <2>2, <2>3 DEF IsAfter
  <2>5. Got(r, s)'
    <3>1. CountGot(r, s)' /\ CountOf(s, r, round[r])' = c /\ n = round'[r]
      BY <1>1, <1>8, <2>2 DEF CountGot, CountOf
    <3>2. \A e \in 1 .. c : v[e] = DataWord(s, r, n, e)
      <4>1. \A e \in 1 .. c : e <= b * PerBatch
        <5>1. PICK y : y = b * PerBatch
          OBVIOUS
        <5>2. y \in Nat /\ c \in Nat /\ c <= y
          BY <1>9, <2>2, <2>3, <5>1, BatchBounds, BatchAssumption, BoundsAssumption
        <5>3. \A e \in 1 .. c : e <= y
          BY <5>2
        <5> QED BY <5>1, <5>3
      <4> QED BY <1>9, <4>1
    <3> QED BY <1>9, <1>10, <3>1, <3>2 DEF Got, FilledTo
  <2>6. ~ NotYet(r, s)' /\ Quiet(r, s)'
    BY <1>1, <1>5, <1>7, <1>14 DEF NotYet, Quiet
  <2>7. HasAll(r, s, l, m)'
    BY <1>1, <1>8, <2>4, <2>5, <2>6 DEF HasAll
  <2> QED BY <1>7, <2>7 DEF ReceiverAt, Peers
<1>17. \A d \in Ranks : SenderStays(r, d)
  BY <1>1, <1>3, <1>12, SendersUntouched
<1>18. UserType'
  BY <1>1, <1>10 DEF DelInv, UserType, Word
<1> QED BY <1>1, <1>11, <1>15, <1>16, <1>17, <1>18, NothingMoves

\* The request recv_handler posts next carries on peer and buffer, one batch further.
LEMMA HandedOn ==
  ASSUME NEW r \in Ranks, TypeInv, NEW h \in Handles, NEW q \in Handles, h # q, NextStep(r, h, q)
  PROVE  /\ info'[r][q].peer = info[r][h].peer /\ info'[r][q].buf = info[r][h].buf
         /\ info'[r][q].ibatch = info[r][h].ibatch + 1
         /\ \A a \in Handles : a # h /\ a # q => info'[r][a] = info[r][a]
<1>1. PICK i : i = [info[r][h] EXCEPT !.ibatch = info[r][h].ibatch + 1]
  OBVIOUS
<1>2. info \in [Ranks -> [Handles -> Info]] /\ info[r][h] \in Info
  BY DEF TypeInv
<1>3. i.peer = info[r][h].peer /\ i.buf = info[r][h].buf /\ i.ibatch = info[r][h].ibatch + 1
  BY <1>1, <1>2 DEF Info
<1>4. info' = [info EXCEPT ![r][h] = i, ![r][q] = i]
  BY <1>1 DEF NextStep
<1>5. info'[r][q] = i /\ \A a \in Handles : a # h /\ a # q => info'[r][a] = info[r][a]
  BY <1>2, <1>4
<1> QED BY <1>3, <1>5

\* The handle that the handler's info is passed on to.
NextGiven(r, h, q) ==
  /\ h \in Handles /\ q \in Handles /\ h # q /\ h \notin InUCX(r) /\ q \notin InUCX(r)
  /\ Open(r) /\ info[r][h].buf \in Buffers /\ info[r][h].peer \in Ranks
  /\ info[r][q].orig = Null /\ Mark(info[r][q]).orig # Null
  /\ info'[r][q].peer = info[r][h].peer /\ info'[r][q].buf = info[r][h].buf
  /\ info'[r][q].ibatch = info[r][h].ibatch + 1
  /\ \A a \in Handles : a # h /\ a # q => info'[r][a] = info[r][a]

\* The next step of recv_handler moves that transfer only and disturbs no other request.
LEMMA NextGives ==
  ASSUME NEW r \in Ranks, TypeInv, RankInv(r), HandlerReady(r), free[r] # {},
         NEW h, h = Head(stack[r]), NEW q, q = NewRequest(r), NextStep(r, h, q)
  PROVE  NextGiven(r, h, q)
<1>1. NextEffect(r, h, q)
  BY NextFacts
<1>2. /\ h \in Handles /\ h # q /\ h \notin InUCX(r) /\ Open(r) /\ info[r][h].buf \in Buffers
      /\ q \in free[r]
  BY <1>1, Zenon DEF NextEffect
<1>3. q \in Handles /\ q \notin InUCX(r) /\ info[r][q].orig = Null
  BY <1>2, OpenFacts
<1>4. info[r][h].peer \in Ranks /\ info[r][q] \in Info
  <2>1. info[r][h] \in Info /\ info[r][q] \in Info
    BY <1>2, <1>3 DEF TypeInv
  <2> QED BY <2>1 DEF Info
<1>5. Mark(info[r][q]).orig # Null
  BY <1>3, <1>4 DEF Mark, Info, Marked, Null
<1>6. /\ info'[r][q].peer = info[r][h].peer /\ info'[r][q].buf = info[r][h].buf
      /\ info'[r][q].ibatch = info[r][h].ibatch + 1
      /\ \A a \in Handles : a # h /\ a # q => info'[r][a] = info[r][a]
  BY <1>2, <1>3, HandedOn
<1> QED BY <1>2, <1>3, <1>4, <1>5, <1>6 DEF NextGiven

\* The batch that the handler asks for is the one its position is at.
LEMMA NextBatch ==
  ASSUME NEW r \in Ranks, NEW s \in Ranks, TypeInv, UserType, NEW h \in Handles,
         info[r][h].peer = s, NEW k, NEW i, Takes(r, s, h, k, i),
         Remaining(r, info[r][h]) > 0, NEW c, c = CountOf(s, r, round[r])
  PROVE  /\ k = round[r] /\ i = info[r][h].ibatch + 1 /\ i \in 1 .. Batches(c)
         /\ i - 1 = info[r][h].ibatch /\ CountGot(r, s) /\ Count(r, info[r][h]) = c
         /\ Len(ValueAt(s, r, k, i)) = BatchLen(c, info[r][h].ibatch)
<1>1. PICK n, b : n = round[r] /\ b = info[r][h].ibatch
  OBVIOUS
<1>2. /\ c \in 0 .. MaxCount /\ Count(r, info[r][h]) = c
  <2>1. PICK v : v = Stored(r, info[r][h])
    OBVIOUS
  <2> QED BY <2>1, StoredFacts
<1>3. /\ CountGot(r, s) /\ b \in 0 .. Batches(c) /\ IsAfter(s, r, n, b, k, i)
  BY <1>1 DEF Takes
<1>4. c \in Nat /\ Batches(c) \in Nat
  BY <1>2, BatchBounds, BoundsAssumption
<1>5. b < Batches(c)
  <2>1. PICK y : y = b * PerBatch
    OBVIOUS
  <2>2. y \in Nat /\ y = PerBatch * b
    BY <1>3, <1>4, <2>1, BatchAssumption
  <2>3. c - y > 0
    BY <1>1, <1>2, <2>2 DEF Remaining
  <2>4. b >= Batches(c) => y >= c
    BY <1>3, <1>4, <2>1, BatchBounds
  <2> QED BY <1>3, <1>4, <2>2, <2>3, <2>4
<1>6. k = n /\ i = b + 1
  BY <1>1, <1>3, <1>5 DEF IsAfter
<1>7. i \in 1 .. Batches(c) /\ i - 1 = b
  BY <1>3, <1>4, <1>5, <1>6
<1>8. Len(ValueAt(s, r, k, i)) = BatchLen(c, b)
  <2>1. ValueAt(s, r, k, i) = BatchOf(s, r, n, b)
    BY <1>6, <1>7 DEF ValueAt
  <2>2. PICK z : z = BatchLen(c, b)
    OBVIOUS
  <2>3. z \in Nat
    BY <1>4, <1>7, <2>2, BatchEnds
  <2>4. PICK w : w = [j \in 1 .. z |-> DataWord(s, r, n, b * PerBatch + j)]
    OBVIOUS
  <2>5. BatchOf(s, r, n, b) = w
    BY <1>1, <2>2, <2>4, Zenon DEF BatchOf
  <2>6. Len(w) = z
    BY <2>3, <2>4
  <2> QED BY <2>1, <2>2, <2>5, <2>6
<1> QED BY <1>1, <1>2, <1>3, <1>6, <1>7, <1>8

Asked(r, s, h, k, i) ==
  /\ k = round[r] /\ i = info[r][h].ibatch + 1 /\ i - 1 = info[r][h].ibatch
  /\ CountGot(r, s) /\ Count(r, info[r][h]) = CountOf(s, r, k)
  /\ CountOf(s, r, k) \in 0 .. MaxCount
  /\ i \in 1 .. Batches(CountOf(s, r, k)) /\ i # 0 /\ i \in 0 .. Batches(CountOf(s, r, k))
  /\ BatchLen(CountOf(s, r, k), info[r][h].ibatch) \in Nat
  /\ Len(ValueAt(s, r, k, i)) = BatchLen(CountOf(s, r, k), info[r][h].ibatch)

\* A receive with elements left asks for the batch after the one it took.
LEMMA AskedBatch ==
  ASSUME NEW r \in Ranks, NEW s \in Ranks, TypeInv, UserType, NEW h \in Handles,
         info[r][h].peer = s, NEW k, NEW i, Takes(r, s, h, k, i),
         Remaining(r, info[r][h]) > 0
  PROVE  Asked(r, s, h, k, i)
<1>1. PICK c : c = CountOf(s, r, round[r])
  OBVIOUS
<1>2. PICK v : v = Stored(r, info[r][h])
  OBVIOUS
<1>3. c \in 0 .. MaxCount
  BY <1>1, <1>2, StoredFacts
<1>4. /\ k = round[r] /\ i = info[r][h].ibatch + 1 /\ i \in 1 .. Batches(c)
      /\ i - 1 = info[r][h].ibatch /\ CountGot(r, s) /\ Count(r, info[r][h]) = c
      /\ Len(ValueAt(s, r, k, i)) = BatchLen(c, info[r][h].ibatch)
  BY <1>1, NextBatch
<1>5. c \in Nat /\ Batches(c) \in Nat
  BY <1>3, BatchBounds, BoundsAssumption
<1>6. i # 0 /\ i \in 0 .. Batches(c)
  BY <1>4, <1>5
<1>7. BatchLen(c, i - 1) \in Nat
  BY <1>4, <1>5, BatchEnds
<1> QED BY <1>1, <1>3, <1>4, <1>6, <1>7, Zenon DEF Asked

\* What recv_handler has stored when it asks for the next batch.
LEMMA StoredBefore ==
  ASSUME NEW r \in Ranks, NEW s \in Ranks, TypeInv, UserType, NEW h \in Handles,
         info[r][h].peer = s, NEW k, NEW i, Takes(r, s, h, k, i), i - 1 = info[r][h].ibatch,
         sent' = sent, round'[r] = round[r], countMem'[r][s] = countMem[r][s],
         recvBuf'[r][s] = Stored(r, info[r][h])
  PROVE  CountGot(r, s)' /\ FilledTo(r, s, (i - 1) * PerBatch)'
<1>1. PICK c, v : c = CountOf(s, r, round[r]) /\ v = Stored(r, info[r][h])
  OBVIOUS
<1>2. CountGot(r, s)' /\ CountOf(s, r, round[r])' = c
  BY <1>1 DEF Takes, CountGot, CountOf
<1>3. /\ Len(v) >= c
      /\ \A e \in 1 .. c : e <= (i - 1) * PerBatch => v[e] = DataWord(s, r, round[r], e)
  BY <1>1, StoredFacts
<1> QED BY <1>1, <1>2, <1>3 DEF FilledTo

\* recv_handler whose next receive completes at once takes one message more from the stream.
LEMMA NowDel ==
  ASSUME NEW r \in Ranks, TypeInv, \A p \in Ranks : RankInv(p), DelInv, RecvHandlerNow(r)
  PROVE  DelInv'
<1>0. PICK h, q, s, b, v, u :
        /\ h = Head(stack[r]) /\ q = NewRequest(r) /\ s = info[r][h].peer /\ b = info[r][h].buf
        /\ v = Landing(Head(net[s][r]), BatchLen(Count(r, info[r][h]), info[r][h].ibatch))
        /\ u = Stored(r, info[r][h])
  OBVIOUS
<1>1. /\ HandlerReady(r) /\ free[r] # {} /\ Arrived(s, r) /\ Remaining(r, info[r][h]) > 0
      /\ Land(r, s, b, v)
      /\ net' = [net EXCEPT ![s][r] = Tail(net[s][r])]
      /\ NextStep(r, h, q)
      /\ stack' = [stack EXCEPT ![r] = IF Mark(info[r][q]).orig # Null THEN <<q>> \o stack[r] ELSE stack[r]]
      /\ mode' = [mode EXCEPT ![r] = IF Mark(info[r][q]).orig # Null THEN "call" ELSE "return"]
      /\ UNCHANGED <<pc, idx, round, done, posted, sent>>
  BY <1>0, Zenon DEF RecvHandlerNow, RecvNbEarly, RecvHandlerNext, NextStep, loop
<1>3. RankInv(r) /\ NextGiven(r, h, q)
  <2>1. HandlerReady(r) /\ free[r] # {} /\ NextStep(r, h, q) /\ RankInv(r)
    BY <1>1
  <2>2. h = Head(stack[r]) /\ q = NewRequest(r)
    BY <1>0
  <2> QED BY <2>1, <2>2, NextGives
<1>4. /\ h \in Handles /\ q \in Handles /\ h # q /\ h \notin InUCX(r) /\ q \notin InUCX(r)
      /\ Open(r) /\ b \in Buffers /\ s \in Ranks /\ info[r][q].orig = Null
  BY <1>0, <1>3 DEF NextGiven
<1>5. Mark(info[r][q]).orig # Null
  BY <1>3 DEF NextGiven
<1>6. /\ info'[r][q].peer = s /\ info'[r][q].buf = b
      /\ info'[r][q].ibatch = info[r][h].ibatch + 1
      /\ \A a \in Handles : a # h /\ a # q => info'[r][a] = info[r][a]
  BY <1>0, <1>3 DEF NextGiven
<1>2. recvBuf' = [recvBuf EXCEPT ![r][s] = u]
  <2>1. recvBuf' = [recvBuf EXCEPT ![r][[info[r][h] EXCEPT !.ibatch = info[r][h].ibatch + 1].peer] = u]
    BY <1>0, Zenon DEF RecvHandlerNow, RecvHandlerNext
  <2>2. info[r][h] \in Info
    BY <1>4 DEF TypeInv
  <2>3. [info[r][h] EXCEPT !.ibatch = info[r][h].ibatch + 1].peer = s
    BY <1>0, <2>2 DEF Info
  <2> QED BY <2>1, <2>3
<1>7. stack'[r][1] = q /\ stack'[r] # << >> /\ mode'[r] = "call"
  <2>1. stack \in [Ranks -> Seq(Handles)] /\ mode \in [Ranks -> {"call", "return"}]
    BY DEF TypeInv
  <2>2. stack'[r] = <<q>> \o stack[r] /\ mode'[r] = "call"
    BY <1>1, <1>5, <2>1
  <2> DEFINE o == <<q>>
             t == o \o stack[r]
  <2>3. o \in Seq(Handles) /\ stack[r] \in Seq(Handles) /\ Len(o) = 1 /\ o[1] = q
    BY <1>4, <2>1
  <2> HIDE DEF o
  <2>4. t[1] = q /\ Len(t) = 1 + Len(stack[r]) /\ Len(stack[r]) \in Nat
    BY <2>3, ConcatProperties, LenProperties
  <2>5. t # << >>
    BY <2>4
  <2>6. stack'[r] = t
    BY <2>2 DEF o
  <2> QED BY <2>2, <2>4, <2>5, <2>6
<1>8. \A p \in Ranks : DueFor(r, p)' = IF p = s THEN {q} ELSE {}
  <2>1. Due(r)' = {q}
    BY <1>7 DEF Due, HandlerReady
  <2> QED BY <1>6, <2>1 DEF DueFor
<1>9. mem' = [mem EXCEPT ![r][b] = v] /\ countMem' = countMem /\ mem'[r][b] = v
  <2>1. b # Null
    BY <1>4 DEF Buffers, Null
  <2>2. mem' = [mem EXCEPT ![r][b] = v] /\ countMem' = countMem
    BY <1>1, <2>1 DEF Land
  <2>3. mem \in [Ranks -> [Buffers -> Seq(Word)]]
    BY DEF TypeInv
  <2> QED BY <1>4, <2>2, <2>3
<1>10. PICK c : c = CountOf(s, r, round[r])
  OBVIOUS
<1>11. UserType
  BY DEF DelInv
<1>12. u \in Seq(Word)
  <2>1. PICK k, i : ReceiverAt(r, s, k, i)
    BY <1>4 DEF DelInv, Between
  <2>2. Takes(r, s, h, k, i)
    BY <1>0, <1>1, <1>3, <2>1, CalledAt
  <2> QED BY <1>0, <1>4, <1>10, <1>11, <2>2, StoredFacts
<1>13. /\ recvBuf'[r][s] = u /\ \A p \in Ranks : p # s => recvBuf'[r][p] = recvBuf[r][p]
       /\ \A p \in Ranks : p # r => recvBuf'[p] = recvBuf[p]
       /\ recvBuf' \in [Ranks -> [Ranks -> Seq(Word)]]
  BY <1>2, <1>4, <1>11, <1>12 DEF UserType
<1>14. Bystanders(r)
  <2>1. Elsewhere(r)
    BY NowRank
  <2> QED BY <1>1, <1>9, <1>13, <2>1 DEF Bystanders, Elsewhere
<1>15. Unsent(r)
  <2>1. \A a \in InUCX(r) : a \in Handles /\ a # h /\ a # q
    BY <1>4, <1>5 DEF InUCX, ReqsIn, TypeInv
  <2> QED BY <1>1, <1>6, <2>1 DEF Unsent
<1>16. \A p \in Ranks : p # s => ReceiverStays(r, p)
  <2>1. \A p \in Ranks : p # s => DueFor(r, p) = {}
    BY <1>0, <1>1, <1>3, NotCalled
  <2> QED BY <1>1, <1>3, <1>8, <1>9, <1>13, <1>15, <2>1, OtherReceive
<1>17. ASSUME NEW k, NEW i, NEW l, NEW m, Given(r, s, Head(net[s][r]).val, k, i, l, m)
       PROVE  ReceiverAt(r, s, l, m)'
  <2>1. /\ s \in Peers(r) /\ ~ NotYet(r, s) /\ posted[r][s] = << >> /\ Takes(r, s, h, k, i)
        /\ Head(net[s][r]).val = ValueAt(s, r, k, i) /\ IsAfter(s, r, k, i, l, m)
    BY <1>0, <1>1, <1>3, <1>17, CalledAt DEF Given
  <2>2. Asked(r, s, h, k, i)
    <3>1. info[r][h].peer = s /\ Remaining(r, info[r][h]) > 0 /\ Takes(r, s, h, k, i)
      BY <1>0, <1>1, <2>1
    <3> QED BY <1>4, <1>11, <3>1, AskedBatch
  <2>3. v = ValueAt(s, r, k, i)
    <3>1. /\ Head(net[s][r]).val = ValueAt(s, r, k, i)
          /\ Len(ValueAt(s, r, k, i)) = BatchLen(Count(r, info[r][h]), info[r][h].ibatch)
          /\ BatchLen(Count(r, info[r][h]), info[r][h].ibatch) \in Nat
      BY <2>1, <2>2 DEF Asked
    <3>2. v = Landing(Head(net[s][r]), BatchLen(Count(r, info[r][h]), info[r][h].ibatch))
      BY <1>0
    <3> QED BY <3>1, <3>2 DEF Landing
  <2>4. CountGot(r, s)' /\ FilledTo(r, s, (i - 1) * PerBatch)'
    <3>1. /\ info[r][h].peer = s /\ Takes(r, s, h, k, i) /\ i - 1 = info[r][h].ibatch
          /\ sent' = sent /\ round'[r] = round[r] /\ countMem'[r][s] = countMem[r][s]
          /\ recvBuf'[r][s] = Stored(r, info[r][h])
      BY <1>0, <1>1, <1>9, <1>13, <2>1, <2>2 DEF Asked
    <3> QED BY <1>4, <1>11, <3>1, StoredBefore
  <2>5. /\ CountOf(s, r, k)' = CountOf(s, r, k) /\ ValueAt(s, r, k, i)' = ValueAt(s, r, k, i)
        /\ IsAfter(s, r, k, i, l, m)'
    <3>1. SentGrows(s, r) /\ k \in 1 .. Len(sent[s][r])
      BY <1>1, <2>2 DEF SentGrows, CountGot, Asked
    <3> QED BY <2>1, <3>1, PointKept
  <2>6. Takes(r, s, q, l, m)'
    <3>1. round'[r] = k /\ info'[r][q].ibatch = i /\ info'[r][q].buf = b /\ i # 0
      BY <1>1, <1>6, <2>2 DEF Asked
    <3>2. i \in 0 .. Batches(CountOf(s, r, k)')
      BY <2>2, <2>5 DEF Asked
    <3>3. mem'[r][b] = ValueAt(s, r, k, i)'
      BY <1>9, <2>3, <2>5
    <3> QED BY <2>4, <2>5, <3>1, <3>2, <3>3, Zenon DEF Takes, Batches
  <2>7. ~ NotYet(r, s)' /\ Open(r)' /\ posted'[r][s] = << >>
    BY <1>1, <1>4, <2>1 DEF NotYet, Open
  <2>8. q \in Due(r)' /\ DueFor(r, s)' = {q}
    <3>1. DueFor(r, s)' = {q}
      BY <1>4, <1>8
    <3> QED BY <3>1 DEF DueFor
  <2>9. IsCalled(r, s, l, m)'
    BY <2>6, <2>7, <2>8 DEF IsCalled
  <2> QED BY <2>1, <2>9 DEF ReceiverAt, Peers
<1>18. \A d \in Ranks : SendReqs(r, d)' = SendReqs(r, d) => SenderStays(r, d)
  BY <1>3, <1>15, SendersIf
<1>19. UserType'
  BY <1>1, <1>11, <1>13 DEF UserType, Word
<1>20. done' = done /\ \A a \in done[r] : info'[r][a].peer = info[r][a].peer
  BY <1>1, <1>15 DEF Unsent, InUCX
<1>21. sent' = sent /\ Arrived(s, r) /\ net' = [net EXCEPT ![s][r] = Tail(net[s][r])]
  BY <1>1
<1> QED BY <1>4, <1>14, <1>16, <1>17, <1>18, <1>19, <1>20, <1>21, OneTakes

\* recv_handler whose next receive has to wait posts it for the next position.
LEMMA LaterDel ==
  ASSUME NEW r \in Ranks, TypeInv, \A p \in Ranks : RankInv(p), DelInv, RecvHandlerLater(r)
  PROVE  DelInv'
<1>0. PICK h, q, s, b, n, u, p :
        /\ h = Head(stack[r]) /\ q = NewRequest(r) /\ s = info[r][h].peer /\ b = info[r][h].buf
        /\ n = BatchLen(Count(r, info[r][h]), info[r][h].ibatch)
        /\ u = Stored(r, info[r][h])
        /\ p = [req |-> q, dst |-> b, n |-> n]
  OBVIOUS
<1>1. /\ HandlerReady(r) /\ free[r] # {} /\ Remaining(r, info[r][h]) > 0
      /\ posted' = [posted EXCEPT ![r][s] = Append(posted[r][s], p)]
      /\ NextStep(r, h, q)
      /\ stack' = [stack EXCEPT ![r] = IF info[r][q].orig # Null THEN <<q>> \o stack[r] ELSE stack[r]]
      /\ mode' = [mode EXCEPT ![r] = IF info[r][q].orig # Null THEN "call" ELSE "return"]
      /\ UNCHANGED <<pc, idx, round, done, net, mem, countMem, sent>>
  BY <1>0, Zenon DEF RecvHandlerLater, RecvNbPost, RecvHandlerNext, NextStep, loop
<1>3. RankInv(r) /\ NextGiven(r, h, q)
  <2>1. HandlerReady(r) /\ free[r] # {} /\ NextStep(r, h, q) /\ RankInv(r)
    BY <1>1
  <2>2. h = Head(stack[r]) /\ q = NewRequest(r)
    BY <1>0
  <2> QED BY <2>1, <2>2, NextGives
<1>4. /\ h \in Handles /\ q \in Handles /\ h # q /\ h \notin InUCX(r) /\ q \notin InUCX(r)
      /\ Open(r) /\ b \in Buffers /\ s \in Ranks /\ info[r][q].orig = Null
  BY <1>0, <1>3 DEF NextGiven
<1>6. /\ info'[r][q].peer = s /\ info'[r][q].buf = b
      /\ info'[r][q].ibatch = info[r][h].ibatch + 1
      /\ \A a \in Handles : a # h /\ a # q => info'[r][a] = info[r][a]
  BY <1>0, <1>3 DEF NextGiven
<1>2. recvBuf' = [recvBuf EXCEPT ![r][s] = u]
  <2>1. recvBuf' = [recvBuf EXCEPT ![r][[info[r][h] EXCEPT !.ibatch = info[r][h].ibatch + 1].peer] = u]
    BY <1>0, Zenon DEF RecvHandlerLater, RecvHandlerNext
  <2>2. info[r][h] \in Info
    BY <1>4 DEF TypeInv
  <2>3. [info[r][h] EXCEPT !.ibatch = info[r][h].ibatch + 1].peer = s
    BY <1>0, <2>2 DEF Info
  <2> QED BY <2>1, <2>3
<1>7. mode'[r] = "return"
  BY <1>1, <1>4 DEF TypeInv
<1>8. \A e \in Ranks : DueFor(r, e)' = {}
  BY <1>7 DEF DueFor, Due, HandlerReady
<1>9. /\ posted'[r][s] = Append(posted[r][s], p) /\ \A e \in Ranks : e # s => posted'[r][e] = posted[r][e]
  BY <1>1, <1>4 DEF TypeInv
<1>11. UserType
  BY DEF DelInv
<1>12. u \in Seq(Word)
  <2>1. PICK k, i : ReceiverAt(r, s, k, i)
    BY <1>4 DEF DelInv, Between
  <2>2. Takes(r, s, h, k, i)
    BY <1>0, <1>1, <1>3, <2>1, CalledAt
  <2>3. PICK c : c = CountOf(s, r, round[r])
    OBVIOUS
  <2> QED BY <1>0, <1>4, <1>11, <2>2, <2>3, StoredFacts
<1>13. /\ recvBuf'[r][s] = u /\ \A e \in Ranks : e # s => recvBuf'[r][e] = recvBuf[r][e]
       /\ \A e \in Ranks : e # r => recvBuf'[e] = recvBuf[e]
       /\ recvBuf' \in [Ranks -> [Ranks -> Seq(Word)]]
  BY <1>2, <1>4, <1>11, <1>12 DEF UserType
<1>14. Bystanders(r)
  <2>1. Elsewhere(r)
    BY LaterTyped
  <2> QED BY <1>1, <1>13, <2>1 DEF Bystanders, Elsewhere
<1>15. Unsent(r)
  <2>1. \A a \in InUCX(r) : a \in Handles /\ a # h /\ a # q
    BY <1>4 DEF InUCX, ReqsIn, TypeInv
  <2> QED BY <1>1, <1>6, <2>1 DEF Unsent
<1>16. \A e \in Ranks : e # s => ReceiverStays(r, e)
  <2>1. \A e \in Ranks : e # s => DueFor(r, e) = {}
    BY <1>0, <1>1, <1>3, NotCalled
  <2> QED BY <1>1, <1>3, <1>8, <1>9, <1>13, <1>15, <2>1, OtherReceive
<1>17. ReceiverStays(r, s)
  <2> SUFFICES ASSUME NEW k, NEW i, ReceiverAt(r, s, k, i)
               PROVE  ReceiverAt(r, s, k, i)'
    BY DEF ReceiverStays
  <2>1. /\ s \in Peers(r) /\ ~ NotYet(r, s) /\ posted[r][s] = << >> /\ Takes(r, s, h, k, i)
    <3>1. HandlerReady(r) /\ h = Head(stack[r]) /\ s = info[r][h].peer /\ RankInv(r)
      BY <1>0, <1>1
    <3> QED BY <3>1, CalledAt
  <2>2. Asked(r, s, h, k, i)
    <3>1. info[r][h].peer = s /\ Remaining(r, info[r][h]) > 0 /\ Takes(r, s, h, k, i)
      BY <1>0, <1>1, <2>1
    <3> QED BY <1>4, <1>11, <3>1, AskedBatch
  <2>3. n = BatchLen(CountOf(s, r, k), i - 1) /\ n \in Nat
    BY <1>0, <2>2 DEF Asked
  <2>4. CountGot(r, s)' /\ FilledTo(r, s, (i - 1) * PerBatch)'
    <3>1. /\ info[r][h].peer = s /\ Takes(r, s, h, k, i) /\ i - 1 = info[r][h].ibatch
          /\ sent' = sent /\ round'[r] = round[r] /\ countMem'[r][s] = countMem[r][s]
          /\ recvBuf'[r][s] = Stored(r, info[r][h])
      BY <1>0, <1>1, <1>13, <2>1, <2>2 DEF Asked
    <3> QED BY <1>4, <1>11, <3>1, StoredBefore
  <2>5. CountOf(s, r, k)' = CountOf(s, r, k)
    BY <1>1 DEF CountOf
  <2>6. p \in Receive /\ p.req = q /\ p.dst = b /\ p.n = n /\ b # Null
    BY <1>0, <1>4, <2>3 DEF Receive, Buffers, Null
  <2>7. posted'[r][s] = <<p>>
    BY <1>9, <2>1, <2>6
  <2>8. round'[r] = k /\ info'[r][q].ibatch = i /\ info'[r][q].peer = s
    BY <1>1, <1>6, <2>2 DEF Asked
  <2>9. i \in 1 .. Batches(CountOf(s, r, k)')
    BY <2>2, <2>5 DEF Asked
  <2>10. Awaits(r, s, p, k, i)'
    BY <2>3, <2>4, <2>5, <2>6, <2>8, <2>9, Zenon DEF Awaits, Batches, BatchLen, Null
  <2>11. ~ NotYet(r, s)' /\ Open(r)'
    BY <1>1, <1>4, <2>1 DEF NotYet, Open
  <2>12. IsPosted(r, s, k, i)'
    <3>1. DueFor(r, s)' = {}
      BY <1>4, <1>8
    <3> QED BY <2>6, <2>7, <2>10, <2>11, <3>1, Zenon DEF IsPosted, Receive, Handles
  <2> QED BY <2>1, <2>12 DEF ReceiverAt, Peers
<1>18. \A d \in Ranks : SenderStays(r, d)
  BY <1>1, <1>3, <1>15, SendersUntouched
<1>19. UserType'
  BY <1>1, <1>11, <1>13 DEF UserType, Word
<1>20. \A e \in Ranks : ReceiverStays(r, e)
  BY <1>16, <1>17
<1>21. net' = net /\ sent' = sent
  BY <1>1
<1> QED BY <1>14, <1>18, <1>19, <1>20, <1>21, NothingMoves

\* A batch has the length that its receive asks for.
LEMMA ValueLen ==
  ASSUME NEW s, NEW d, NEW k, NEW c \in Nat, c = CountOf(s, d, k), NEW i \in 1 .. Batches(c)
  PROVE  Len(ValueAt(s, d, k, i)) = BatchLen(c, i - 1) /\ BatchLen(c, i - 1) \in Nat
<1>1. BatchLen(c, i - 1) \in Nat /\ i # 0
  BY BatchEnds, BatchBounds
<1>2. PICK z : z = BatchLen(c, i - 1)
  OBVIOUS
<1>3. PICK w : w = [j \in 1 .. z |-> DataWord(s, d, k, (i - 1) * PerBatch + j)]
  OBVIOUS
<1>4. ValueAt(s, d, k, i) = w
  <2>1. ValueAt(s, d, k, i) = BatchOf(s, d, k, i - 1)
    BY <1>1 DEF ValueAt
  <2>2. BatchOf(s, d, k, i - 1) = w
    BY <1>2, <1>3, Zenon DEF BatchOf
  <2> QED BY <2>1, <2>2
<1>5. Len(w) = z
  BY <1>1, <1>2, <1>3
<1> QED BY <1>1, <1>2, <1>4, <1>5

\* The first message of a round is its count.
LEMMA CountLands ==
  ASSUME NEW s, NEW r, NEW k, NEW m, m.val = ValueAt(s, r, k, 0)
  PROVE  At(Landing(m, 1), 1) = CountWord(s, r, k, CountOf(s, r, k))
<1>1. PICK x : x = CountWord(s, r, k, CountOf(s, r, k))
  OBVIOUS
<1>2. PICK y : y = <<x>>
  OBVIOUS
<1>3. Len(y) = 1 /\ 1 \in DOMAIN y /\ y[1] = x
  BY <1>2
<1>4. m.val = y
  BY <1>1, <1>2 DEF ValueAt
<1>5. Landing(m, 1) = m.val
  BY <1>3, <1>4, 1 <= 1 DEF Landing
<1> QED BY <1>1, <1>3, <1>4, <1>5 DEF At

\* What has been sent is a count.
LEMMA CountSent ==
  ASSUME NEW s \in Ranks, NEW r \in Ranks, UserType, NEW k \in 1 .. Len(sent[s][r])
  PROVE  CountOf(s, r, k) \in Nat /\ Batches(CountOf(s, r, k)) \in Nat
<1>1. PICK t : t = sent[s][r]
  OBVIOUS
<1>2. t \in Seq(0 .. MaxCount) /\ k \in 1 .. Len(t) /\ CountOf(s, r, k) = t[k]
  BY <1>1 DEF UserType, CountOf
<1>3. t[k] \in 0 .. MaxCount
  BY <1>2, ElementOfSeq, Zenon
<1>4. CountOf(s, r, k) \in Nat
  BY <1>2, <1>3, BoundsAssumption
<1> QED BY <1>4, BatchBounds

\* The receiver has got the count of its round.
LEMMA CountTaken ==
  ASSUME NEW s \in Ranks, NEW r \in Ranks, UserType, SentGrows(s, r), NEW k,
         k \in 1 .. Len(sent[s][r]), NEW q, NEW l, NEW m, IsAfter(s, r, k, 0, l, m),
         round'[r] = k, info'[r][q].ibatch = 0, Fresh(r, s)',
         countMem'[r][s] = CountWord(s, r, k, CountOf(s, r, k))
  PROVE  Takes(r, s, q, l, m)'
<1>1. /\ CountOf(s, r, k)' = CountOf(s, r, k) /\ k \in 1 .. Len(sent'[s][r])
      /\ IsAfter(s, r, k, 0, l, m)'
  BY PointKept
<1>2. CountGot(r, s)'
  BY <1>1, Zenon DEF CountGot, CountWord
<1>3. 0 \in 0 .. Batches(CountOf(s, r, k))
  BY CountSent
<1> QED BY <1>1, <1>2, <1>3, Zenon DEF Takes, Batches

\* A receive that is posted is the one its source is waited for with.
LEMMA PostedAt ==
  ASSUME NEW r \in Ranks, NEW s \in Ranks, TypeInv, posted[r][s] # << >>,
         NEW p, p = Head(posted[r][s]), pc[r] # "thrown", NEW k, NEW i, ReceiverAt(r, s, k, i)
  PROVE  /\ s \in Peers(r) /\ ~ NotYet(r, s) /\ Open(r) /\ p \in Receive
         /\ posted[r][s] = <<p>> /\ Awaits(r, s, p, k, i)
<1>1. s \in Peers(r) /\ IsPosted(r, s, k, i)
  BY DEF ReceiverAt, Quiet, ToCome, HasAll, IsCalled
<1>2. PICK x \in Receive : posted[r][s] = <<x>> /\ Awaits(r, s, x, k, i)
  BY <1>1 DEF IsPosted
<1>3. p = x
  BY <1>2
<1> QED BY <1>1, <1>2, <1>3 DEF IsPosted

\* Progress that completes a posted receive takes the message of its position.
LEMMA ProgressRecvDel ==
  ASSUME NEW r \in Ranks, NEW s \in Ranks, TypeInv, \A p \in Ranks : RankInv(p), DelInv,
         ProgressRecv(r, s)
  PROVE  DelInv'
<1>0. PICK p, q, v : /\ p = Head(posted[r][s]) /\ q = p.req
                     /\ v = Landing(Head(net[s][r]), p.n)
  OBVIOUS
<1>1. /\ Polling(r) /\ posted[r][s] # << >> /\ Arrived(s, r)
      /\ Land(r, s, p.dst, v)
      /\ net' = [net EXCEPT ![s][r] = Tail(net[s][r])]
      /\ posted' = [posted EXCEPT ![r][s] = Tail(posted[r][s])]
      /\ stack' = [stack EXCEPT ![r] = <<q>>]
      /\ mode' = [mode EXCEPT ![r] = "call"]
      /\ UNCHANGED <<pc, idx, round, info, done, recvBuf, sent>>
  BY <1>0, Zenon DEF ProgressRecv, loop
<1>2. RankInv(r) /\ pc[r] = "stop" /\ stack[r] = << >> /\ Open(r)
  BY <1>1 DEF Polling, Idle, Open
<1>3. UserType
  BY DEF DelInv
<1>4. PICK k0, i0 : ReceiverAt(r, s, k0, i0)
  BY DEF DelInv, Between
<1>5. s \in Peers(r) /\ ~ NotYet(r, s) /\ p \in Receive /\ posted[r][s] = <<p>>
  <2>1. posted[r][s] # << >> /\ p = Head(posted[r][s]) /\ pc[r] # "thrown"
    BY <1>0, <1>1, <1>2
  <2> QED BY <1>4, <2>1, PostedAt
<1>6. q \in Handles /\ info[r][q].peer = s
  <2>1. posted[r][s] # << >> /\ p = Head(posted[r][s]) /\ pc[r] # "thrown"
    BY <1>0, <1>1, <1>2
  <2>2. Awaits(r, s, p, k0, i0)
    BY <1>4, <2>1, PostedAt
  <2> QED BY <1>0, <1>5, <2>2 DEF Awaits, Receive
<1>7. \A e \in Ranks : DueFor(r, e) = {} /\ DueFor(r, e)' = IF e = s THEN {q} ELSE {}
  <2>1. stack'[r] = <<q>> /\ mode'[r] = "call"
    BY <1>1 DEF TypeInv
  <2>2. <<q>> # << >> /\ <<q>>[1] = q
    OBVIOUS
  <2>3. Due(r)' = {q} /\ Due(r) = {}
    BY <1>2, <2>1, <2>2 DEF Due, HandlerReady
  <2> QED BY <1>1, <1>6, <2>3 DEF DueFor
<1>8. posted'[r][s] = << >> /\ \A e \in Ranks : e # s => posted'[r][e] = posted[r][e]
  <2>1. posted \in [Ranks -> [Ranks -> Seq(Receive)]]
    BY DEF TypeInv
  <2>2. Tail(<<p>>) = << >>
    OBVIOUS
  <2> QED BY <1>1, <1>5, <2>1, <2>2
<1>9. /\ \A e \in Ranks : e # s => countMem'[r][e] = countMem[r][e]
      /\ \A e \in Ranks : e # r => countMem'[e] = countMem[e]
      /\ p.dst = Null => countMem'[r][s] = At(v, 1)
      /\ p.dst # Null => countMem' = countMem /\ mem'[r][p.dst] = v
  <2>1. countMem \in [Ranks -> [Ranks -> Word]] /\ mem \in [Ranks -> [Buffers -> Seq(Word)]]
    BY DEF TypeInv
  <2>2. CASE p.dst = Null
    BY <1>1, <2>1, <2>2 DEF Land
  <2>3. CASE p.dst # Null
    <3>1. p.dst \in Buffers
      <4>1. p \in Items(posted[r]) /\ q \in InUCX(r)
        BY <1>0, <1>2, <1>5, PostedReq
      <4>2. p.dst = BufOf(r, q)
        BY <1>0, <1>2, <2>3, <4>1 DEF RankInv, ReadInv
      <4>3. q \in Active(r)
        BY <4>1 DEF Active
      <4> QED BY <1>2, <4>2, <4>3, BufsApart DEF RankInv
    <3> QED BY <1>1, <2>1, <2>3, <3>1 DEF Land
  <2> QED BY <2>2, <2>3
<1>10. Bystanders(r)
  <2>1. Elsewhere(r)
    BY ProgressRecvRank
  <2> QED BY <1>1, <1>9, <2>1 DEF Bystanders, Elsewhere
<1>11. Unsent(r)
  BY <1>1 DEF Unsent
<1>12. \A e \in Ranks : e # s => ReceiverStays(r, e)
  BY <1>1, <1>2, <1>7, <1>8, <1>9, <1>11, OtherReceive
<1>13. ASSUME NEW k, NEW i, NEW l, NEW m, Given(r, s, Head(net[s][r]).val, k, i, l, m)
       PROVE  ReceiverAt(r, s, l, m)'
  <2>1. /\ ReceiverAt(r, s, k, i) /\ Issued(s, r, k, i)
        /\ Head(net[s][r]).val = ValueAt(s, r, k, i) /\ IsAfter(s, r, k, i, l, m)
    BY <1>13 DEF Given
  <2>2. Awaits(r, s, p, k, i)
    <3>1. posted[r][s] # << >> /\ p = Head(posted[r][s]) /\ pc[r] # "thrown"
      BY <1>0, <1>1, <1>2
    <3> QED BY <2>1, <3>1, PostedAt
  <2>3. k = round[r] /\ i = info[r][q].ibatch /\ k \in 1 .. Len(sent[s][r])
    BY <1>0, <2>1, <2>2 DEF Awaits, Issued
  <2>4. PICK c : c = CountOf(s, r, k)
    OBVIOUS
  <2>5. c \in Nat /\ i \in 0 .. Batches(c)
    BY <1>3, <2>1, <2>3, <2>4, CountSent DEF Issued
  <2>6. /\ CountOf(s, r, k)' = c /\ ValueAt(s, r, k, i)' = ValueAt(s, r, k, i)
        /\ IsAfter(s, r, k, i, l, m)' /\ k \in 1 .. Len(sent'[s][r])
    <3>1. SentGrows(s, r)
      BY <1>1 DEF SentGrows
    <3> QED BY <2>1, <2>3, <2>4, <3>1, PointKept
  <2>7. round'[r] = k /\ info'[r][q].ibatch = i /\ recvBuf'[r][s] = recvBuf[r][s]
    BY <1>1, <2>3
  <2>8. Takes(r, s, q, l, m)'
    <3>1. CASE p.dst = Null
      <4>1. p.n = 1 /\ i = 0 /\ Fresh(r, s)
        BY <2>2, <3>1 DEF Awaits
      <4>2. countMem'[r][s] = CountWord(s, r, k, CountOf(s, r, k))
        <5>1. PICK z : z = Head(net[s][r])
          OBVIOUS
        <5>2. z.val = ValueAt(s, r, k, 0) /\ v = Landing(z, 1)
          BY <1>0, <2>1, <4>1, <5>1
        <5>3. At(Landing(z, 1), 1) = CountWord(s, r, k, CountOf(s, r, k))
          BY <5>2, CountLands
        <5> QED BY <1>9, <3>1, <5>2, <5>3
      <4>3. Fresh(r, s)'
        BY <2>7, <4>1 DEF Fresh
      <4>4. SentGrows(s, r)
        BY <1>1 DEF SentGrows
      <4>5. IsAfter(s, r, k, 0, l, m) /\ info'[r][q].ibatch = 0
        BY <2>1, <2>7, <4>1
      <4> QED BY <1>3, <2>3, <2>7, <4>2, <4>3, <4>4, <4>5, CountTaken
    <3>2. CASE p.dst # Null
      <4>1. /\ CountGot(r, s) /\ i \in 1 .. Batches(c)
            /\ p.n = BatchLen(c, i - 1) /\ FilledTo(r, s, (i - 1) * PerBatch)
        BY <2>2, <2>3, <2>4, <3>2 DEF Awaits
      <4>2. Len(ValueAt(s, r, k, i)) = p.n /\ p.n \in Nat /\ i # 0
        BY <2>4, <2>5, <4>1, ValueLen, BatchBounds
      <4>3. v = ValueAt(s, r, k, i)
        BY <1>0, <2>1, <4>2 DEF Landing
      <4>4. p.dst = info[r][q].buf
        <5>1. p \in Items(posted[r])
          BY <1>2, <1>5, PostedReq
        <5> QED BY <1>0, <1>2, <3>2, <5>1 DEF RankInv, ReadInv, BufOf
      <4>5. mem'[r][info'[r][q].buf] = ValueAt(s, r, k, i)'
        BY <1>1, <1>9, <2>6, <3>2, <4>3, <4>4
      <4>6. CountGot(r, s)' /\ FilledTo(r, s, (i - 1) * PerBatch)'
        <5>1. SentGrows(s, r) /\ round'[r] = round[r] /\ countMem'[r][s] = countMem[r][s]
          BY <1>1, <1>9, <3>2 DEF SentGrows
        <5> QED BY <2>7, <4>1, <5>1, GotKept
      <4> QED BY <2>5, <2>6, <2>7, <4>2, <4>5, <4>6, Zenon DEF Takes, Batches
    <3> QED BY <3>1, <3>2
  <2>9. ~ NotYet(r, s)' /\ Open(r)' /\ posted'[r][s] = << >>
    BY <1>1, <1>2, <1>5, <1>8 DEF NotYet, Open
  <2>10. q \in Due(r)' /\ DueFor(r, s)' = {q}
    <3>1. DueFor(r, s)' = {q}
      BY <1>7
    <3> QED BY <3>1 DEF DueFor
  <2>11. IsCalled(r, s, l, m)'
    BY <2>8, <2>9, <2>10 DEF IsCalled
  <2> QED BY <1>5, <2>11 DEF ReceiverAt, Peers
<1>14. \A d \in Ranks : SendReqs(r, d)' = SendReqs(r, d) => SenderStays(r, d)
  BY <1>2, <1>11, SendersIf
<1>15. UserType'
  BY <1>1, <1>3 DEF UserType, Word
<1>16. done' = done /\ \A a \in done[r] : info'[r][a].peer = info[r][a].peer
  BY <1>1
<1>17. sent' = sent /\ Arrived(s, r) /\ net' = [net EXCEPT ![s][r] = Tail(net[s][r])]
  BY <1>1
<1> QED BY <1>10, <1>12, <1>13, <1>14, <1>15, <1>16, <1>17, OneTakes

\* The transfers of these handles stay where they are.
Keeps(r, A) ==
  \A a \in A : /\ info'[r][a].peer = info[r][a].peer
               /\ info'[r][a].count = info[r][a].count
               /\ info'[r][a].ibatch = info[r][a].ibatch

\* The posted receive of a source is among the rank's posted receives.
LEMMA PostedItem ==
  ASSUME NEW r, NEW s \in Ranks, NEW p, posted[r][s] = <<p>>
  PROVE  p \in Items(posted[r])
<1>1. Len(posted[r][s]) = 1 /\ posted[r][s][1] = p
  OBVIOUS
<1>2. 1 \in 1 .. Len(posted[r][s])
  BY <1>1
<1>3. p \in {posted[r][s][j] : j \in 1 .. Len(posted[r][s])}
  BY <1>1, <1>2
<1> QED BY <1>3, Zenon DEF Items

\* A step for one peer keeps the receiver's position towards another.
LEMMA OtherRecv ==
  ASSUME NEW r \in Ranks, NEW s \in Ranks, TypeInv, Keeps(r, ReqsIn(posted[r])), SentGrows(s, r),
         Open(r), Open(r)', round'[r] = round[r],
         s \in Peers(r) => (NotYet(r, s)' <=> NotYet(r, s)),
         posted'[r][s] = posted[r][s], countMem'[r][s] = countMem[r][s],
         recvBuf'[r][s] = recvBuf[r][s], DueFor(r, s) = {}, DueFor(r, s)' = {}
  PROVE  ReceiverStays(r, s)
<1>1. CASE s \in Peers(r)
  <2>1. \A p \in Receive : posted[r][s] = <<p>> =>
          info'[r][p.req].peer = info[r][p.req].peer /\ info'[r][p.req].ibatch = info[r][p.req].ibatch
    <3>1. \A p \in Receive : posted[r][s] = <<p>> => p.req \in ReqsIn(posted[r])
      <4> SUFFICES ASSUME NEW p \in Receive, posted[r][s] = <<p>>
                   PROVE  p.req \in ReqsIn(posted[r])
        OBVIOUS
      <4>1. p \in Items(posted[r])
        BY PostedItem
      <4> QED BY <4>1 DEF ReqsIn, Receive
    <3> QED BY <3>1 DEF Keeps
  <2>2. pc[r] # "thrown"
    BY DEF Open
  <2>3. RecvSame(r, s)
    BY <1>1, <2>1, <2>2 DEF RecvSame
  <2> QED BY <2>3, RecvStays DEF ReceiverStays
<1>2. CASE s \notin Peers(r)
  BY <1>2, Zenon DEF ReceiverStays, ReceiverAt, Quiet, Peers, Ranks
<1> QED BY <1>1, <1>2

\* A step for one peer keeps the sender's position towards another.
LEMMA OtherSend ==
  ASSUME NEW r \in Ranks, NEW d \in Ranks, Keeps(r, SendReqs(r, d)), Open(r),
         round'[r] = round[r], sent'[r][d] = sent[r][d],
         d \in Peers(r) => SentRounds(r, d)' = SentRounds(r, d),
         SendReqs(r, d)' = SendReqs(r, d)
  PROVE  SenderStays(r, d)
<1>1. pc[r] # "thrown"
  BY DEF Open
<1>2. CASE d \in Peers(r)
  <2>1. SendSame(r, d)
    BY <1>1, <1>2 DEF SendSame, Keeps
  <2> QED BY <2>1, SendStays DEF SenderStays
<1>3. CASE d \notin Peers(r)
  <2> SUFFICES ASSUME NEW k, NEW i, SenderAt(r, d, k, i)
               PROVE  SenderAt(r, d, k, i)'
    BY DEF SenderStays
  <2>1. k = 0 /\ i = 0 /\ SendReqs(r, d)' = {}
    BY <1>1, <1>3 DEF SenderAt
  <2> QED BY <1>3, <2>1, Zenon DEF SenderAt, Peers, Ranks
<1> QED BY <1>2, <1>3

\* The loop leaves one peer behind.
LEMMA LoopPast ==
  ASSUME NEW r \in Ranks, TypeInv, CountInv(r), pc[r] \in {"send", "recv"}, LoopStep(r)
  PROVE  /\ \A e \in Peers(r) :
              (pc'[r] = pc[r] /\ e >= idx'[r]) <=> (e >= idx[r] /\ e # idx[r])
         /\ pc'[r] # pc[r] => pc'[r] = (IF pc[r] = "send" THEN "recv" ELSE "stop")
         /\ pc[r] = "send" => \A e \in Peers(r) : NotYet(r, e)'
         /\ idx[r] \in Peers(r) /\ idx[r] \in Ranks
<1> DEFINE next == IF pc[r] = "send" THEN "recv" ELSE "stop"
           i == idx[r]
           j == From(r, i + 1)
           f == From(r, 0)
<1>1. /\ pc \in [Ranks -> PCs] /\ idx \in [Ranks -> Ranks]
  BY DEF TypeInv
<1>2. i \in Peers(r) /\ i \in Ranks
  BY <1>1 DEF CountInv
<1>3. /\ pc' = [pc EXCEPT ![r] = IF j < N THEN pc[r] ELSE next]
      /\ idx' = [idx EXCEPT ![r] = IF j < N THEN j ELSE f]
  BY Zenon DEF LoopStep, LoopNext
<1>4. next # pc[r]
  OBVIOUS
<1> HIDE DEF next, i, f
<1>5. /\ j \in Int /\ j > i
      /\ j < N => j \in Peers(r) /\ Before(r, j) = Before(r, i) \cup {i}
      /\ ~ (j < N) => Peers(r) = Before(r, i) \cup {i}
  BY <1>2, PeerLoop
<1>6. f \in Peers(r) /\ f \in Ranks /\ Before(r, f) = {}
  BY PeerFirst DEF f
<1> HIDE DEF j
<1>7. /\ pc'[r] = IF j < N THEN pc[r] ELSE next
      /\ idx'[r] = IF j < N THEN j ELSE f
  BY <1>1, <1>3
<1>8. \A e \in Peers(r) : e \in Int
  BY NAssumption DEF Peers, Ranks
<1>9. i \in Int
  BY <1>2, <1>8
<1>10. ASSUME NEW e \in Peers(r)
       PROVE  (pc'[r] = pc[r] /\ e >= idx'[r]) <=> (e >= i /\ e # i)
  <2>1. e \in Int
    BY <1>8
  <2>2. CASE j < N
    <3>1. e < j <=> (e < i \/ e = i)
      BY <1>5, <1>10, <2>2 DEF Before
    <3> QED BY <1>5, <1>7, <1>9, <2>1, <2>2, <3>1
  <2>3. CASE ~ (j < N)
    <3>1. e < i \/ e = i
      BY <1>5, <1>10, <2>3 DEF Before
    <3> QED BY <1>4, <1>7, <1>9, <2>1, <2>3, <3>1
  <2> QED BY <2>2, <2>3
<1>11. ASSUME pc[r] = "send", NEW e \in Peers(r)
       PROVE  NotYet(r, e)'
  <2>1. CASE j < N
    BY <1>7, <1>11, <2>1 DEF NotYet
  <2>2. CASE ~ (j < N)
    <3>1. pc'[r] = "recv" /\ idx'[r] = f
      BY <1>7, <1>11, <2>2 DEF next
    <3>2. ~ (e < f) /\ e \in Int /\ f \in Int
      BY <1>6, <1>8 DEF Before
    <3>3. e >= f
      BY <3>2
    <3> QED BY <3>1, <3>3 DEF NotYet
  <2> QED BY <2>1, <2>2
<1>12. pc'[r] # pc[r] => pc'[r] = next
  BY <1>7
<1> QED BY <1>2, <1>10, <1>11, <1>12 DEF i, next

\* What a call of recv that takes a buffer does.
RecvGiven(r, s, q) ==
  /\ s = idx[r] /\ s \in Ranks /\ s \in Peers(r) /\ q \in Handles /\ q \notin InUCX(r) /\ q \notin InStack(r)
  /\ pc[r] = "recv" /\ Open(r) /\ Open(r)' /\ stack[r] = << >> /\ mode'[r] = "call"
  /\ Keeps(r, ReqsIn(posted[r])) /\ Keeps(r, done[r]) /\ \A d \in Ranks : Keeps(r, SendReqs(r, d))
  /\ info'[r][q].peer = s /\ info'[r][q].ibatch = 0
  /\ NotYet(r, s) /\ ~ NotYet(r, s)'
  /\ \A e \in Peers(r) : e # s => (NotYet(r, e)' <=> NotYet(r, e))
  /\ \A e \in Peers(r) : SentRounds(r, e)' = SentRounds(r, e)
  /\ Fresh(r, s)' /\ \A e \in Ranks : e # s => recvBuf'[r][e] = recvBuf[r][e]
  /\ \A e \in Ranks : e # r => recvBuf'[e] = recvBuf[e]
  /\ UserType' /\ UNCHANGED <<ncaches, round, done, sent>>

\* A call of recv writes only what belongs to its own transfer.
LEMMA RecvCalled ==
  ASSUME NEW r \in Ranks, TypeInv, RankInv(r), UserType, NEW s, s = idx[r],
         NEW q, q = NewRequest(r), NEW i, i \in Info, i.orig = info[r][q].orig \/ i.orig # Null,
         ~ i.completed, RecvReady(r), cache[r] # << >>, RecvBook(r, q, s, i, i.orig # Null)
  PROVE  RecvGiven(r, s, q) /\ stack'[r] = IF i.orig # Null THEN <<q>> ELSE << >>
<1>1. /\ pc[r] = "recv" /\ stack[r] = << >> /\ free[r] # {} /\ cache[r] # << >>
      /\ info' = [info EXCEPT ![r][q] = RecvFill(i, q, Head(cache[r]), idx[r])]
      /\ free' = [free EXCEPT ![r] = free[r] \ {q}]
      /\ cache' = [cache EXCEPT ![r] = Tail(cache[r])]
      /\ pending' = [pending EXCEPT ![r] = Append(pending[r], q)]
      /\ stack' = [stack EXCEPT ![r] = IF i.orig # Null THEN <<q>> ELSE << >>]
      /\ mode' = [mode EXCEPT ![r] = "call"]
      /\ LoopNext(r, "recv", "stop")
      /\ UNCHANGED <<ncaches, round, done, sent>>
  BY Zenon DEF RecvBook, Pop, RecvReady, Idle
<1>2. PICK o \in Overloads :
        recvBuf' = [recvBuf EXCEPT ![r][s] = IF o = "given" THEN Blank(MaxCount) ELSE << >>]
  BY Zenon DEF RecvBook
<1>3. LoopStep(r)
  BY <1>1 DEF LoopStep
<1>4. RecvBegins(r, q, i)
  BY <1>1, <1>3, Zenon DEF RecvBegins, Booked
<1>5. RecvEffect(r, q, i)
  BY <1>4, RecvFacts
<1>6. /\ q \in free[r] /\ q \in Handles /\ Open(r)
      /\ \A g \in Handles : g # q => info'[r][g] = info[r][g]
      /\ mode'[r] = "call" /\ stack'[r] = IF i.orig # Null THEN <<q>> ELSE << >>
  BY <1>5 DEF RecvEffect
<1>7. q \notin InUCX(r) /\ q \notin InStack(r) /\ CountInv(r)
  BY <1>6 DEF RankInv, PlaceInv
<1>8. Keeps(r, ReqsIn(posted[r])) /\ Keeps(r, done[r]) /\ \A d \in Ranks : Keeps(r, SendReqs(r, d))
  <2>1. \A a \in InUCX(r) : a \in Handles /\ a # q
    BY <1>7 DEF InUCX, ReqsIn, TypeInv
  <2>2. Keeps(r, InUCX(r))
    BY <1>6, <2>1 DEF Keeps
  <2>3. \A d \in Ranks : SendReqs(r, d) \subseteq InUCX(r)
    BY SendReqIs
  <2> QED BY <2>2, <2>3 DEF Keeps, InUCX
<1>9. /\ s \in Peers(r) /\ s \in Ranks /\ pc'[r] \in {"recv", "stop"}
      /\ \A e \in Peers(r) : (pc'[r] = "recv" /\ e >= idx'[r]) <=> (e >= s /\ e # s)
  BY <1>1, <1>3, <1>7, LoopPast
<1>10. NotYet(r, s) /\ ~ NotYet(r, s)' /\ Open(r)'
  <2>1. s >= s
    BY <1>9, NAssumption DEF Ranks
  <2> QED BY <1>1, <1>9, <2>1 DEF NotYet, Open
<1>11. \A e \in Peers(r) : e # s => (NotYet(r, e)' <=> NotYet(r, e))
  BY <1>1, <1>9 DEF NotYet
<1>12. \A e \in Peers(r) : SentRounds(r, e)' = SentRounds(r, e)
  BY <1>1, <1>9 DEF SentRounds
<1>13. info'[r][q].peer = s /\ info'[r][q].ibatch = 0
  <2>1. PICK k : k = RecvFill(i, q, Head(cache[r]), s)
    OBVIOUS
  <2>2. k.peer = s /\ k.ibatch = 0
    <3>1. PICK z \in Int : z = 0
      OBVIOUS
    <3>2. PICK g \in BOOLEAN : g = FALSE
      OBVIOUS
    <3>3. PICK b : b = Head(cache[r])
      OBVIOUS
    <3>4. k = [i EXCEPT !.orig = q, !.buf = b, !.custom = g, !.peer = s, !.ibatch = z]
      BY <2>1, <3>1, <3>2, <3>3, Zenon DEF RecvFill
    <3> QED BY <3>1, <3>4 DEF Info
  <2>3. info' = [info EXCEPT ![r][q] = k]
    BY <1>1, <2>1
  <2> QED BY <1>6, <2>2, <2>3 DEF TypeInv
<1>14. PICK u : u = IF o = "given" THEN Blank(MaxCount) ELSE << >>
  OBVIOUS
<1>15. u \in Seq(Word) /\ (u = << >> \/ u = Blank(MaxCount))
  <2>1. Blank(MaxCount) \in Seq(Word) /\ << >> \in Seq(Word)
    BY Blanks, BoundsAssumption, EmptySeq
  <2> QED BY <1>14, <2>1
<1>16. /\ recvBuf'[r][s] = u /\ \A e \in Ranks : e # s => recvBuf'[r][e] = recvBuf[r][e]
       /\ \A e \in Ranks : e # r => recvBuf'[e] = recvBuf[e]
       /\ recvBuf' \in [Ranks -> [Ranks -> Seq(Word)]]
  BY <1>2, <1>9, <1>14, <1>15 DEF UserType
<1>17. Fresh(r, s)'
  BY <1>15, <1>16, Zenon DEF Fresh, Blank, Garbage
<1>18. UserType'
  BY <1>1, <1>16, Zenon DEF UserType, Word, Ranks
<1> QED BY <1>1, <1>6, <1>7, <1>8, <1>9, <1>10, <1>11, <1>12, <1>13, <1>16, <1>17, <1>18 DEF RecvGiven

\* A receive that is not yet called.
LEMMA ToComeAt ==
  ASSUME NEW r, NEW s \in Peers(r), NotYet(r, s), Open(r), NEW k, NEW i, ReceiverAt(r, s, k, i)
  PROVE  Quiet(r, s) /\ k = round[r] /\ i = 0
<1>1. pc[r] # "thrown"
  BY DEF Open
<1> QED BY <1>1 DEF ReceiverAt, ToCome, HasAll, IsPosted, IsCalled

\* The request UCX hands out is free and clean.
LEMMA NewRequestClean ==
  ASSUME NEW r \in Ranks, TypeInv, RankInv(r), Open(r), free[r] # {}, NEW q, q = NewRequest(r)
  PROVE  /\ q \in Handles /\ info[r][q] \in Info /\ q \in free[r] /\ q \in Requests
         /\ info[r][q].orig = Null /\ ~ info[r][q].completed
<1>1. q \in free[r]
  <2>1. free[r] \in SUBSET Requests
    BY DEF TypeInv
  <2> QED BY <2>1, NewRequestFree
<1>2. q \in Handles /\ info[r][q].orig = Null /\ ~ info[r][q].completed
  BY <1>1, OpenFacts
<1> QED BY <1>1, <1>2 DEF TypeInv

\* A recv whose count is already there takes it from the stream.
LEMMA RecvNowDel ==
  ASSUME NEW r \in Ranks, TypeInv, \A p \in Ranks : RankInv(p), DelInv, RecvNow(r)
  PROVE  DelInv'
<1>0. PICK s, q, i, v : /\ s = idx[r] /\ q = NewRequest(r) /\ i = Mark(info[r][q])
                        /\ v = Landing(Head(net[s][r]), 1)
  OBVIOUS
<1>1. /\ RecvReady(r) /\ cache[r] # << >> /\ RecvBook(r, q, s, i, i.orig # Null)
      /\ Arrived(s, r) /\ posted' = posted /\ Land(r, s, Null, v)
      /\ net' = [net EXCEPT ![s][r] = Tail(net[s][r])]
  BY <1>0, Zenon DEF RecvNow, RecvNbEarly
<1>2. RankInv(r) /\ UserType /\ Open(r) /\ free[r] # {}
  BY <1>1 DEF DelInv, RecvReady, Open
<1>3. i \in Info /\ i.orig # Null /\ ~ i.completed
  <2>1. info[r][q] \in Info /\ info[r][q].orig = Null /\ ~ info[r][q].completed
    BY <1>0, <1>2, NewRequestClean
  <2> QED BY <1>0, <2>1, Marks
<1>4. RecvGiven(r, s, q) /\ stack'[r] = <<q>>
  <2>1. s = idx[r] /\ q = NewRequest(r)
    BY <1>0
  <2>2. RecvReady(r) /\ cache[r] # << >> /\ RecvBook(r, q, s, i, i.orig # Null)
    BY <1>1
  <2>3. RecvGiven(r, s, q) /\ stack'[r] = IF i.orig # Null THEN <<q>> ELSE << >>
    BY <1>2, <1>3, <2>1, <2>2, RecvCalled
  <2> QED BY <1>3, <2>3
<1>5. /\ s \in Ranks /\ s \in Peers(r) /\ q \in Handles
      /\ pc[r] = "recv" /\ Open(r)' /\ stack[r] = << >> /\ mode'[r] = "call"
      /\ Keeps(r, ReqsIn(posted[r])) /\ Keeps(r, done[r]) /\ (\A d \in Ranks : Keeps(r, SendReqs(r, d)))
      /\ info'[r][q].peer = s /\ info'[r][q].ibatch = 0
      /\ NotYet(r, s) /\ ~ NotYet(r, s)'
      /\ \A e \in Peers(r) : e # s => (NotYet(r, e)' <=> NotYet(r, e))
      /\ \A e \in Peers(r) : SentRounds(r, e)' = SentRounds(r, e)
      /\ Fresh(r, s)' /\ \A e \in Ranks : e # s => recvBuf'[r][e] = recvBuf[r][e]
      /\ \A e \in Ranks : e # r => recvBuf'[e] = recvBuf[e]
      /\ UserType' /\ round' = round /\ done' = done /\ sent' = sent
  BY <1>4, Zenon DEF RecvGiven
<1>6. \A e \in Ranks : DueFor(r, e) = {} /\ DueFor(r, e)' = IF e = s THEN {q} ELSE {}
  <2>1. <<q>> # << >> /\ <<q>>[1] = q
    OBVIOUS
  <2>2. Due(r)' = {q} /\ Due(r) = {}
    BY <1>4, <1>5, <2>1 DEF Due, HandlerReady
  <2> QED BY <1>5, <2>2 DEF DueFor
<1>7. countMem' = [countMem EXCEPT ![r][s] = At(v, 1)]
  BY <1>1 DEF Land
<1>8. /\ countMem'[r][s] = At(v, 1) /\ \A e \in Ranks : e # s => countMem'[r][e] = countMem[r][e]
      /\ \A e \in Ranks : e # r => countMem'[e] = countMem[e]
  BY <1>5, <1>7 DEF TypeInv
<1>9. Bystanders(r)
  <2>1. Elsewhere(r)
    BY RecvNowRank
  <2> QED BY <1>5, <1>8, <2>1 DEF Bystanders, Elsewhere
<1>10. \A e \in Ranks : SentGrows(e, r)
  BY <1>5 DEF SentGrows
<1>11. \A e \in Ranks : e # s => ReceiverStays(r, e)
  BY <1>1, <1>2, <1>5, <1>6, <1>8, <1>10, OtherRecv
<1>12. ASSUME NEW k, NEW n, NEW l, NEW m, Given(r, s, Head(net[s][r]).val, k, n, l, m)
       PROVE  ReceiverAt(r, s, l, m)'
  <2>1. /\ ReceiverAt(r, s, k, n) /\ Issued(s, r, k, n)
        /\ Head(net[s][r]).val = ValueAt(s, r, k, n) /\ IsAfter(s, r, k, n, l, m)
    BY <1>12 DEF Given
  <2>2. Quiet(r, s) /\ k = round[r] /\ n = 0
    BY <1>2, <1>5, <2>1, ToComeAt
  <2>3. countMem'[r][s] = CountWord(s, r, k, CountOf(s, r, k))
    <3>1. PICK z : z = Head(net[s][r])
      OBVIOUS
    <3>2. z.val = ValueAt(s, r, k, 0) /\ v = Landing(z, 1)
      BY <1>0, <2>1, <2>2, <3>1
    <3>3. At(Landing(z, 1), 1) = CountWord(s, r, k, CountOf(s, r, k))
      BY <3>2, CountLands
    <3> QED BY <1>8, <3>2, <3>3
  <2>4. /\ k \in 1 .. Len(sent[s][r]) /\ IsAfter(s, r, k, 0, l, m) /\ round'[r] = k
    BY <1>5, <2>1, <2>2 DEF Issued
  <2>5. Takes(r, s, q, l, m)'
    BY <1>2, <1>5, <1>10, <2>3, <2>4, CountTaken
  <2>6. posted'[r][s] = << >>
    BY <1>1, <2>2 DEF Quiet
  <2>7. q \in Due(r)' /\ DueFor(r, s)' = {q}
    <3>1. DueFor(r, s)' = {q}
      BY <1>5, <1>6
    <3> QED BY <3>1 DEF DueFor
  <2>8. IsCalled(r, s, l, m)'
    BY <1>5, <2>5, <2>6, <2>7 DEF IsCalled
  <2> QED BY <1>5, <2>8 DEF ReceiverAt, Peers
<1>13. \A d \in Ranks : SendReqs(r, d)' = SendReqs(r, d) => SenderStays(r, d)
  BY <1>2, <1>5, OtherSend
<1>14. done' = done /\ \A a \in done[r] : info'[r][a].peer = info[r][a].peer
  BY <1>5 DEF Keeps
<1>15. sent' = sent /\ Arrived(s, r) /\ net' = [net EXCEPT ![s][r] = Tail(net[s][r])] /\ UserType'
  BY <1>1, <1>5
<1> QED BY <1>5, <1>9, <1>11, <1>12, <1>13, <1>14, <1>15, OneTakes

\* A recv whose count is not there posts a receive at the start of the round.
LEMMA RecvLaterDel ==
  ASSUME NEW r \in Ranks, TypeInv, \A p \in Ranks : RankInv(p), DelInv, RecvLater(r)
  PROVE  DelInv'
<1>0. PICK s, q, i, p : /\ s = idx[r] /\ q = NewRequest(r) /\ i = info[r][q]
                        /\ p = [req |-> q, dst |-> Null, n |-> 1]
  OBVIOUS
<1>1. /\ RecvReady(r) /\ cache[r] # << >> /\ RecvBook(r, q, s, i, i.orig # Null)
      /\ posted' = [posted EXCEPT ![r][s] = Append(posted[r][s], p)]
      /\ UNCHANGED <<net, mem, countMem>>
  BY <1>0, Zenon DEF RecvLater, RecvNbPost
<1>2. RankInv(r) /\ UserType /\ Open(r) /\ free[r] # {}
  BY <1>1 DEF DelInv, RecvReady, Open
<1>3. i \in Info /\ i.orig = Null /\ ~ i.completed /\ i = info[r][q]
  BY <1>0, <1>2, NewRequestClean
<1>4. RecvGiven(r, s, q) /\ stack'[r] = << >>
  <2>1. s = idx[r] /\ q = NewRequest(r)
    BY <1>0
  <2>2. RecvReady(r) /\ cache[r] # << >> /\ RecvBook(r, q, s, i, i.orig # Null)
    BY <1>1
  <2>3. RecvGiven(r, s, q) /\ stack'[r] = IF i.orig # Null THEN <<q>> ELSE << >>
    BY <1>2, <1>3, <2>1, <2>2, RecvCalled
  <2> QED BY <1>3, <2>3
<1>5. /\ s \in Ranks /\ s \in Peers(r) /\ q \in Handles
      /\ pc[r] = "recv" /\ Open(r)' /\ stack[r] = << >> /\ mode'[r] = "call"
      /\ Keeps(r, ReqsIn(posted[r])) /\ Keeps(r, done[r]) /\ (\A d \in Ranks : Keeps(r, SendReqs(r, d)))
      /\ info'[r][q].peer = s /\ info'[r][q].ibatch = 0
      /\ NotYet(r, s) /\ ~ NotYet(r, s)'
      /\ \A e \in Peers(r) : e # s => (NotYet(r, e)' <=> NotYet(r, e))
      /\ \A e \in Peers(r) : SentRounds(r, e)' = SentRounds(r, e)
      /\ Fresh(r, s)' /\ \A e \in Ranks : e # s => recvBuf'[r][e] = recvBuf[r][e]
      /\ \A e \in Ranks : e # r => recvBuf'[e] = recvBuf[e]
      /\ UserType' /\ round' = round /\ done' = done /\ sent' = sent
  BY <1>4, Zenon DEF RecvGiven
<1>6. \A e \in Ranks : DueFor(r, e) = {} /\ DueFor(r, e)' = {}
  <2>1. Due(r)' = {} /\ Due(r) = {}
    BY <1>4, <1>5 DEF Due, HandlerReady
  <2> QED BY <2>1 DEF DueFor
<1>7. /\ posted'[r][s] = Append(posted[r][s], p)
      /\ \A e \in Ranks : e # s => posted'[r][e] = posted[r][e]
  BY <1>1, <1>5 DEF TypeInv
<1>8. Bystanders(r)
  <2>1. Elsewhere(r)
    BY RecvLaterRank
  <2> QED BY <1>1, <1>5, <2>1 DEF Bystanders, Elsewhere
<1>9. \A e \in Ranks : SentGrows(e, r)
  BY <1>5 DEF SentGrows
<1>10. \A e \in Ranks : e # s => ReceiverStays(r, e)
  BY <1>1, <1>2, <1>5, <1>6, <1>7, <1>9, OtherRecv
<1>11. ReceiverStays(r, s)
  <2> SUFFICES ASSUME NEW k, NEW n, ReceiverAt(r, s, k, n)
               PROVE  ReceiverAt(r, s, k, n)'
    BY DEF ReceiverStays
  <2>1. Quiet(r, s) /\ k = round[r] /\ n = 0
    BY <1>2, <1>5, ToComeAt
  <2>2. p \in Receive /\ p.req = q /\ p.dst = Null /\ p.n = 1
    BY <1>0, <1>5 DEF Receive, Null
  <2>3. posted'[r][s] = <<p>>
    BY <1>7, <2>1, <2>2 DEF Quiet
  <2>4. round'[r] = k
    BY <1>5, <2>1
  <2>5. Awaits(r, s, p, k, n)'
    BY <1>5, <2>1, <2>2, <2>4, Zenon DEF Awaits, Null
  <2>6. IsPosted(r, s, k, n)'
    <3>1. DueFor(r, s)' = {}
      BY <1>5, <1>6
    <3> QED BY <1>5, <2>2, <2>3, <2>5, <3>1, Zenon DEF IsPosted, Receive, Handles
  <2> QED BY <1>5, <2>6 DEF ReceiverAt, Peers
<1>12. \A e \in Ranks : ReceiverStays(r, e)
  BY <1>10, <1>11
<1>13. \A d \in Ranks : SenderStays(r, d)
  <2>1. \A a \in done[r] : info'[r][a].peer = info[r][a].peer
    BY <1>5 DEF Keeps
  <2>2. \A d \in Ranks : SendReqs(r, d)' = SendReqs(r, d)
    BY <1>1, <1>5, <2>1 DEF SendReqs
  <2> QED BY <1>2, <1>5, <2>2, OtherSend
<1>14. sent' = sent /\ net' = net /\ UserType'
  BY <1>1, <1>5
<1> QED BY <1>8, <1>12, <1>13, <1>14, NothingMoves

\* The messages of a round, one by one: the count, then the batches.
PartAt(s, d, n, c, i) ==
  IF i = 0 THEN <<CountWord(s, d, n, c)>>
  ELSE [j \in 1 .. BatchLen(c, i - 1) |-> DataWord(s, d, n, (i - 1) * PerBatch + j)]
Parts(w, s, d, n, c, e) == \A j \in 1 .. Len(w) : w[j].val = PartAt(s, d, n, c, e + j - 1)

\* Parts e, e + 1, .. in l messages, of which those with a request are in M.
Written(x, l, M, r, d, n, c, e) ==
  /\ x \in Seq(Message) /\ Len(x) = l /\ Parts(x, r, d, n, c, e)
  /\ \A j \in 1 .. Len(x) : x[j].req = Null \/ x[j].req \in M
  /\ \A q \in M : \E j \in 1 .. Len(x) : x[j].req = q
CarriesAlso(u, t, M) == \A a \in Handles : Carries(u, a) <=> Carries(t, a) \/ a \in M

\* The value of a position is the part of that number, the count being part 0.
LEMMA PartsValue ==
  ASSUME NEW s, NEW d, NEW k, NEW i
  PROVE  ValueAt(s, d, k, i) = PartAt(s, d, k, CountOf(s, d, k), i)
BY Zenon DEF ValueAt, PartAt, BatchOf

\* What send_handler writes for a batch is the part of that number.
LEMMA BatchPart ==
  ASSUME NEW r, NEW i, NEW b \in Int, NEW y, y = b + 1, y # 0
  PROVE  Batch(r, i, b) = PartAt(r, i.peer, round[r], i.count, y)
<1>1. y - 1 = b
  OBVIOUS
<1> QED BY <1>1, Zenon DEF Batch, PartAt

\* A run of immediate sends puts out consecutive parts up to the end.
LEMMA EagerParts ==
  ASSUME NEW r \in Ranks, round[r] \in Int, NEW i \in Info, NEW k \in Nat, i.ibatch \in Nat,
         NEW w \in Seq(Message), Silent(w), NEW e \in Int, e + Len(w) = i.ibatch + 1,
         NEW n, n = round[r], NEW c, c = i.count, NEW d, d = i.peer,
         Parts(w, r, d, n, c, e), NEW x, x = SendHandlerEager(r, i, w, k)
  PROVE  Written(x, Len(w) + k, {}, r, d, n, c, e)
<1>1. x \in Seq(Message) /\ Silent(x)
  BY EagerMessages
<1>2. PICK f : f = [j \in 1 .. k |-> Msg(Batch(r, i, i.ibatch + j - 1))]
  OBVIOUS
<1>3. x = w \o f
  BY <1>2 DEF SendHandlerEager
<1>4. f \in Seq(Message) /\ Len(f) = k
  <2>1. \A j \in 1 .. k : f[j] \in Message
    <3> SUFFICES ASSUME NEW j \in 1 .. k
                 PROVE  f[j] \in Message
      OBVIOUS
    <3>1. PICK b : b = i.ibatch + j - 1
      OBVIOUS
    <3>2. Batch(r, i, b) \in Seq(Word)
      BY <3>1, BatchWords
    <3>3. f[j] = Msg(Batch(r, i, b))
      BY <1>2, <3>1
    <3> QED BY <3>2, <3>3 DEF Msg, Message, Null
  <2>2. f = [j \in 1 .. k |-> f[j]]
    BY <1>2
  <2>3. f \in Seq(Message)
    BY <2>1, <2>2, Listed
  <2> QED BY <1>2, <2>3
<1>5. /\ Len(x) = Len(w) + k /\ Len(w) \in Nat
      /\ \A j \in 1 .. Len(w) + k : x[j] = IF j <= Len(w) THEN w[j] ELSE f[j - Len(w)]
  <2>1. /\ Len(x) = Len(w) + Len(f) /\ Len(w) \in Nat
        /\ \A j \in 1 .. Len(w) + Len(f) : x[j] = IF j <= Len(w) THEN w[j] ELSE f[j - Len(w)]
    <3>1. f \in Seq(Message)
      BY <1>4
    <3> QED BY <1>3, <3>1, ConcatProperties, LenProperties
  <2> QED BY <1>4, <2>1
<1>6. ASSUME NEW j \in 1 .. Len(x)
      PROVE  x[j].val = PartAt(r, d, n, c, e + j - 1)
  <2>1. CASE j <= Len(w)
    BY <1>5, <2>1 DEF Parts
  <2>2. CASE ~ (j <= Len(w))
    <3>1. PICK y, b : y = j - Len(w) /\ b = i.ibatch + y - 1
      OBVIOUS
    <3>2. y \in 1 .. k /\ x[j] = f[y]
      BY <1>5, <2>2, <3>1
    <3>3. b \in Int /\ e + j - 1 = b + 1 /\ e + j - 1 # 0
      <4>1. PICK g, z : g = i.ibatch /\ z = Len(w)
        OBVIOUS
      <4>2. g \in Nat /\ z \in Nat /\ e + z = g + 1 /\ y = j - z /\ b = g + y - 1 /\ y \in 1 .. k
        BY <1>5, <3>1, <3>2, <4>1
      <4>3. j \in Int
        BY <1>5
      <4> QED BY <4>2, <4>3
    <3>4. x[j] = Msg(Batch(r, i, b))
      BY <1>2, <3>1, <3>2
    <3>5. Batch(r, i, b) = PartAt(r, i.peer, round[r], i.count, e + j - 1)
      <4>1. PICK z : z = e + j - 1
        OBVIOUS
      <4>2. b \in Int /\ z = b + 1 /\ z # 0
        BY <3>3, <4>1
      <4> QED BY <4>1, <4>2, BatchPart
    <3> QED BY <3>4, <3>5 DEF Msg
  <2> QED BY <2>1, <2>2
<1>7. Parts(x, r, d, n, c, e)
  BY <1>6 DEF Parts
<1> QED BY <1>1, <1>5, <1>7 DEF Silent, Written

\* A run of immediate sends that ends in a delayed one puts out consecutive parts with one request.
LEMMA BusyParts ==
  ASSUME NEW r, NEW d, NEW n, NEW c, NEW e \in Int, NEW w \in Seq(Message),
         Parts(w, r, d, n, c, e), NEW m \in Message, m.val = PartAt(r, d, n, c, e + Len(w)),
         \A j \in 1 .. Len(w) : w[j].req = Null, NEW x, x = w \o <<m>>
  PROVE  Written(x, Len(w) + 1, {m.req}, r, d, n, c, e)
<1>1. PICK f : f = <<m>>
  OBVIOUS
<1>2. f \in Seq(Message) /\ Len(f) = 1 /\ f[1] = m
  BY <1>1
<1>3. /\ x \in Seq(Message) /\ Len(x) = Len(w) + 1 /\ Len(w) \in Nat
      /\ \A j \in 1 .. Len(w) + 1 : x[j] = IF j <= Len(w) THEN w[j] ELSE f[j - Len(w)]
  BY <1>1, <1>2, ConcatProperties, LenProperties
<1>4. x[1 + Len(w)] = m /\ 1 + Len(w) \in 1 .. Len(x)
  BY <1>2, <1>3
<1>5. ASSUME NEW j \in 1 .. Len(x)
      PROVE  /\ x[j].val = PartAt(r, d, n, c, e + j - 1)
             /\ x[j].req = Null \/ x[j].req = m.req
  <2>1. CASE j <= Len(w)
    BY <1>3, <2>1 DEF Parts
  <2>2. CASE ~ (j <= Len(w))
    <3>1. j = 1 + Len(w) /\ e + j - 1 = e + Len(w)
      BY <1>3, <2>2
    <3> QED BY <1>4, <3>1
  <2> QED BY <2>1, <2>2
<1>6. Parts(x, r, d, n, c, e)
  BY <1>5 DEF Parts
<1>7. \A q \in {m.req} : \E j \in 1 .. Len(x) : x[j].req = q
  BY <1>4
<1> QED BY <1>3, <1>5, <1>6, <1>7 DEF Written

\* Whose messages a channel carries after x.
LEMMA CarriesMore ==
  ASSUME NEW t \in Seq(Message), NEW x, NEW u, u = t \o x, NEW l, NEW M, NEW r, NEW d, NEW n, NEW c, NEW e,
         Written(x, l, M, r, d, n, c, e)
  PROVE  CarriesAlso(u, t, M)
<1>0. /\ x \in Seq(Message)
      /\ \A j \in 1 .. Len(x) : x[j].req = Null \/ x[j].req \in M
      /\ \A q \in M : \E j \in 1 .. Len(x) : x[j].req = q
  BY DEF Written
<1>1. /\ Len(u) = Len(t) + Len(x) /\ Len(t) \in Nat /\ Len(x) \in Nat
      /\ \A j \in 1 .. Len(t) + Len(x) : u[j] = IF j <= Len(t) THEN t[j] ELSE x[j - Len(t)]
  BY <1>0, ConcatProperties, LenProperties
<1>2. \A a \in Handles : a # Null
  BY DEF Handles, Null
<1>3. \A j \in 1 .. Len(t) : j \in 1 .. Len(u) /\ u[j] = t[j]
  BY <1>1
<1>4. \A j \in 1 .. Len(x) : j + Len(t) \in 1 .. Len(u) /\ u[j + Len(t)] = x[j]
  BY <1>1
<1>5. \A j \in 1 .. Len(u) :
        \/ j \in 1 .. Len(t) /\ u[j] = t[j]
        \/ j - Len(t) \in 1 .. Len(x) /\ u[j] = x[j - Len(t)]
  BY <1>1
<1>6. ASSUME NEW a \in Handles, Carries(u, a)
      PROVE  Carries(t, a) \/ a \in M
  <2>1. PICK j \in 1 .. Len(u) : u[j].req = a
    BY <1>6 DEF Carries
  <2>2. CASE j \in 1 .. Len(t) /\ u[j] = t[j]
    BY <2>1, <2>2 DEF Carries
  <2>3. CASE j - Len(t) \in 1 .. Len(x) /\ u[j] = x[j - Len(t)]
    BY <1>0, <1>2, <2>1, <2>3
  <2> QED BY <1>5, <2>2, <2>3
<1>7. \A a \in Handles : Carries(t, a) => Carries(u, a)
  BY <1>3 DEF Carries
<1>8. ASSUME NEW a \in M
      PROVE  Carries(u, a)
  <2>1. PICK j \in 1 .. Len(x) : x[j].req = a
    BY <1>0, <1>8
  <2> QED BY <1>4, <2>1 DEF Carries
<1> QED BY <1>6, <1>7, <1>8 DEF CarriesAlso

\* A handle that steers a transfer as before.
Alike(u, t, g) == u[g].peer = t[g].peer /\ u[g].count = t[g].count /\ u[g].ibatch = t[g].ibatch

\* The end of a send writes only the requests of that send.
LEMMA DoneKeeps ==
  ASSUME ncaches \in Nat, NEW t \in [Handles -> Info], NEW h \in Handles,
         t[h].orig \in Handles, NEW u, u = DoneTable(t, h)
  PROVE  \A g \in Handles : g # h => Alike(u, t, g)
<1> DEFINE o == t[h].orig
           v == [t EXCEPT ![o].completed = TRUE]
<1>1. /\ v \in [Handles -> Info]
      /\ \A g \in Handles : v[g].peer = t[g].peer /\ v[g].count = t[g].count /\ v[g].ibatch = t[g].ibatch
  BY DEF Info
<1>2. u = FreeInternal(v, h)
  BY Zenon DEF DoneTable
<1> HIDE DEF v
<1>3. \A g \in Handles : g # h => u[g] = v[g]
  BY <1>1, <1>2, Release
<1> QED BY <1>1, <1>3 DEF Alike

\* A delayed batch writes only the two requests of its send and hands peer and count on.
LEMMA MoreKeeps ==
  ASSUME ncaches \in Nat, NEW t \in [Handles -> Info], NEW h \in Handles,
         NEW q \in Handles, q # h, NEW b \in Int, NEW u, u = MoreTable(t, h, q, b)
  PROVE  /\ \A g \in Handles : g # h /\ g # q => Alike(u, t, g)
         /\ u[q].peer = t[h].peer /\ u[q].count = t[h].count /\ u[q].ibatch = b
<1>1. PICK f \in BOOLEAN : f = FALSE
  OBVIOUS
<1> DEFINE i == [t[h] EXCEPT !.ibatch = b, !.custom = f]
           v == [t EXCEPT ![q] = i]
<1>2. t[h] \in Info
  OBVIOUS
<1>3. i \in Info /\ i.peer = t[h].peer /\ i.count = t[h].count /\ i.ibatch = b
  BY <1>2 DEF Info
<1>4. u = FreeInternal([t EXCEPT ![q] = i], h)
  BY <1>1, Zenon DEF MoreTable
<1> HIDE DEF i
<1>5. v \in [Handles -> Info] /\ v[q] = i /\ \A g \in Handles : g # q => v[g] = t[g]
  BY <1>3
<1>6. u = FreeInternal(v, h)
  BY <1>4
<1> HIDE DEF v
<1>7. \A g \in Handles : g # h => u[g] = v[g]
  BY <1>5, <1>6, Release
<1> QED BY <1>3, <1>5, <1>7 DEF Alike

\* What send_handler hands to UCX for d: parts e, e + 1, .. of the message of
\* c elements, up to the last or to the one that the handle in M carries on.
Continues(r, d, h, t, x, M, e, c) ==
  /\ x \in Seq(Message) /\ Sending(r, d, x) /\ Parts(x, r, d, round[r], c, e)
  /\ CarriesAlso(net'[r][d], net[r][d], M)
  /\ \A g \in Handles : g # h /\ g \notin M => Alike(info'[r], t, g)
  /\ M \subseteq free[r] /\ e + Len(x) - 1 \in 0 .. Batches(c)
  /\ \/ M = {} /\ e + Len(x) - 1 = Batches(c)
     \/ \E q \in Handles : /\ M = {q} /\ info'[r][q].peer = d /\ info'[r][q].count = c
                           /\ info'[r][q].ibatch = e + Len(x) - 1

\* What send_handler is called with: w brings the parts up to batch ibatch.
Calling(r, d, h, t, w, e, c) ==
  /\ SendCall(r, h, t, w) /\ t[h].peer = d /\ t[h].count = c
  /\ c \in Nat /\ t[h].ibatch \in 0 .. Batches(c)
  /\ e \in Int /\ e + Len(w) = t[h].ibatch + 1 /\ Parts(w, r, d, round[r], c, e)

\* send_handler that gets through to the last batch continues its send to the end.
LEMMA LastContinues ==
  ASSUME NEW r \in Ranks, TypeInv, NEW d \in Ranks, NEW h, NEW t, NEW w, NEW e, NEW c,
         Calling(r, d, h, t, w, e, c), SendHandlerLast(r, h, t, w)
  PROVE  \E x, M : Continues(r, d, h, t, x, M, e, c)
<1>1. PICK i : i = t[h]
  OBVIOUS
<1>2. /\ t \in [Handles -> Info] /\ h \in Handles /\ i.orig \in Handles
      /\ w \in Seq(Message) /\ Silent(w)
      /\ i.peer = d /\ i.count = c /\ c \in Nat /\ i.ibatch \in 0 .. Batches(c)
      /\ e \in Int /\ e + Len(w) = i.ibatch + 1 /\ Parts(w, r, d, round[r], c, e)
  BY <1>1 DEF Calling, SendCall
<1>3. i \in Info /\ Batches(c) \in Nat /\ i.ibatch \in Nat /\ round[r] \in Int
      /\ ncaches \in Nat /\ net \in [Ranks -> [Ranks -> Seq(Message)]]
      /\ info \in [Ranks -> [Handles -> Info]]
  <2>1. i \in Info
    BY <1>1, <1>2
  <2>2. Batches(c) \in Nat
    BY <1>2, BatchBounds
  <2>3. i.ibatch \in Nat
    BY <1>2, <2>2
  <2>4. /\ round \in [Ranks -> Int] /\ ncaches \in Nat
        /\ net \in [Ranks -> [Ranks -> Seq(Message)]] /\ info \in [Ranks -> [Handles -> Info]]
    BY DEF TypeInv
  <2> QED BY <2>1, <2>2, <2>3, <2>4
<1>4. PICK k : k = Batches(c) - i.ibatch
  OBVIOUS
<1>5. k \in Nat /\ k = Batches(i.count) - i.ibatch
  BY <1>2, <1>3, <1>4
<1>6. PICK x, u : x = SendHandlerEager(r, i, w, k) /\ u = DoneTable(t, h)
  OBVIOUS
<1>7. /\ net' = [net EXCEPT ![r][d] = net[r][d] \o x]
      /\ info' = [info EXCEPT ![r] = u]
  <2>1. /\ net' = [net EXCEPT ![r][i.peer] = net[r][i.peer] \o SendHandlerEager(r, i, w, Batches(i.count) - i.ibatch)]
        /\ info' = [info EXCEPT ![r] = DoneTable(t, h)]
    BY <1>1, Zenon DEF SendHandlerLast, DoneTable
  <2> QED BY <1>2, <1>5, <1>6, <2>1
<1>8. Written(x, Len(w) + k, {}, r, d, round[r], c, e)
  <2>1. PICK n : n = round[r]
    OBVIOUS
  <2>2. /\ w \in Seq(Message) /\ Silent(w) /\ e \in Int /\ e + Len(w) = i.ibatch + 1
        /\ Parts(w, r, d, n, c, e) /\ c = i.count /\ d = i.peer /\ x = SendHandlerEager(r, i, w, k)
    BY <1>2, <1>6, <2>1
  <2>3. i \in Info /\ i.ibatch \in Nat /\ round[r] \in Int /\ k \in Nat
    BY <1>3, <1>5
  <2>4. Written(x, Len(w) + k, {}, r, d, n, c, e)
    BY <2>1, <2>2, <2>3, EagerParts
  <2> QED BY <2>1, <2>4
<1>9. \A g \in Handles : g # h => Alike(u, t, g)
  BY <1>1, <1>2, <1>3, <1>6, DoneKeeps
<1>10. info'[r] = u
  BY <1>3, <1>7
<1>11. net'[r][d] = net[r][d] \o x /\ net[r][d] \in Seq(Message)
  BY <1>3, <1>7
<1>12. PICK M : M = {}
  OBVIOUS
<1>13. CarriesAlso(net'[r][d], net[r][d], M)
  <2>1. PICK n, l : n = round[r] /\ l = Len(w) + k
    OBVIOUS
  <2>2. Written(x, l, M, r, d, n, c, e)
    BY <1>8, <1>12, <2>1
  <2>3. PICK y, z : y = net[r][d] /\ z = net'[r][d]
    OBVIOUS
  <2>4. y \in Seq(Message) /\ z = y \o x
    BY <1>11, <2>3
  <2>5. CarriesAlso(z, y, M)
    BY <2>2, <2>4, CarriesMore
  <2> QED BY <2>3, <2>5
<1>14. e + Len(x) - 1 = Batches(c)
  <2>1. Len(w) \in Nat
    BY <1>2, LenProperties
  <2>2. PICK B, L, p, X : B = Batches(c) /\ L = Len(w) /\ p = i.ibatch /\ X = Len(x)
    OBVIOUS
  <2>3. B \in Nat /\ L \in Nat /\ p \in Nat /\ e \in Int /\ e + L = p + 1 /\ k = B - p /\ X = L + k
    BY <1>2, <1>3, <1>4, <1>8, <2>1, <2>2 DEF Written
  <2>4. e + X - 1 = B
    BY <2>3
  <2> QED BY <2>2, <2>4
<1>15. Sending(r, d, x)
  BY <1>7 DEF Sending
<1>16. e + Len(x) - 1 \in 0 .. Batches(c) /\ M \subseteq free[r]
  BY <1>3, <1>12, <1>14
<1>17. Continues(r, d, h, t, x, M, e, c)
  BY <1>8, <1>9, <1>10, <1>12, <1>13, <1>14, <1>15, <1>16, Zenon DEF Continues, Written
<1> QED BY <1>17

\* send_handler whose batch has to wait continues its send up to that batch.
LEMMA MoreContinues ==
  ASSUME NEW r \in Ranks, TypeInv, NEW d \in Ranks, NEW h, NEW t, NEW w, NEW e, NEW c,
         Calling(r, d, h, t, w, e, c), SendHandlerMore(r, h, t, w)
  PROVE  \E x, M : Continues(r, d, h, t, x, M, e, c)
<1>1. PICK i, q : i = t[h] /\ q = NewRequest(r)
  OBVIOUS
<1>2. /\ t \in [Handles -> Info] /\ h \in Handles /\ i.orig \in Handles
      /\ w \in Seq(Message) /\ Silent(w) /\ h \notin free[r] /\ i.buf \in Buffers
      /\ i.peer = d /\ i.count = c /\ c \in Nat /\ i.ibatch \in 0 .. Batches(c)
      /\ e \in Int /\ e + Len(w) = i.ibatch + 1 /\ Parts(w, r, d, round[r], c, e)
  BY <1>1 DEF Calling, SendCall
<1>3. i \in Info /\ Batches(c) \in Nat /\ i.ibatch \in Nat /\ round[r] \in Int
      /\ ncaches \in Nat /\ net \in [Ranks -> [Ranks -> Seq(Message)]]
      /\ info \in [Ranks -> [Handles -> Info]] /\ free[r] \in SUBSET Requests
  <2>1. i \in Info
    BY <1>1, <1>2
  <2>2. Batches(c) \in Nat
    BY <1>2, BatchBounds
  <2>3. i.ibatch \in Nat
    BY <1>2, <2>2
  <2>4. /\ round \in [Ranks -> Int] /\ ncaches \in Nat
        /\ net \in [Ranks -> [Ranks -> Seq(Message)]] /\ info \in [Ranks -> [Handles -> Info]]
        /\ free \in [Ranks -> SUBSET Requests]
    BY DEF TypeInv
  <2> QED BY <2>1, <2>2, <2>3, <2>4
<1>4. PICK k \in 0 .. Batches(i.count) - i.ibatch - 1 :
        /\ free[r] # {}
        /\ net' = [net EXCEPT ![r][i.peer] =
                     net[r][i.peer] \o SendHandlerEager(r, i, w, k)
                       \o <<MsgBusy(Batch(r, i, i.ibatch + k), i.buf, q)>>]
        /\ info' = [info EXCEPT ![r] =
                      FreeInternal([t EXCEPT ![q] = [i EXCEPT !.ibatch = i.ibatch + k + 1,
                                                              !.custom = FALSE]], h)]
  BY <1>1, Zenon DEF SendHandlerMore
<1>5. PICK b, y : b = i.ibatch + k /\ y = b + 1
  OBVIOUS
<1>6. k \in Nat /\ b \in Nat /\ y \in Nat /\ y # 0 /\ y <= Batches(c) /\ y = i.ibatch + k + 1
  <2>1. PICK B, p : B = Batches(c) /\ p = i.ibatch
    OBVIOUS
  <2>2. B \in Nat /\ p \in Nat
    BY <1>3, <2>1
  <2>3. k \in 0 .. B - p - 1 /\ b = p + k /\ y = b + 1
    BY <1>2, <1>4, <1>5, <2>1
  <2>4. k \in Nat /\ b \in Nat /\ y \in Nat /\ y # 0 /\ y <= B /\ y = p + k + 1
    BY <2>2, <2>3
  <2> QED BY <2>1, <2>4
<1>7. PICK w1, m, u : /\ w1 = SendHandlerEager(r, i, w, k)
                      /\ m = MsgBusy(Batch(r, i, b), i.buf, q) /\ u = MoreTable(t, h, q, y)
  OBVIOUS
<1>8. PICK x : x = w1 \o <<m>>
  OBVIOUS
<1>9. q \in free[r] /\ q \in Handles /\ q # h
  <2>1. Requests \subseteq Handles
    BY BoundsAssumption, NAssumption DEF Requests, Handles
  <2> QED BY <1>1, <1>2, <1>3, <1>4, <2>1, NewRequestFree
<1>10. Written(w1, Len(w) + k, {}, r, d, round[r], c, e)
  <2>1. PICK n : n = round[r]
    OBVIOUS
  <2>2. /\ w \in Seq(Message) /\ Silent(w) /\ e \in Int /\ e + Len(w) = i.ibatch + 1
        /\ Parts(w, r, d, n, c, e) /\ c = i.count /\ d = i.peer /\ w1 = SendHandlerEager(r, i, w, k)
    BY <1>2, <1>7, <2>1
  <2>3. i \in Info /\ i.ibatch \in Nat /\ round[r] \in Int /\ k \in Nat
    BY <1>3, <1>6
  <2>4. Written(w1, Len(w) + k, {}, r, d, n, c, e)
    BY <2>1, <2>2, <2>3, EagerParts
  <2> QED BY <2>1, <2>4
<1>11. e + Len(w1) = y /\ Len(w1) \in Nat
  <2>1. Len(w) \in Nat
    BY <1>2, LenProperties
  <2>2. PICK L, p, X : L = Len(w) /\ p = i.ibatch /\ X = Len(w1)
    OBVIOUS
  <2>3. L \in Nat /\ p \in Nat /\ e \in Int /\ e + L = p + 1 /\ k \in Nat /\ X = L + k /\ y = p + k + 1
    BY <1>2, <1>3, <1>6, <1>10, <2>1, <2>2 DEF Written
  <2>4. e + X = y /\ X \in Nat
    BY <2>3
  <2> QED BY <2>2, <2>4
<1>12. m \in Message /\ m.req = q /\ m.val = PartAt(r, d, round[r], c, y)
  <2>1. PICK z : z = Batch(r, i, b)
    OBVIOUS
  <2>2. z \in Seq(Word) /\ z = PartAt(r, d, round[r], c, y)
    <3>1. z \in Seq(Word)
      BY <1>3, <1>6, <2>1, BatchWords
    <3>2. z = PartAt(r, i.peer, round[r], i.count, y)
      BY <1>5, <1>6, <2>1, BatchPart
    <3> QED BY <1>2, <3>1, <3>2
  <2>3. i.buf \in Int
    BY <1>2, <1>3 DEF Buffers
  <2>4. m = MsgBusy(z, i.buf, q)
    BY <1>7, <2>1
  <2>5. m \in Message /\ m.req = q /\ m.val = z
    BY <1>9, <2>2, <2>3, <2>4 DEF MsgBusy, Message
  <2> QED BY <2>2, <2>5
<1>13. Written(x, Len(w1) + 1, {q}, r, d, round[r], c, e)
  <2>1. m.val = PartAt(r, d, round[r], c, e + Len(w1))
    BY <1>11, <1>12
  <2>2. PICK n : n = round[r]
    OBVIOUS
  <2>3. /\ w1 \in Seq(Message) /\ Parts(w1, r, d, n, c, e) /\ \A j \in 1 .. Len(w1) : w1[j].req = Null
    BY <1>10, <2>2 DEF Written
  <2>4. e \in Int /\ m \in Message /\ m.val = PartAt(r, d, n, c, e + Len(w1)) /\ x = w1 \o <<m>>
    BY <1>2, <1>8, <1>12, <2>1, <2>2
  <2>5. Written(x, Len(w1) + 1, {m.req}, r, d, n, c, e)
    BY <2>3, <2>4, BusyParts
  <2> QED BY <1>12, <2>2, <2>5
<1>14. /\ net' = [net EXCEPT ![r][d] = net[r][d] \o x]
       /\ info' = [info EXCEPT ![r] = u]
  <2>1. net' = [net EXCEPT ![r][d] = (net[r][d] \o w1) \o <<m>>]
    BY <1>2, <1>4, <1>5, <1>7
  <2>2. (net[r][d] \o w1) \o <<m>> = net[r][d] \o x
    <3>1. PICK a, f : a = net[r][d] /\ f = <<m>>
      OBVIOUS
    <3>2. a \in Seq(Message) /\ f \in Seq(Message)
      BY <1>3, <1>12, <3>1
    <3>3. (a \o w1) \o f = a \o (w1 \o f)
      BY <1>10, <3>2, ConcatAssociative DEF Written
    <3> QED BY <1>8, <3>1, <3>3
  <2>3. info' = [info EXCEPT ![r] = u]
    <3>1. u = FreeInternal([t EXCEPT ![q] = [i EXCEPT !.ibatch = y, !.custom = FALSE]], h)
      BY <1>1, <1>7, Zenon DEF MoreTable
    <3>2. y = i.ibatch + k + 1
      BY <1>6
    <3> QED BY <1>4, <3>1, <3>2, Zenon
  <2> QED BY <2>1, <2>2, <2>3
<1>15. /\ \A g \in Handles : g # h /\ g # q => Alike(u, t, g)
       /\ u[q].peer = d /\ u[q].count = c /\ u[q].ibatch = y
  <2>1. /\ ncaches \in Nat /\ t \in [Handles -> Info] /\ h \in Handles /\ q \in Handles /\ q # h
        /\ y \in Int /\ u = MoreTable(t, h, q, y)
    BY <1>2, <1>3, <1>6, <1>7, <1>9
  <2>2. \A g \in Handles : g # h /\ g # q => Alike(u, t, g)
    BY <2>1, MoreKeeps
  <2>3. u[q].peer = t[h].peer /\ u[q].count = t[h].count /\ u[q].ibatch = y
    BY <2>1, MoreKeeps
  <2> QED BY <1>1, <1>2, <2>2, <2>3
<1>16. info'[r] = u
  BY <1>3, <1>14
<1>17. net'[r][d] = net[r][d] \o x /\ net[r][d] \in Seq(Message)
  BY <1>3, <1>14
<1>18. PICK M : M = {q}
  OBVIOUS
<1>19. CarriesAlso(net'[r][d], net[r][d], M)
  <2>1. PICK n, l : n = round[r] /\ l = Len(w1) + 1
    OBVIOUS
  <2>2. Written(x, l, M, r, d, n, c, e)
    BY <1>13, <1>18, <2>1
  <2>3. PICK y1, z : y1 = net[r][d] /\ z = net'[r][d]
    OBVIOUS
  <2>4. y1 \in Seq(Message) /\ z = y1 \o x
    BY <1>17, <2>3
  <2>5. CarriesAlso(z, y1, M)
    BY <2>2, <2>4, CarriesMore
  <2> QED BY <2>3, <2>5
<1>20. e + Len(x) - 1 = y
  BY <1>2, <1>11, <1>13 DEF Written
<1>21. e + Len(x) - 1 \in 0 .. Batches(c) /\ M \subseteq free[r] /\ Sending(r, d, x)
  BY <1>3, <1>6, <1>9, <1>14, <1>18, <1>20 DEF Sending
<1>22. \E a \in Handles : /\ M = {a} /\ info'[r][a].peer = d /\ info'[r][a].count = c
                          /\ info'[r][a].ibatch = e + Len(x) - 1
  BY <1>9, <1>15, <1>16, <1>18, <1>20
<1>23. \A g \in Handles : g # h /\ g \notin M => Alike(info'[r], t, g)
  BY <1>15, <1>16, <1>18
<1>24. Continues(r, d, h, t, x, M, e, c)
  BY <1>13, <1>19, <1>21, <1>22, <1>23, Zenon DEF Continues, Written
<1> QED BY <1>24

\* send_handler continues its send either way.
LEMMA HandlerContinues ==
  ASSUME NEW r \in Ranks, TypeInv, NEW d \in Ranks, NEW h, NEW t, NEW w, NEW e, NEW c,
         Calling(r, d, h, t, w, e, c), SendHandler(r, h, t, w)
  PROVE  \E x, M : Continues(r, d, h, t, x, M, e, c)
BY LastContinues, MoreContinues DEF SendHandler

\* The position of part e of the n-th message, of c elements, or after its end.
AtPart(n, c, e, k, i) == IF e <= Batches(c) THEN k = n /\ i = e ELSE k = n + 1 /\ i = 0

\* Consecutive parts of a round are a run of consecutive positions of the stream.
LEMMA PartsRun ==
  ASSUME NEW r, NEW d, NEW n \in Int, NEW c \in Nat, NEW e \in Nat, NEW x \in Seq(Message),
         Parts(x, r, d, n, c, e), e + Len(x) - 1 \in 0 .. Batches(c),
         n \in 1 .. Len(sent'[r][d]), CountOf(r, d, n)' = c,
         NEW k, NEW i, AtPart(n, c, e, k, i), NEW l, NEW m, AtPart(n, c, e + Len(x), l, m)
  PROVE  Run(r, d, x, k, i, l, m)'
<1>1. PICK L, B : L = Len(x) /\ B = Batches(c)
  OBVIOUS
<1>2. L \in Nat /\ B \in Nat /\ e + L - 1 \in 0 .. B
  BY <1>1, LenProperties, BatchBounds
<1>3. /\ IF e <= B THEN k = n /\ i = e ELSE k = n + 1 /\ i = 0
      /\ IF e + L <= B THEN l = n /\ m = e + L ELSE l = n + 1 /\ m = 0
  BY <1>1 DEF AtPart
<1>4. CASE L = 0
  <2>1. l = k /\ m = i
    BY <1>2, <1>3, <1>4
  <2> QED BY <1>1, <1>4, <2>1 DEF Run
<1>5. CASE L # 0
  <2>1. k = n /\ i = e /\ i \in Nat /\ i + L - 1 <= B
    BY <1>2, <1>3, <1>5
  <2>2. ASSUME NEW j \in 1 .. L
        PROVE  x[j].val = ValueAt(r, d, k, i + j - 1)'
    <3>1. PICK y : y = i + j - 1
      OBVIOUS
    <3>2. x[j].val = PartAt(r, d, n, c, y)
      BY <1>1, <2>1, <3>1 DEF Parts
    <3>3. ValueAt(r, d, n, y)' = PartAt(r, d, n, CountOf(r, d, n)', y)
      BY Zenon DEF ValueAt, PartAt, BatchOf, CountWord, BatchLen, DataWord
    <3> QED BY <2>1, <3>1, <3>2, <3>3
  <2>3. Batches(CountOf(r, d, n))' = B
    BY <1>1, Zenon DEF Batches
  <2>4. IsAfter(r, d, k, i + L - 1, l, m)'
    <3>1. PICK y : y = i + L - 1
      OBVIOUS
    <3>2. IF y < B THEN l = k /\ m = y + 1 ELSE l = k + 1 /\ m = 0
      BY <1>2, <1>3, <2>1, <3>1
    <3>3. IsAfter(r, d, k, y, l, m)'
      BY <2>1, <2>3, <3>2 DEF IsAfter
    <3> QED BY <3>1, <3>3
  <2>5. k \in 1 .. Len(sent'[r][d]) /\ i + L - 1 <= Batches(CountOf(r, d, k))'
    BY <2>1, <2>3
  <2> QED BY <1>1, <1>5, <2>1, <2>2, <2>4, <2>5 DEF Run
<1> QED BY <1>4, <1>5

\* Where the sender is after send_handler.
LEMMA SenderNext ==
  ASSUME NEW r \in Ranks, NEW d \in Peers(r), NEW h, NEW t, NEW x, NEW M, NEW e \in Nat,
         NEW c \in Nat, Continues(r, d, h, t, x, M, e, c), NEW n \in Int, n >= 1,
         round'[r] = n, Len(sent'[r][d]) = n, SentRounds(r, d)' = n, CountOf(r, d, n)' = c,
         SendReqs(r, d)' = M, NEW l, NEW m, AtPart(n, c, e + Len(x), l, m)
  PROVE  SenderAt(r, d, l, m)'
<1>1. PICK L, B, y : L = Len(x) /\ B = Batches(c) /\ y = e + L - 1
  OBVIOUS
<1>2. L \in Nat /\ B \in Nat /\ y \in 0 .. B
  <2>1. x \in Seq(Message) /\ y \in 0 .. B
    BY <1>1, Zenon DEF Continues
  <2> QED BY <1>1, <2>1, LenProperties, BatchBounds
<1>3. IF e + L <= B THEN l = n /\ m = e + L ELSE l = n + 1 /\ m = 0
  BY <1>1 DEF AtPart
<1>4. Batches(CountOf(r, d, n))' = B
  BY <1>1, Zenon DEF Batches
<1>5. \/ M = {} /\ y = B
      \/ \E q \in Handles : /\ M = {q} /\ info'[r][q].peer = d /\ info'[r][q].count = c
                            /\ info'[r][q].ibatch = y
  BY <1>1, Zenon DEF Continues
<1>6. CASE M = {} /\ y = B
  <2>1. l = n + 1 /\ m = 0
    BY <1>1, <1>2, <1>3, <1>6
  <2> QED BY <1>6, <2>1 DEF SenderAt, Peers
<1>7. ASSUME NEW q \in Handles, M = {q}, info'[r][q].peer = d, info'[r][q].count = c,
             info'[r][q].ibatch = y
      PROVE  SenderAt(r, d, l, m)'
  <2>1. IF y < B THEN l = n /\ m = y + 1 ELSE l = n + 1 /\ m = 0
    BY <1>1, <1>2, <1>3
  <2>2. IsAfter(r, d, n, y, l, m)'
    BY <1>4, <2>1 DEF IsAfter
  <2>3. y \in 0 .. Batches(CountOf(r, d, n))'
    BY <1>2, <1>4
  <2>4. InProgress(r, d, q, l, m)'
    BY <1>7, <2>2, <2>3 DEF InProgress
  <2>5. \E a \in Handles : (SendReqs(r, d) = {a} /\ InProgress(r, d, a, l, m))'
    BY <1>7, <2>4
  <2>6. d \in Peers(r)' /\ Len(sent'[r][d]) = SentRounds(r, d)'
    BY DEF Peers
  <2>7. Handles' = Handles
    BY DEF Handles
  <2> QED BY <2>5, <2>6, <2>7 DEF SenderAt
<1> QED BY <1>5, <1>6, <1>7

\* Which requests are under way after send_handler.
LEMMA ReqsAfter ==
  ASSUME NEW r \in Ranks, NEW d \in Ranks, TypeInv, RankInv(r), Open(r), NEW h, NEW t, NEW x,
         NEW M, NEW e, NEW c, Continues(r, d, h, t, x, M, e, c), h \in Handles,
         h \notin ReqsIn(net[r]), done'[r] = done[r] \ {h},
         \A g \in Handles : g # h => t[g] = info[r][g]
  PROVE  /\ SendReqs(r, d)' = (SendReqs(r, d) \ {h}) \cup M
         /\ \A f \in Ranks : f # d => SendReqs(r, f)' = SendReqs(r, f) \ {h}
         /\ Keeps(r, InUCX(r) \ {h})
<1>1. /\ CarriesAlso(net'[r][d], net[r][d], M) /\ M \subseteq free[r] /\ Sending(r, d, x)
      /\ \A g \in Handles : g # h /\ g \notin M => Alike(info'[r], t, g)
  BY Zenon DEF Continues
<1>2. M \subseteq Handles /\ \A g \in M : g \notin InUCX(r)
  BY <1>1, OpenFacts
<1>3. \A f \in Ranks : f # d => net'[r][f] = net[r][f]
  BY <1>1 DEF Sending, TypeInv
<1>4. \A a \in InUCX(r) : a \in Handles /\ a \notin M
  <2>1. InUCX(r) \subseteq Handles
    BY DEF InUCX, ReqsIn, TypeInv
  <2> QED BY <1>2, <2>1
<1>5. Keeps(r, InUCX(r) \ {h})
  BY <1>1, <1>4 DEF Keeps, Alike
<1>6. \A a \in done[r] : a # h => info'[r][a].peer = info[r][a].peer
  BY <1>5 DEF Keeps, InUCX
<1>7. \A f \in Ranks : ~ Carries(net[r][f], h)
  BY DEF ReqsIn, Items, Carries
<1>8. ASSUME NEW a \in Handles
      PROVE  a \in SendReqs(r, d)' <=> (a \in SendReqs(r, d) /\ a # h) \/ a \in M
  <2>1. Carries(net'[r][d], a) <=> Carries(net[r][d], a) \/ a \in M
    BY <1>1 DEF CarriesAlso
  <2>2. a \in SendReqs(r, d)' <=> Carries(net'[r][d], a) \/ (a \in done'[r] /\ info'[r][a].peer = d)
    BY DEF SendReqs, Handles
  <2>3. a \in SendReqs(r, d) <=> Carries(net[r][d], a) \/ (a \in done[r] /\ info[r][a].peer = d)
    BY DEF SendReqs
  <2> QED BY <1>6, <1>7, <2>1, <2>2, <2>3
<1>9. SendReqs(r, d)' = (SendReqs(r, d) \ {h}) \cup M
  <2>1. SendReqs(r, d) \subseteq Handles /\ SendReqs(r, d)' \subseteq Handles
    BY DEF SendReqs, Handles
  <2> QED BY <1>2, <1>8, <2>1
<1>10. ASSUME NEW f \in Ranks, f # d
       PROVE  SendReqs(r, f)' = SendReqs(r, f) \ {h}
  <2>1. net'[r][f] = net[r][f]
    BY <1>3, <1>10
  <2>2. ASSUME NEW a \in Handles
        PROVE  a \in SendReqs(r, f)' <=> a \in SendReqs(r, f) /\ a # h
    <3>1. a \in SendReqs(r, f)' <=> Carries(net'[r][f], a) \/ (a \in done'[r] /\ info'[r][a].peer = f)
      BY DEF SendReqs, Handles
    <3>2. a \in SendReqs(r, f) <=> Carries(net[r][f], a) \/ (a \in done[r] /\ info[r][a].peer = f)
      BY DEF SendReqs
    <3> QED BY <1>6, <1>7, <2>1, <3>1, <3>2
  <2>3. SendReqs(r, f) \subseteq Handles /\ SendReqs(r, f)' \subseteq Handles
    BY DEF SendReqs, Handles
  <2> QED BY <2>2, <2>3
<1> QED BY <1>5, <1>9, <1>10

\* The receives of a rank that sends.
LEMMA ReceivesWait ==
  ASSUME NEW r \in Ranks, TypeInv, Keeps(r, ReqsIn(posted[r])), Open(r), Open(r)',
         round' = round, posted' = posted, countMem' = countMem, recvBuf' = recvBuf,
         stack[r] = << >>, stack'[r] = << >>, \A s \in Ranks : SentGrows(s, r),
         \A s \in Peers(r) : NotYet(r, s)' <=> NotYet(r, s)
  PROVE  \A s \in Ranks : ReceiverStays(r, s)
<1> SUFFICES ASSUME NEW s \in Ranks
             PROVE  ReceiverStays(r, s)
  OBVIOUS
<1>1. DueFor(r, s) = {} /\ DueFor(r, s)' = {}
  BY DEF DueFor, Due, HandlerReady
<1>2. s \in Peers(r) => (NotYet(r, s)' <=> NotYet(r, s))
  OBVIOUS
<1>3. /\ round'[r] = round[r] /\ posted'[r][s] = posted[r][s]
      /\ countMem'[r][s] = countMem[r][s] /\ recvBuf'[r][s] = recvBuf[r][s]
  OBVIOUS
<1> QED BY <1>1, <1>2, <1>3, OtherRecv

\* A step that continues one send and moves nothing else keeps the streams.
LEMMA ContinuesDel ==
  ASSUME NEW r \in Ranks, NEW d \in Ranks, d \in Peers(r), TypeInv, DelInv, Bystanders(r), UserType',
         NEW h, NEW t, NEW x, NEW M, NEW e \in Nat, NEW c \in Nat,
         Continues(r, d, h, t, x, M, e, c), NEW n \in Int, n >= 1, n = round[r], round'[r] = n,
         Len(sent'[r][d]) = n, SentRounds(r, d)' = n, CountOf(r, d, n)' = c, SendReqs(r, d)' = M,
         \A q \in Ranks : SentGrows(r, q), \A s \in Ranks : ReceiverStays(r, s),
         \A f \in Ranks : f # d => SenderStays(r, f),
         \A k, i : SenderAt(r, d, k, i) => AtPart(n, c, e, k, i)
  PROVE  DelInv'
<1>1. x \in Seq(Message) /\ Sending(r, d, x) /\ Parts(x, r, d, n, c, e)
      /\ e + Len(x) - 1 \in 0 .. Batches(c)
  BY Zenon DEF Continues
<1>2. ASSUME NEW k, NEW i, SenderAt(r, d, k, i)
      PROVE  \E l, m : Run(r, d, x, k, i, l, m)' /\ SenderAt(r, d, l, m)'
  <2>1. PICK l, m : AtPart(n, c, e + Len(x), l, m)
    <3>1. CASE e + Len(x) <= Batches(c)
      BY <3>1 DEF AtPart
    <3>2. CASE ~ (e + Len(x) <= Batches(c))
      BY <3>2 DEF AtPart
    <3> QED BY <3>1, <3>2
  <2>2. AtPart(n, c, e, k, i)
    BY <1>2
  <2>3. n \in 1 .. Len(sent'[r][d])
    OBVIOUS
  <2>4. Run(r, d, x, k, i, l, m)'
    BY <1>1, <2>1, <2>2, <2>3, PartsRun
  <2>5. SenderAt(r, d, l, m)'
    BY <2>1, SenderNext
  <2> QED BY <2>4, <2>5
<1> QED BY <1>1, <1>2, OneSends

\* A completed send: the callback sends the next batches.
LEMMA ProgressSendDel ==
  ASSUME NEW r \in Ranks, TypeInv, \A p \in Ranks : RankInv(p), DelInv, ProgressSend(r)
  PROVE  DelInv'
<1>1. PICK h \in done[r] :
        /\ pc[r] = "stop" /\ stack[r] = << >>
        /\ done' = [done EXCEPT ![r] = done[r] \ {h}]
        /\ SendHandler(r, h, info[r], << >>)
        /\ UNCHANGED <<ncaches, pc, idx, round, pending, cache, posted, stack, mode,
                       countMem, recvBuf, sent>>
  BY Zenon DEF ProgressSend, Polling, Idle, loop, callbacks, user
<1>2. RankInv(r) /\ Open(r) /\ Open(r)'
  BY <1>1 DEF Open
<1>3. /\ h \in Handles /\ h \in InUCX(r) /\ h \in Active(r) /\ h \in Requests
      /\ h \notin ReqsIn(net[r]) /\ h \notin ReqsIn(posted[r])
  <2>1. h \in InUCX(r) /\ h \in Active(r)
    BY DEF InUCX, Active
  <2> QED BY <1>2, <2>1, OpenFacts DEF PlaceInv, RankInv
<1>4. PICK t, w, d, n : t = info[r] /\ w = << >> /\ d = info[r][h].peer /\ n = round[r]
  OBVIOUS
<1>5. t \in [Handles -> Info] /\ d \in Ranks /\ n \in Int
  BY <1>3, <1>4 DEF TypeInv, Info
<1>6. h \in SendReqs(r, d)
  BY <1>3, <1>4 DEF SendReqs
<1>7. PICK k0, i0 : SenderAt(r, d, k0, i0)
  BY <1>5 DEF DelInv, Between
<1>8. /\ d \in Peers(r) /\ SendReqs(r, d) = {h} /\ Len(sent[r][d]) = n /\ n >= 1
      /\ info[r][h].count = CountOf(r, d, n)
      /\ info[r][h].ibatch \in 0 .. Batches(CountOf(r, d, n))
  <2>1. pc[r] # "thrown"
    BY <1>1
  <2>2. d \in Peers(r)
    BY <1>6, <1>7, <2>1 DEF SenderAt
  <2>3. PICK a \in Handles : SendReqs(r, d) = {a} /\ InProgress(r, d, a, k0, i0)
    BY <1>6, <1>7, <2>1, <2>2 DEF SenderAt
  <2>4. a = h
    BY <1>6, <2>3
  <2> QED BY <1>4, <2>2, <2>3, <2>4 DEF InProgress
<1>9. PICK c, b, e : c = CountOf(r, d, n) /\ b = info[r][h].ibatch /\ e = b + 1
  OBVIOUS
<1>10. c \in Nat /\ Batches(c) \in Nat
  <2>1. sent[r][d] \in Seq(0 .. MaxCount)
    BY <1>5 DEF DelInv, UserType
  <2>2. n \in 1 .. Len(sent[r][d])
    BY <1>5, <1>8
  <2>3. c \in 0 .. MaxCount
    BY <1>9, <2>1, <2>2, ElementOfSeq DEF CountOf
  <2> QED BY <2>3, BatchBounds, BoundsAssumption
<1>11. b \in 0 .. Batches(c) /\ e \in Nat /\ e \in Int
  BY <1>8, <1>9, <1>10
<1>12. SendCall(r, h, t, w)
  <2>1. OwnInv(r) /\ CarryInv(r) /\ PlaceInv(r)
    BY <1>2 DEF RankInv
  <2>2. BufOf(r, h) \in Buffers /\ OrigOf(r, h) \in Transfers(r)
    BY <1>2, <1>3, <2>1, BufsApart
  <2>3. /\ t[h].orig \in Handles /\ t[h].orig \notin free[r] /\ t[h].buf \in Buffers /\ h \notin free[r]
    BY <1>2, <1>3, <1>4, <2>2, OpenFacts DEF BufOf, OrigOf
  <2>4. w \in Seq(Message) /\ Silent(w)
    BY <1>4, EmptySeq DEF Silent
  <2>5. Once(net[r]) /\ free[r] \cap ReqsIn(net[r]) = {}
    BY <1>2, <2>1 DEF PlaceInv, InUCX
  <2> QED BY <1>3, <1>5, <2>3, <2>4, <2>5 DEF SendCall
<1>13. Calling(r, d, h, t, w, e, c)
  <2>1. Len(w) = 0 /\ Parts(w, r, d, round[r], c, e)
    BY <1>4 DEF Parts
  <2>2. t[h].peer = d /\ t[h].count = c /\ t[h].ibatch = b
    BY <1>4, <1>8, <1>9
  <2>3. e + Len(w) = b + 1
    BY <1>9, <1>10, <1>11, <2>1
  <2> QED BY <1>10, <1>11, <1>12, <2>1, <2>2, <2>3, Zenon DEF Calling
<1>14. SendHandler(r, h, t, w)
  BY <1>1, <1>4
<1>15. PICK x, M : Continues(r, d, h, t, x, M, e, c)
  BY <1>5, <1>13, <1>14, HandlerContinues
<1>16. done'[r] = done[r] \ {h}
  BY <1>1 DEF TypeInv
<1>17. /\ SendReqs(r, d)' = (SendReqs(r, d) \ {h}) \cup M
       /\ \A f \in Ranks : f # d => SendReqs(r, f)' = SendReqs(r, f) \ {h}
       /\ Keeps(r, InUCX(r) \ {h})
  <2>1. \A g \in Handles : g # h => t[g] = info[r][g]
    BY <1>4
  <2> QED BY <1>2, <1>3, <1>5, <1>15, <1>16, <2>1, ReqsAfter
<1>18. Bystanders(r)
  <2>1. Elsewhere(r)
    BY ProgressSendRank
  <2> QED BY <1>1, <2>1 DEF Bystanders, Elsewhere
<1>19. \A q, s \in Ranks : SentGrows(q, s)
  BY <1>1 DEF SentGrows
<1>20. \A s \in Ranks : ReceiverStays(r, s)
  <2>1. Keeps(r, ReqsIn(posted[r]))
    BY <1>3, <1>17 DEF Keeps, InUCX
  <2>2. \A s \in Peers(r) : NotYet(r, s)' <=> NotYet(r, s)
    BY <1>1 DEF NotYet
  <2> QED BY <1>1, <1>2, <1>19, <2>1, <2>2, ReceivesWait
<1>21. ASSUME NEW f \in Ranks, f # d
       PROVE  SenderStays(r, f)
  <2>1. h \notin SendReqs(r, f)
    BY <1>3, <1>4, <1>21 DEF SendReqs, Carries, ReqsIn, Items
  <2>2. SendReqs(r, f)' = SendReqs(r, f)
    BY <1>17, <1>21, <2>1
  <2>3. Keeps(r, SendReqs(r, f))
    BY <1>2, <1>17, <2>1, SendReqIs DEF Keeps
  <2>4. SentRounds(r, f)' = SentRounds(r, f)
    BY <1>1 DEF SentRounds
  <2> QED BY <1>1, <1>2, <2>2, <2>3, <2>4, OtherSend
<1>22. ASSUME NEW k, NEW i, SenderAt(r, d, k, i)
       PROVE  AtPart(n, c, e, k, i)
  <2>1. pc[r] # "thrown"
    BY <1>1
  <2>2. PICK a \in Handles : SendReqs(r, d) = {a} /\ InProgress(r, d, a, k, i)
    BY <1>6, <1>8, <1>22, <2>1 DEF SenderAt
  <2>3. a = h
    BY <1>6, <2>2
  <2>4. IsAfter(r, d, n, b, k, i)
    BY <1>4, <1>9, <2>2, <2>3 DEF InProgress
  <2> QED BY <1>9, <1>10, <1>11, <2>4 DEF IsAfter, AtPart
<1>23. UserType'
  BY <1>1 DEF DelInv, UserType, Word
<1>24. SendReqs(r, d)' = M
  BY <1>8, <1>17
<1>25. /\ round'[r] = n /\ Len(sent'[r][d]) = n /\ SentRounds(r, d)' = n /\ CountOf(r, d, n)' = c
  BY <1>1, <1>4, <1>8, <1>9 DEF SentRounds, CountOf
<1>26. \A f \in Ranks : f # d => SenderStays(r, f)
  BY <1>21
<1>27. \A k, i : SenderAt(r, d, k, i) => AtPart(n, c, e, k, i)
  BY <1>22
<1>28. d \in Peers(r) /\ n >= 1 /\ n = round[r]
  BY <1>4, <1>8
<1> QED BY <1>5, <1>10, <1>11, <1>15, <1>18, <1>19, <1>20, <1>23, <1>24, <1>25, <1>26, <1>27, <1>28,
           ContinuesDel

\* A send fills its request with its count, its peer and batch 0.
LEMMA FilledSteers ==
  ASSUME ncaches \in Nat, NEW t \in [Handles -> Info], NEW h \in Handles, NEW i \in Info,
         NEW b \in Buffers, NEW c \in Int, NEW d \in Ranks, NEW u,
         u = Fill(t, h, i, b, c, d)
  PROVE  u[h].count = c /\ u[h].peer = d /\ u[h].ibatch = 0
<1>1. PICK z \in Int : z = 0
  OBVIOUS
<1> DEFINE k == [i EXCEPT !.orig = h, !.buf = b, !.count = c, !.peer = d, !.ibatch = z]
<1>2. k.count = c /\ k.peer = d /\ k.ibatch = z
  BY DEF Info
<1>3. u = [t EXCEPT ![h] = k]
  BY <1>1, Zenon DEF Fill
<1> HIDE DEF k
<1>4. u[h] = k
  BY <1>3
<1> QED BY <1>1, <1>2, <1>4

\* The handle from malloc, filled in by send.
CallsNow(r, d, n, c, h, t, w) ==
  /\ SendCall(r, h, t, w) /\ t[h].peer = d /\ t[h].count = c /\ t[h].ibatch = 0
  /\ h \in Handles /\ h \notin InUCX(r) /\ \A g \in Handles : g # h => t[g] = info[r][g]
  /\ Len(w) = 1 /\ w[1].val = <<CountWord(r, d, n, c)>>

\* A send whose count goes out at once calls send_handler with the count as only message so far.
LEMMA NowCalls ==
  ASSUME NEW r \in Ranks, NEW c \in Int, TypeInv, RankInv(r), pc[r] = "send", stack[r] = << >>,
         cache[r] # << >>, NEW d, d = idx[r], NEW h, h = Heap(d), NEW n, n = round[r],
         NEW t, t = SendFill(r, h, [InitInfo EXCEPT !.custom = TRUE], d, c),
         NEW w, w = <<Msg(<<CountWord(r, d, n, c)>>)>>
  PROVE  CallsNow(r, d, n, c, h, t, w)
<1> DEFINE old == [InitInfo EXCEPT !.custom = TRUE]
           v == <<CountWord(r, d, n, c)>>
<1>0. PICK b : b = Head(cache[r])
  OBVIOUS
<1>1. Open(r) /\ OwnInv(r) /\ HeapInv(r) /\ PlaceInv(r) /\ CarryInv(r)
  BY DEF Open, RankInv
<1>2. /\ ncaches \in Nat /\ n \in Int /\ info[r] \in [Handles -> Info] /\ d \in Ranks
      /\ cache[r] \in Seq(Buffers)
  BY DEF TypeInv
<1>3. h \in Handles /\ h > MaxReq
  BY <1>2, NAssumption, BoundsAssumption DEF Heap, Handles, Ranks
<1>4. h \notin free[r] /\ h \notin InUCX(r)
  <2>1. \A g \in Requests : g <= MaxReq
    BY BoundsAssumption DEF Requests
  <2>2. free[r] \subseteq Requests /\ InUCX(r) \cup InStack(r) \subseteq Requests
    BY <1>1 DEF TypeInv, PlaceInv
  <2> QED BY <1>3, <2>1, <2>2, BoundsAssumption DEF Handles
<1>5. b \in Buffers /\ b = cache[r][1]
  BY <1>0, <1>2, HeadTailProperties
<1>6. /\ t \in [Handles -> Info] /\ (\A g \in Handles : g # h => t[g] = info[r][g])
      /\ t[h].orig = h /\ t[h].buf = b /\ t[h].count = c /\ t[h].peer = d /\ t[h].ibatch = 0
  <2>1. PICK T, i : T = info[r] /\ i = old
    OBVIOUS
  <2>2. i \in Info
    <3>1. InitInfo \in Info
      <4>1. PICK j \in Info : TRUE
        BY <1>2, <1>3
      <4> QED BY <1>2, <4>1, ResetInfo
    <3>2. PICK f \in BOOLEAN : f = TRUE
      OBVIOUS
    <3>3. i = [InitInfo EXCEPT !.custom = f]
      BY <2>1, <3>2, Zenon
    <3> QED BY <3>1, <3>3 DEF Info
  <2>3. t = Fill(T, h, i, b, c, d)
    BY <1>0, <2>1, Zenon DEF SendFill, Fill
  <2>4. /\ ncaches \in Nat /\ T \in [Handles -> Info] /\ h \in Handles /\ i \in Info
        /\ b \in Buffers /\ c \in Int /\ d \in Ranks
    BY <1>2, <1>3, <1>5, <2>1, <2>2
  <2>5. t \in [Handles -> Info]
    <3>1. PICK u : u = t
      OBVIOUS
    <3>2. u = Fill(T, h, i, b, c, d)
      BY <2>3, <3>1
    <3>3. u \in [Handles -> Info]
      BY <2>4, <3>2, Filled
    <3> QED BY <3>1, <3>3
  <2>6. \A g \in Handles : g # h => t[g] = T[g]
    BY <2>3, <2>4, Filled
  <2>7. t[h].orig = h /\ t[h].buf = b
    BY <2>3, <2>4, Filled
  <2>8. t[h].count = c /\ t[h].peer = d /\ t[h].ibatch = 0
    BY <2>3, <2>4, FilledSteers
  <2> QED BY <2>1, <2>5, <2>6, <2>7, <2>8
<1>7. w \in Seq(Message) /\ Silent(w) /\ Len(w) = 1 /\ w[1].val = v
  <2>1. CountWord(r, d, n, c) \in Word
    BY <1>2 DEF CountWord, Word, Ranks
  <2>2. v \in Seq(Word)
    BY <2>1
  <2> HIDE DEF v
  <2>3. PICK m : m = Msg(v)
    OBVIOUS
  <2>4. m \in Message /\ m.req = Null /\ m.ref = Null /\ m.val = v
    BY <2>2, <2>3 DEF Msg, Message, Null
  <2>5. w = <<m>>
    BY <2>3 DEF v
  <2>6. w \in Seq(Message) /\ Len(w) = 1 /\ w[1] = m
    BY <2>4, <2>5
  <2> QED BY <2>4, <2>6 DEF Silent
<1>8. SendCall(r, h, t, w)
  <2>1. Once(net[r]) /\ free[r] \cap ReqsIn(net[r]) = {}
    BY <1>1 DEF PlaceInv, InUCX
  <2> QED BY <1>3, <1>4, <1>5, <1>6, <1>7, <2>1 DEF SendCall
<1> QED BY <1>3, <1>4, <1>6, <1>7, <1>8 DEF CallsNow

\* A call of send: one more count, one more peer passed.
SendGiven(r, d, c) ==
  /\ d = idx[r] /\ d \in Ranks /\ d \in Peers(r) /\ pc[r] = "send" /\ stack[r] = << >>
  /\ Open(r) /\ Open(r)' /\ c \in 0 .. MaxCount /\ Bystanders(r) /\ UserType'
  /\ sent' = [sent EXCEPT ![r][d] = Append(sent[r][d], c)]
  /\ SentRounds(r, d) = round[r] - 1 /\ SentRounds(r, d)' = round[r]
  /\ \A e \in Peers(r) : e # d => SentRounds(r, e)' = SentRounds(r, e)
  /\ \A e \in Peers(r) : NotYet(r, e) /\ NotYet(r, e)'
  /\ \A e \in Ranks : SentGrows(e, r) /\ SentGrows(r, e)
  /\ UNCHANGED <<ncaches, round, done, posted, stack, countMem, recvBuf>>

\* A send appends its count to those of its peer and changes no other.
LEMMA AppendGrows ==
  ASSUME NEW S, NEW r \in Ranks, NEW d \in Ranks, sent \in [Ranks -> [Ranks -> Seq(S)]], NEW c \in S,
         sent' = [sent EXCEPT ![r][d] = Append(sent[r][d], c)], NEW m, m = Len(sent[r][d]) + 1
  PROVE  /\ sent' \in [Ranks -> [Ranks -> Seq(S)]]
         /\ \A q, e \in Ranks : SentGrows(q, e) /\ (q # r \/ e # d => sent'[q][e] = sent[q][e])
         /\ \A q \in Ranks : q # r => sent'[q] = sent[q]
         /\ Len(sent'[r][d]) = m /\ sent'[r][d][m] = c
<1>1. PICK u, n : u = sent[r][d] /\ n = Len(u)
  OBVIOUS
<1>2. u \in Seq(S) /\ n \in Nat
  BY <1>1, LenProperties
<1>3. PICK v : v = Append(u, c)
  OBVIOUS
<1>4. /\ v \in Seq(S) /\ Len(v) = n + 1 /\ v[n + 1] = c /\ \A k \in 1 .. n : v[k] = u[k]
  BY <1>1, <1>2, <1>3, AppendProperties
<1>5. sent' = [sent EXCEPT ![r][d] = v]
  BY <1>1, <1>3
<1>6. sent'[r][d] = v /\ sent' \in [Ranks -> [Ranks -> Seq(S)]]
  BY <1>4, <1>5
<1>7. \A q, e \in Ranks : q # r \/ e # d => sent'[q][e] = sent[q][e]
  BY <1>5
<1>8. \A q \in Ranks : q # r => sent'[q] = sent[q]
  BY <1>5
<1>9. ASSUME NEW q \in Ranks, NEW e \in Ranks
      PROVE  SentGrows(q, e)
  <2>1. CASE q = r /\ e = d
    <3>1. \A k \in 1 .. n : k \in 1 .. n + 1
      BY <1>2
    <3> QED BY <1>1, <1>4, <1>6, <2>1, <3>1 DEF SentGrows
  <2>2. CASE q # r \/ e # d
    BY <1>7, <2>2 DEF SentGrows
  <2> QED BY <2>1, <2>2
<1>10. Len(sent'[r][d]) = m /\ sent'[r][d][m] = c
  BY <1>1, <1>4, <1>6
<1> QED BY <1>6, <1>7, <1>8, <1>9, <1>10

\* A call of send opens the round for its peer and moves nothing else.
LEMMA SendCalled ==
  ASSUME NEW r \in Ranks, TypeInv, RankInv(r), DelInv, Elsewhere(r), NEW d, d = idx[r],
         NEW c \in 0 .. MaxCount, pc[r] = "send", stack[r] = << >>, LoopStep(r),
         sent' = [sent EXCEPT ![r][d] = Append(sent[r][d], c)],
         UNCHANGED <<ncaches, round, done, posted, stack, countMem, recvBuf>>
  PROVE  SendGiven(r, d, c)
<1>1. CountInv(r) /\ pc[r] \in {"send", "recv"} /\ Open(r)
  BY DEF RankInv, Open
<1>2. /\ \A e \in Peers(r) : (pc'[r] = pc[r] /\ e >= idx'[r]) <=> (e >= d /\ e # d)
      /\ pc'[r] # pc[r] => pc'[r] = (IF pc[r] = "send" THEN "recv" ELSE "stop")
      /\ pc[r] = "send" => \A e \in Peers(r) : NotYet(r, e)'
      /\ d \in Peers(r) /\ d \in Ranks
  BY <1>1, LoopPast
<1>3. Open(r)' /\ pc'[r] \in {"send", "recv"}
  BY <1>2 DEF Open
<1>4. \A e \in Peers(r) : NotYet(r, e) /\ NotYet(r, e)'
  BY <1>2 DEF NotYet
<1>5. d >= d
  BY <1>2, NAssumption DEF Ranks
<1>6. SentRounds(r, d) = round[r] - 1 /\ SentRounds(r, d)' = round[r]
  BY <1>2, <1>5 DEF SentRounds
<1>7. \A e \in Peers(r) : e # d => SentRounds(r, e)' = SentRounds(r, e)
  BY <1>2 DEF SentRounds
<1>8. sent \in [Ranks -> [Ranks -> Seq(0 .. MaxCount)]]
  BY DEF DelInv, UserType
<1>9. /\ sent' \in [Ranks -> [Ranks -> Seq(0 .. MaxCount)]]
      /\ \A q, e \in Ranks : SentGrows(q, e)
      /\ \A q \in Ranks : q # r => sent'[q] = sent[q]
  <2>1. PICK S, m : S = 0 .. MaxCount /\ m = Len(sent[r][d]) + 1
    OBVIOUS
  <2>2. sent \in [Ranks -> [Ranks -> Seq(S)]] /\ c \in S /\ d \in Ranks
    BY <1>2, <1>8, <2>1
  <2>3. sent' \in [Ranks -> [Ranks -> Seq(S)]]
    BY <2>1, <2>2, AppendGrows
  <2>4. \A q, e \in Ranks : SentGrows(q, e)
    BY <2>1, <2>2, AppendGrows
  <2>5. \A q \in Ranks : q # r => sent'[q] = sent[q]
    BY <2>1, <2>2, AppendGrows
  <2> QED BY <2>1, <2>3, <2>4, <2>5
<1>10. Bystanders(r)
  BY <1>9 DEF Bystanders, Elsewhere
<1>11. UserType'
  <2>1. recvBuf' = recvBuf /\ UserType
    BY DEF DelInv
  <2> QED BY <1>9, <2>1, Zenon DEF UserType, Word, Ranks
<1> QED BY <1>1, <1>2, <1>3, <1>4, <1>6, <1>7, <1>9, <1>10, <1>11 DEF SendGiven

\* No send to the next destination is under way.
LEMMA NextSend ==
  ASSUME NEW r \in Ranks, TypeInv, NEW d \in Ranks, d \in Peers(r), pc[r] = "send",
         SentRounds(r, d) = round[r] - 1, NEW k, NEW i, SenderAt(r, d, k, i)
  PROVE  /\ SendReqs(r, d) = {} /\ Len(sent[r][d]) = round[r] - 1 /\ k = round[r] /\ i = 0
<1>1. round[r] \in Int
  BY DEF TypeInv
<1>2. Len(sent[r][d]) = round[r] - 1
  BY DEF SenderAt
<1>3. \A a : ~ InProgress(r, d, a, k, i)
  BY <1>1, <1>2 DEF InProgress
<1>4. SendReqs(r, d) = {} /\ k = Len(sent[r][d]) + 1 /\ i = 0
  BY <1>3 DEF SenderAt
<1> QED BY <1>1, <1>2, <1>4

\* A call of send that continues from its count keeps the streams.
LEMMA CallDel ==
  ASSUME NEW r \in Ranks, NEW d, NEW c, TypeInv, RankInv(r), DelInv, SendGiven(r, d, c),
         NEW h \in Handles, h \notin InUCX(r), NEW t, \A g \in Handles : g # h => t[g] = info[r][g],
         NEW x, NEW M, Continues(r, d, h, t, x, M, 0, c)
  PROVE  DelInv'
<1>1. /\ d \in Ranks /\ d \in Peers(r) /\ pc[r] = "send" /\ stack[r] = << >>
      /\ Open(r) /\ Open(r)' /\ c \in 0 .. MaxCount /\ Bystanders(r) /\ UserType'
      /\ sent' = [sent EXCEPT ![r][d] = Append(sent[r][d], c)]
      /\ SentRounds(r, d) = round[r] - 1 /\ SentRounds(r, d)' = round[r]
      /\ \A e \in Peers(r) : e # d => SentRounds(r, e)' = SentRounds(r, e)
      /\ \A e \in Peers(r) : NotYet(r, e) /\ NotYet(r, e)'
      /\ \A e \in Ranks : SentGrows(e, r) /\ SentGrows(r, e)
      /\ round' = round /\ done' = done /\ posted' = posted /\ stack' = stack
      /\ countMem' = countMem /\ recvBuf' = recvBuf
  BY Zenon DEF SendGiven
<1>2. PICK n : n = round[r]
  OBVIOUS
<1>3. n \in Int /\ c \in Nat /\ Batches(c) \in Nat
  <2>1. n \in Int
    BY <1>2 DEF TypeInv
  <2>2. c \in Nat
    BY <1>1, BoundsAssumption
  <2> QED BY <2>1, <2>2, BatchBounds
<1>4. PICK k0, i0 : SenderAt(r, d, k0, i0)
  BY <1>1 DEF DelInv, Between
<1>5. SendReqs(r, d) = {} /\ Len(sent[r][d]) = n - 1
  BY <1>1, <1>2, <1>4, NextSend
<1>6. n >= 1 /\ n = Len(sent[r][d]) + 1
  <2>1. sent[r][d] \in Seq(0 .. MaxCount)
    BY <1>1 DEF DelInv, UserType
  <2>2. Len(sent[r][d]) \in Nat
    BY <2>1, LenProperties
  <2> QED BY <1>3, <1>5, <2>2
<1>7. /\ Len(sent'[r][d]) = n /\ CountOf(r, d, n)' = c
      /\ \A e \in Ranks : e # d => sent'[r][e] = sent[r][e]
  <2>1. PICK S : S = 0 .. MaxCount
    OBVIOUS
  <2>2. sent \in [Ranks -> [Ranks -> Seq(S)]] /\ c \in S
    BY <1>1, <2>1 DEF DelInv, UserType
  <2>3. Len(sent'[r][d]) = n
    BY <1>1, <1>6, <2>2, AppendGrows
  <2>4. sent'[r][d][n] = c
    BY <1>1, <1>6, <2>2, AppendGrows
  <2>5. \A q, e \in Ranks : q # r \/ e # d => sent'[q][e] = sent[q][e]
    BY <1>1, <1>6, <2>2, AppendGrows
  <2> QED BY <2>3, <2>4, <2>5 DEF CountOf
<1>8. /\ SendReqs(r, d)' = (SendReqs(r, d) \ {h}) \cup M
      /\ \A f \in Ranks : f # d => SendReqs(r, f)' = SendReqs(r, f) \ {h}
      /\ Keeps(r, InUCX(r) \ {h})
  <2>1. h \notin ReqsIn(net[r]) /\ done'[r] = done[r] \ {h}
    BY <1>1 DEF InUCX
  <2>2. PICK e : e = 0
    OBVIOUS
  <2>3. Continues(r, d, h, t, x, M, e, c)
    BY <2>2
  <2> QED BY <1>1, <2>1, <2>3, ReqsAfter
<1>9. Keeps(r, InUCX(r)) /\ SendReqs(r, d)' = M /\ round'[r] = n /\ SentRounds(r, d)' = n
  <2>1. InUCX(r) \ {h} = InUCX(r)
    OBVIOUS
  <2> QED BY <1>1, <1>2, <1>5, <1>8, <2>1
<1>10. \A s \in Ranks : ReceiverStays(r, s)
  <2>1. Keeps(r, ReqsIn(posted[r]))
    BY <1>9 DEF Keeps, InUCX
  <2>2. \A s \in Peers(r) : NotYet(r, s)' <=> NotYet(r, s)
    BY <1>1
  <2>3. stack'[r] = << >> /\ \A s \in Ranks : SentGrows(s, r)
    BY <1>1
  <2> QED BY <1>1, <2>1, <2>2, <2>3, ReceivesWait
<1>11. ASSUME NEW f \in Ranks, f # d
       PROVE  SenderStays(r, f)
  <2>1. \A a \in SendReqs(r, f) : a \in InUCX(r)
    BY SendReqIs
  <2>2. SendReqs(r, f)' = SendReqs(r, f)
    BY <1>8, <1>11, <2>1
  <2>3. Keeps(r, SendReqs(r, f))
    BY <1>9, <2>1 DEF Keeps
  <2>4. f \in Peers(r) => SentRounds(r, f)' = SentRounds(r, f)
    BY <1>1, <1>11
  <2>5. round'[r] = round[r] /\ sent'[r][f] = sent[r][f]
    BY <1>1, <1>7, <1>11
  <2> QED BY <1>1, <2>2, <2>3, <2>4, <2>5, OtherSend
<1>12. ASSUME NEW k, NEW i, SenderAt(r, d, k, i)
       PROVE  AtPart(n, c, 0, k, i)
  <2>1. k = n /\ i = 0
    BY <1>1, <1>2, <1>12, NextSend
  <2> QED BY <1>3, <2>1 DEF AtPart
<1>13. PICK e \in Nat : e = 0
  OBVIOUS
<1>14. Continues(r, d, h, t, x, M, e, c) /\ \A k, i : SenderAt(r, d, k, i) => AtPart(n, c, e, k, i)
  BY <1>12, <1>13
<1>15. \A f \in Ranks : f # d => SenderStays(r, f)
  BY <1>11
<1>16. \A q \in Ranks : SentGrows(r, q)
  BY <1>1
<1> QED BY <1>1, <1>2, <1>3, <1>6, <1>7, <1>9, <1>10, <1>14, <1>15, <1>16, ContinuesDel

\* A send whose count goes out at once extends the stream by a run that begins with the count.
LEMMA SendNowDel ==
  ASSUME NEW r \in Ranks, NEW c \in 0 .. MaxCount, TypeInv, \A p \in Ranks : RankInv(p), DelInv,
         SendNow(r, c)
  PROVE  DelInv'
<1>0. PICK d, h, n, t, w : /\ d = idx[r] /\ h = Heap(d) /\ n = round[r]
                           /\ t = SendFill(r, h, [InitInfo EXCEPT !.custom = TRUE], d, c)
                           /\ w = <<Msg(<<CountWord(r, d, n, c)>>)>>
  OBVIOUS
<1>1. /\ pc[r] = "send" /\ stack[r] = << >> /\ cache[r] # << >>
      /\ SendHandler(r, h, t, w) /\ LoopStep(r)
      /\ sent' = [sent EXCEPT ![r][d] = Append(sent[r][d], c)]
      /\ UNCHANGED <<ncaches, round, done, posted, stack, countMem, recvBuf>>
  <2>1. /\ pc[r] = "send" /\ stack[r] = << >> /\ cache[r] # << >>
        /\ SendHandler(r, h, t, w) /\ SendBook(r, h, d, c)
    BY <1>0, Zenon DEF SendNow, SendReady, Idle
  <2>2. /\ LoopNext(r, "send", "recv")
        /\ sent' = [sent EXCEPT ![r][d] = Append(sent[r][d], c)]
        /\ UNCHANGED <<ncaches, round, done, posted, stack, countMem, recvBuf>>
    BY <2>1, Zenon DEF SendBook, callbacks
  <2>3. LoopStep(r)
    BY <2>1, <2>2 DEF LoopStep
  <2> QED BY <2>1, <2>2, <2>3
<1>2. RankInv(r) /\ Elsewhere(r) /\ c \in Int
  BY SendNowRank
<1>3. SendGiven(r, d, c)
  BY <1>0, <1>1, <1>2, SendCalled
<1>4. /\ SendCall(r, h, t, w) /\ t[h].peer = d /\ t[h].count = c /\ t[h].ibatch = 0
      /\ h \in Handles /\ h \notin InUCX(r) /\ \A g \in Handles : g # h => t[g] = info[r][g]
      /\ Len(w) = 1 /\ w[1].val = <<CountWord(r, d, n, c)>>
  <2>1. CallsNow(r, d, n, c, h, t, w)
    BY <1>0, <1>1, <1>2, NowCalls
  <2> QED BY <2>1, Zenon DEF CallsNow
<1>5. PICK e \in Nat : e = 0
  OBVIOUS
<1>6. Calling(r, d, h, t, w, e, c)
  <2>1. Parts(w, r, d, n, c, e)
    <3> SUFFICES ASSUME NEW j \in 1 .. Len(w)
                 PROVE  w[j].val = PartAt(r, d, n, c, e + j - 1)
      BY DEF Parts
    <3>1. j = 1 /\ e + j - 1 = 0
      BY <1>4, <1>5
    <3>2. PartAt(r, d, n, c, 0) = <<CountWord(r, d, n, c)>>
      BY DEF PartAt
    <3> QED BY <1>4, <3>1, <3>2
  <2>2. c \in Nat /\ Batches(c) \in Nat
    BY BatchBounds, BoundsAssumption
  <2>3. t[h].ibatch \in 0 .. Batches(c) /\ e \in Int /\ e + Len(w) = t[h].ibatch + 1
    BY <1>4, <1>5, <2>2
  <2> QED BY <1>0, <1>4, <2>1, <2>2, <2>3, Zenon DEF Calling
<1>7. d \in Ranks
  BY <1>3 DEF SendGiven
<1>8. PICK x, M : Continues(r, d, h, t, x, M, e, c)
  BY <1>1, <1>6, <1>7, HandlerContinues
<1>9. Continues(r, d, h, t, x, M, 0, c)
  BY <1>5, <1>8
<1>10. h \in Handles /\ h \notin InUCX(r) /\ \A g \in Handles : g # h => t[g] = info[r][g]
  BY <1>4
<1> QED BY <1>2, <1>3, <1>9, <1>10, CallDel

\* A send whose count has to wait extends the stream by the count.
LEMMA SendLaterDel ==
  ASSUME NEW r \in Ranks, NEW c \in 0 .. MaxCount, TypeInv, \A p \in Ranks : RankInv(p), DelInv,
         SendLater(r, c)
  PROVE  DelInv'
<1>0. PICK d, q, n, u, m : /\ d = idx[r] /\ q = NewRequest(r) /\ n = round[r]
                           /\ u = SendFill(r, q, info[r][q], d, c)
                           /\ m = MsgBusy(<<CountWord(r, d, n, c)>>, Null, q)
  OBVIOUS
<1>1. /\ pc[r] = "send" /\ stack[r] = << >> /\ cache[r] # << >> /\ free[r] # {} /\ LoopStep(r)
      /\ net' = [net EXCEPT ![r][d] = Append(net[r][d], m)]
      /\ info' = [info EXCEPT ![r] = u]
      /\ sent' = [sent EXCEPT ![r][d] = Append(sent[r][d], c)]
      /\ UNCHANGED <<ncaches, round, done, posted, stack, countMem, recvBuf>>
  <2>1. /\ pc[r] = "send" /\ stack[r] = << >> /\ cache[r] # << >> /\ free[r] # {}
        /\ net' = [net EXCEPT ![r][d] = Append(net[r][d], m)]
        /\ info' = [info EXCEPT ![r] = u] /\ SendBook(r, q, d, c)
    BY <1>0, Zenon DEF SendLater, SendReady, Idle
  <2>2. /\ LoopNext(r, "send", "recv")
        /\ sent' = [sent EXCEPT ![r][d] = Append(sent[r][d], c)]
        /\ UNCHANGED <<ncaches, round, done, posted, stack, countMem, recvBuf>>
    BY <2>1, Zenon DEF SendBook, callbacks
  <2>3. LoopStep(r)
    BY <2>1, <2>2 DEF LoopStep
  <2> QED BY <2>1, <2>2, <2>3
<1>2. RankInv(r) /\ Elsewhere(r) /\ c \in Int /\ Open(r)
  BY <1>1, SendLaterRank DEF Open
<1>3. SendGiven(r, d, c)
  BY <1>0, <1>1, <1>2, SendCalled
<1>4. /\ ncaches \in Nat /\ n \in Int /\ info \in [Ranks -> [Handles -> Info]] /\ d \in Ranks
      /\ cache[r] \in Seq(Buffers) /\ net \in [Ranks -> [Ranks -> Seq(Message)]]
  BY <1>0 DEF TypeInv
<1>5. /\ q \in Handles /\ info[r][q] \in Info /\ q \in free[r] /\ q \notin InUCX(r)
  BY <1>0, <1>1, <1>2, NewRequestClean, OpenFacts
<1>6. /\ info'[r] = u /\ \A g \in Handles : g # q => u[g] = info[r][g]
      /\ u[q].count = c /\ u[q].peer = d /\ u[q].ibatch = 0
  <2>1. PICK T, i, b, z : T = info[r] /\ i = info[r][q] /\ b = Head(cache[r]) /\ z = u
    OBVIOUS
  <2>2. z = Fill(T, q, i, b, c, d)
    BY <1>0, <2>1, Zenon DEF SendFill, Fill
  <2>3. b \in Buffers /\ T \in [Handles -> Info] /\ i \in Info
    BY <1>1, <1>4, <1>5, <2>1, HeadTailProperties
  <2>7. /\ ncaches \in Nat /\ T \in [Handles -> Info] /\ q \in Handles /\ i \in Info
        /\ b \in Buffers /\ c \in Int /\ d \in Ranks
    BY <1>2, <1>4, <1>5, <2>3
  <2>4. \A g \in Handles : g # q => z[g] = T[g]
    <3>1. PICK k : k = [i EXCEPT !.orig = q, !.buf = b, !.count = c, !.peer = d, !.ibatch = 0]
      OBVIOUS
    <3>2. z = [T EXCEPT ![q] = k]
      BY <2>2, <3>1, Zenon DEF Fill
    <3> QED BY <2>7, <3>2
  <2>5. z[q].count = c /\ z[q].peer = d /\ z[q].ibatch = 0
    BY <2>2, <2>7, FilledSteers
  <2>6. info'[r] = u
    BY <1>1, <1>4
  <2> QED BY <2>1, <2>4, <2>5, <2>6
<1>7. m \in Message /\ m.req = q /\ m.val = <<CountWord(r, d, n, c)>>
  <2>1. CountWord(r, d, n, c) \in Word
    BY <1>2, <1>4 DEF CountWord, Word, Ranks
  <2>2. PICK v : v = <<CountWord(r, d, n, c)>>
    OBVIOUS
  <2>3. v \in Seq(Word)
    BY <2>1, <2>2
  <2>4. m = MsgBusy(v, Null, q)
    BY <1>0, <2>2
  <2>5. m \in Message /\ m.req = q /\ m.val = v
    BY <1>5, <2>3, <2>4 DEF MsgBusy, Message, Null
  <2> QED BY <2>2, <2>5
<1>8. PICK x, M, t : x = <<m>> /\ M = {q} /\ t = info[r]
  OBVIOUS
<1>9. Written(x, 1, M, r, d, n, c, 0)
  <2>1. x \in Seq(Message) /\ Len(x) = 1 /\ x[1] = m
    BY <1>7, <1>8
  <2>2. PartAt(r, d, n, c, 0) = <<CountWord(r, d, n, c)>>
    BY DEF PartAt
  <2>3. Parts(x, r, d, n, c, 0)
    <3> SUFFICES ASSUME NEW j \in 1 .. Len(x)
                 PROVE  x[j].val = PartAt(r, d, n, c, 0 + j - 1)
      BY DEF Parts
    <3>1. j = 1 /\ 0 + j - 1 = 0
      BY <2>1
    <3> QED BY <1>7, <2>1, <2>2, <3>1
  <2>4. /\ \A j \in 1 .. Len(x) : x[j].req \in M
        /\ \A a \in M : \E j \in 1 .. Len(x) : x[j].req = a
    BY <1>7, <1>8, <2>1
  <2> QED BY <2>1, <2>3, <2>4 DEF Written
<1>10. Sending(r, d, x) /\ CarriesAlso(net'[r][d], net[r][d], M)
  <2>1. PICK y, z, e, l : y = net[r][d] /\ z = net'[r][d] /\ e = 0 /\ l = 1
    OBVIOUS
  <2>2. y \in Seq(Message) /\ Append(y, m) = y \o x
    <3>1. y \in Seq(Message) /\ m \in Message
      BY <1>4, <1>7, <2>1
    <3>2. Append(y, m) = y \o <<m>>
      BY <3>1, AppendIsConcat
    <3> QED BY <1>8, <3>1, <3>2
  <2>3. z = y \o x /\ Sending(r, d, x)
    BY <1>1, <1>4, <2>1, <2>2 DEF Sending
  <2>4. Written(x, l, M, r, d, n, c, e)
    BY <1>9, <2>1
  <2>5. CarriesAlso(z, y, M)
    BY <2>2, <2>3, <2>4, CarriesMore
  <2> QED BY <2>1, <2>3, <2>5
<1>11. Continues(r, d, q, t, x, M, 0, c)
  <2>1. 0 + Len(x) - 1 = 0 /\ x \in Seq(Message) /\ Parts(x, r, d, n, c, 0)
    BY <1>9 DEF Written
  <2>2. 0 \in 0 .. Batches(c)
    BY BatchBounds, BoundsAssumption
  <2>3. \A g \in Handles : g # q /\ g \notin M => Alike(info'[r], t, g)
    BY <1>6, <1>8 DEF Alike
  <2>4. M \subseteq free[r]
    BY <1>5, <1>8
  <2>5. \E a \in Handles : /\ M = {a} /\ info'[r][a].peer = d /\ info'[r][a].count = c
                           /\ info'[r][a].ibatch = 0
    BY <1>5, <1>6, <1>8
  <2> QED BY <1>0, <1>10, <2>1, <2>2, <2>3, <2>4, <2>5 DEF Continues
<1>12. \A g \in Handles : g # q => t[g] = info[r][g]
  BY <1>8
<1> QED BY <1>2, <1>3, <1>5, <1>11, <1>12, CallDel

\* After the exception nothing is asked of a rank's peers.
LEMMA ThrownReceives ==
  ASSUME NEW r \in Ranks, NEW s \in Ranks, pc[r] # "thrown", pc'[r] = "thrown", stack[r] = << >>,
         stack'[r] = << >>, s \notin Peers(r) => posted'[r][s] = posted[r][s]
  PROVE  \A k, i, l, m : s \in Peers(r) \/ (k = l /\ i = m) =>
           (ReceiverAt(r, s, k, i) => ReceiverAt(r, s, l, m)')
<1>1. DueFor(r, s)' = {}
  BY DEF DueFor, Due, HandlerReady
<1>2. Peers(r)' = Peers(r)
  BY DEF Peers, Ranks
<1>3. CASE s \in Peers(r)
  BY <1>2, <1>3 DEF ReceiverAt
<1>4. CASE s \notin Peers(r)
  <2>1. Quiet(r, s) => Quiet(r, s)'
    BY <1>1, <1>4 DEF Quiet
  <2> QED BY <1>2, <1>4, <2>1 DEF ReceiverAt
<1> QED BY <1>3, <1>4

\* Of a rank that left by an exception nothing more is claimed as a sender.
LEMMA ThrownSends ==
  ASSUME NEW r, NEW d, pc'[r] = "thrown"
  PROVE  /\ SenderStays(r, d)
         /\ d \in Peers(r) => \A l, m : SenderAt(r, d, l, m)'
<1>1. Peers(r)' = Peers(r)
  BY DEF Peers, Ranks
<1> QED BY <1>1 DEF SenderStays, SenderAt

\* A send that finds the cache empty sends nothing.
LEMMA SendThrowDel ==
  ASSUME NEW r \in Ranks, TypeInv, \A p \in Ranks : RankInv(p), DelInv, SendThrow(r)
  PROVE  DelInv'
<1>0. PICK d, q, n : d = idx[r] /\ q = NewRequest(r) /\ n = round[r]
  OBVIOUS
<1>1. /\ pc[r] = "send" /\ stack[r] = << >>
      /\ \E c \in Counts[r][d], now \in BOOLEAN :
           /\ net' = [net EXCEPT ![r][d] =
                        Append(net[r][d], IF now THEN Msg(<<CountWord(r, d, n, c)>>)
                                          ELSE MsgBusy(<<CountWord(r, d, n, c)>>, Null, q))]
           /\ sent' = [sent EXCEPT ![r][d] = Append(sent[r][d], c)]
      /\ pc' = [pc EXCEPT ![r] = "thrown"] /\ free[r] # {}
      /\ UNCHANGED <<ncaches, idx, round, pending, cache, mem, info, done, posted, stack, mode,
                     countMem, recvBuf>>
  BY <1>0, Zenon DEF SendThrow, ThrowReady, Idle, callbacks
<1>2. PICK c \in Counts[r][d], now \in BOOLEAN :
           /\ net' = [net EXCEPT ![r][d] =
                        Append(net[r][d], IF now THEN Msg(<<CountWord(r, d, n, c)>>)
                                          ELSE MsgBusy(<<CountWord(r, d, n, c)>>, Null, q))]
           /\ sent' = [sent EXCEPT ![r][d] = Append(sent[r][d], c)]
  BY <1>1, Zenon
<1>3. RankInv(r) /\ Open(r) /\ CountInv(r) /\ pc'[r] = "thrown"
  BY <1>1 DEF Open, RankInv, TypeInv
<1>4. /\ n \in Int /\ d \in Ranks /\ d \in Peers(r)
      /\ net \in [Ranks -> [Ranks -> Seq(Message)]] /\ c \in 0 .. MaxCount
  <2>1. d \in Ranks /\ d \in 0 .. N - 1 /\ r \in 0 .. N - 1
    BY <1>0 DEF TypeInv, Ranks
  <2>2. Counts[r][d] \in SUBSET (0 .. MaxCount)
    BY <2>1, BoundsAssumption
  <2>3. d \in Peers(r)
    BY <1>0, <1>1, <1>3 DEF CountInv
  <2> QED BY <1>0, <2>1, <2>2, <2>3 DEF TypeInv
<1>5. c \in Nat /\ c \in Int /\ Batches(c) \in Nat
  <2>1. c \in Nat /\ c \in Int
    BY <1>4, BoundsAssumption
  <2> QED BY <2>1, BatchBounds
<1>6. q \in Handles
  BY <1>0, <1>1, <1>3, NewRequestClean, OpenFacts
<1>7. PICK m : m = IF now THEN Msg(<<CountWord(r, d, n, c)>>)
                   ELSE MsgBusy(<<CountWord(r, d, n, c)>>, Null, q)
  OBVIOUS
<1>8. m \in Message /\ m.val = <<CountWord(r, d, n, c)>>
  <2>1. CountWord(r, d, n, c) \in Word
    BY <1>4, <1>5 DEF CountWord, Word, Ranks
  <2>2. PICK v : v = <<CountWord(r, d, n, c)>>
    OBVIOUS
  <2>3. v \in Seq(Word)
    BY <2>1, <2>2
  <2>4. m = IF now THEN Msg(v) ELSE MsgBusy(v, Null, q)
    BY <1>7, <2>2
  <2>5. m \in Message /\ m.val = v
    BY <1>6, <2>3, <2>4 DEF Msg, MsgBusy, Message, Null
  <2> QED BY <2>2, <2>5
<1>9. PICK x : x = <<m>>
  OBVIOUS
<1>10. x \in Seq(Message) /\ Len(x) = 1 /\ x[1] = m
  BY <1>8, <1>9
<1>11. Sending(r, d, x)
  <2>1. net' = [net EXCEPT ![r][d] = Append(net[r][d], m)]
    BY <1>2, <1>7
  <2>2. PICK y : y = net[r][d]
    OBVIOUS
  <2>3. y \in Seq(Message) /\ m \in Message
    BY <1>4, <1>8, <2>2
  <2>4. Append(y, m) = y \o x
    BY <1>9, <2>3, AppendIsConcat
  <2> QED BY <2>1, <2>2, <2>4 DEF Sending
<1>12. sent \in [Ranks -> [Ranks -> Seq(0 .. MaxCount)]] /\ UserType
  BY DEF DelInv, UserType
<1>13. PICK z : z = Len(sent[r][d]) + 1
  OBVIOUS
<1>14. /\ sent' \in [Ranks -> [Ranks -> Seq(0 .. MaxCount)]]
       /\ \A a, e \in Ranks : SentGrows(a, e)
       /\ \A a \in Ranks : a # r => sent'[a] = sent[a]
       /\ Len(sent'[r][d]) = z /\ sent'[r][d][z] = c
  <2>1. PICK S : S = 0 .. MaxCount
    OBVIOUS
  <2>2. sent \in [Ranks -> [Ranks -> Seq(S)]] /\ c \in S
    BY <1>4, <1>12, <2>1
  <2>3. sent' = [sent EXCEPT ![r][d] = Append(sent[r][d], c)]
    BY <1>2
  <2>4. sent' \in [Ranks -> [Ranks -> Seq(S)]]
    BY <1>4, <1>13, <2>2, <2>3, AppendGrows
  <2>5. \A a, e \in Ranks : SentGrows(a, e)
    BY <1>4, <1>13, <2>2, <2>3, AppendGrows
  <2>6. \A a \in Ranks : a # r => sent'[a] = sent[a]
    BY <1>4, <1>13, <2>2, <2>3, AppendGrows
  <2>7. Len(sent'[r][d]) = z /\ sent'[r][d][z] = c
    BY <1>4, <1>13, <2>2, <2>3, AppendGrows
  <2> QED BY <2>1, <2>4, <2>5, <2>6, <2>7
<1>15. UserType'
  BY <1>1, <1>12, <1>14, Zenon DEF UserType, Word, Ranks
<1>16. Bystanders(r)
  <2>1. Elsewhere(r)
    BY SendThrowRank
  <2> QED BY <1>1, <1>14, <2>1 DEF Bystanders, Elsewhere
<1>17. \A s \in Ranks : ReceiverStays(r, s)
  <2> SUFFICES ASSUME NEW s \in Ranks PROVE ReceiverStays(r, s)
    OBVIOUS
  <2>1. pc[r] # "thrown" /\ pc'[r] = "thrown" /\ stack'[r] = << >> /\ posted'[r][s] = posted[r][s]
    BY <1>1, <1>3
  <2> QED BY <1>1, <2>1, ThrownReceives DEF ReceiverStays
<1>18. \A e \in Ranks : e # d => SenderStays(r, e)
  BY <1>3, ThrownSends
<1>19. ASSUME NEW k, NEW i, SenderAt(r, d, k, i)
       PROVE  \E l, e : Run(r, d, x, k, i, l, e)' /\ SenderAt(r, d, l, e)'
  <2>1. d >= d
    BY <1>4, NAssumption DEF Ranks
  <2>2. SentRounds(r, d) = n - 1
    BY <1>0, <1>1, <2>1 DEF SentRounds
  <2>3. Len(sent[r][d]) = n - 1 /\ k = n /\ i = 0
    BY <1>0, <1>1, <1>4, <1>19, <2>2, NextSend
  <2>4. z = n /\ n >= 1
    <3>1. sent[r][d] \in Seq(0 .. MaxCount)
      BY <1>4, <1>12
    <3>2. Len(sent[r][d]) \in Nat
      BY <3>1, LenProperties
    <3> QED BY <1>4, <1>13, <2>3, <3>2
  <2>5. PICK e, l, j : /\ e = 0 /\ l = (IF 1 <= Batches(c) THEN n ELSE n + 1)
                       /\ j = (IF 1 <= Batches(c) THEN 1 ELSE 0)
    OBVIOUS
  <2>6. e \in Nat /\ AtPart(n, c, e, k, i) /\ AtPart(n, c, e + Len(x), l, j)
        /\ e + Len(x) - 1 \in 0 .. Batches(c)
    BY <1>5, <1>10, <2>3, <2>5 DEF AtPart
  <2>7. Parts(x, r, d, n, c, e)
    <3> SUFFICES ASSUME NEW y \in 1 .. Len(x)
                 PROVE  x[y].val = PartAt(r, d, n, c, e + y - 1)
      BY DEF Parts
    <3>1. y = 1 /\ e + y - 1 = 0
      BY <1>10, <2>5
    <3>2. PartAt(r, d, n, c, 0) = <<CountWord(r, d, n, c)>>
      BY DEF PartAt
    <3> QED BY <1>8, <1>10, <3>1, <3>2
  <2>8. n \in 1 .. Len(sent'[r][d]) /\ CountOf(r, d, n)' = c
    BY <1>4, <1>14, <2>4 DEF CountOf
  <2>9. Run(r, d, x, k, i, l, j)'
    BY <1>4, <1>5, <1>10, <2>6, <2>7, <2>8, PartsRun
  <2>10. SenderAt(r, d, l, j)'
    BY <1>3, <1>4, ThrownSends
  <2> QED BY <2>9, <2>10
<1>20. \A a \in Ranks : SentGrows(r, a)
  BY <1>14
<1> QED BY <1>4, <1>10, <1>11, <1>15, <1>16, <1>17, <1>18, <1>19, <1>20, OneSends

\* A recv that finds the cache empty posts nothing.
LEMMA RecvThrowDel ==
  ASSUME NEW r \in Ranks, TypeInv, \A p \in Ranks : RankInv(p), DelInv, RecvThrow(r)
  PROVE  DelInv'
<1>0. PICK s, q : s = idx[r] /\ q = NewRequest(r)
  OBVIOUS
<1>1. /\ pc[r] = "recv" /\ stack[r] = << >> /\ free[r] # {}
      /\ \/ /\ RecvNbEarly(r, s, Null, 1)
            /\ info' = [info EXCEPT ![r][q] = Mark(info[r][q])]
         \/ RecvNbPost(r, s, Null, 1, q) /\ info' = info
      /\ pc' = [pc EXCEPT ![r] = "thrown"]
      /\ UNCHANGED <<ncaches, idx, round, pending, cache, done, stack, mode, recvBuf, sent>>
  BY <1>0, Zenon DEF RecvThrow, ThrowReady, Idle, callbacks
<1>2. RankInv(r) /\ Open(r) /\ CountInv(r) /\ pc'[r] = "thrown" /\ pc[r] # "thrown"
  BY <1>1 DEF Open, RankInv, TypeInv
<1>3. s \in Ranks /\ s \in Peers(r) /\ Elsewhere(r)
  BY <1>0, <1>1, <1>2, RecvThrowRank DEF CountInv, TypeInv
<1>4. UserType' /\ sent' = sent /\ done' = done
  BY <1>1, Zenon DEF DelInv, UserType, Word, Ranks
<1>5. /\ \A e \in Ranks : e # r => countMem'[e] = countMem[e]
      /\ \A e \in Ranks : e # s => posted'[r][e] = posted[r][e]
  <2>1. countMem \in [Ranks -> [Ranks -> Word]] /\ posted \in [Ranks -> [Ranks -> Seq(Receive)]]
    BY DEF TypeInv
  <2>2. CASE RecvNbEarly(r, s, Null, 1)
    <3>1. posted' = posted /\ Land(r, s, Null, Landing(Head(net[s][r]), 1))
      BY <2>2, Zenon DEF RecvNbEarly
    <3>2. countMem' = [countMem EXCEPT ![r][s] = At(Landing(Head(net[s][r]), 1), 1)]
      BY <3>1 DEF Land
    <3> QED BY <2>1, <3>1, <3>2
  <2>3. CASE RecvNbPost(r, s, Null, 1, q)
    <3>1. countMem' = countMem
      BY <2>3, Zenon DEF RecvNbPost
    <3>2. PICK p : posted' = [posted EXCEPT ![r][s] = Append(posted[r][s], p)]
      BY <2>3, Zenon DEF RecvNbPost
    <3> QED BY <2>1, <3>1, <3>2
  <2> QED BY <1>1, <2>2, <2>3
<1>6. Bystanders(r)
  BY <1>1, <1>3, <1>5 DEF Bystanders, Elsewhere
<1>7. ASSUME NEW e \in Ranks
      PROVE  /\ e \in Peers(r) => \A k, i, l, m : ReceiverAt(r, e, k, i) => ReceiverAt(r, e, l, m)'
             /\ ReceiverStays(r, e) /\ SenderStays(r, e)
  <2>1. stack'[r] = << >>
    BY <1>1
  <2>2. e \notin Peers(r) => posted'[r][e] = posted[r][e]
    BY <1>3, <1>5
  <2>3. \A k, i, l, m : e \in Peers(r) \/ (k = l /\ i = m) =>
          (ReceiverAt(r, e, k, i) => ReceiverAt(r, e, l, m)')
    BY <1>1, <1>2, <2>1, <2>2, ThrownReceives
  <2>4. SenderStays(r, e)
    BY <1>2, ThrownSends
  <2> QED BY <2>3, <2>4 DEF ReceiverStays
<1>8. CASE RecvNbEarly(r, s, Null, 1) /\ info' = [info EXCEPT ![r][q] = Mark(info[r][q])]
  <2>1. Arrived(s, r) /\ net' = [net EXCEPT ![s][r] = Tail(net[s][r])]
    BY <1>8, Zenon DEF RecvNbEarly
  <2>2. q \notin InUCX(r) /\ q \in Handles
    BY <1>0, <1>1, <1>2, NewRequestClean, OpenFacts
  <2>3. \A a \in done[r] : info'[r][a].peer = info[r][a].peer
    <3>1. \A a \in done[r] : a # q /\ a \in Handles
      BY <2>2 DEF InUCX, TypeInv
    <3>2. info \in [Ranks -> [Handles -> Info]]
      BY DEF TypeInv
    <3>3. \A g \in Handles : g # q => info'[r][g] = info[r][g]
      BY <1>8, <2>2, <3>2
    <3> QED BY <3>1, <3>3
  <2>4. \A e \in Ranks : e # s => ReceiverStays(r, e)
    BY <1>7
  <2>5. \A k, i, l, m : Given(r, s, Head(net[s][r]).val, k, i, l, m) => ReceiverAt(r, s, l, m)'
    BY <1>3, <1>7 DEF Given
  <2>6. \A d \in Ranks : SendReqs(r, d)' = SendReqs(r, d) => SenderStays(r, d)
    BY <1>7
  <2> QED BY <1>3, <1>4, <1>6, <2>1, <2>3, <2>4, <2>5, <2>6, OneTakes
<1>9. CASE RecvNbPost(r, s, Null, 1, q)
  <2>1. net' = net
    BY <1>9, Zenon DEF RecvNbPost
  <2> QED BY <1>4, <1>6, <1>7, <2>1, NothingMoves
<1> QED BY <1>1, <1>8, <1>9

\* A step that the receivers and the ranks' own progress know nothing of.
LEMMA ReceiverUnmoved ==
  ASSUME NEW r \in Ranks, NEW s \in Ranks, NEW k, NEW i, ReceiverAt(r, s, k, i),
         UNCHANGED <<pc, idx, round, mem, info, posted, stack, mode, countMem, recvBuf, sent>>
  PROVE  ReceiverAt(r, s, k, i)'
<1>1. DueFor(r, s)' = DueFor(r, s)
  BY DEF DueFor, Due, HandlerReady
<1>2. (Open(r)' <=> Open(r)) /\ (NotYet(r, s)' <=> NotYet(r, s))
  BY DEF Open, NotYet
<1>3. RecvSame(r, s)
  BY <1>1, <1>2 DEF RecvSame
<1>4. SentGrows(s, r)
  BY DEF SentGrows
<1> QED BY <1>3, <1>4, RecvStays

\* A sender whose rounds, requests and counts are the same is still at its position.
LEMMA SenderUnmoved ==
  ASSUME NEW s \in Ranks, NEW d \in Ranks, NEW k, NEW i, SenderAt(s, d, k, i),
         UNCHANGED <<pc, idx, round, info, sent>>,
         pc[s] # "thrown" => SendReqs(s, d)' = SendReqs(s, d)
  PROVE  SenderAt(s, d, k, i)'
<1>1. SentRounds(s, d)' = SentRounds(s, d)
  BY DEF SentRounds
<1>2. SendSame(s, d)
  BY <1>1 DEF SendSame
<1> QED BY <1>2, SendStays

\* What the network does to a message it takes over.
TakenOver(r, d, q) ==
  /\ q \in Handles /\ done'[r] = done[r] \cup {q} /\ \A o \in Ranks : o # r => done'[o] = done[o]
  /\ Carries(net[r][d], q)
  /\ Len(net'[r][d]) = Len(net[r][d])
  /\ \A j \in 1 .. Len(net[r][d]) : net'[r][d][j].val = net[r][d][j].val
  /\ \A a \in Handles : Carries(net'[r][d], a) <=> (Carries(net[r][d], a) /\ a # q)
  /\ \A o, e \in Ranks : o # r \/ e # d => net'[o][e] = net[o][e]

\* UCX reading a delayed send ends the request of one message and changes no payload.
LEMMA FlushTakes ==
  ASSUME NEW r \in Ranks, NEW d \in Ranks, TypeInv, RankInv(r), Flush(r, d)
  PROVE  \E q : TakenOver(r, d, q)
<1> DEFINE Val(m) == IF m.ref = Null THEN m.val
                     ELSE [j \in DOMAIN m.val |-> At(mem[r][m.ref], j)]
<1>1. PICK i \in DOMAIN net[r][d] :
        /\ net[r][d][i].req # Null
        /\ net' = [net EXCEPT ![r][d][i] = Msg(Val(net[r][d][i]))]
        /\ done' = [done EXCEPT ![r] = done[r] \cup {net[r][d][i].req}]
  BY Zenon DEF Flush
<1>2. net \in [Ranks -> [Ranks -> Seq(Message)]] /\ done \in [Ranks -> SUBSET Handles]
  BY DEF TypeInv
<1>3. PICK t, m, q, v : t = net[r][d] /\ m = t[i] /\ q = m.req /\ v = Msg(Val(m))
  OBVIOUS
<1>4. t \in Seq(Message) /\ i \in 1 .. Len(t) /\ m \in Message
  <2>1. t \in Seq(Message) /\ i \in DOMAIN t
    BY <1>2, <1>3
  <2>2. i \in 1 .. Len(t)
    BY <2>1, LenProperties
  <2>3. t[i] \in Message
    BY <2>1, <2>2, ElementOfSeq
  <2> QED BY <1>3, <2>1, <2>2, <2>3
<1>5. q # Null /\ q \in Handles
  BY <1>1, <1>3, <1>4 DEF Message
<1>6. v.val = m.val /\ v.req = Null
  <2>1. m.val \in Seq(Word)
    BY <1>4 DEF Message
  <2>2. m \in Items(net[r])
    BY <1>3, <1>4 DEF Items
  <2>3. m.ref # Null => mem[r][m.ref] = m.val
    BY <2>2 DEF RankInv, ReadInv
  <2>4. Val(m) = m.val
    <3>1. CASE m.ref = Null
      BY <3>1
    <3>2. CASE m.ref # Null
      <4>1. PICK w : w = m.val
        OBVIOUS
      <4>2. Val(m) = [j \in DOMAIN w |-> At(w, j)]
        BY <2>3, <3>2, <4>1
      <4>3. w = [j \in DOMAIN w |-> w[j]]
        BY <2>1, <4>1
      <4>4. \A j \in DOMAIN w : At(w, j) = w[j]
        BY DEF At
      <4> QED BY <4>1, <4>2, <4>3, <4>4
    <3> QED BY <3>1, <3>2
  <2> HIDE DEF Val
  <2> QED BY <1>3, <2>4 DEF Msg
<1> HIDE DEF Val
<1>7. PICK u : u = [t EXCEPT ![i] = v]
  OBVIOUS
<1>8. /\ net'[r][d] = u /\ done'[r] = done[r] \cup {q}
      /\ \A o, e \in Ranks : o # r \/ e # d => net'[o][e] = net[o][e]
      /\ \A o \in Ranks : o # r => done'[o] = done[o]
  BY <1>1, <1>2, <1>3, <1>7
<1>9. Len(u) = Len(t) /\ u[i] = v /\ \A j \in 1 .. Len(t) : j # i => u[j] = t[j]
  <2>1. PICK n \in Nat : n = Len(t)
    BY <1>4, LenProperties
  <2>2. t \in [1 .. n -> Message] \/ DOMAIN t = 1 .. n
    BY <1>4, <2>1, LenProperties
  <2>3. DOMAIN t = 1 .. n
    BY <2>2
  <2>4. DOMAIN u = 1 .. n /\ u[i] = v /\ \A j \in 1 .. n : j # i => u[j] = t[j]
    BY <1>4, <1>7, <2>1, <2>3
  <2>5. Len(u) = n
    <3>1. v \in Message \/ TRUE
      OBVIOUS
    <3> QED BY <1>4, <1>7, <2>1, <2>4
  <2> QED BY <2>1, <2>4, <2>5
<1>10. ASSUME NEW a \in Handles
       PROVE  Carries(u, a) <=> (Carries(t, a) /\ a # q)
  <2>1. \A j, k \in 1 .. Len(t) : t[j].req = t[k].req /\ t[j].req # Null => j = k
    BY <1>3 DEF RankInv, PlaceInv, Once
  <2>2. a # Null
    BY DEF Handles, Null
  <2> QED BY <1>3, <1>4, <1>6, <1>9, <2>1, <2>2 DEF Carries
<1>11. Carries(t, q)
  BY <1>3, <1>4 DEF Carries
<1>12. \A j \in 1 .. Len(t) : u[j].val = t[j].val
  BY <1>3, <1>6, <1>9
<1> QED BY <1>3, <1>5, <1>8, <1>9, <1>10, <1>11, <1>12 DEF TakenOver

\* UCX reading a delayed send runs the callback, which sends the next run of the stream.
LEMMA FlushDel ==
  ASSUME NEW r \in Ranks, NEW d \in Ranks, TypeInv, \A p \in Ranks : RankInv(p), DelInv,
         Flush(r, d)
  PROVE  DelInv'
<1>1. UNCHANGED <<pc, idx, round, mem, info, posted, stack, mode, countMem, recvBuf, sent>>
  BY DEF Flush, loop, callbacks, user
<1>2. PICK q : TakenOver(r, d, q)
  BY FlushTakes
<1>3. UserType'
  BY <1>1, Zenon DEF DelInv, UserType, Word, Ranks
<1> SUFFICES ASSUME NEW s \in Ranks, NEW e \in Ranks
             PROVE  Between(s, e)'
  BY <1>3 DEF DelInv
<1>4. SentGrows(s, e) /\ Between(s, e)
  BY <1>1 DEF SentGrows, DelInv
<1>5. \A k, i : ReceiverAt(e, s, k, i) => ReceiverAt(e, s, k, i)'
  BY <1>1, ReceiverUnmoved
<1>6. Len(net'[s][e]) = Len(net[s][e])
      /\ \A j \in 1 .. Len(net[s][e]) : net'[s][e][j].val = net[s][e][j].val
  BY <1>2 DEF TakenOver
<1>7. pc[r] # "thrown" => info[r][q].peer = d
  <2> SUFFICES ASSUME pc[r] # "thrown" PROVE info[r][q].peer = d
    OBVIOUS
  <2>1. q \in SendReqs(r, d)
    BY <1>2 DEF TakenOver, SendReqs
  <2>2. PICK k, i : SenderAt(r, d, k, i)
    BY DEF DelInv, Between
  <2> QED BY <2>1, <2>2 DEF SenderAt, InProgress
<1>8. pc[s] # "thrown" => SendReqs(s, e)' = SendReqs(s, e)
  <2> SUFFICES ASSUME pc[s] # "thrown", NEW a \in Handles
               PROVE  a \in SendReqs(s, e)' <=> a \in SendReqs(s, e)
    BY DEF SendReqs, Handles
  <2>1. a \in SendReqs(s, e)' <=> Carries(net'[s][e], a) \/ (a \in done'[s] /\ info[s][a].peer = e)
    BY <1>1 DEF SendReqs, Handles
  <2>2. a \in SendReqs(s, e) <=> Carries(net[s][e], a) \/ (a \in done[s] /\ info[s][a].peer = e)
    BY DEF SendReqs
  <2> QED BY <1>2, <1>7, <2>1, <2>2 DEF TakenOver
<1>9. \A k, i : SenderAt(s, e, k, i) => SenderAt(s, e, k, i)'
  BY <1>1, <1>8, SenderUnmoved
<1> QED BY <1>4, <1>5, <1>6, <1>9, BetweenKept

\* A step that changes nothing keeps the streams.
LEMMA StutterDel ==
  ASSUME DelInv, UNCHANGED vars
  PROVE  DelInv'
<1>1. /\ UNCHANGED <<pc, idx, round, mem, info, posted, stack, mode, countMem, recvBuf, sent>>
      /\ net' = net /\ done' = done
  BY Zenon DEF vars
<1>2. UserType'
  BY <1>1, Zenon DEF DelInv, UserType, Word, Ranks
<1> SUFFICES ASSUME NEW s \in Ranks, NEW e \in Ranks
             PROVE  Between(s, e)'
  BY <1>2 DEF DelInv
<1>3. SentGrows(s, e) /\ Between(s, e)
  BY <1>1 DEF SentGrows, DelInv
<1>4. \A k, i : ReceiverAt(e, s, k, i) => ReceiverAt(e, s, k, i)'
  BY <1>1, ReceiverUnmoved
<1>5. SendReqs(s, e)' = SendReqs(s, e)
  BY <1>1 DEF SendReqs, Handles
<1>6. \A k, i : SenderAt(s, e, k, i) => SenderAt(s, e, k, i)'
  BY <1>1, <1>5, SenderUnmoved
<1> QED BY <1>1, <1>3, <1>4, <1>6, BetweenKept

\* Nothing is under way when setup() has returned.
LEMMA InitDel == Init => DelInv
<1> SUFFICES ASSUME Init
             PROVE  DelInv
  OBVIOUS
<1>1. /\ pc = [r \in Ranks |-> "start"]
      /\ round = [r \in Ranks |-> 0]
      /\ done = [r \in Ranks |-> {}]
      /\ posted = [r \in Ranks |-> [s \in Ranks |-> << >>]]
      /\ net = [s \in Ranks |-> [d \in Ranks |-> << >>]]
      /\ stack = [r \in Ranks |-> << >>]
      /\ recvBuf = [r \in Ranks |-> [s \in Ranks |-> << >>]]
      /\ sent = [s \in Ranks |-> [d \in Ranks |-> << >>]]
  BY DEF Init
<1>2. UserType
  <2>1. << >> \in Seq(0 .. MaxCount) /\ << >> \in Seq(Word)
    BY EmptySeq
  <2> HIDE DEF Word
  <2> QED BY <1>1, <2>1 DEF UserType
<1> SUFFICES ASSUME NEW s \in Ranks, NEW d \in Ranks
             PROVE  Between(s, d)
  BY <1>2 DEF DelInv
<1>3. /\ pc[s] = "start" /\ pc[d] = "start" /\ round[s] = 0 /\ round[d] = 0 /\ done[s] = {}
      /\ posted[d][s] = << >> /\ net[s][d] = << >> /\ stack[d] = << >> /\ Len(sent[s][d]) = 0
  BY <1>1
<1>4. SendReqs(s, d) = {} /\ SentRounds(s, d) = 0
  <2>1. \A a : ~ Carries(net[s][d], a)
    BY <1>3 DEF Carries
  <2> QED BY <1>3, <2>1 DEF SendReqs, SentRounds
<1>5. Quiet(d, s) /\ ~ NotYet(d, s)
  BY <1>3 DEF Quiet, DueFor, Due, HandlerReady, NotYet
<1>6. s \in Peers(d) <=> d \in Peers(s)
  BY DEF Peers
<1>7. PICK k, ro, ba : /\ k = (IF s \in Peers(d) THEN 1 ELSE 0)
                       /\ ro = [j \in 1 .. 1 |-> k] /\ ba = [j \in 1 .. 1 |-> 0]
  OBVIOUS
<1>8. ro[1] = k /\ ba[1] = 0 /\ Len(net[s][d]) + 1 = 1
  BY <1>3, <1>7
<1>9. ReceiverAt(d, s, k, 0)
  BY <1>3, <1>5, <1>7 DEF ReceiverAt, HasAll
<1>10. SenderAt(s, d, k, 0)
  BY <1>3, <1>4, <1>6, <1>7 DEF SenderAt
<1>11. Ordered(s, d, ro, ba)
  BY <1>3 DEF Ordered
<1> QED BY <1>8, <1>9, <1>10, <1>11 DEF Between

\* Every step of a rank keeps the streams.
LEMMA RankStepDel ==
  ASSUME NEW r \in Ranks, TypeInv, \A p \in Ranks : RankInv(p), DelInv, RankStep(r)
  PROVE  DelInv'
<1>1. CASE Start(r)
  BY <1>1, StartDel
<1>2. CASE \E c \in 0 .. MaxCount : SendNow(r, c) \/ SendLater(r, c)
  <2>1. PICK c \in 0 .. MaxCount : SendNow(r, c) \/ SendLater(r, c)
    BY <1>2
  <2> QED BY <2>1, SendNowDel, SendLaterDel
<1>3. CASE RecvNow(r)
  BY <1>3, RecvNowDel
<1>4. CASE RecvLater(r)
  BY <1>4, RecvLaterDel
<1>5. CASE SendThrow(r)
  BY <1>5, SendThrowDel
<1>6. CASE RecvThrow(r)
  BY <1>6, RecvThrowDel
<1>7. CASE RecvHandlerNow(r)
  BY <1>7, NowDel
<1>8. CASE RecvHandlerLater(r)
  BY <1>8, LaterDel
<1>9. CASE RecvHandlerLast(r)
  BY <1>9, LastDel
<1>10. CASE RecvHandlerReturn(r)
  BY <1>10, ReturnDel
<1>11. CASE ProgressSend(r)
  BY <1>11, ProgressSendDel
<1>12. CASE \E s \in Ranks : ProgressRecv(r, s)
  BY <1>12, ProgressRecvDel
<1>13. CASE WaitAll(r)
  BY <1>13, WaitAllDel
<1>14. CASE Finalize(r) \/ Barrier(r)
  BY <1>14, CloseDel
<1> QED BY <1>1, <1>2, <1>3, <1>4, <1>5, <1>6, <1>7, <1>8, <1>9, <1>10, <1>11, <1>12, <1>13,
           <1>14, Zenon DEF RankStep

\* Every step keeps the streams.
LEMMA NextDel == IInv /\ DelInv /\ [Next]_vars => DelInv'
<1> SUFFICES ASSUME TypeInv, \A q \in Ranks : RankInv(q), DelInv, [Next]_vars
             PROVE  DelInv'
  BY Zenon DEF IInv
<1>1. CASE \E r \in Ranks : RankStep(r)
  BY <1>1, RankStepDel
<1>2. CASE NetStep
  BY <1>2, FlushDel DEF NetStep
<1>3. CASE UNCHANGED vars
  BY <1>3, StutterDel
<1> QED BY <1>1, <1>2, <1>3 DEF Next, Ended

\* The streams are in order in every reachable state.
LEMMA SpecDel == Spec => []DelInv
BY InitDel, NextDel, SpecIInv, PTL DEF Spec

\* A rank that is between rounds has everything of the round it left.
LEMMA BetweenRounds ==
  ASSUME NEW r \in Ranks, TypeInv, RankInv(r), pc[r] \in {"start", "finalize", "barrier", "closed"}
  PROVE  InUCX(r) = {} /\ stack[r] = << >> /\ \A s \in Ranks : Quiet(r, s) /\ SendReqs(r, s) = {}
<1>1. InUCX(r) = {} /\ stack[r] = << >>
  BY DEF RankInv, PlaceInv, Live, Open
<1> QED BY <1>1, Resting

(***************************************************************************)
(* UCXBufferCommunicator: every message is a count and then batches of one *)
(* communication buffer each, chained by callbacks that UCX runs inside    *)
(* the receive call or while polling, and peers may be one round ahead.    *)
(* When stop() has returned, the receive buffer holds exactly what the     *)
(* peer sent in this round.                                                *)
(***************************************************************************)
THEOREM MessagesDelivered == Spec => []DeliveredIntact
<1>1. IInv /\ DelInv => DeliveredIntact
  <2> SUFFICES ASSUME TypeInv, \A p \in Ranks : RankInv(p), DelInv, NEW r \in Ranks,
                      pc[r] \in {"start", "finalize", "barrier", "closed"}, round[r] > 0,
                      NEW s \in Peers(r), NEW k, k = round[r]
               PROVE  /\ k <= Len(sent[s][r])
                      /\ countMem[r][s] = CountWord(s, r, k, sent[s][r][k])
                      /\ \A i \in 1 .. sent[s][r][k] : At(recvBuf[r][s], i) = DataWord(s, r, k, i)
    BY Zenon DEF IInv, DeliveredIntact
  <2>1. s \in Ranks
    BY DEF Peers
  <2>2. Quiet(r, s) /\ ~ NotYet(r, s) /\ pc[r] # "thrown"
    BY <2>1, BetweenRounds DEF NotYet
  <2>3. PICK l, m : ReceiverAt(r, s, l, m)
    BY <2>1 DEF DelInv, Between
  <2>4. Got(r, s)
    BY <2>2, <2>3, RestingAt DEF HasAll
  <2>5. PICK c : c = CountOf(s, r, k)
    OBVIOUS
  <2>6. /\ k \in 1 .. Len(sent[s][r]) /\ countMem[r][s] = CountWord(s, r, k, c)
        /\ Len(recvBuf[r][s]) >= c
        /\ \A e \in 1 .. c : e <= c => recvBuf[r][s][e] = DataWord(s, r, k, e)
    BY <2>4, <2>5 DEF Got, CountGot, FilledTo
  <2>7. sent[s][r] \in Seq(0 .. MaxCount) /\ recvBuf[r][s] \in Seq(Word)
    <3> HIDE DEF Word
    <3> QED BY <2>1 DEF DelInv, UserType
  <2>8. c \in Int
    <3>1. PICK q : q = sent[s][r]
      OBVIOUS
    <3>2. q[k] \in 0 .. MaxCount
      BY <2>6, <2>7, <3>1, ElementOfSeq
    <3> QED BY <2>5, <3>1, <3>2 DEF CountOf
  <2>9. \A i \in 1 .. c : At(recvBuf[r][s], i) = DataWord(s, r, k, i)
    <3>1. DOMAIN recvBuf[r][s] = 1 .. Len(recvBuf[r][s]) /\ Len(recvBuf[r][s]) \in Nat
      BY <2>7, LenProperties
    <3>2. \A i \in 1 .. c : i \in DOMAIN recvBuf[r][s] /\ i <= c
      BY <2>6, <2>8, <3>1
    <3> QED BY <2>6, <3>2 DEF At
  <2>10. k <= Len(sent[s][r])
    BY <2>6
  <2> QED BY <2>5, <2>6, <2>9, <2>10 DEF CountOf
<1> QED BY <1>1, SpecIInv, SpecDel, PTL
-----------------------------------------------------------------------------
(***************************************************************************)
(* Implementation.  The interface's variables as BufferComm's state gives  *)
(* them: Promise substitutes Phase, round, Streams and Results.            *)
(***************************************************************************)
Phase ==
  [r \in Ranks |-> IF pc[r] \in {"send", "recv", "stop", "thrown"} THEN "open" ELSE "closed"]

Stream(s, d) ==
  [k \in DOMAIN sent[s][d] |-> [i \in 1 .. sent[s][d][k] |-> DataWord(s, d, k, i)]]
Streams == [s \in Ranks |-> [d \in Ranks |-> Stream(s, d)]]

Results ==
  [r \in Ranks |-> IF pc[r] \in {"send", "recv", "stop", "thrown"} \/ round[r] = 0 THEN << >>
                   ELSE [s \in Peers(r) |-> Received(r, s)]]

\* The steps of the interface in these terms.
LEMMA PromiseStart ==
  ASSUME NEW r, Phase[r] = "closed", round[r] < Rounds,
         Phase' = [Phase EXCEPT ![r] = "open"], round' = [round EXCEPT ![r] = @ + 1],
         Results' = [Results EXCEPT ![r] = << >>], Streams' = Streams
  PROVE  Promise!Start(r)
BY Zenon DEF Promise!Start, Promise!Nothing, Phase, Results, Streams, Stream

\* Appending the round's message to a stream of an open round is the interface's send.
LEMMA PromiseSend ==
  ASSUME NEW r, NEW d \in Peers(r), Phase[r] = "open", Len(Streams[r][d]) < round[r],
         NEW p \in Payload(r, d, round[r]),
         Streams' = [Streams EXCEPT ![r][d] = Append(@, p)],
         Phase' = Phase, round' = round, Results' = Results
  PROVE  Promise!Send(r, d)
BY Zenon DEF Promise!Send, Phase, Results, Streams, Stream

\* Closing an open round with every peer's message of it is the interface's stop.
LEMMA PromiseStop ==
  ASSUME NEW r, Phase[r] = "open",
         \A s \in Peers(r) : Len(Streams[r][s]) >= round[r] /\ Len(Streams[s][r]) >= round[r],
         Results' = [Results EXCEPT ![r] = [s \in Peers(r) |-> Streams[s][r][round[r]]]],
         Phase' = [Phase EXCEPT ![r] = "closed"], round' = round, Streams' = Streams
  PROVE  Promise!Stop(r)
BY Zenon DEF Promise!Stop, Phase, Results, Streams, Stream

\* What changes neither phase, round, streams nor results is no step of the interface.
LEMMA PromiseStutter ==
  ASSUME Phase' = Phase, round' = round, Results' = Results, Streams' = Streams
  PROVE  UNCHANGED Promise!vars
BY Zenon DEF Promise!vars, Phase, Results, Streams, Stream

\* The communicator begins where the interface does.
LEMMA PromiseInit ==
  ASSUME Init
  PROVE  Promise!Init
<1>1. /\ pc = [r \in Ranks |-> "start"] /\ round = [r \in Ranks |-> 0]
      /\ sent = [s \in Ranks |-> [d \in Ranks |-> << >>]]
  BY DEF Init
<1>2. Phase = [r \in Ranks |-> "closed"]
  BY <1>1 DEF Phase
<1>3. Results = [r \in Ranks |-> << >>]
  BY <1>1 DEF Results
<1>4. Streams = [s \in Ranks |-> [d \in Ranks |-> << >>]]
  <2>1. ASSUME NEW s \in Ranks, NEW d \in Ranks PROVE Stream(s, d) = << >>
    <3>1. sent[s][d] = << >>
      BY <1>1
    <3>2. DOMAIN sent[s][d] = {}
      BY <3>1
    <3> QED BY <3>2 DEF Stream
  <2> QED BY <2>1 DEF Streams
<1> QED BY <1>1, <1>2, <1>3, <1>4, Zenon DEF Promise!Init, Promise!Nothing, Phase, Results, Streams, Stream

\* A step of r leaves what the others hold.
OthersKeep(r) ==
  \A q \in Ranks : q # r =>
    /\ pc'[q] = pc[q] /\ round'[q] = round[q]
    /\ countMem'[q] = countMem[q] /\ recvBuf'[q] = recvBuf[q]

\* A rank whose pc, round and received data are the same looks the same to the interface.
LEMMA OthersSame ==
  ASSUME NEW r, OthersKeep(r), NEW q \in Ranks, q # r
  PROVE  Phase'[q] = Phase[q] /\ Results'[q] = Results[q]
<1>1. /\ pc'[q] = pc[q] /\ round'[q] = round[q]
      /\ countMem'[q] = countMem[q] /\ recvBuf'[q] = recvBuf[q]
  BY DEF OthersKeep
<1>2. \A s : Received(q, s)' = Received(q, s)
  BY <1>1 DEF Received
<1> QED BY <1>1, <1>2 DEF Phase, Results

\* Between start() and stop(), or an exception that leaves the round open.
Inside(r) == Open(r) \/ pc[r] = "thrown"

\* Between start() and stop() only sends are seen; outside nothing changes.
LEMMA InsideStep ==
  ASSUME NEW r \in Ranks, OthersKeep(r), Inside(r), Inside(r)'
  PROVE  Phase' = Phase /\ Results' = Results
<1>1. \A q \in Ranks : Phase'[q] = Phase[q] /\ Results'[q] = Results[q]
  <2>1. Phase'[r] = Phase[r] /\ Results'[r] = Results[r]
    BY DEF Inside, Open, Phase, Results
  <2> QED BY <2>1, OthersSame
<1> QED BY <1>1 DEF Phase, Results

\* A step between rounds that receives nothing is no step of the interface.
LEMMA OutsideStep ==
  ASSUME NEW r \in Ranks, OthersKeep(r), ~ Inside(r), ~ Inside(r)', round' = round,
         countMem' = countMem, recvBuf' = recvBuf
  PROVE  Phase' = Phase /\ Results' = Results
<1>1. \A q \in Ranks : Phase'[q] = Phase[q] /\ Results'[q] = Results[q]
  <2>1. \A s : Received(r, s)' = Received(r, s)
    BY DEF Received
  <2>2. Phase'[r] = Phase[r] /\ Results'[r] = Results[r]
    BY <2>1 DEF Inside, Open, Phase, Results
  <2> QED BY <2>2, OthersSame
<1> QED BY <1>1 DEF Phase, Results

\* A step that announces no send leaves the interface's streams alone.
LEMMA StreamsSame ==
  ASSUME sent' = sent
  PROVE  Streams' = Streams
BY DEF Streams, Stream
(***************************************************************************)
(* How a step moves its rank through the program.                          *)
(***************************************************************************)
PcMove(r) ==
  \/ Start(r) /\ pc'[r] = "send" /\ round'[r] = round[r] + 1
  \/ pc'[r] = pc[r] /\ round'[r] = round[r]
  \/ /\ pc[r] \in {"send", "recv"} /\ pc'[r] \in {"send", "recv", "stop", "thrown"}
     /\ round'[r] = round[r]
  \/ /\ pc[r] = "stop" /\ pc'[r] = IF round[r] < Rounds THEN "start" ELSE "finalize"
     /\ round'[r] = round[r]
  \/ pc[r] = "finalize" /\ pc'[r] = "barrier" /\ round'[r] = round[r]
  \/ /\ pc[r] = "barrier" /\ pc'[r] = "closed" /\ round'[r] = round[r]
     /\ \A s \in Ranks : pc[s] \in {"barrier", "closed"}

Moves(r) == OthersKeep(r) /\ PcMove(r)

\* The frame in terms of whole variables.
LEMMA OneMoves ==
  ASSUME TypeInv, UserType, NEW r \in Ranks,
         NEW x, pc' = [pc EXCEPT ![r] = x], round' = round,
         NEW f, countMem' = [countMem EXCEPT ![r] = f],
         NEW g, recvBuf' = [recvBuf EXCEPT ![r] = g]
  PROVE  OthersKeep(r) /\ pc'[r] = x /\ round'[r] = round[r]
<1>1. /\ pc \in [Ranks -> PCs] /\ countMem \in [Ranks -> [Ranks -> Word]]
      /\ recvBuf \in [Ranks -> [Ranks -> Seq(Word)]]
  BY DEF TypeInv, UserType
<1> HIDE DEF Word
<1> QED BY <1>1 DEF OthersKeep

\* Writing back what is there changes nothing.
LEMMA CountsSame ==
  ASSUME TypeInv, UserType, NEW r \in Ranks
  PROVE  /\ pc = [pc EXCEPT ![r] = pc[r]]
         /\ countMem = [countMem EXCEPT ![r] = countMem[r]]
         /\ recvBuf = [recvBuf EXCEPT ![r] = recvBuf[r]]
<1>1. /\ pc \in [Ranks -> PCs] /\ countMem \in [Ranks -> [Ranks -> Word]]
      /\ recvBuf \in [Ranks -> [Ranks -> Seq(Word)]]
  BY DEF TypeInv, UserType
<1> HIDE DEF Word
<1> QED BY <1>1

\* What lands changes at most one count of the rank.
LEMMA LandsAtOne ==
  ASSUME TypeInv, UserType, NEW r \in Ranks, NEW s, NEW b, NEW v, Land(r, s, b, v)
  PROVE  \E f : countMem' = [countMem EXCEPT ![r] = f]
<1>1. CASE b = Null
  <2>1. countMem' = [countMem EXCEPT ![r][s] = At(v, 1)]
    BY <1>1 DEF Land
  <2> QED BY <2>1
<1>2. CASE b # Null
  <2>1. countMem' = countMem
    BY <1>2 DEF Land
  <2> QED BY <2>1, CountsSame
<1> QED BY <1>1, <1>2

\* Every step moves one rank's pc and received data only, and opens or ends rounds as its action says.
LEMMA StepMoves ==
  ASSUME TypeInv, UserType, NEW r \in Ranks, RankStep(r)
  PROVE  Moves(r)
<1>0. /\ pc = [pc EXCEPT ![r] = pc[r]] /\ countMem = [countMem EXCEPT ![r] = countMem[r]]
      /\ recvBuf = [recvBuf EXCEPT ![r] = recvBuf[r]]
  BY CountsSame
<1>1. CASE Start(r)
  <2>1. /\ pc' = [pc EXCEPT ![r] = "send"] /\ round' = [round EXCEPT ![r] = @ + 1]
        /\ countMem' = countMem /\ recvBuf' = recvBuf
    BY <1>1 DEF Start, user
  <2>2. pc \in [Ranks -> PCs] /\ round \in [Ranks -> Int]
    BY DEF TypeInv
  <2>3. OthersKeep(r) /\ pc'[r] = "send" /\ round'[r] = round[r] + 1
    BY <2>1, <2>2 DEF OthersKeep
  <2> QED BY <1>1, <2>3 DEF Moves, PcMove
<1>2. ASSUME NEW c, SendNow(r, c) \/ SendLater(r, c) PROVE Moves(r)
  <2>1. PICK h, d : pc[r] = "send" /\ SendBook(r, h, d, c)
    BY <1>2 DEF SendNow, SendLater, SendReady
  <2>2. PICK x \in {"send", "recv"} : pc' = [pc EXCEPT ![r] = x]
    BY <2>1 DEF SendBook, LoopNext
  <2>3. round' = round /\ countMem' = countMem /\ recvBuf' = recvBuf
    BY <2>1 DEF SendBook
  <2>4. OthersKeep(r) /\ pc'[r] = x /\ round'[r] = round[r]
    BY <1>0, <2>2, <2>3, OneMoves
  <2> QED BY <2>1, <2>4 DEF Moves, PcMove
<1>3. CASE RecvNow(r) \/ RecvLater(r)
  <2>1. PICK q, s, i, b : pc[r] = "recv" /\ RecvBook(r, q, s, i, b)
    BY <1>3 DEF RecvNow, RecvLater, RecvReady
  <2>2. PICK x \in {"recv", "stop"} : pc' = [pc EXCEPT ![r] = x]
    BY <2>1 DEF RecvBook, LoopNext
  <2>3. round' = round
    BY <2>1 DEF RecvBook
  <2>4. PICK g : recvBuf' = [recvBuf EXCEPT ![r] = g]
    BY <2>1 DEF RecvBook
  <2>5. PICK f : countMem' = [countMem EXCEPT ![r] = f]
    <3>1. CASE RecvNow(r)
      BY <3>1, LandsAtOne DEF RecvNow, RecvNbEarly
    <3>2. CASE RecvLater(r)
      BY <1>0, <3>2 DEF RecvLater, RecvNbPost
    <3> QED BY <1>3, <3>1, <3>2
  <2>6. OthersKeep(r) /\ pc'[r] = x /\ round'[r] = round[r]
    BY <2>2, <2>3, <2>4, <2>5, OneMoves
  <2> QED BY <2>1, <2>6 DEF Moves, PcMove
<1>4. CASE SendThrow(r) \/ RecvThrow(r)
  <2>1. /\ pc[r] \in {"send", "recv"} /\ pc' = [pc EXCEPT ![r] = "thrown"]
        /\ round' = round /\ recvBuf' = recvBuf
    BY <1>4 DEF SendThrow, RecvThrow, ThrowReady
  <2>2. PICK f : countMem' = [countMem EXCEPT ![r] = f]
    <3>1. CASE SendThrow(r)
      BY <1>0, <3>1 DEF SendThrow
    <3>2. CASE RecvThrow(r)
      <4>1. CASE RecvNbEarly(r, idx[r], Null, 1)
        BY <4>1, LandsAtOne DEF RecvNbEarly
      <4>2. CASE countMem' = countMem
        BY <1>0, <4>2
      <4> QED BY <3>2, <4>1, <4>2 DEF RecvThrow, RecvNbPost
    <3> QED BY <1>4, <3>1, <3>2
  <2>3. OthersKeep(r) /\ pc'[r] = "thrown" /\ round'[r] = round[r]
    BY <1>0, <2>1, <2>2, OneMoves
  <2> QED BY <2>1, <2>3 DEF Moves, PcMove
<1>5. CASE RecvHandlerNow(r) \/ RecvHandlerLater(r)
  <2>1. PICK h, q, b : RecvHandlerNext(r, h, q, b)
    BY <1>5 DEF RecvHandlerNow, RecvHandlerLater
  <2>2. pc' = pc /\ round' = round
    BY <2>1 DEF RecvHandlerNext, loop
  <2>3. PICK g : recvBuf' = [recvBuf EXCEPT ![r] = g]
    BY <2>1 DEF RecvHandlerNext
  <2>4. PICK f : countMem' = [countMem EXCEPT ![r] = f]
    <3>1. CASE RecvHandlerNow(r)
      BY <3>1, LandsAtOne DEF RecvHandlerNow, RecvNbEarly
    <3>2. CASE RecvHandlerLater(r)
      BY <1>0, <3>2 DEF RecvHandlerLater, RecvNbPost
    <3> QED BY <1>5, <3>1, <3>2
  <2>5. OthersKeep(r) /\ pc'[r] = pc[r] /\ round'[r] = round[r]
    BY <1>0, <2>2, <2>3, <2>4, OneMoves
  <2> QED BY <2>5 DEF Moves, PcMove
<1>6. CASE RecvHandlerLast(r) \/ RecvHandlerReturn(r)
  <2>1. pc' = pc /\ round' = round /\ countMem' = countMem
    BY <1>6 DEF RecvHandlerLast, RecvHandlerReturn, loop, user
  <2>2. PICK g : recvBuf' = [recvBuf EXCEPT ![r] = g]
    BY <1>0, <1>6 DEF RecvHandlerLast, RecvHandlerReturn, user
  <2>3. OthersKeep(r) /\ pc'[r] = pc[r] /\ round'[r] = round[r]
    BY <1>0, <2>1, <2>2, OneMoves
  <2> QED BY <2>3 DEF Moves, PcMove
<1>7. CASE ProgressSend(r)
  <2>1. pc' = pc /\ round' = round /\ countMem' = countMem /\ recvBuf' = recvBuf
    BY <1>7 DEF ProgressSend, loop, user
  <2>2. OthersKeep(r) /\ pc'[r] = pc[r] /\ round'[r] = round[r]
    BY <1>0, <2>1, OneMoves
  <2> QED BY <2>2 DEF Moves, PcMove
<1>8. ASSUME NEW s \in Ranks, ProgressRecv(r, s) PROVE Moves(r)
  <2>1. pc' = pc /\ round' = round /\ recvBuf' = recvBuf
    BY <1>8 DEF ProgressRecv, loop
  <2>2. PICK f : countMem' = [countMem EXCEPT ![r] = f]
    BY <1>8, LandsAtOne DEF ProgressRecv
  <2>3. OthersKeep(r) /\ pc'[r] = pc[r] /\ round'[r] = round[r]
    BY <1>0, <2>1, <2>2, OneMoves
  <2> QED BY <2>3 DEF Moves, PcMove
<1>9. CASE WaitAll(r)
  <2>1. /\ pc[r] = "stop"
        /\ pc' = [pc EXCEPT ![r] = IF round[r] < Rounds THEN "start" ELSE "finalize"]
        /\ round' = round /\ countMem' = countMem /\ recvBuf' = recvBuf
    BY <1>9 DEF WaitAll, user
  <2>2. /\ OthersKeep(r) /\ pc'[r] = (IF round[r] < Rounds THEN "start" ELSE "finalize")
        /\ round'[r] = round[r]
    BY <1>0, <2>1, OneMoves
  <2> QED BY <2>1, <2>2 DEF Moves, PcMove
<1>10. CASE Finalize(r)
  <2>1. /\ pc[r] = "finalize" /\ pc' = [pc EXCEPT ![r] = "barrier"]
        /\ round' = round /\ countMem' = countMem /\ recvBuf' = recvBuf
    BY <1>10 DEF Finalize, user
  <2>2. OthersKeep(r) /\ pc'[r] = "barrier" /\ round'[r] = round[r]
    BY <1>0, <2>1, OneMoves
  <2> QED BY <2>1, <2>2 DEF Moves, PcMove
<1>11. CASE Barrier(r)
  <2>1. /\ pc[r] = "barrier" /\ pc' = [pc EXCEPT ![r] = "closed"]
        /\ \A s \in Ranks : pc[s] \in {"barrier", "closed"}
        /\ round' = round /\ countMem' = countMem /\ recvBuf' = recvBuf
    BY <1>11 DEF Barrier, user
  <2>2. OthersKeep(r) /\ pc'[r] = "closed" /\ round'[r] = round[r]
    BY <1>0, <2>1, OneMoves
  <2> QED BY <2>1, <2>2 DEF Moves, PcMove
<1> QED BY <1>1, <1>2, <1>3, <1>4, <1>5, <1>6, <1>7, <1>8, <1>9, <1>10, <1>11, Zenon DEF RankStep
(***************************************************************************)
(* Rounds, and the end of the program: a worker is destroyed when all      *)
(* ranks have reached the barrier.                                         *)
(***************************************************************************)
EndAt(r) ==
  /\ round[r] \in 0 .. Rounds
  /\ Open(r) => round[r] >= 1
  /\ pc[r] = "finalize" \/ pc[r] = "barrier" \/ pc[r] = "closed" => round[r] = Rounds
  /\ pc[r] = "closed" => \A s \in Ranks : pc[s] \in {"barrier", "closed"}

EndInv == \A r \in Ranks : EndAt(r)

\* Before the first round nobody has announced a send.
LEMMA InitEnd == Init => EndInv
<1> SUFFICES ASSUME Init, NEW r \in Ranks
             PROVE  EndAt(r)
  BY DEF EndInv
<1>1. pc[r] = "start" /\ round[r] = 0
  BY DEF Init
<1> QED BY <1>1, BoundsAssumption DEF EndAt, Open

\* Every step keeps the counts of announced sends in step with the rounds.
LEMMA StepEnd ==
  ASSUME TypeInv, NEW r \in Ranks, Moves(r), EndInv
  PROVE  EndInv'
<1>1. EndAt(r) /\ round[r] \in 0 .. Rounds /\ Rounds \in Nat /\ pc[r] \in PCs
  BY BoundsAssumption DEF EndInv, EndAt, TypeInv
<1>2. \A s \in Ranks : s # r => pc'[s] = pc[s] /\ round'[s] = round[s]
  BY DEF Moves, OthersKeep
<1>3. ASSUME NEW s \in Ranks, pc[s] \in {"barrier", "closed"} PROVE pc'[s] \in {"barrier", "closed"}
  <2>1. CASE s # r
    BY <1>2, <1>3, <2>1
  <2>2. CASE s = r
    BY <1>3, <2>2 DEF Moves, PcMove, Start
  <2> QED BY <2>1, <2>2
<1>4. EndAt(r)'
  <2>1. CASE Start(r) /\ pc'[r] = "send" /\ round'[r] = round[r] + 1
    BY <1>1, <2>1 DEF EndAt, Open, Start
  <2>2. CASE pc'[r] = pc[r] /\ round'[r] = round[r]
    BY <1>1, <1>3, <2>2 DEF EndAt, Open
  <2>3. CASE /\ pc[r] \in {"send", "recv"} /\ pc'[r] \in {"send", "recv", "stop", "thrown"}
             /\ round'[r] = round[r]
    BY <1>1, <2>3 DEF EndAt, Open
  <2>4. CASE /\ pc[r] = "stop" /\ pc'[r] = IF round[r] < Rounds THEN "start" ELSE "finalize"
             /\ round'[r] = round[r]
    BY <1>1, <2>4 DEF EndAt, Open
  <2>5. CASE pc[r] = "finalize" /\ pc'[r] = "barrier" /\ round'[r] = round[r]
    BY <1>1, <2>5 DEF EndAt, Open
  <2>6. CASE /\ pc[r] = "barrier" /\ pc'[r] = "closed" /\ round'[r] = round[r]
             /\ \A s \in Ranks : pc[s] \in {"barrier", "closed"}
    BY <1>1, <1>3, <2>6 DEF EndAt, Open
  <2> QED BY <2>1, <2>2, <2>3, <2>4, <2>5, <2>6 DEF Moves, PcMove
<1>5. ASSUME NEW s \in Ranks, s # r PROVE EndAt(s)'
  <2>1. EndAt(s) /\ pc'[s] = pc[s] /\ round'[s] = round[s]
    BY <1>2, <1>5 DEF EndInv
  <2> QED BY <1>3, <2>1 DEF EndAt, Open
<1> QED BY <1>4, <1>5 DEF EndInv

\* So does every step of the specification.
LEMMA NextEnd == IInv /\ DelInv /\ EndInv /\ [Next]_vars => EndInv'
<1> SUFFICES ASSUME TypeInv, UserType, EndInv, [Next]_vars
             PROVE  EndInv'
  BY Zenon DEF IInv, DelInv
<1>1. CASE \E r \in Ranks : RankStep(r)
  BY <1>1, StepMoves, StepEnd
<1>2. CASE NetStep \/ UNCHANGED vars
  <2>1. pc' = pc /\ round' = round
    BY <1>2 DEF NetStep, Flush, loop, vars
  <2> QED BY <2>1 DEF EndInv, EndAt, Open
<1> QED BY <1>1, <1>2 DEF Next, Ended

\* The counts of announced sends are in step with the rounds in every reachable state.
LEMMA SpecEnd == Spec => []EndInv
BY InitEnd, NextEnd, SpecIInv, SpecDel, PTL DEF Spec

(***************************************************************************)
(* The streams of messages of the interface.                               *)
(***************************************************************************)
Lists(f, n)     == f = [j \in 1 .. n |-> f[j]]
Extended(f, g, n) == \A j \in 1 .. n : g[j] = f[j]
Tabled(A)       == A = [s \in Ranks |-> [e \in Ranks |-> A[s][e]]]
Else(A, B, r, d) == \A s, e \in Ranks : s # r \/ e # d => B[s][e] = A[s][e]

\* A list written as a function has its domain's length and grows at its end.
LEMMA ListLen ==
  ASSUME NEW n \in Nat, NEW f, Lists(f, n)
  PROVE  Len(f) = n
<1>0. f = [j \in 1 .. n |-> f[j]]
  BY DEF Lists
<1>1. f \in Seq({f[j] : j \in 1 .. n})
  BY <1>0, Listed
<1>2. DOMAIN f = 1 .. Len(f) /\ Len(f) \in Nat
  BY <1>1, LenProperties
<1>3. DOMAIN f = 1 .. n
  BY <1>0
<1>4. PICK m : m = Len(f)
  OBVIOUS
<1>5. m \in Nat /\ 1 .. m = 1 .. n
  BY <1>2, <1>3, <1>4
<1>6. m = n
  BY <1>5
<1> QED BY <1>4, <1>6

\* A sequence with one element more at its end is the old one with that element appended.
LEMMA ListAppend ==
  ASSUME NEW n \in Nat, NEW f, Lists(f, n), NEW p,
         NEW g, Lists(g, n + 1), Extended(f, g, n), g[n + 1] = p
  PROVE  g = Append(f, p)
<1>0. /\ f = [j \in 1 .. n |-> f[j]] /\ g = [j \in 1 .. n + 1 |-> g[j]]
      /\ \A j \in 1 .. n : g[j] = f[j]
  BY DEF Lists, Extended
<1>1. PICK S : S = {f[j] : j \in 1 .. n} \cup {p}
  OBVIOUS
<1>2. (\A j \in 1 .. n : f[j] \in S) /\ p \in S
  BY <1>1
<1>3. f \in Seq(S)
  BY <1>0, <1>2, Listed
<1>4. Len(f) = n
  BY ListLen
<1>5. PICK h : h = Append(f, p)
  OBVIOUS
<1>6. /\ h \in Seq(S) /\ Len(h) = n + 1
      /\ \A j \in 1 .. n : h[j] = f[j]
      /\ h[n + 1] = p
  BY <1>2, <1>3, <1>4, <1>5, AppendProperties
<1>7. h \in [1 .. n + 1 -> S]
  BY <1>6, LenProperties
<1>8. \A j \in 1 .. n + 1 : h[j] = g[j]
  <2>1. \A j \in 1 .. n + 1 : j \in 1 .. n \/ j = n + 1
    OBVIOUS
  <2> QED BY <1>0, <1>6, <2>1, Zenon
<1> QED BY <1>0, <1>5, <1>7, <1>8

\* A stream is as long as the counts announced.
LEMMA StreamLen ==
  ASSUME UserType, NEW s \in Ranks, NEW d \in Ranks
  PROVE  Len(Streams[s][d]) = Len(sent[s][d]) /\ Len(sent[s][d]) \in Nat
<1>1. sent[s][d] \in Seq(0 .. MaxCount)
  BY DEF UserType
<1>2. PICK n : n = Len(sent[s][d])
  OBVIOUS
<1>3. n \in Nat /\ DOMAIN sent[s][d] = 1 .. n
  BY <1>1, <1>2, LenProperties
<1>4. PICK f : f = Stream(s, d)
  OBVIOUS
<1>5. Lists(f, n)
  BY <1>3, <1>4 DEF Stream, Lists
<1>6. Len(f) = n
  BY <1>3, <1>5, ListLen
<1> QED BY <1>2, <1>3, <1>4, <1>6 DEF Streams

\* A table that differs from another in one cell.
LEMMA CellWritten ==
  ASSUME NEW A, NEW B, Tabled(A), Tabled(B),
         NEW r \in Ranks, NEW d \in Ranks, NEW x, B[r][d] = x, Else(A, B, r, d)
  PROVE  B = [A EXCEPT ![r][d] = x]
<1> USE DEF Tabled, Else
<1>1. \A s \in Ranks : /\ A[s] = [e \in Ranks |-> A[s][e]]
                       /\ B[s] = [e \in Ranks |-> B[s][e]]
  OBVIOUS
<1>2. PICK w : w = [A[r] EXCEPT ![d] = x]
  OBVIOUS
<1>3. B[r] = w
  <2>1. w = [e \in Ranks |-> w[e]] /\ \A e \in Ranks : w[e] = B[r][e]
    BY <1>1, <1>2
  <2> QED BY <1>1, <2>1
<1>4. \A s \in Ranks : s # r => B[s] = A[s]
  BY <1>1
<1>5. DOMAIN A = Ranks /\ DOMAIN B = Ranks
  OBVIOUS
<1>6. B = [A EXCEPT ![r] = w]
  BY <1>3, <1>4, <1>5
<1> QED BY <1>2, <1>6

\* A send appends its message to the stream.
SendWrites(r, d, c, k, p) ==
  /\ sent' = [sent EXCEPT ![r][d] = Append(@, c)]
  /\ k = Len(sent[r][d]) + 1 /\ p = [i \in 1 .. c |-> DataWord(r, d, k, i)]

\* A call of send appends its round's message to one stream of the interface.
LEMMA StreamGrows ==
  ASSUME UserType, NEW r \in Ranks, NEW d \in Ranks, NEW c \in 0 .. MaxCount,
         NEW k, NEW p, SendWrites(r, d, c, k, p)
  PROVE  Streams' = [Streams EXCEPT ![r][d] = Append(@, p)]
<1>0. /\ sent' = [sent EXCEPT ![r][d] = Append(@, c)]
      /\ k = Len(sent[r][d]) + 1 /\ p = [i \in 1 .. c |-> DataWord(r, d, k, i)]
  BY DEF SendWrites
<1>1. sent[r][d] \in Seq(0 .. MaxCount) /\ sent \in [Ranks -> [Ranks -> Seq(0 .. MaxCount)]]
  BY DEF UserType
<1>2. PICK n, q : n = Len(sent[r][d]) /\ q = sent[r][d]
  OBVIOUS
<1>3. PICK v : v = Append(q, c)
  OBVIOUS
<1>4. /\ n \in Nat /\ DOMAIN q = 1 .. n
      /\ DOMAIN v = 1 .. n + 1 /\ v[n + 1] = c
      /\ \A j \in 1 .. n : v[j] = q[j]
  <2>1. q \in Seq(0 .. MaxCount) /\ n = Len(q)
    BY <1>1, <1>2
  <2>2. /\ v \in Seq(0 .. MaxCount) /\ Len(v) = n + 1 /\ v[n + 1] = c
        /\ \A j \in 1 .. n : v[j] = q[j]
    BY <1>3, <2>1, AppendProperties
  <2> QED BY <2>1, <2>2, LenProperties
<1>5. /\ sent'[r][d] = v
      /\ \A s, e \in Ranks : s # r \/ e # d => sent'[s][e] = sent[s][e]
  BY <1>0, <1>1, <1>2, <1>3
<1>7. PICK f : f = Stream(r, d)
  OBVIOUS
<1>8. PICK g : g = Stream(r, d)'
  OBVIOUS
<1>9. /\ f = [j \in 1 .. n |-> [i \in 1 .. q[j] |-> DataWord(r, d, j, i)]]
      /\ g = [j \in 1 .. n + 1 |-> [i \in 1 .. v[j] |-> DataWord(r, d, j, i)]]
  BY <1>2, <1>4, <1>5, <1>7, <1>8, Zenon DEF Stream, DataWord
<1>10. g = Append(f, p)
  <2>1. \A j \in 1 .. n : j \in 1 .. n + 1
    BY <1>4
  <2>2. Extended(f, g, n)
    BY <1>4, <1>9, <2>1 DEF Extended
  <2>3. n + 1 \in 1 .. n + 1 /\ k = n + 1
    BY <1>0, <1>2, <1>4
  <2>4. g[n + 1] = p
    BY <1>0, <1>4, <1>9, <2>3
  <2>5. Lists(f, n) /\ Lists(g, n + 1)
    BY <1>9 DEF Lists
  <2>6. n \in Nat
    BY <1>4
  <2> QED BY <2>2, <2>4, <2>5, <2>6, ListAppend, Zenon
<1>11. \A s, e \in Ranks : s # r \/ e # d => Stream(s, e)' = Stream(s, e)
  <2> SUFFICES ASSUME NEW s \in Ranks, NEW e \in Ranks, s # r \/ e # d
               PROVE  Stream(s, e)' = Stream(s, e)
    OBVIOUS
  <2>1. sent'[s][e] = sent[s][e]
    BY <1>5
  <2> QED BY <2>1, Zenon DEF Stream, DataWord
<1>12. Streams' = [Streams EXCEPT ![r][d] = Append(@, p)]
  <2>1. Streams'[r][d] = Append(Streams[r][d], p)
    BY <1>7, <1>8, <1>10 DEF Streams
  <2>2. PICK A : A = Streams
    OBVIOUS
  <2>3. PICK B : B = Streams'
    OBVIOUS
  <2>4. Tabled(A) /\ Tabled(B)
    BY <2>2, <2>3 DEF Streams, Tabled
  <2>5. Else(A, B, r, d)
    BY <1>11, <2>2, <2>3 DEF Streams, Else
  <2>6. PICK x : x = Append(A[r][d], p)
    OBVIOUS
  <2>7. B[r][d] = x
    BY <2>1, <2>2, <2>3, <2>6
  <2>8. B = [A EXCEPT ![r][d] = x]
    BY <2>4, <2>5, <2>7, CellWritten, Zenon
  <2> QED BY <2>2, <2>3, <2>6, <2>8, Zenon
<1> QED BY <1>12
(***************************************************************************)
(* Every step is a step of the interface or changes nothing of it.         *)
(***************************************************************************)
\* Outside the calls that open and close a round only the streams may change.
LEMMA KeepsRound ==
  ASSUME NEW r \in Ranks, Moves(r), Inside(r), Inside(r)', round' = round, sent' = sent
  PROVE  UNCHANGED Promise!vars
<1>1. Phase' = Phase /\ Results' = Results
  BY InsideStep DEF Moves
<1>2. Streams' = Streams
  BY StreamsSame
<1> QED BY <1>1, <1>2, PromiseStutter

\* start() is the interface's start.
LEMMA StartPromise ==
  ASSUME TypeInv, NEW r \in Ranks, Start(r), Moves(r)
  PROVE  Promise!Start(r)
<1>1. /\ pc[r] = "start" /\ round[r] < Rounds /\ pc' = [pc EXCEPT ![r] = "send"]
      /\ round' = [round EXCEPT ![r] = @ + 1] /\ sent' = sent
  BY DEF Start, user
<1>2. pc'[r] = "send"
  BY <1>1 DEF TypeInv
<1>3. \A q \in Ranks : q # r => Phase'[q] = Phase[q] /\ Results'[q] = Results[q]
  BY OthersSame DEF Moves
<1>4. Phase[r] = "closed" /\ Phase'[r] = "open" /\ Results'[r] = << >>
  BY <1>1, <1>2 DEF Phase, Results
<1>5. Phase' = [Phase EXCEPT ![r] = "open"]
  BY <1>3, <1>4 DEF Phase
<1>6. Results' = [Results EXCEPT ![r] = << >>]
  BY <1>3, <1>4 DEF Results
<1>7. Streams' = Streams
  BY <1>1, StreamsSame
<1> QED BY <1>1, <1>4, <1>5, <1>6, <1>7, PromiseStart

\* In its round the sender has sent to the peers its loop has passed.
LEMMA SentSoFar ==
  ASSUME DelInv, NEW r \in Ranks, NEW d \in Peers(r), pc[r] # "thrown"
  PROVE  Len(sent[r][d]) = SentRounds(r, d)
<1>1. d \in Ranks
  BY DEF Peers
<1>2. PICK k, i : SenderAt(r, d, k, i)
  BY <1>1 DEF DelInv, Between
<1> QED BY <1>2 DEF SenderAt

\* Giving UCX a count, even one that send() cannot follow up, is the interface's send.
LEMMA CountPromise ==
  ASSUME TypeInv, DelInv, NEW r \in Ranks, RankInv(r), Moves(r), NEW c \in 0 .. MaxCount,
         pc[r] = "send", c \in Counts[r][idx[r]], round' = round,
         sent' = [sent EXCEPT ![r][idx[r]] = Append(@, c)], Inside(r)'
  PROVE  \E d \in Peers(r) : Promise!Send(r, d)
<1>1. PICK d : d = idx[r]
  OBVIOUS
<1>3. pc[r] = "send" /\ c \in Counts[r][d]
  BY <1>1
<1>4. d \in Peers(r) /\ d \in Ranks
  BY <1>1, <1>3 DEF RankInv, CountInv, Peers
<1>5. round[r] \in Int /\ d \in Int
  <2>1. round[r] \in Int
    BY DEF TypeInv
  <2>2. d \in 0 .. N - 1
    BY <1>4 DEF Ranks
  <2>3. d \in Int
    BY <2>2, NAssumption
  <2> QED BY <2>1, <2>3
<1>6. SentRounds(r, d) = round[r] - 1
  BY <1>1, <1>3, <1>5 DEF SentRounds
<1>7. Len(sent[r][d]) = round[r] - 1
  BY <1>3, <1>4, <1>6, SentSoFar
<1>8. PICK k : k = round[r]
  OBVIOUS
<1>9. k = Len(sent[r][d]) + 1
  BY <1>5, <1>7, <1>8
<1>10. sent' = [sent EXCEPT ![r][d] = Append(@, c)]
  BY <1>1
<1>11. Phase' = Phase /\ Results' = Results
  BY <1>3, InsideStep DEF Moves, Inside, Open
<1>12. PICK p : p = [i \in 1 .. c |-> DataWord(r, d, k, i)]
  OBVIOUS
<1>13. Streams' = [Streams EXCEPT ![r][d] = Append(@, p)]
  <2>1. UserType
    BY DEF DelInv
  <2>2. sent' = [sent EXCEPT ![r][d] = Append(@, c)]
    BY <1>10
  <2>3. SendWrites(r, d, c, k, p)
    BY <1>9, <1>12, <2>2 DEF SendWrites
  <2> QED BY <1>4, <2>1, <2>3, StreamGrows, Zenon
<1>14. p \in Payload(r, d, round[r])
  BY <1>3, <1>8, <1>12 DEF Payload
<1>15. Len(Streams[r][d]) < round[r]
  BY <1>4, <1>5, <1>7, StreamLen DEF DelInv
<1>16. Phase[r] = "open"
  BY <1>3 DEF Phase
<1>17. Promise!Send(r, d)
  BY <1>4, <1>10, <1>11, <1>13, <1>14, <1>15, <1>16, PromiseSend
<1> QED BY <1>4, <1>17, Zenon

\* A call of send, whether its count goes out at once or not, is the interface's send.
LEMMA SendPromise ==
  ASSUME TypeInv, DelInv, NEW r \in Ranks, RankInv(r), Moves(r),
         NEW c \in 0 .. MaxCount, SendNow(r, c) \/ SendLater(r, c)
  PROVE  \E d \in Peers(r) : Promise!Send(r, d)
<1>1. PICK h : SendBook(r, h, idx[r], c)
  BY DEF SendNow, SendLater
<1>2. pc[r] = "send" /\ c \in Counts[r][idx[r]]
  BY DEF SendNow, SendLater, SendReady
<1>3. /\ sent' = [sent EXCEPT ![r][idx[r]] = Append(@, c)] /\ round' = round
      /\ pc'[r] \in {"send", "recv"}
  <2>1. PICK x \in {"send", "recv"} : pc' = [pc EXCEPT ![r] = x]
    BY <1>1 DEF SendBook, LoopNext
  <2>2. pc'[r] = x
    BY <2>1 DEF TypeInv
  <2> QED BY <1>1, <2>2 DEF SendBook
<1> QED BY <1>2, <1>3, CountPromise DEF Inside, Open

\* A send that finds no buffer has announced its count and leaves the round open.
LEMMA ThrowPromise ==
  ASSUME TypeInv, DelInv, NEW r \in Ranks, RankInv(r), Moves(r), SendThrow(r)
  PROVE  \E d \in Peers(r) : Promise!Send(r, d)
<1>1. PICK c \in Counts[r][idx[r]] : sent' = [sent EXCEPT ![r][idx[r]] = Append(@, c)]
  BY DEF SendThrow
<1>2. pc[r] = "send" /\ round' = round /\ pc' = [pc EXCEPT ![r] = "thrown"]
  BY DEF SendThrow, ThrowReady
<1>3. c \in 0 .. MaxCount
  <2>1. idx[r] \in Ranks
    BY <1>2 DEF RankInv, CountInv, Peers
  <2> QED BY <2>1, BoundsAssumption DEF Ranks
<1>4. Inside(r)'
  BY <1>2 DEF Inside, TypeInv
<1> QED BY <1>1, <1>2, <1>3, <1>4, CountPromise

Holding(r, s, k, f, g) ==
  /\ f[r][s] = CountWord(s, r, k, sent[s][r][k])
  /\ \A i \in 1 .. sent[s][r][k] : At(g[r][s], i) = DataWord(s, r, k, i)

\* What the user holds when stop() returns is the peer's message of the round.
LEMMA HoldsMessage ==
  ASSUME NEW r \in Ranks, NEW s \in Ranks, NEW k, k \in DOMAIN sent[s][r],
         NEW f, NEW g, Holding(r, s, k, f, g)
  PROVE  [i \in 1 .. f[r][s][5] |-> At(g[r][s], i)] = Streams[s][r][k]
<1>1. PICK c : c = sent[s][r][k]
  OBVIOUS
<1>2. f[r][s][5] = c
  BY <1>1 DEF Holding, CountWord
<1>3. Streams[s][r][k] = [i \in 1 .. c |-> DataWord(s, r, k, i)]
  BY <1>1 DEF Streams, Stream
<1>4. \A i \in 1 .. c : At(g[r][s], i) = DataWord(s, r, k, i)
  BY <1>1 DEF Holding
<1> QED BY <1>2, <1>3, <1>4, Zenon

\* stop() is the interface's stop: all streams have the round, and what was received is what was sent.
LEMMA StopPromise ==
  ASSUME TypeInv, DelInv, EndInv, DeliveredIntact', NEW r \in Ranks, WaitAll(r), Moves(r)
  PROVE  Promise!Stop(r)
<1>1. /\ pc[r] = "stop" /\ round' = round /\ sent' = sent
      /\ pc' = [pc EXCEPT ![r] = IF round[r] < Rounds THEN "start" ELSE "finalize"]
  BY DEF WaitAll, user
<1>2. pc'[r] \in {"start", "finalize"}
  BY <1>1 DEF TypeInv
<1>3. round[r] \in Int /\ round[r] > 0
  BY <1>1 DEF EndInv, EndAt, Open, TypeInv
<1>4. PICK k : k = round[r]
  OBVIOUS
<1>5. ASSUME NEW s \in Peers(r)
      PROVE  /\ k <= Len(sent[s][r])
             /\ countMem'[r][s] = CountWord(s, r, k, sent[s][r][k])
             /\ \A i \in 1 .. sent[s][r][k] : At(recvBuf'[r][s], i) = DataWord(s, r, k, i)
  <2>1. round'[r] = k /\ round'[r] > 0
    BY <1>1, <1>3, <1>4
  <2>2. PICK p, t, e, cm, rb : p = pc' /\ t = round' /\ e = sent' /\ cm = countMem' /\ rb = recvBuf'
    OBVIOUS
  <2>3. \A q \in Ranks : (p[q] \in {"start", "finalize", "barrier", "closed"} /\ t[q] > 0) =>
          \A u \in Peers(q) :
            /\ t[q] <= Len(e[u][q])
            /\ cm[q][u] = CountWord(u, q, t[q], e[u][q][t[q]])
            /\ \A i \in 1 .. e[u][q][t[q]] : At(rb[q][u], i) = DataWord(u, q, t[q], i)
    BY <2>2, Zenon DEF DeliveredIntact, At, DataWord, CountWord, Peers, Ranks
  <2>4. /\ t[r] <= Len(e[s][r])
        /\ cm[r][s] = CountWord(s, r, t[r], e[s][r][t[r]])
        /\ \A i \in 1 .. e[s][r][t[r]] : At(rb[r][s], i) = DataWord(s, r, t[r], i)
    <3>1. p[r] \in {"start", "finalize", "barrier", "closed"} /\ t[r] > 0
      BY <1>2, <2>1, <2>2
    <3> QED BY <2>3, <3>1
  <2> QED BY <1>1, <2>1, <2>2, <2>4, Zenon
<1>6. ASSUME NEW s \in Peers(r)
      PROVE  /\ Len(Streams[r][s]) >= round[r] /\ Len(Streams[s][r]) >= round[r]
             /\ Received(r, s)' = Streams[s][r][round[r]]
  <2>1. s \in Ranks /\ UserType
    BY DEF Peers, DelInv
  <2>2. Len(sent[r][s]) = round[r]
    BY <1>1, SentSoFar DEF SentRounds
  <2>3. Len(Streams[r][s]) >= round[r]
    BY <1>3, <2>1, <2>2, StreamLen
  <2>4. Len(Streams[s][r]) >= round[r]
    BY <1>3, <1>4, <1>5, <2>1, StreamLen
  <2>5. k \in DOMAIN sent[s][r]
    <3>1. sent[s][r] \in Seq(0 .. MaxCount)
      BY <2>1 DEF UserType
    <3>2. k <= Len(sent[s][r])
      BY <1>5
    <3> QED BY <1>3, <1>4, <3>1, <3>2, LenProperties
  <2>6. PICK f, g : f = countMem' /\ g = recvBuf'
    OBVIOUS
  <2>7. f[r][s] = CountWord(s, r, k, sent[s][r][k])
    BY <1>5, <2>6
  <2>8. \A i \in 1 .. sent[s][r][k] : At(g[r][s], i) = DataWord(s, r, k, i)
    BY <1>5, <2>6
  <2>9. [i \in 1 .. f[r][s][5] |-> At(g[r][s], i)] = Streams[s][r][k]
    <3>1. Holding(r, s, k, f, g)
      BY <2>7, <2>8, Zenon DEF Holding
    <3> QED BY <2>1, <2>5, <3>1, HoldsMessage
  <2>10. Received(r, s)' = [i \in 1 .. f[r][s][5] |-> At(g[r][s], i)]
    BY <2>6, Zenon DEF Received, At
  <2> QED BY <1>4, <2>3, <2>4, <2>9, <2>10
<1>7. \A q \in Ranks : q # r => Phase'[q] = Phase[q] /\ Results'[q] = Results[q]
  BY OthersSame DEF Moves
<1>8. Phase[r] = "open" /\ Phase'[r] = "closed"
  BY <1>1, <1>2 DEF Phase
<1>9. Results'[r] = [s \in Peers(r) |-> Streams[s][r][round[r]]]
  <2>1. round'[r] # 0
    BY <1>1, <1>3
  <2>2. Results'[r] = [s \in Peers(r) |-> Received(r, s)']
    BY <1>2, <2>1 DEF Results
  <2> QED BY <1>6, <2>2
<1>10. Phase' = [Phase EXCEPT ![r] = "closed"]
  BY <1>7, <1>8 DEF Phase
<1>11. Results' = [Results EXCEPT ![r] = [s \in Peers(r) |-> Streams[s][r][round[r]]]]
  BY <1>7, <1>9 DEF Results
<1>12. Streams' = Streams
  BY <1>1, StreamsSame
<1>13. \A s \in Peers(r) : Len(Streams[r][s]) >= round[r] /\ Len(Streams[s][r]) >= round[r]
  BY <1>6
<1> QED BY <1>1, <1>8, <1>10, <1>11, <1>12, <1>13, PromiseStop
\* The calls that post receives, the callbacks and the polling: all inside a round.
LEMMA InsideRound ==
  ASSUME TypeInv, NEW r \in Ranks, RankInv(r),
         \/ RecvNow(r) \/ RecvLater(r) \/ ProgressSend(r) \/ \E s \in Ranks : ProgressRecv(r, s)
         \/ RecvHandlerNow(r) \/ RecvHandlerLater(r) \/ RecvHandlerLast(r) \/ RecvHandlerReturn(r)
  PROVE  Open(r) /\ Open(r)' /\ round' = round /\ sent' = sent
<1>1. CASE RecvNow(r) \/ RecvLater(r)
  <2>1. PICK q, s, i, b : pc[r] = "recv" /\ RecvBook(r, q, s, i, b)
    BY <1>1 DEF RecvNow, RecvLater, RecvReady
  <2>2. PICK x \in {"recv", "stop"} : pc' = [pc EXCEPT ![r] = x]
    BY <2>1 DEF RecvBook, LoopNext
  <2>3. pc'[r] = x /\ round' = round /\ sent' = sent
    BY <2>1, <2>2 DEF RecvBook, TypeInv
  <2> QED BY <2>1, <2>3 DEF Open
<1>2. CASE ProgressSend(r) \/ \E s \in Ranks : ProgressRecv(r, s)
  <2>1. pc[r] = "stop" /\ pc' = pc /\ round' = round /\ sent' = sent
    BY <1>2 DEF ProgressSend, ProgressRecv, Polling, loop, user
  <2> QED BY <2>1 DEF Open
<1>3. CASE \/ RecvHandlerNow(r) \/ RecvHandlerLater(r)
           \/ RecvHandlerLast(r) \/ RecvHandlerReturn(r)
  <2>1. stack[r] # << >> /\ pc' = pc /\ round' = round /\ sent' = sent
    BY <1>3 DEF RecvHandlerNow, RecvHandlerLater, RecvHandlerLast, RecvHandlerReturn,
                RecvHandlerNext, HandlerReady, loop, user
  <2>2. pc[r] \in {"recv", "stop"}
    BY <2>1 DEF RankInv, PlaceInv
  <2> QED BY <2>1, <2>2 DEF Open
<1> QED BY <1>1, <1>2, <1>3

\* Every step of a rank is a step of the interface or none.
LEMMA RankPromise ==
  ASSUME TypeInv, \A q \in Ranks : RankInv(q), DelInv, EndInv,
         DeliveredIntact',
         NEW r \in Ranks, RankStep(r)
  PROVE  [Promise!Next]_(Promise!vars)
<1>1. Moves(r) /\ RankInv(r)
  BY StepMoves DEF DelInv
<1>2. CASE Start(r)
  <2>1. Promise!Start(r)
    BY <1>1, <1>2, StartPromise
  <2> QED BY <2>1 DEF Promise!Next, Promise!Step
<1>3. CASE \E c \in 0 .. MaxCount : SendNow(r, c) \/ SendLater(r, c)
  <2>1. PICK d \in Peers(r) : Promise!Send(r, d)
    BY <1>1, <1>3, SendPromise
  <2>2. d \in Ranks
    BY DEF Peers
  <2> QED BY <2>1, <2>2 DEF Promise!Next, Promise!Step
<1>4. CASE \/ RecvNow(r) \/ RecvLater(r) \/ ProgressSend(r) \/ \E s \in Ranks : ProgressRecv(r, s)
           \/ RecvHandlerNow(r) \/ RecvHandlerLater(r) \/ RecvHandlerLast(r) \/ RecvHandlerReturn(r)
  <2>1. Open(r) /\ Open(r)' /\ round' = round /\ sent' = sent
    BY <1>1, <1>4, InsideRound
  <2> QED BY <1>1, <2>1, KeepsRound DEF Inside
<1>5. CASE SendThrow(r)
  <2>1. PICK d \in Peers(r) : Promise!Send(r, d)
    BY <1>1, <1>5, ThrowPromise
  <2>2. d \in Ranks
    BY DEF Peers
  <2> QED BY <2>1, <2>2 DEF Promise!Next, Promise!Step
<1>8. CASE RecvThrow(r)
  <2>1. /\ pc[r] = "recv" /\ pc' = [pc EXCEPT ![r] = "thrown"]
        /\ round' = round /\ sent' = sent
    BY <1>8 DEF RecvThrow, ThrowReady
  <2>2. Inside(r) /\ Inside(r)'
    BY <2>1 DEF Inside, Open, TypeInv
  <2> QED BY <1>1, <2>1, <2>2, KeepsRound
<1>6. CASE WaitAll(r)
  <2>1. Promise!Stop(r)
    BY <1>1, <1>6, StopPromise
  <2> QED BY <2>1 DEF Promise!Next, Promise!Step
<1>7. CASE Finalize(r) \/ Barrier(r)
  <2>1. /\ ~ Inside(r) /\ round' = round /\ countMem' = countMem /\ recvBuf' = recvBuf /\ sent' = sent
        /\ \E x \in {"barrier", "closed"} : pc' = [pc EXCEPT ![r] = x]
    BY <1>7 DEF Finalize, Barrier, Inside, Open, user
  <2>2. ~ Inside(r)'
    BY <2>1 DEF Inside, Open, TypeInv
  <2>3. Phase' = Phase /\ Results' = Results
    BY <1>1, <2>1, <2>2, OutsideStep DEF Moves
  <2> QED BY <2>1, <2>3, StreamsSame, PromiseStutter
<1> QED BY <1>2, <1>3, <1>4, <1>5, <1>6, <1>7, <1>8, Zenon DEF RankStep

\* Every step is a step of the interface or none.
LEMMA NextPromise ==
  IInv /\ DelInv /\ EndInv /\ DeliveredIntact' /\ [Next]_vars
    => [Promise!Next]_(Promise!vars)
<1> SUFFICES ASSUME TypeInv, \A q \in Ranks : RankInv(q), DelInv, EndInv,
                    DeliveredIntact', [Next]_vars
             PROVE  [Promise!Next]_(Promise!vars)
  BY Zenon DEF IInv, TypeInv, RankInv
<1>1. CASE \E r \in Ranks : RankStep(r)
  BY <1>1, RankPromise
<1>2. CASE NetStep \/ UNCHANGED vars
  <2>1. pc' = pc /\ round' = round /\ countMem' = countMem /\ recvBuf' = recvBuf /\ sent' = sent
    BY <1>2 DEF NetStep, Flush, loop, user, vars
  <2>2. \A r, s : Received(r, s)' = Received(r, s)
    BY <2>1 DEF Received
  <2>3. Phase' = Phase /\ Results' = Results
    BY <2>1, <2>2 DEF Phase, Results
  <2> QED BY <2>1, <2>3, StreamsSame, PromiseStutter
<1> QED BY <1>1, <1>2 DEF Next, Ended

(***************************************************************************)
(* UCXBufferCommunicator does what the interface Communicator says, with   *)
(* any number of buffers: every start(), send() and stop() of a rank is    *)
(* the interface's call of that name, and posting receives, the callbacks, *)
(* polling and finalize() change nothing that a caller of the interface    *)
(* sees.  A send() or recv() that finds no buffer and throws leaves a      *)
(* round open that the interface would have closed.                        *)
(***************************************************************************)
THEOREM BufferCommRefines == Spec => Promise!Init /\ [][Promise!Next]_(Promise!vars)
BY PromiseInit, NextPromise, SpecIInv, SpecDel, SpecEnd, MessagesDelivered, PTL DEF Spec
-----------------------------------------------------------------------------
(***************************************************************************)
(* No request of UCX is lost: it is free, a transfer's own handle, in UCX, *)
(* or in the hands of a callback, whose handle belongs to a transfer.      *)
(***************************************************************************)
Held(r) == Transfers(r) \cup InUCX(r) \cup InStack(r)

LeakInv(r) ==
  /\ ~ Live(r) => Requests \subseteq free[r]
  /\ Open(r) => /\ Requests \subseteq free[r] \cup Held(r)
                /\ \A h \in InStack(r) : OrigOf(r, h) \in Transfers(r)
                /\ \A p \in Transfers(r) : p \in Requests => ~ info[r][p].custom

\* What is under way stays under way, or has its request completed.
NetHolds(q) == ReqsIn(net[q]) \subseteq ReqsIn(net'[q])

\* The requests in a table of messages are those some message of it carries.
LEMMA ReqsCarried ==
  ASSUME NEW t, NEW a
  PROVE  a \in ReqsIn(t) <=> a \in Handles /\ \E d \in Ranks : Carries(t[d], a)
<1>1. ASSUME a \in ReqsIn(t)
      PROVE  \E d \in Ranks : Carries(t[d], a)
  <2>1. PICK m \in Items(t) : m.req = a
    BY <1>1 DEF ReqsIn
  <2>2. PICK d \in Ranks : \E j \in 1 .. Len(t[d]) : m = t[d][j]
    BY DEF Items
  <2> QED BY <2>1, <2>2 DEF Carries
<1>2. ASSUME NEW d \in Ranks, Carries(t[d], a), a \in Handles
      PROVE  a \in ReqsIn(t)
  <2>1. PICK j \in 1 .. Len(t[d]) : t[d][j].req = a
    BY <1>2 DEF Carries
  <2>2. t[d][j] \in Items(t)
    BY DEF Items
  <2> QED BY <1>2, <2>1, <2>2 DEF ReqsIn
<1> QED BY <1>1, <1>2 DEF ReqsIn

\* Matching takes a message out that is no longer in progress.
LEMMA MatchHolds ==
  ASSUME TypeInv, NEW r \in Ranks, NEW s \in Ranks, Arrived(s, r),
         net' = [net EXCEPT ![s][r] = Tail(net[s][r])]
  PROVE  \A q \in Ranks : NetHolds(q)
<1>1. net \in [Ranks -> [Ranks -> Seq(Message)]]
  BY DEF TypeInv
<1>2. PICK t : t = net[s][r]
  OBVIOUS
<1>3. t \in Seq(Message) /\ t # << >> /\ Head(t).req = Null
  BY <1>1, <1>2 DEF Arrived
<1>4. PICK u : u = Tail(t)
  OBVIOUS
<1>5. /\ Len(u) = Len(t) - 1 /\ Len(t) \in Nat /\ Head(t) = t[1]
      /\ \A j \in 1 .. Len(u) : u[j] = t[j + 1]
  BY <1>3, <1>4, HeadTailProperties, LenProperties
<1>6. ASSUME NEW a \in Handles, Carries(t, a)
      PROVE  Carries(u, a)
  <2>1. PICK j \in 1 .. Len(t) : t[j].req = a
    BY <1>6 DEF Carries
  <2>2. a # Null
    BY DEF Handles, Null
  <2>3. j # 1
    BY <1>3, <1>5, <2>1, <2>2
  <2>4. PICK k : k = j - 1
    OBVIOUS
  <2>5. k \in 1 .. Len(u) /\ k + 1 = j
    BY <1>5, <2>1, <2>3, <2>4
  <2>6. u[k].req = a
    BY <1>5, <2>1, <2>5
  <2> QED BY <2>5, <2>6 DEF Carries
<1>7. /\ net'[s][r] = u /\ \A e \in Ranks : e # r => net'[s][e] = net[s][e]
      /\ \A q \in Ranks : q # s => net'[q] = net[q]
  BY <1>1, <1>2, <1>4
<1> SUFFICES ASSUME NEW q \in Ranks, NEW a, a \in ReqsIn(net[q])
             PROVE  a \in ReqsIn(net'[q])
  BY DEF NetHolds
<1>8. a \in Handles /\ \E d \in Ranks : Carries(net[q][d], a)
  BY ReqsCarried
<1>9. PICK d \in Ranks : Carries(net[q][d], a)
  BY <1>8
<1>10. Carries(net'[q][d], a)
  <2>1. CASE q = s /\ d = r
    BY <1>2, <1>6, <1>7, <1>8, <1>9, <2>1
  <2>2. CASE q # s \/ d # r
    BY <1>7, <1>9, <2>2
  <2> QED BY <2>1, <2>2
<1> QED BY <1>8, <1>10, ReqsCarried

\* Sending puts messages behind those under way.
LEMMA SendHolds ==
  ASSUME TypeInv, NEW r \in Ranks, NEW d \in Ranks, NEW w, w \in Seq(Message), Sending(r, d, w)
  PROVE  /\ \A q \in Ranks : NetHolds(q)
         /\ \A a \in Handles : Carries(w, a) => a \in ReqsIn(net'[r])
<1>1. net \in [Ranks -> [Ranks -> Seq(Message)]]
  BY DEF TypeInv
<1>2. PICK t : t = net[r][d]
  OBVIOUS
<1>3. PICK u : u = t \o w
  OBVIOUS
<1>4. t \in Seq(Message)
  BY <1>1, <1>2
<1>5. /\ Len(u) = Len(t) + Len(w) /\ Len(t) \in Nat /\ Len(w) \in Nat
      /\ \A j \in 1 .. Len(t) + Len(w) : u[j] = IF j <= Len(t) THEN t[j] ELSE w[j - Len(t)]
  BY <1>3, <1>4, ConcatProperties, LenProperties
<1>6. \A j \in 1 .. Len(t) : j \in 1 .. Len(u) /\ u[j] = t[j]
  BY <1>5
<1>7. \A j \in 1 .. Len(w) : j + Len(t) \in 1 .. Len(u) /\ u[j + Len(t)] = w[j]
  BY <1>5
<1>8. \A a : Carries(t, a) \/ Carries(w, a) => Carries(u, a)
  BY <1>6, <1>7 DEF Carries
<1>9. /\ net'[r][d] = u /\ \A e \in Ranks : e # d => net'[r][e] = net[r][e]
      /\ \A q \in Ranks : q # r => net'[q] = net[q]
  BY <1>1, <1>2, <1>3 DEF Sending
<1>10. ASSUME NEW q \in Ranks
       PROVE  NetHolds(q)
  <2> SUFFICES ASSUME NEW a, a \in ReqsIn(net[q])
               PROVE  a \in ReqsIn(net'[q])
    BY DEF NetHolds
  <2>1. a \in Handles /\ \E e \in Ranks : Carries(net[q][e], a)
    BY ReqsCarried
  <2>2. PICK e \in Ranks : Carries(net[q][e], a)
    BY <2>1
  <2>3. Carries(net'[q][e], a)
    <3>1. CASE q = r /\ e = d
      BY <1>2, <1>8, <1>9, <2>2, <3>1
    <3>2. CASE q # r \/ e # d
      BY <1>9, <2>2, <3>2
    <3> QED BY <3>1, <3>2
  <2> QED BY <2>1, <2>3, ReqsCarried
<1>11. ASSUME NEW a \in Handles, Carries(w, a)
       PROVE  a \in ReqsIn(net'[r])
  <2>1. Carries(net'[r][d], a)
    BY <1>8, <1>9, <1>11
  <2> QED BY <2>1, ReqsCarried
<1> QED BY <1>10, <1>11

\* A posted receive is UCX's until it is matched.
LEMMA PostHolds ==
  ASSUME TypeInv, NEW r \in Ranks, NEW s \in Ranks, NEW p \in Receive, Posting(r, s, p)
  PROVE  ReqsIn(posted[r]) \cup {p.req} \subseteq ReqsIn(posted'[r])
<1>1. posted \in [Ranks -> [Ranks -> Seq(Receive)]]
  BY DEF TypeInv
<1>2. PICK t : t = posted[r][s]
  OBVIOUS
<1>3. PICK u : u = Append(t, p)
  OBVIOUS
<1>4. t \in Seq(Receive) /\ p.req \in Handles
  BY <1>1, <1>2 DEF Receive
<1>5. /\ Len(u) = Len(t) + 1 /\ Len(t) \in Nat /\ u[Len(t) + 1] = p
      /\ \A j \in 1 .. Len(t) : u[j] = t[j]
  BY <1>3, <1>4, AppendProperties, LenProperties
<1>6. \A j \in 1 .. Len(t) : j \in 1 .. Len(u) /\ u[j] = t[j]
  BY <1>5
<1>7. Len(t) + 1 \in 1 .. Len(u)
  BY <1>5
<1>8. Carries(u, p.req) /\ \A a : Carries(t, a) => Carries(u, a)
  BY <1>5, <1>6, <1>7 DEF Carries
<1>9. posted'[r][s] = u /\ \A e \in Ranks : e # s => posted'[r][e] = posted[r][e]
  BY <1>1, <1>2, <1>3 DEF Posting
<1>10. p.req \in ReqsIn(posted'[r])
  BY <1>4, <1>8, <1>9, ReqsCarried
<1>11. ASSUME NEW a, a \in ReqsIn(posted[r])
       PROVE  a \in ReqsIn(posted'[r])
  <2>1. a \in Handles /\ \E e \in Ranks : Carries(posted[r][e], a)
    BY <1>11, ReqsCarried
  <2>2. PICK e \in Ranks : Carries(posted[r][e], a)
    BY <2>1
  <2>3. Carries(posted'[r][e], a)
    <3>1. CASE e = s
      BY <1>2, <1>8, <1>9, <2>2, <3>1
    <3>2. CASE e # s
      BY <1>9, <2>2, <3>2
    <3> QED BY <3>1, <3>2
  <2> QED BY <2>1, <2>3, ReqsCarried
<1> QED BY <1>10, <1>11

\* Only the first receive posted for s is no longer.
LEMMA UnpostHolds ==
  ASSUME TypeInv, NEW r \in Ranks, NEW s \in Ranks, posted[r][s] # << >>, Unposting(r, s),
         NEW q, q = Head(posted[r][s]).req
  PROVE  ReqsIn(posted[r]) \subseteq ReqsIn(posted'[r]) \cup {q}
<1>1. posted \in [Ranks -> [Ranks -> Seq(Receive)]]
  BY DEF TypeInv
<1>2. PICK t : t = posted[r][s]
  OBVIOUS
<1>3. PICK u : u = Tail(t)
  OBVIOUS
<1>4. t \in Seq(Receive) /\ t # << >> /\ q = Head(t).req
  BY <1>1, <1>2
<1>5. /\ Len(u) = Len(t) - 1 /\ Len(t) \in Nat /\ Head(t) = t[1]
      /\ \A j \in 1 .. Len(u) : u[j] = t[j + 1]
  BY <1>3, <1>4, HeadTailProperties, LenProperties
<1>6. ASSUME NEW a, a # q, Carries(t, a)
      PROVE  Carries(u, a)
  <2>1. PICK j \in 1 .. Len(t) : t[j].req = a
    BY <1>6 DEF Carries
  <2>2. j # 1
    BY <1>4, <1>5, <1>6, <2>1
  <2>3. PICK k : k = j - 1
    OBVIOUS
  <2>4. k \in 1 .. Len(u) /\ k + 1 = j
    BY <1>5, <2>1, <2>2, <2>3
  <2>5. u[k].req = a
    BY <1>5, <2>1, <2>4
  <2> QED BY <2>4, <2>5 DEF Carries
<1>7. posted'[r][s] = u /\ \A e \in Ranks : e # s => posted'[r][e] = posted[r][e]
  BY <1>1, <1>2, <1>3 DEF Unposting
<1> SUFFICES ASSUME NEW a, a \in ReqsIn(posted[r]), a # q
             PROVE  a \in ReqsIn(posted'[r])
  OBVIOUS
<1>8. a \in Handles /\ \E e \in Ranks : Carries(posted[r][e], a)
  BY ReqsCarried
<1>9. PICK e \in Ranks : Carries(posted[r][e], a)
  BY <1>8
<1>10. Carries(posted'[r][e], a)
  <2>1. CASE e = s
    BY <1>2, <1>6, <1>7, <1>9, <2>1
  <2>2. CASE e # s
    BY <1>7, <1>9, <2>2
  <2> QED BY <2>1, <2>2
<1> QED BY <1>8, <1>10, ReqsCarried
\* A step that leaves a rank's requests where they are.
LEMMA LeakFrame ==
  ASSUME NEW q \in Ranks, LeakInv(q), NetHolds(q), pc'[q] = pc[q], pending'[q] = pending[q],
         info'[q] = info[q], free'[q] = free[q], done'[q] = done[q], posted'[q] = posted[q],
         stack'[q] = stack[q]
  PROVE  LeakInv(q)'
<1>1. Transfers(q)' = Transfers(q) /\ InStack(q)' = InStack(q)
  BY DEF Transfers, InStack
<1>2. InUCX(q) \subseteq InUCX(q)'
  BY DEF InUCX, NetHolds
<1>3. (Live(q)' <=> Live(q)) /\ (Open(q)' <=> Open(q)) /\ \A h : OrigOf(q, h)' = OrigOf(q, h)
  BY DEF Live, Open, OrigOf
<1> QED BY <1>1, <1>2, <1>3 DEF LeakInv, Held

\* Inside a round: whatever leaves one hand is in another.
LEMMA LeakStep ==
  ASSUME NEW r \in Ranks, LeakInv(r), Open(r), Open(r)',
         Transfers(r) \subseteq Transfers(r)', free[r] \cup InUCX(r) \cup InStack(r) \subseteq free'[r] \cup Held(r)',
         \A h \in InStack(r)' : OrigOf(r, h)' \in Transfers(r)',
         \A p \in Transfers(r)' : p \in Requests => ~ info'[r][p].custom
  PROVE  LeakInv(r)'
<1>1. Live(r)'
  BY DEF Live
<1> QED BY <1>1 DEF LeakInv, Held

\* start() loses no request: it touches none.
LEMMA LeakStart ==
  ASSUME NEW r \in Ranks, TypeInv, RankInv(r), LeakInv(r), Start(r)
  PROVE  LeakInv(r)'
<1>1. /\ pc[r] = "start" /\ pc' = [pc EXCEPT ![r] = "send"] /\ pending' = [pending EXCEPT ![r] = << >>]
      /\ free' = free /\ stack' = stack
  BY DEF Start, callbacks
<1>2. Open(r)' /\ Live(r)' /\ ~ Live(r)
  BY <1>1 DEF Open, Live, TypeInv
<1>3. pending'[r] = << >> /\ stack[r] = << >>
  BY <1>1 DEF TypeInv, RankInv, PlaceInv
<1>4. Len(<< >>) = 0
  OBVIOUS
<1>5. Transfers(r)' = {} /\ InStack(r)' = {}
  BY <1>1, <1>3, <1>4 DEF Transfers, InStack
<1> QED BY <1>1, <1>2, <1>5 DEF LeakInv, Held

\* send_handler: the request it was given is passed on, kept by its transfer or freed.
SendHeld(r, h, t, M) ==
  /\ SendEffect(r, h, t, M) /\ \A q \in Ranks : NetHolds(q)
  /\ M \subseteq ReqsIn(net'[r]) /\ free'[r] = (free[r] \ M) \cup Freed(t, h)

\* A send that ends gives its request back and starts none.
LEMMA LastHeld ==
  ASSUME NEW r \in Ranks, TypeInv, NEW h, NEW t, NEW w, SendCall(r, h, t, w),
         SendHandlerLast(r, h, t, w)
  PROVE  SendHeld(r, h, t, {})
<1>0. SendEffect(r, h, t, {})
  BY SendLastFacts
<1>1. PICK i : i = t[h]
  OBVIOUS
<1>2. PICK k : k = Batches(i.count) - i.ibatch
  OBVIOUS
<1>3. PICK x : x = SendHandlerEager(r, i, w, k)
  OBVIOUS
<1>4. /\ Sending(r, i.peer, x)
      /\ free' = [free EXCEPT ![r] = free[r] \cup Freed(t, h)]
  BY <1>1, <1>2, <1>3, Zenon DEF SendHandlerLast, Sending
<1>5. i \in Info /\ round[r] \in Int /\ w \in Seq(Message) /\ Silent(w)
  BY <1>1 DEF SendCall, TypeInv
<1>6. i.peer \in Ranks /\ k \in Int
  BY <1>2, <1>5, BatchAssumption DEF Info, Batches
<1>7. x \in Seq(Message)
  BY <1>3, <1>5, <1>6, EagerMessages
<1>8. \A q \in Ranks : NetHolds(q)
  BY <1>4, <1>6, <1>7, SendHolds
<1>9. free'[r] = (free[r] \ {}) \cup Freed(t, h)
  BY <1>4 DEF TypeInv
<1> QED BY <1>0, <1>8, <1>9 DEF SendHeld

\* A delayed batch gives its request back or keeps it, and puts the new one in UCX.
LEMMA MoreHeld ==
  ASSUME NEW r \in Ranks, TypeInv, NEW h, NEW t, NEW w, SendCall(r, h, t, w),
         SendHandlerMore(r, h, t, w)
  PROVE  SendHeld(r, h, t, {NewRequest(r)})
<1>0. SendEffect(r, h, t, {NewRequest(r)})
  BY SendMoreFacts
<1>1. PICK i, q : i = t[h] /\ q = NewRequest(r)
  OBVIOUS
<1>2. PICK k \in 0 .. Batches(i.count) - i.ibatch - 1 :
        /\ free[r] # {}
        /\ net' = [net EXCEPT ![r][i.peer] =
                     net[r][i.peer] \o SendHandlerEager(r, i, w, k)
                       \o <<MsgBusy(Batch(r, i, i.ibatch + k), i.buf, q)>>]
        /\ free' = [free EXCEPT ![r] = (free[r] \ {q}) \cup Freed(t, h)]
  BY <1>1, Zenon DEF SendHandlerMore
<1>3. PICK b : b = i.ibatch + k
  OBVIOUS
<1>4. PICK m, e : m = MsgBusy(Batch(r, i, b), i.buf, q) /\ e = SendHandlerEager(r, i, w, k)
  OBVIOUS
<1>5. PICK x : x = e \o <<m>>
  OBVIOUS
<1>6. /\ i \in Info /\ round[r] \in Int /\ w \in Seq(Message) /\ Silent(w) /\ ncaches \in Nat
      /\ net \in [Ranks -> [Ranks -> Seq(Message)]] /\ i.buf \in Buffers
  BY <1>1 DEF SendCall, TypeInv
<1>7. i.peer \in Ranks /\ b \in Int /\ k \in Int
  BY <1>3, <1>6 DEF Info
<1>8. q \in free[r] /\ q \in Handles
  <2>1. free[r] \in SUBSET Requests
    BY DEF TypeInv
  <2>2. Requests \subseteq Handles
    BY BoundsAssumption, NAssumption DEF Requests, Handles
  <2> QED BY <1>1, <1>2, <2>1, <2>2, NewRequestFree
<1>9. m \in Message /\ m.req = q
  <2>1. Batch(r, i, b) \in Seq(Word)
    BY <1>6, <1>7, BatchWords
  <2>2. i.buf \in Int
    BY <1>6 DEF Buffers
  <2> QED BY <1>4, <1>8, <2>1, <2>2 DEF MsgBusy, Message
<1>10. e \in Seq(Message) /\ Silent(e)
  BY <1>4, <1>6, <1>7, EagerMessages
<1>11. x \in Seq(Message) /\ Carries(x, q)
  <2>1. <<m>> \in Seq(Message) /\ Len(<<m>>) = 1 /\ <<m>>[1] = m
    BY <1>9
  <2>2. PICK f : f = <<m>>
    OBVIOUS
  <2>3. /\ x \in Seq(Message) /\ Len(x) = Len(e) + 1 /\ Len(e) \in Nat
        /\ \A j \in 1 .. Len(e) + 1 : x[j] = IF j <= Len(e) THEN e[j] ELSE f[j - Len(e)]
    BY <1>5, <1>10, <2>1, <2>2, ConcatProperties, LenProperties
  <2>4. PICK l : l = Len(e)
    OBVIOUS
  <2>5. l + 1 \in 1 .. Len(x) /\ x[l + 1] = f[1]
    BY <2>3, <2>4
  <2> QED BY <1>9, <2>1, <2>2, <2>3, <2>5 DEF Carries
<1>12. Sending(r, i.peer, x)
  <2>1. net' = [net EXCEPT ![r][i.peer] = (net[r][i.peer] \o e) \o <<m>>]
    BY <1>2, <1>3, <1>4, Zenon
  <2>2. (net[r][i.peer] \o e) \o <<m>> = net[r][i.peer] \o x
    <3>1. PICK a, f : a = net[r][i.peer] /\ f = <<m>>
      OBVIOUS
    <3>2. a \in Seq(Message) /\ e \in Seq(Message) /\ f \in Seq(Message)
      BY <1>6, <1>7, <1>9, <1>10, <3>1
    <3>3. (a \o e) \o f = a \o (e \o f)
      BY <3>2
    <3> QED BY <1>5, <3>1, <3>3
  <2> QED BY <2>1, <2>2, Zenon DEF Sending
<1>13. (\A o \in Ranks : NetHolds(o)) /\ q \in ReqsIn(net'[r])
  BY <1>7, <1>8, <1>11, <1>12, SendHolds
<1>14. free'[r] = (free[r] \ {q}) \cup Freed(t, h)
  BY <1>2 DEF TypeInv
<1> QED BY <1>0, <1>1, <1>13, <1>14 DEF SendHeld

\* send_handler accounts for every request either way.
LEMMA HandlerHeld ==
  ASSUME NEW r \in Ranks, TypeInv, NEW h, NEW t, NEW w, SendCall(r, h, t, w),
         SendHandler(r, h, t, w)
  PROVE  \E M : SendHeld(r, h, t, M)
BY LastHeld, MoreHeld DEF SendHandler
\* ucp_worker_progress runs a send's callback.
LEMMA ProgressSendLeak ==
  ASSUME NEW r \in Ranks, TypeInv, \A p \in Ranks : RankInv(p), LeakInv(r), ProgressSend(r)
  PROVE  LeakInv(r)' /\ \A q \in Ranks : NetHolds(q)
<1>1. PICK h \in done[r] :
        /\ pc[r] = "stop" /\ stack[r] = << >>
        /\ done' = [done EXCEPT ![r] = done[r] \ {h}]
        /\ SendHandler(r, h, info[r], << >>)
        /\ UNCHANGED <<ncaches, pc, idx, round, pending, cache, posted, stack, mode, countMem>>
  BY Zenon DEF ProgressSend, Polling, Idle, loop, callbacks, user
<1>2. RankInv(r) /\ Open(r) /\ Open(r)'
  BY <1>1 DEF Open
<1>3. PlaceInv(r) /\ CarryInv(r)
  BY <1>2 DEF RankInv
<1> DEFINE t == info[r]
           w == << >>
           o == t[h].orig
<1>4. h \in InUCX(r) /\ h \in Active(r) /\ h \in Handles /\ h \notin free[r] /\ h \in Requests
  <2>1. h \in InUCX(r) /\ h \in Active(r)
    BY DEF InUCX, Active
  <2> QED BY <1>2, <1>3, <2>1, OpenFacts DEF PlaceInv
<1>5. BufOf(r, h) \in Buffers /\ o \in Transfers(r)
  <2>1. BufOf(r, h) \in Buffers
    BY <1>2, <1>4, BufsApart DEF RankInv
  <2> QED BY <1>2, <1>3, <1>4, <2>1 DEF CarryInv, OrigOf
<1>6. o \in Handles /\ o \notin free[r] /\ t[h].buf \in Buffers
  BY <1>2, <1>5, OpenFacts DEF BufOf
<1>7. SendCall(r, h, t, w)
  <2>1. t \in [Handles -> Info]
    BY DEF TypeInv
  <2>2. w \in Seq(Message) /\ Silent(w)
    BY EmptySeq DEF Silent
  <2>3. Once(net[r]) /\ free[r] \cap ReqsIn(net[r]) = {}
    BY <1>2, <1>3 DEF PlaceInv, InUCX
  <2> QED BY <1>4, <1>6, <2>1, <2>2, <2>3 DEF SendCall
<1> HIDE DEF w
<1>8. PICK M : SendHeld(r, h, t, M)
  BY <1>1, <1>7, HandlerHeld DEF w
<1>9. /\ SendEffect(r, h, t, M) /\ (\A q \in Ranks : NetHolds(q))
      /\ M \subseteq ReqsIn(net'[r]) /\ free'[r] = (free[r] \ M) \cup Freed(t, h)
  BY <1>8 DEF SendHeld
<1> HIDE DEF o
<1>10. /\ M \subseteq free[r]
       /\ \A g \in Handles : g \notin M /\ (g # h \/ o = h) => info'[r][g].custom = info[r][g].custom
  BY <1>9 DEF SendEffect, o
<1>11. o = h \/ Freed(t, h) = {h}
  BY DEF Freed, o
<1>12. done'[r] = done[r] \ {h} /\ posted'[r] = posted[r]
  BY <1>1 DEF TypeInv
<1>13. Transfers(r)' = Transfers(r) /\ InStack(r)' = {} /\ InStack(r) = {}
  BY <1>1 DEF Transfers, InStack
<1>14. ReqsIn(net[r]) \subseteq ReqsIn(net'[r])
  BY <1>9 DEF NetHolds
<1>15. InUCX(r)' = (done[r] \ {h}) \cup ReqsIn(net'[r]) \cup ReqsIn(posted[r])
  BY <1>12 DEF InUCX
<1>16. free[r] \cup InUCX(r) \cup InStack(r) \subseteq free'[r] \cup Held(r)'
  <2>1. InUCX(r) = done[r] \cup ReqsIn(net[r]) \cup ReqsIn(posted[r])
    BY DEF InUCX
  <2>2. Held(r)' = Transfers(r) \cup InUCX(r)'
    BY <1>13 DEF Held
  <2> QED BY <1>5, <1>9, <1>11, <1>13, <1>14, <1>15, <2>1, <2>2
<1>17. \A p \in Transfers(r) : p \in Requests => ~ info'[r][p].custom
  <2> SUFFICES ASSUME NEW p \in Transfers(r), p \in Requests
               PROVE  ~ info'[r][p].custom
    OBVIOUS
  <2>1. p \in Handles /\ p \notin M /\ OrigOf(r, p) = p
    BY <1>2, <1>10, OpenFacts
  <2>2. p = h => o = h
    BY <2>1 DEF OrigOf, o
  <2>3. ~ info[r][p].custom
    BY <1>2 DEF LeakInv
  <2> QED BY <1>10, <2>1, <2>2, <2>3
<1>18. /\ Transfers(r) \subseteq Transfers(r)' /\ \A g \in InStack(r)' : OrigOf(r, g)' \in Transfers(r)'
       /\ \A p \in Transfers(r)' : p \in Requests => ~ info'[r][p].custom
  BY <1>13, <1>17
<1> QED BY <1>2, <1>9, <1>16, <1>18, LeakStep

\* recv_handler ends without another batch.
LEMMA LastLeak ==
  ASSUME NEW r \in Ranks, TypeInv, RankInv(r), LeakInv(r), RecvHandlerLast(r)
  PROVE  LeakInv(r)' /\ \A q \in Ranks : NetHolds(q)
<1>1. PICK o : o = info[r][Head(stack[r])].orig
  OBVIOUS
<1>2. /\ stack[r] # << >> /\ info' = [info EXCEPT ![r][o].completed = TRUE]
      /\ UNCHANGED <<pc, pending, free, done, posted, net, stack>>
  BY <1>1, Zenon DEF RecvHandlerLast, loop, HandlerReady
<1>3. Open(r) /\ Open(r)'
  BY <1>2, Innermost DEF Open
<1>4. \A g \in Handles :
        info'[r][g].orig = info[r][g].orig /\ info'[r][g].custom = info[r][g].custom
  <2>1. PICK t, u : t = info[r] /\ u = [t EXCEPT ![o].completed = TRUE]
    OBVIOUS
  <2>2. info'[r] = u /\ t \in [Handles -> Info]
    BY <1>2, <2>1 DEF TypeInv
  <2>3. o \in Handles => \A g \in Handles : u[g].orig = t[g].orig /\ u[g].custom = t[g].custom
    BY <2>1, <2>2 DEF Info
  <2>4. o \notin Handles => u = t
    BY <2>1, <2>2
  <2> QED BY <2>1, <2>2, <2>3, <2>4
<1>5. /\ Transfers(r)' = Transfers(r) /\ InStack(r)' = InStack(r)
      /\ InUCX(r)' = InUCX(r) /\ free'[r] = free[r]
  BY <1>2 DEF Transfers, InStack, InUCX
<1>6. (\A p \in Transfers(r) : p \in Handles) /\ \A h \in InStack(r) : h \in Handles
  <2>1. stack[r] \in Seq(Handles)
    BY DEF TypeInv
  <2> QED BY <1>3, <2>1, OpenFacts, ElementOfSeq DEF InStack
<1>7. /\ \A h \in InStack(r)' : OrigOf(r, h)' \in Transfers(r)'
      /\ \A p \in Transfers(r)' : p \in Requests => ~ info'[r][p].custom
  BY <1>3, <1>4, <1>5, <1>6 DEF LeakInv, OrigOf
<1>8. LeakInv(r)'
  <2>1. free[r] \cup InUCX(r) \cup InStack(r) \subseteq free'[r] \cup Held(r)'
    BY <1>5 DEF Held
  <2> QED BY <1>3, <1>5, <1>7, <2>1, LeakStep
<1> QED BY <1>2, <1>8 DEF NetHolds

\* An activation of recv_handler returns: an internal handle is freed.
LEMMA ReturnLeak ==
  ASSUME NEW r \in Ranks, TypeInv, RankInv(r), LeakInv(r), RecvHandlerReturn(r)
  PROVE  LeakInv(r)' /\ \A q \in Ranks : NetHolds(q)
<1>1. PICK h, t, s, u : h = Head(stack[r]) /\ t = info[r] /\ s = stack[r] /\ u = Tail(s)
  OBVIOUS
<1>2. /\ stack[r] # << >>
      /\ info' = [info EXCEPT ![r] = FreeInternal(t, h)]
      /\ free' = [free EXCEPT ![r] = free[r] \cup Freed(t, h)]
      /\ stack' = [stack EXCEPT ![r] = u]
      /\ UNCHANGED <<pc, pending, done, posted, net>>
  BY <1>1, Zenon DEF RecvHandlerReturn, loop
<1>3. Open(r) /\ Open(r)' /\ h \in Handles /\ h \in InStack(r)
  BY <1>1, <1>2, Innermost DEF Open
<1>4. PICK v : v = FreeInternal(t, h)
  OBVIOUS
<1>5. /\ info'[r] = v /\ free'[r] = free[r] \cup Freed(t, h) /\ stack'[r] = u
      /\ t \in [Handles -> Info] /\ ncaches \in Nat /\ s \in Seq(Handles)
  BY <1>1, <1>2, <1>4 DEF TypeInv
<1>6. /\ \A g \in Handles : (g # h \/ t[h].orig = h) => v[g] = t[g]
      /\ t[h].orig # h => Freed(t, h) = {h}
  <2>1. \A g \in Handles : (g # h \/ t[h].orig = h) => v[g] = t[g]
    BY <1>3, <1>4, <1>5, Release
  <2>2. t[h].orig # h => Freed(t, h) = {h}
    BY DEF Freed
  <2> QED BY <2>1, <2>2
<1>7. \A j, k \in 1 .. Len(s) : s[j] = s[k] => j = k
  BY <1>1 DEF RankInv, PlaceInv
<1>8. /\ h = s[1] /\ 1 \in 1 .. Len(s)
      /\ \A j \in 1 .. Len(u) : u[j] # s[1] /\ \E k \in 1 .. Len(s) : u[j] = s[k]
  <2>1. s # << >>
    BY <1>1, <1>2
  <2> QED BY <1>1, <1>5, <1>7, <2>1, StackPop
<1>9. \A g \in InStack(r) : g \in Handles
  BY <1>1, <1>5, ElementOfSeq DEF InStack
<1>10. /\ Transfers(r)' = Transfers(r) /\ InUCX(r)' = InUCX(r)
       /\ \A g \in InStack(r)' : g \in InStack(r) /\ g # h
  <2>1. Transfers(r)' = Transfers(r) /\ InUCX(r)' = InUCX(r)
    BY <1>2 DEF Transfers, InUCX
  <2>2. InStack(r) = {s[j] : j \in 1 .. Len(s)} /\ InStack(r)' = {u[j] : j \in 1 .. Len(u)}
    BY <1>1, <1>5 DEF InStack
  <2>3. \A g \in InStack(r)' : g \in InStack(r) /\ g # h
    BY <1>8, <2>2
  <2> QED BY <2>1, <2>3
<1>11. \A g \in InStack(r) : g # h => g \in InStack(r)'
  <2> SUFFICES ASSUME NEW g \in InStack(r), g # h
               PROVE  g \in InStack(r)'
    OBVIOUS
  <2>1. PICK j \in 1 .. Len(s) : g = s[j]
    BY <1>1 DEF InStack
  <2>2. /\ Len(u) = Len(s) - 1 /\ Len(s) \in Nat /\ \A k \in 1 .. Len(u) : u[k] = s[k + 1]
    <3>1. s # << >>
      BY <1>1, <1>2
    <3> QED BY <1>1, <1>5, <3>1, HeadTailProperties, LenProperties
  <2>3. j # 1
    BY <1>8, <2>1
  <2>4. PICK k : k = j - 1
    OBVIOUS
  <2>5. k \in 1 .. Len(u) /\ k + 1 = j
    BY <2>1, <2>2, <2>3, <2>4
  <2>6. g = u[k]
    BY <2>1, <2>2, <2>5
  <2> QED BY <1>5, <2>5, <2>6 DEF InStack
<1>12. \A p \in Transfers(r) : p \in Handles /\ t[p].orig = p
  BY <1>1, <1>3, OpenFacts DEF OrigOf
<1>13. t[h].orig \in Transfers(r)
  BY <1>1, <1>3 DEF LeakInv, OrigOf
<1>14. free[r] \cup InUCX(r) \cup InStack(r) \subseteq free'[r] \cup Held(r)'
  <2>1. \A g \in InStack(r) : g \in InStack(r)' \/ g \in free'[r] \/ g \in Transfers(r)'
    BY <1>5, <1>6, <1>10, <1>11, <1>13
  <2> QED BY <1>5, <1>10, <2>1 DEF Held
<1>15. \A g \in InStack(r)' : OrigOf(r, g)' \in Transfers(r)'
  BY <1>1, <1>3, <1>5, <1>6, <1>9, <1>10 DEF LeakInv, OrigOf
<1>16. \A p \in Transfers(r)' : p \in Requests => ~ info'[r][p].custom
  BY <1>1, <1>3, <1>5, <1>6, <1>10, <1>12 DEF LeakInv
<1>17. LeakInv(r)'
  <2>1. Transfers(r) \subseteq Transfers(r)'
    BY <1>10
  <2> QED BY <1>3, <1>14, <1>15, <1>16, <2>1, LeakStep
<1> QED BY <1>2, <1>17 DEF NetHolds
\* The next batch's handle is in UCX, or its callback runs at once.
LEMMA NextLeak ==
  ASSUME NEW r \in Ranks, TypeInv, RankInv(r), LeakInv(r), NEW h, NEW q, NextStep(r, h, q),
         NextEffect(r, h, q), InUCX(r) \subseteq InUCX(r)', InStack(r) \subseteq InStack(r)',
         InStack(r)' \subseteq InStack(r) \cup {q}, q \in InUCX(r)' \cup InStack(r)'
  PROVE  LeakInv(r)'
<1>1. /\ q \in free[r] /\ h # q /\ h = stack[r][1] /\ Open(r) /\ h \in Handles /\ h \in Active(r)
      /\ \A g \in Handles : g # q => info'[r][g].orig = info[r][g].orig
      /\ info'[r][q].orig = info[r][h].orig
      /\ UNCHANGED <<pc, pending, done>>
  BY DEF NextEffect
<1>2. q \in Handles /\ q \notin Transfers(r) /\ \A p \in Transfers(r) : p \in Handles
  BY <1>1, OpenFacts
<1>3. PICK t, i : t = info[r] /\ i = [t[h] EXCEPT !.ibatch = t[h].ibatch + 1]
  OBVIOUS
<1>4. PICK u : u = [[t EXCEPT ![h] = i] EXCEPT ![q] = i]
  OBVIOUS
<1>5. info'[r] = u /\ free'[r] = free[r] \ {q} /\ t \in [Handles -> Info]
  BY <1>1, <1>3, <1>4 DEF TypeInv, NextStep
<1>6. \A g \in Handles : g # q => u[g].custom = t[g].custom
  <2>1. i.custom = t[h].custom
    BY <1>1, <1>3, <1>5 DEF Info
  <2> QED BY <1>1, <1>2, <1>4, <1>5, <2>1
<1>7. Open(r)' /\ Transfers(r)' = Transfers(r)
  BY <1>1 DEF Open, Transfers
<1>8. \A g \in InStack(r) : g \in Handles /\ g # q
  <2>1. stack[r] \in Seq(Handles)
    BY DEF TypeInv
  <2>2. q \notin InStack(r)
    BY <1>1, OpenFacts
  <2> QED BY <2>1, <2>2, ElementOfSeq DEF InStack
<1>9. OrigOf(r, h) \in Transfers(r)
  BY <1>1 DEF RankInv, CarryInv
<1>10. \A g \in InStack(r)' : OrigOf(r, g)' \in Transfers(r)'
  BY <1>1, <1>7, <1>8, <1>9 DEF LeakInv, OrigOf
<1>11. \A p \in Transfers(r)' : p \in Requests => ~ info'[r][p].custom
  BY <1>1, <1>2, <1>3, <1>5, <1>6, <1>7 DEF LeakInv
<1>12. free[r] \cup InUCX(r) \cup InStack(r) \subseteq free'[r] \cup Held(r)'
  BY <1>5 DEF Held
<1>13. Transfers(r) \subseteq Transfers(r)'
  BY <1>7
<1> QED BY <1>1, <1>7, <1>10, <1>11, <1>12, <1>13, LeakStep

\* recv_handler whose next receive completes at once loses no request.
LEMMA NowLeak ==
  ASSUME NEW r \in Ranks, TypeInv, RankInv(r), LeakInv(r), RecvHandlerNow(r)
  PROVE  LeakInv(r)' /\ \A q \in Ranks : NetHolds(q)
<1> DEFINE h == Head(stack[r])
           q == NewRequest(r)
           s == info[r][h].peer
           called == Mark(info[r][q]).orig # Null
<1>1. /\ HandlerReady(r) /\ free[r] # {} /\ Arrived(s, r)
      /\ net' = [net EXCEPT ![s][r] = Tail(net[s][r])]
      /\ posted' = posted
      /\ NextStep(r, h, q)
      /\ stack' = [stack EXCEPT ![r] = IF called THEN <<q>> \o stack[r] ELSE stack[r]]
  BY Zenon DEF RecvHandlerNow, RecvNbEarly, RecvHandlerNext, NextStep, loop
<1>2. h = Head(stack[r]) /\ q = NewRequest(r)
  OBVIOUS
<1> HIDE DEF h, q, called
<1>3. NextEffect(r, h, q)
  BY <1>1, <1>2, NextFacts
<1>4. /\ q \in free[r] /\ h \in Handles /\ Open(r) /\ done' = done
  BY <1>3 DEF NextEffect
<1>5. q \in Handles /\ info[r][q].orig = Null /\ q \notin InStack(r)
  BY <1>4, OpenFacts
<1>6. called
  <2>1. info[r][q] \in Info
    BY <1>5 DEF TypeInv
  <2>2. Mark(info[r][q]).orig = Marked
    BY <1>5, <2>1 DEF Mark, Info
  <2> QED BY <2>2 DEF called, Marked, Null
<1>7. PICK x, y : x = stack[r] /\ y = <<q>> \o x
  OBVIOUS
<1>8. stack'[r] = y /\ x \in Seq(Handles)
  BY <1>1, <1>6, <1>7 DEF TypeInv
<1>9. s \in Ranks
  <2>1. info[r][h] \in Info
    BY <1>4 DEF TypeInv
  <2> QED BY <2>1 DEF Info
<1> HIDE DEF s
<1>10. \A p \in Ranks : NetHolds(p)
  BY <1>1, <1>9, MatchHolds
<1>11. InUCX(r) \subseteq InUCX(r)'
  BY <1>1, <1>4, <1>10 DEF InUCX, NetHolds
<1>12. InStack(r) = {x[j] : j \in 1 .. Len(x)} /\ InStack(r)' = {y[j] : j \in 1 .. Len(y)}
  BY <1>7, <1>8 DEF InStack
<1>13. /\ Len(x) \in Nat /\ Len(y) = 1 + Len(x)
       /\ \A j \in 1 .. 1 + Len(x) : y[j] = IF j = 1 THEN q ELSE x[j - 1]
  <2>1. PICK w : w = <<q>>
    OBVIOUS
  <2>2. w \in Seq(Handles) /\ Len(w) = 1 /\ w[1] = q /\ y = w \o x
    BY <1>5, <1>7, <2>1
  <2>3. /\ Len(x) \in Nat /\ Len(y) = 1 + Len(x)
        /\ \A j \in 1 .. 1 + Len(x) : y[j] = IF j <= 1 THEN w[j] ELSE x[j - 1]
    <3>1. PICK a \in Seq(Handles) : a = w
      BY <2>2
    <3>2. PICK b \in Seq(Handles) : b = x
      BY <1>8
    <3>3. /\ Len(a) \in Nat /\ Len(b) \in Nat /\ Len(a \o b) = Len(a) + Len(b)
          /\ \A j \in 1 .. Len(a) + Len(b) : (a \o b)[j] = IF j <= Len(a) THEN a[j] ELSE b[j - Len(a)]
      BY ConcatProperties, LenProperties
    <3>4. Len(a) = 1 /\ a \o b = y
      BY <2>2, <3>1, <3>2
    <3> QED BY <3>1, <3>2, <3>3, <3>4
  <2> QED BY <2>2, <2>3
<1>14. 1 \in 1 .. Len(y) /\ y[1] = q
  BY <1>13
<1>15. \A j \in 1 .. Len(x) : j + 1 \in 1 .. Len(y) /\ y[j + 1] = x[j]
  BY <1>13
<1>16. \A j \in 1 .. Len(y) : y[j] = q \/ (j - 1 \in 1 .. Len(x) /\ y[j] = x[j - 1])
  BY <1>13
<1>17. InStack(r) \subseteq InStack(r)'
  BY <1>12, <1>15
<1>18. InStack(r)' \subseteq InStack(r) \cup {q} /\ q \in InUCX(r)' \cup InStack(r)'
  BY <1>12, <1>14, <1>16
<1>19. LeakInv(r)'
  BY <1>1, <1>3, <1>11, <1>17, <1>18, NextLeak
<1> QED BY <1>10, <1>19

\* recv_handler whose next receive has to wait loses no request.
LEMMA LaterLeak ==
  ASSUME NEW r \in Ranks, TypeInv, RankInv(r), LeakInv(r), RecvHandlerLater(r)
  PROVE  LeakInv(r)' /\ \A q \in Ranks : NetHolds(q)
<1> DEFINE h == Head(stack[r])
           q == NewRequest(r)
           s == info[r][h].peer
           b == info[r][h].buf
           n == BatchLen(Count(r, info[r][h]), info[r][h].ibatch)
           p == [req |-> q, dst |-> b, n |-> n]
           called == info[r][q].orig # Null
<1>1. /\ HandlerReady(r) /\ free[r] # {}
      /\ Posting(r, s, p)
      /\ net' = net
      /\ NextStep(r, h, q)
      /\ stack' = [stack EXCEPT ![r] = IF called THEN <<q>> \o stack[r] ELSE stack[r]]
  BY Zenon DEF RecvHandlerLater, RecvNbPost, RecvHandlerNext, NextStep, Posting, loop
<1>2. h = Head(stack[r]) /\ q = NewRequest(r)
  OBVIOUS
<1> HIDE DEF h, q, n, called
<1>3. NextEffect(r, h, q)
  BY <1>1, <1>2, NextFacts
<1>4. /\ q \in free[r] /\ h \in Handles /\ Open(r) /\ b \in Buffers /\ done' = done
  BY <1>3 DEF NextEffect
<1>5. q \in Handles /\ ~ called
  BY <1>4, OpenFacts DEF called
<1>6. stack'[r] = stack[r]
  BY <1>1, <1>5 DEF TypeInv
<1>7. /\ s \in Ranks /\ info[r][h] \in Info
  <2>1. info[r][h] \in Info
    BY <1>4 DEF TypeInv
  <2> QED BY <2>1 DEF Info
<1>8. n \in Int
  <2>1. Count(r, info[r][h]) \in Int
    <3>1. countMem[r][info[r][h].peer] \in Word
      BY <1>7 DEF TypeInv
    <3> QED BY <3>1 DEF Count, Word
  <2>2. info[r][h].ibatch \in Int
    BY <1>7 DEF Info
  <2> QED BY <2>1, <2>2, BatchAssumption DEF n, BatchLen
<1>9. p \in Receive /\ p.req = q
  BY <1>4, <1>5, <1>8 DEF Receive, Buffers
<1> HIDE DEF b, s, p
<1>10. ReqsIn(posted[r]) \cup {q} \subseteq ReqsIn(posted'[r])
  <2>1. ReqsIn(posted[r]) \cup {p.req} \subseteq ReqsIn(posted'[r])
    BY <1>1, <1>7, <1>9, PostHolds
  <2> QED BY <1>9, <2>1
<1>11. InUCX(r) \subseteq InUCX(r)' /\ q \in InUCX(r)' \cup InStack(r)'
  BY <1>1, <1>4, <1>10 DEF InUCX
<1>12. InStack(r) \subseteq InStack(r)' /\ InStack(r)' \subseteq InStack(r) \cup {q}
  BY <1>6 DEF InStack
<1>13. LeakInv(r)'
  BY <1>1, <1>3, <1>11, <1>12, NextLeak
<1> QED BY <1>1, <1>13 DEF NetHolds

\* ucp_worker_progress hands a posted receive to its callback.
LEMMA ProgressRecvLeak ==
  ASSUME NEW r \in Ranks, NEW s \in Ranks, TypeInv, RankInv(r), LeakInv(r), ProgressRecv(r, s)
  PROVE  LeakInv(r)' /\ \A q \in Ranks : NetHolds(q)
<1>1. PICK h : h = Head(posted[r][s]).req
  OBVIOUS
<1>2. /\ pc[r] = "stop" /\ stack[r] = << >>
      /\ posted[r][s] # << >> /\ Arrived(s, r)
      /\ net' = [net EXCEPT ![s][r] = Tail(net[s][r])]
      /\ Unposting(r, s)
      /\ stack' = [stack EXCEPT ![r] = <<h>>]
      /\ UNCHANGED <<pc, pending, info, free, done>>
  BY <1>1, Zenon DEF ProgressRecv, Polling, Idle, Unposting, loop
<1>3. Open(r) /\ Open(r)'
  BY <1>2 DEF Open
<1>4. \A q \in Ranks : NetHolds(q)
  BY <1>2, MatchHolds
<1>5. ReqsIn(posted[r]) \subseteq ReqsIn(posted'[r]) \cup {h}
  BY <1>1, <1>2, UnpostHolds
<1>6. h \in ReqsIn(posted[r])
  <2>1. Once(posted[r])
    BY DEF RankInv, PlaceInv
  <2> QED BY <1>1, <1>2, <2>1, UnpostQueue
<1>7. OrigOf(r, h) \in Transfers(r)
  <2>1. h \in Active(r)
    BY <1>6 DEF Active, InUCX
  <2> QED BY <1>3, <2>1 DEF RankInv, CarryInv
<1>8. stack'[r] = <<h>>
  BY <1>2 DEF TypeInv
<1>9. InStack(r)' = {h} /\ InStack(r) = {} /\ Transfers(r)' = Transfers(r)
  BY <1>2, <1>8 DEF InStack, Transfers
<1>10. free[r] \cup InUCX(r) \cup InStack(r) \subseteq free'[r] \cup Held(r)'
  <2>1. \A a \in InUCX(r) : a \in InUCX(r)' \/ a = h
    BY <1>2, <1>4, <1>5 DEF InUCX, NetHolds
  <2> QED BY <1>2, <1>9, <2>1 DEF Held
<1>11. \A g \in InStack(r)' : OrigOf(r, g)' \in Transfers(r)'
  BY <1>2, <1>7, <1>9 DEF OrigOf
<1>12. \A p \in Transfers(r)' : p \in Requests => ~ info'[r][p].custom
  BY <1>2, <1>3, <1>9 DEF LeakInv
<1>13. Transfers(r) \subseteq Transfers(r)'
  BY <1>9
<1>14. LeakInv(r)'
  BY <1>3, <1>10, <1>11, <1>12, <1>13, LeakStep
<1> QED BY <1>4, <1>14
\* send() and recv() book a transfer.
LEMMA BookLeak ==
  ASSUME NEW r \in Ranks, TypeInv, RankInv(r), LeakInv(r), Open(r), Open(r)', NEW x \in Handles,
         stack[r] = << >>, pending'[r] = Append(pending[r], x), InUCX(r) \subseteq InUCX(r)',
         free[r] \subseteq free'[r] \cup InUCX(r)' \cup {x}, InStack(r)' \subseteq {x},
         info'[r][x].orig = x, x \in Requests => ~ info'[r][x].custom,
         \A p \in Transfers(r) : p \in Requests => info'[r][p].custom = info[r][p].custom
  PROVE  LeakInv(r)'
<1>1. PICK t, u : t = pending[r] /\ u = Append(t, x)
  OBVIOUS
<1>2. t \in Seq(Handles)
  BY <1>1 DEF TypeInv
<1>3. /\ Len(u) = Len(t) + 1 /\ Len(t) \in Nat /\ u[Len(t) + 1] = x
      /\ \A j \in 1 .. Len(t) : u[j] = t[j]
  BY <1>1, <1>2, AppendProperties, LenProperties
<1>4. Transfers(r) = {t[j] : j \in 1 .. Len(t)} /\ Transfers(r)' = {u[j] : j \in 1 .. Len(u)}
  BY <1>1 DEF Transfers
<1>5. \A j \in 1 .. Len(t) : j \in 1 .. Len(u) /\ u[j] = t[j]
  BY <1>3
<1>6. Len(t) + 1 \in 1 .. Len(u)
  BY <1>3
<1>7. \A j \in 1 .. Len(u) : u[j] = x \/ (j \in 1 .. Len(t) /\ u[j] = t[j])
  BY <1>3
<1>8. Transfers(r) \subseteq Transfers(r)' /\ x \in Transfers(r)'
  BY <1>3, <1>4, <1>5, <1>6
<1>9. \A p \in Transfers(r)' : p = x \/ p \in Transfers(r)
  BY <1>4, <1>7
<1>10. InStack(r) = {}
  BY DEF InStack
<1>11. free[r] \cup InUCX(r) \cup InStack(r) \subseteq free'[r] \cup Held(r)'
  BY <1>8, <1>10 DEF Held
<1>12. \A h \in InStack(r)' : OrigOf(r, h)' \in Transfers(r)'
  BY <1>8 DEF OrigOf
<1>13. \A p \in Transfers(r)' : p \in Requests => ~ info'[r][p].custom
  BY <1>9 DEF LeakInv
<1> QED BY <1>8, <1>11, <1>12, <1>13, LeakStep

\* The exception keeps nothing.
LEMMA ThrowLeak ==
  ASSUME NEW r \in Ranks, pc'[r] = "thrown"
  PROVE  LeakInv(r)'
BY DEF LeakInv, Live, Open

\* A send whose count goes out at once loses no request.
LEMMA SendNowLeak ==
  ASSUME NEW r \in Ranks, NEW c \in 0 .. MaxCount, TypeInv, RankInv(r), LeakInv(r), SendNow(r, c)
  PROVE  LeakInv(r)' /\ \A q \in Ranks : NetHolds(q)
<1>0. PICK d, h, n, t, w : /\ d = idx[r] /\ h = Heap(d) /\ n = round[r]
                           /\ t = SendFill(r, h, [InitInfo EXCEPT !.custom = TRUE], d, c)
                           /\ w = <<Msg(<<CountWord(r, d, n, c)>>)>>
  OBVIOUS
<1>1. /\ pc[r] = "send" /\ stack[r] = << >> /\ cache[r] # << >>
      /\ SendHandler(r, h, t, w) /\ LoopNext(r, "send", "recv")
      /\ pending' = [pending EXCEPT ![r] = Append(pending[r], h)]
      /\ UNCHANGED <<done, posted, stack>>
  <2>1. /\ pc[r] = "send" /\ stack[r] = << >> /\ cache[r] # << >>
        /\ SendHandler(r, h, t, w) /\ SendBook(r, h, d, c)
    BY <1>0, Zenon DEF SendNow, SendReady, Idle
  <2> QED BY <2>1, Zenon DEF SendBook, callbacks
<1>2. c \in Int /\ Open(r)
  BY <1>1, BoundsAssumption DEF Open
<1>3. Open(r)'
  <2>1. pc'[r] = "send" \/ pc'[r] = "recv"
    BY <1>1 DEF LoopNext, TypeInv
  <2> QED BY <2>1 DEF Open
<1>4. /\ SendCall(r, h, t, w) /\ h \in Handles
      /\ \A g \in Handles : g # h => t[g] = info[r][g]
  <2>1. CallsNow(r, d, n, c, h, t, w)
    BY <1>0, <1>1, <1>2, NowCalls
  <2> QED BY <2>1, Zenon DEF CallsNow
<1>5. t[h].orig = h
  <2>1. PICK T, i, b : T = info[r] /\ i = [InitInfo EXCEPT !.custom = TRUE] /\ b = Head(cache[r])
    OBVIOUS
  <2>2. PICK k : k = [i EXCEPT !.orig = h, !.buf = b, !.count = c, !.peer = d, !.ibatch = 0]
    OBVIOUS
  <2>3. t = [T EXCEPT ![h] = k]
    BY <1>0, <2>1, <2>2, Zenon DEF SendFill
  <2>4. k.orig = h
    BY <2>1, <2>2 DEF InitInfo
  <2> QED BY <1>4, <2>1, <2>3, <2>4 DEF TypeInv
<1>6. h \notin Requests
  <2>1. d \in Nat
    BY <1>0 DEF TypeInv, Ranks
  <2> QED BY <1>0, <2>1, BoundsAssumption DEF Heap, Requests
<1>7. PICK M : SendHeld(r, h, t, M)
  BY <1>1, <1>4, HandlerHeld
<1>8. /\ SendEffect(r, h, t, M) /\ (\A q \in Ranks : NetHolds(q))
      /\ M \subseteq ReqsIn(net'[r]) /\ free'[r] = (free[r] \ M) \cup Freed(t, h)
  BY <1>7 DEF SendHeld
<1>9. /\ M \subseteq free[r]
      /\ \A g \in Handles : g \notin M => info'[r][g].orig = t[g].orig /\ info'[r][g].custom = t[g].custom
  BY <1>5, <1>8 DEF SendEffect
<1>10. h \notin M
  BY <1>6, <1>9 DEF TypeInv
<1>11. \A p \in Transfers(r) : p \in Handles /\ p \notin M
  BY <1>2, <1>9, OpenFacts
<1>12. InUCX(r) \subseteq InUCX(r)' /\ M \subseteq InUCX(r)'
  BY <1>1, <1>8 DEF InUCX, NetHolds
<1>13. free[r] \subseteq free'[r] \cup InUCX(r)' \cup {h}
  BY <1>8, <1>12
<1>14. /\ info'[r][h].orig = h
       /\ \A p \in Transfers(r) : p \in Requests => info'[r][p].custom = info[r][p].custom
  BY <1>4, <1>5, <1>6, <1>9, <1>10, <1>11
<1>15. pending'[r] = Append(pending[r], h) /\ InStack(r)' \subseteq {h}
  BY <1>1 DEF TypeInv, InStack
<1>16. LeakInv(r)'
  BY <1>1, <1>2, <1>3, <1>4, <1>6, <1>12, <1>13, <1>14, <1>15, BookLeak
<1> QED BY <1>8, <1>16

\* A message appended for a rank in the group.
LEMMA AppendSends ==
  ASSUME TypeInv, NEW r \in Ranks, NEW d \in Ranks, NEW m \in Message,
         net' = [net EXCEPT ![r][d] = Append(net[r][d], m)]
  PROVE  (\A q \in Ranks : NetHolds(q)) /\ (m.req \in Handles => m.req \in ReqsIn(net'[r]))
<1>1. PICK y, w : y = net[r][d] /\ w = <<m>>
  OBVIOUS
<1>2. y \in Seq(Message)
  BY <1>1 DEF TypeInv
<1>3. w \in Seq(Message) /\ Len(w) = 1 /\ w[1] = m
  BY <1>1
<1>4. Append(y, m) = y \o w
  BY <1>1, <1>2, AppendIsConcat
<1>5. Sending(r, d, w)
  BY <1>1, <1>4 DEF Sending
<1>6. Carries(w, m.req)
  BY <1>3 DEF Carries
<1>7. \A q \in Ranks : NetHolds(q)
  BY <1>3, <1>5, SendHolds
<1>8. m.req \in Handles => m.req \in ReqsIn(net'[r])
  BY <1>3, <1>5, <1>6, SendHolds
<1> QED BY <1>7, <1>8

\* A send whose count has to wait loses no request.
LEMMA SendLaterLeak ==
  ASSUME NEW r \in Ranks, NEW c \in 0 .. MaxCount, TypeInv, RankInv(r), LeakInv(r), SendLater(r, c)
  PROVE  LeakInv(r)' /\ \A q \in Ranks : NetHolds(q)
<1>0. PICK d, q, n, u, m : /\ d = idx[r] /\ q = NewRequest(r) /\ n = round[r]
                           /\ u = SendFill(r, q, info[r][q], d, c)
                           /\ m = MsgBusy(<<CountWord(r, d, n, c)>>, Null, q)
  OBVIOUS
<1>1. /\ pc[r] = "send" /\ stack[r] = << >> /\ cache[r] # << >> /\ free[r] # {}
      /\ LoopNext(r, "send", "recv") /\ ~ u[q].custom
      /\ net' = [net EXCEPT ![r][d] = Append(net[r][d], m)]
      /\ info' = [info EXCEPT ![r] = u] /\ free' = [free EXCEPT ![r] = free[r] \ {q}]
      /\ pending' = [pending EXCEPT ![r] = Append(pending[r], q)]
      /\ UNCHANGED <<done, posted, stack>>
  <2>1. /\ pc[r] = "send" /\ stack[r] = << >> /\ cache[r] # << >> /\ free[r] # {}
        /\ ~ u[q].custom /\ net' = [net EXCEPT ![r][d] = Append(net[r][d], m)]
        /\ info' = [info EXCEPT ![r] = u] /\ free' = [free EXCEPT ![r] = free[r] \ {q}]
        /\ SendBook(r, q, d, c)
    BY <1>0, Zenon DEF SendLater, SendReady, Idle
  <2> QED BY <2>1, Zenon DEF SendBook, callbacks
<1>2. c \in Int /\ Open(r)
  BY <1>1, BoundsAssumption DEF Open
<1>3. Open(r)'
  <2>1. pc'[r] = "send" \/ pc'[r] = "recv"
    BY <1>1 DEF LoopNext, TypeInv
  <2> QED BY <2>1 DEF Open
<1>4. q \in Handles /\ info[r][q] \in Info /\ q \in free[r] /\ d \in Ranks /\ n \in Int
  <2>1. d \in Ranks /\ n \in Int
    BY <1>0 DEF TypeInv
  <2> QED BY <1>0, <1>1, <1>2, <2>1, NewRequestClean
<1>5. info'[r] = u /\ u[q].orig = q /\ \A g \in Handles : g # q => u[g] = info[r][g]
  <2>1. PICK T, i, b : T = info[r] /\ i = info[r][q] /\ b = Head(cache[r])
    OBVIOUS
  <2>2. PICK k : k = [i EXCEPT !.orig = q, !.buf = b, !.count = c, !.peer = d, !.ibatch = 0]
    OBVIOUS
  <2>3. u = [T EXCEPT ![q] = k]
    BY <1>0, <2>1, <2>2, Zenon DEF SendFill
  <2>4. k.orig = q
    BY <1>4, <2>1, <2>2 DEF Info
  <2>5. info'[r] = u
    BY <1>1 DEF TypeInv
  <2> QED BY <1>4, <2>1, <2>3, <2>4, <2>5 DEF TypeInv
<1>6. m \in Message /\ m.req = q
  <2>1. CountWord(r, d, n, c) \in Word
    BY <1>2, <1>4 DEF CountWord, Word, Ranks
  <2>2. PICK v : v = <<CountWord(r, d, n, c)>>
    OBVIOUS
  <2>3. v \in Seq(Word)
    BY <2>1, <2>2
  <2>4. m = MsgBusy(v, Null, q)
    BY <1>0, <2>2
  <2> QED BY <1>4, <2>3, <2>4 DEF MsgBusy, Message, Null
<1>7. (\A p \in Ranks : NetHolds(p)) /\ q \in ReqsIn(net'[r])
  BY <1>1, <1>4, <1>6, AppendSends
<1>8. \A p \in Transfers(r) : p \in Handles /\ p # q
  BY <1>2, <1>4, OpenFacts
<1>9. InUCX(r) \subseteq InUCX(r)'
  BY <1>1, <1>7 DEF InUCX, NetHolds
<1>10. free[r] \subseteq free'[r] \cup InUCX(r)' \cup {q}
  BY <1>1 DEF TypeInv
<1>11. /\ info'[r][q].orig = q /\ ~ info'[r][q].custom
       /\ \A p \in Transfers(r) : p \in Requests => info'[r][p].custom = info[r][p].custom
  BY <1>1, <1>5, <1>8
<1>12. pending'[r] = Append(pending[r], q) /\ InStack(r)' \subseteq {q}
  BY <1>1 DEF TypeInv, InStack
<1>13. LeakInv(r)'
  BY <1>1, <1>2, <1>3, <1>4, <1>9, <1>10, <1>11, <1>12, BookLeak
<1> QED BY <1>7, <1>13
\* recv_helper: the receive of the count is posted, or its callback is to run.
LEMMA RecvBookLeak ==
  ASSUME NEW r \in Ranks, TypeInv, RankInv(r), LeakInv(r), NEW q, q = NewRequest(r),
         NEW i \in Info, ~ i.completed, RecvBegins(r, q, i), done' = done,
         \A p \in Ranks : NetHolds(p), ReqsIn(posted[r]) \subseteq ReqsIn(posted'[r]),
         Open(r)'
  PROVE  LeakInv(r)'
<1>1. RecvEffect(r, q, i)
  BY RecvFacts
<1>2. /\ q \in free[r] /\ q \in Handles /\ Open(r)
      /\ \A g \in Handles : g # q => info'[r][g] = info[r][g]
      /\ free'[r] = free[r] \ {q} /\ stack'[r] = IF i.orig # Null THEN <<q>> ELSE << >>
  BY <1>1 DEF RecvEffect
<1>3. /\ stack[r] = << >> /\ pending' = [pending EXCEPT ![r] = Append(pending[r], q)]
      /\ info' = [info EXCEPT ![r][q] = RecvFill(i, q, Head(cache[r]), idx[r])]
  BY DEF RecvBegins, Booked
<1>4. info'[r][q].orig = q /\ ~ info'[r][q].custom
  <2>1. PICK b, s, k : b = Head(cache[r]) /\ s = idx[r] /\ k = RecvFill(i, q, b, s)
    OBVIOUS
  <2>2. k = [i EXCEPT !.orig = q, !.buf = b, !.custom = FALSE, !.peer = s, !.ibatch = 0]
    BY <2>1, Zenon DEF RecvFill
  <2>3. k.orig = q /\ ~ k.custom
    BY <2>2 DEF Info
  <2>4. info'[r][q] = k
    BY <1>2, <1>3, <2>1 DEF TypeInv
  <2> QED BY <2>3, <2>4
<1>5. InStack(r)' \subseteq {q}
  <2>1. CASE i.orig # Null
    <3>1. stack'[r] = <<q>>
      BY <1>2, <2>1
    <3> QED BY <3>1 DEF InStack
  <2>2. CASE i.orig = Null
    <3>1. stack'[r] = << >>
      BY <1>2, <2>2
    <3> QED BY <3>1 DEF InStack
  <2> QED BY <2>1, <2>2
<1>6. \A p \in Transfers(r) : p \in Handles /\ p # q
  BY <1>2, OpenFacts
<1>7. \A p \in Transfers(r) : p \in Requests => info'[r][p].custom = info[r][p].custom
  BY <1>2, <1>6
<1>8. InUCX(r) \subseteq InUCX(r)' /\ free[r] \subseteq free'[r] \cup InUCX(r)' \cup {q}
  BY <1>2 DEF InUCX, NetHolds
<1>9. pending'[r] = Append(pending[r], q)
  BY <1>3 DEF TypeInv
<1> QED BY <1>2, <1>3, <1>4, <1>5, <1>7, <1>8, <1>9, BookLeak

\* A recv whose count is already there loses no request.
LEMMA RecvNowLeak ==
  ASSUME NEW r \in Ranks, TypeInv, RankInv(r), LeakInv(r), RecvNow(r)
  PROVE  LeakInv(r)' /\ \A q \in Ranks : NetHolds(q)
<1>0. PICK s, q, i : s = idx[r] /\ q = NewRequest(r) /\ i = Mark(info[r][q])
  OBVIOUS
<1>1. /\ RecvReady(r) /\ cache[r] # << >> /\ RecvBook(r, q, s, i, i.orig # Null)
      /\ Arrived(s, r) /\ posted' = posted /\ net' = [net EXCEPT ![s][r] = Tail(net[s][r])]
  BY <1>0, Zenon DEF RecvNow, RecvNbEarly
<1>2. /\ pc[r] = "recv" /\ stack[r] = << >> /\ free[r] # {}
      /\ info' = [info EXCEPT ![r][q] = RecvFill(i, q, Head(cache[r]), idx[r])]
      /\ free' = [free EXCEPT ![r] = free[r] \ {q}]
      /\ cache' = [cache EXCEPT ![r] = Tail(cache[r])]
      /\ pending' = [pending EXCEPT ![r] = Append(pending[r], q)]
      /\ stack' = [stack EXCEPT ![r] = IF i.orig # Null THEN <<q>> ELSE << >>]
      /\ mode' = [mode EXCEPT ![r] = "call"]
      /\ LoopNext(r, "recv", "stop")
      /\ UNCHANGED <<ncaches, round, done>>
  BY <1>0, <1>1, Zenon DEF RecvBook, Pop, RecvReady, Idle
<1>3. RecvBegins(r, q, i)
  <2>1. LoopStep(r)
    BY <1>2 DEF LoopStep
  <2> QED BY <1>1, <1>2, <2>1, Zenon DEF RecvBegins, Booked
<1>4. Open(r) /\ Open(r)'
  <2>1. pc'[r] = "recv" \/ pc'[r] = "stop"
    BY <1>2 DEF LoopNext, TypeInv
  <2> QED BY <1>2, <2>1 DEF Open
<1>5. i \in Info /\ ~ i.completed
  <2>1. info[r][q] \in Info /\ info[r][q].orig = Null /\ ~ info[r][q].completed
    BY <1>0, <1>2, <1>4, NewRequestClean
  <2> QED BY <1>0, <2>1, Marks
<1>6. \A p \in Ranks : NetHolds(p)
  <2>1. s \in Ranks
    BY <1>0 DEF TypeInv
  <2> QED BY <1>1, <2>1, MatchHolds
<1>7. ReqsIn(posted[r]) \subseteq ReqsIn(posted'[r])
  BY <1>1
<1> QED BY <1>0, <1>2, <1>3, <1>4, <1>5, <1>6, <1>7, RecvBookLeak

\* A recv whose count is not there loses no request.
LEMMA RecvLaterLeak ==
  ASSUME NEW r \in Ranks, TypeInv, RankInv(r), LeakInv(r), RecvLater(r)
  PROVE  LeakInv(r)' /\ \A q \in Ranks : NetHolds(q)
<1>0. PICK s, q, i, p : /\ s = idx[r] /\ q = NewRequest(r) /\ i = info[r][q]
                        /\ p = [req |-> q, dst |-> Null, n |-> 1]
  OBVIOUS
<1>1. /\ RecvReady(r) /\ cache[r] # << >> /\ RecvBook(r, q, s, i, i.orig # Null)
      /\ posted' = [posted EXCEPT ![r][s] = Append(posted[r][s], p)] /\ net' = net
  BY <1>0, Zenon DEF RecvLater, RecvNbPost
<1>2. /\ pc[r] = "recv" /\ stack[r] = << >> /\ free[r] # {}
      /\ info' = [info EXCEPT ![r][q] = RecvFill(i, q, Head(cache[r]), idx[r])]
      /\ free' = [free EXCEPT ![r] = free[r] \ {q}]
      /\ cache' = [cache EXCEPT ![r] = Tail(cache[r])]
      /\ pending' = [pending EXCEPT ![r] = Append(pending[r], q)]
      /\ stack' = [stack EXCEPT ![r] = IF i.orig # Null THEN <<q>> ELSE << >>]
      /\ mode' = [mode EXCEPT ![r] = "call"]
      /\ LoopNext(r, "recv", "stop")
      /\ UNCHANGED <<ncaches, round, done>>
  BY <1>0, <1>1, Zenon DEF RecvBook, Pop, RecvReady, Idle
<1>3. RecvBegins(r, q, i)
  <2>1. LoopStep(r)
    BY <1>2 DEF LoopStep
  <2> QED BY <1>1, <1>2, <2>1, Zenon DEF RecvBegins, Booked
<1>4. Open(r) /\ Open(r)'
  <2>1. pc'[r] = "recv" \/ pc'[r] = "stop"
    BY <1>2 DEF LoopNext, TypeInv
  <2> QED BY <1>2, <2>1 DEF Open
<1>5. i \in Info /\ ~ i.completed /\ q \in Handles
  BY <1>0, <1>2, <1>4, NewRequestClean
<1>6. \A o \in Ranks : NetHolds(o)
  BY <1>1 DEF NetHolds
<1>7. ReqsIn(posted[r]) \subseteq ReqsIn(posted'[r])
  <2>1. s \in Ranks /\ p \in Receive
    BY <1>0, <1>5 DEF TypeInv, Receive, Null
  <2>2. Posting(r, s, p)
    BY <1>1 DEF Posting
  <2> QED BY <2>1, <2>2, PostHolds
<1> QED BY <1>0, <1>2, <1>3, <1>4, <1>5, <1>6, <1>7, RecvBookLeak

\* Nothing is claimed of a rank that threw, and its exception loses no request of others.
LEMMA SendThrowLeak ==
  ASSUME NEW r \in Ranks, TypeInv, RankInv(r), SendThrow(r)
  PROVE  LeakInv(r)' /\ \A q \in Ranks : NetHolds(q)
<1>0. PICK d, q, n : d = idx[r] /\ q = NewRequest(r) /\ n = round[r]
  OBVIOUS
<1>1. /\ pc[r] = "send" /\ free[r] # {} /\ pc' = [pc EXCEPT ![r] = "thrown"]
      /\ \E c \in Counts[r][d], now \in BOOLEAN :
           net' = [net EXCEPT ![r][d] =
                     Append(net[r][d], IF now THEN Msg(<<CountWord(r, d, n, c)>>)
                                       ELSE MsgBusy(<<CountWord(r, d, n, c)>>, Null, q))]
  BY <1>0, Zenon DEF SendThrow, ThrowReady
<1>2. PICK c \in Counts[r][d], now \in BOOLEAN :
        net' = [net EXCEPT ![r][d] =
                  Append(net[r][d], IF now THEN Msg(<<CountWord(r, d, n, c)>>)
                                    ELSE MsgBusy(<<CountWord(r, d, n, c)>>, Null, q))]
  BY <1>1, Zenon
<1>3. Open(r) /\ pc'[r] = "thrown"
  BY <1>1 DEF Open, TypeInv
<1>4. n \in Int /\ d \in Ranks /\ c \in Int
  <2>1. d \in Ranks /\ d \in 0 .. N - 1 /\ r \in 0 .. N - 1 /\ n \in Int
    BY <1>0 DEF TypeInv, Ranks
  <2>2. Counts[r][d] \in SUBSET (0 .. MaxCount)
    BY <2>1, BoundsAssumption
  <2> QED BY <2>1, <2>2, BoundsAssumption
<1>5. q \in Handles
  BY <1>0, <1>1, <1>3, NewRequestClean
<1>6. PICK m : m = IF now THEN Msg(<<CountWord(r, d, n, c)>>)
                   ELSE MsgBusy(<<CountWord(r, d, n, c)>>, Null, q)
  OBVIOUS
<1>7. m \in Message
  <2>1. CountWord(r, d, n, c) \in Word
    BY <1>4 DEF CountWord, Word, Ranks
  <2>2. PICK v : v = <<CountWord(r, d, n, c)>>
    OBVIOUS
  <2>3. v \in Seq(Word)
    BY <2>1, <2>2
  <2>4. m = IF now THEN Msg(v) ELSE MsgBusy(v, Null, q)
    BY <1>6, <2>2
  <2> QED BY <1>5, <2>3, <2>4 DEF Msg, MsgBusy, Message, Null
<1>8. net' = [net EXCEPT ![r][d] = Append(net[r][d], m)]
  BY <1>2, <1>6
<1> QED BY <1>3, <1>4, <1>7, <1>8, AppendSends, ThrowLeak

\* The same for an exception in recv.
LEMMA RecvThrowLeak ==
  ASSUME NEW r \in Ranks, TypeInv, RecvThrow(r)
  PROVE  LeakInv(r)' /\ \A q \in Ranks : NetHolds(q)
<1>0. PICK s, q : s = idx[r] /\ q = NewRequest(r)
  OBVIOUS
<1>1. /\ RecvNbEarly(r, s, Null, 1) \/ RecvNbPost(r, s, Null, 1, q)
      /\ pc' = [pc EXCEPT ![r] = "thrown"]
  BY <1>0, Zenon DEF RecvThrow
<1>2. s \in Ranks /\ pc'[r] = "thrown"
  BY <1>0, <1>1 DEF TypeInv
<1>3. CASE RecvNbEarly(r, s, Null, 1)
  <2>1. Arrived(s, r) /\ net' = [net EXCEPT ![s][r] = Tail(net[s][r])]
    BY <1>3, Zenon DEF RecvNbEarly
  <2> QED BY <1>2, <2>1, MatchHolds, ThrowLeak
<1>4. CASE RecvNbPost(r, s, Null, 1, q)
  <2>1. net' = net
    BY <1>4, Zenon DEF RecvNbPost
  <2> QED BY <1>2, <2>1, ThrowLeak DEF NetHolds
<1> QED BY <1>1, <1>3, <1>4
\* When every transfer is finished every request comes back.
LEMMA WaitAllLeak ==
  ASSUME NEW r \in Ranks, TypeInv, RankInv(r), LeakInv(r), WaitAll(r)
  PROVE  LeakInv(r)' /\ \A q \in Ranks : NetHolds(q)
<1>1. PICK hs : hs = {pending[r][j] : j \in DOMAIN pending[r]}
  OBVIOUS
<1>2. /\ pc[r] = "stop" /\ stack[r] = << >> /\ AllFinished(r)
      /\ free' = [free EXCEPT ![r] = free[r] \cup {h \in hs : ~ info[r][h].custom}]
      /\ pc' = [pc EXCEPT ![r] = IF round[r] < Rounds THEN "start" ELSE "finalize"]
      /\ net' = net
  BY <1>1, Zenon DEF WaitAll, Idle
<1>3. Open(r) /\ ~ Open(r)' /\ ~ Live(r)'
  <2>1. pc'[r] = "start" \/ pc'[r] = "finalize"
    BY <1>2 DEF TypeInv
  <2> QED BY <1>2, <2>1 DEF Open, Live
<1>4. DOMAIN pending[r] = 1 .. Len(pending[r])
  BY LenProperties DEF TypeInv
<1>5. hs = Transfers(r) /\ \A p \in Transfers(r) : info[r][p].completed
  BY <1>1, <1>2, <1>4 DEF Transfers, AllFinished
<1>6. InUCX(r) = {}
  <2>1. CarryInv(r)
    BY DEF RankInv
  <2>2. \A a \in Active(r) : FALSE
    BY <1>3, <1>5, <2>1 DEF CarryInv, OrigOf
  <2> QED BY <2>2 DEF Active
<1>7. InStack(r) = {}
  BY <1>2 DEF InStack
<1>8. free'[r] = free[r] \cup {h \in hs : ~ info[r][h].custom}
  BY <1>2 DEF TypeInv
<1>9. Requests \subseteq free'[r]
  BY <1>3, <1>5, <1>6, <1>7, <1>8 DEF LeakInv, Held
<1> QED BY <1>2, <1>3, <1>9 DEF LeakInv, NetHolds

\* Closing loses no request.
LEMMA CloseLeak ==
  ASSUME NEW r \in Ranks, TypeInv, LeakInv(r), Finalize(r) \/ Barrier(r)
  PROVE  LeakInv(r)' /\ \A q \in Ranks : NetHolds(q)
<1>1. /\ pc[r] \in {"finalize", "barrier"} /\ pc'[r] \in {"barrier", "closed"}
      /\ free' = free /\ net' = net
  BY DEF Finalize, Barrier, TypeInv
<1>2. ~ Live(r) /\ ~ Live(r)' /\ ~ Open(r)'
  BY <1>1 DEF Live, Open
<1> QED BY <1>1, <1>2 DEF LeakInv, NetHolds

\* A send that completes is UCX's until its callback has run.
LEMMA FlushLeak ==
  ASSUME NEW r \in Ranks, NEW d \in Ranks, TypeInv, RankInv(r), LeakInv(r), Flush(r, d)
  PROVE  LeakInv(r)' /\ \A q \in Ranks : q # r => NetHolds(q)
<1>1. PICK a : TakenOver(r, d, a)
  BY FlushTakes
<1>2. UNCHANGED <<pc, pending, info, free, posted, stack>>
  BY Zenon DEF Flush, loop, callbacks
<1>3. /\ done'[r] = done[r] \cup {a}
      /\ \A g \in Handles : Carries(net'[r][d], g) <=> (Carries(net[r][d], g) /\ g # a)
      /\ \A o, e \in Ranks : o # r \/ e # d => net'[o][e] = net[o][e]
  BY <1>1 DEF TakenOver
<1>4. ASSUME NEW g \in ReqsIn(net[r]), g # a
      PROVE  g \in ReqsIn(net'[r])
  <2>1. g \in Handles /\ \E e \in Ranks : Carries(net[r][e], g)
    BY <1>4, ReqsCarried
  <2>2. PICK e \in Ranks : Carries(net[r][e], g)
    BY <2>1
  <2>3. Carries(net'[r][e], g)
    <3>1. CASE e = d
      BY <1>3, <1>4, <2>1, <2>2, <3>1
    <3>2. CASE e # d
      BY <1>3, <2>2, <3>2
    <3> QED BY <3>1, <3>2
  <2> QED BY <2>1, <2>3, ReqsCarried
<1>5. InUCX(r) \subseteq InUCX(r)'
  BY <1>2, <1>3, <1>4 DEF InUCX
<1>6. /\ Transfers(r)' = Transfers(r) /\ InStack(r)' = InStack(r)
      /\ (Live(r)' <=> Live(r)) /\ (Open(r)' <=> Open(r)) /\ \A h : OrigOf(r, h)' = OrigOf(r, h)
  BY <1>2 DEF Transfers, InStack, Live, Open, OrigOf
<1>7. LeakInv(r)'
  BY <1>2, <1>5, <1>6 DEF LeakInv, Held
<1>8. ASSUME NEW q \in Ranks, q # r
      PROVE  NetHolds(q)
  <2>1. \A g : g \in ReqsIn(net[q]) => g \in ReqsIn(net'[q])
    BY <1>3, <1>8, ReqsCarried
  <2> QED BY <2>1 DEF NetHolds
<1> QED BY <1>7, <1>8
NothingLost == \A r \in Ranks : LeakInv(r)

\* In the beginning every request is UCX's.
LEMMA InitLeak == Init => NothingLost
<1> SUFFICES ASSUME Init, NEW r \in Ranks
             PROVE  LeakInv(r)
  BY DEF NothingLost
<1>1. pc[r] = "start" /\ free[r] = Requests
  BY DEF Init
<1> QED BY <1>1 DEF LeakInv, Live, Open

\* No step of a rank loses a request.
LEMMA RankStepLeak ==
  ASSUME NEW r \in Ranks, TypeInv, RankInv(r), \A p \in Ranks : RankInv(p), LeakInv(r), RankStep(r)
  PROVE  LeakInv(r)' /\ \A q \in Ranks : NetHolds(q)
<1>1. CASE Start(r)
  <2>1. net' = net
    BY <1>1 DEF Start
  <2> QED BY <1>1, <2>1, LeakStart DEF NetHolds
<1>2. CASE \E c \in 0 .. MaxCount : SendNow(r, c) \/ SendLater(r, c)
  <2>1. PICK c \in 0 .. MaxCount : SendNow(r, c) \/ SendLater(r, c)
    BY <1>2
  <2> QED BY <2>1, SendNowLeak, SendLaterLeak
<1>3. CASE RecvNow(r)
  BY <1>3, RecvNowLeak
<1>4. CASE RecvLater(r)
  BY <1>4, RecvLaterLeak
<1>5. CASE SendThrow(r)
  BY <1>5, SendThrowLeak
<1>6. CASE RecvThrow(r)
  BY <1>6, RecvThrowLeak
<1>7. CASE RecvHandlerNow(r)
  BY <1>7, NowLeak
<1>8. CASE RecvHandlerLater(r)
  BY <1>8, LaterLeak
<1>9. CASE RecvHandlerLast(r)
  BY <1>9, LastLeak
<1>10. CASE RecvHandlerReturn(r)
  BY <1>10, ReturnLeak
<1>11. CASE ProgressSend(r)
  BY <1>11, ProgressSendLeak
<1>12. CASE \E s \in Ranks : ProgressRecv(r, s)
  BY <1>12, ProgressRecvLeak
<1>13. CASE WaitAll(r)
  BY <1>13, WaitAllLeak
<1>14. CASE Finalize(r) \/ Barrier(r)
  BY <1>14, CloseLeak
<1> QED BY <1>1, <1>2, <1>3, <1>4, <1>5, <1>6, <1>7, <1>8, <1>9, <1>10, <1>11, <1>12, <1>13,
           <1>14, Zenon DEF RankStep

\* No step loses a request.
LEMMA NextLost == IInv /\ NothingLost /\ [Next]_vars => NothingLost'
<1> SUFFICES ASSUME TypeInv, \A p \in Ranks : RankInv(p), \A p \in Ranks : LeakInv(p), [Next]_vars,
                    NEW q \in Ranks
             PROVE  LeakInv(q)'
  BY Zenon DEF IInv, NothingLost
<1>1. ASSUME NEW r \in Ranks, RankStep(r)
      PROVE  LeakInv(q)'
  <2>1. LeakInv(r)' /\ (\A p \in Ranks : NetHolds(p)) /\ Elsewhere(r)
    BY <1>1, RankStepLeak, RankStepKeeps
  <2>2. CASE q # r
    <3>1. Same(q) /\ Kept(q)
      BY <2>1, <2>2 DEF Elsewhere, Same
    <3> QED BY <2>1, <3>1, LeakFrame DEF Same, Kept
  <2> QED BY <2>1, <2>2
<1>2. ASSUME NEW r \in Ranks, NEW d \in Ranks, Flush(r, d)
      PROVE  LeakInv(q)'
  <2>1. LeakInv(r)' /\ (\A p \in Ranks : p # r => NetHolds(p)) /\ Elsewhere(r)
    BY <1>2, FlushLeak, FlushRank
  <2>2. CASE q # r
    <3>1. Same(q) /\ Kept(q)
      BY <2>1, <2>2 DEF Elsewhere, Same
    <3> QED BY <2>1, <2>2, <3>1, LeakFrame DEF Same, Kept
  <2> QED BY <2>1, <2>2
<1>3. CASE UNCHANGED vars
  <2>1. UNCHANGED <<pc, pending, info, free, done, posted, net, stack>>
    BY <1>3 DEF vars
  <2> QED BY <2>1, LeakFrame DEF NetHolds
<1> QED BY <1>1, <1>2, <1>3 DEF Next, NetStep, Ended

\* No request is ever lost.
LEMMA SpecLost == Spec => []NothingLost
BY InitLeak, NextLost, SpecIInv, PTL DEF Spec

\* When both have left their last round nothing is under way between them.
LEMMA NothingUnderWay ==
  ASSUME TypeInv, \A p \in Ranks : RankInv(p), DelInv, EndInv, NEW s \in Ranks, NEW d \in Ranks,
         pc[s] \in {"barrier", "closed"}, pc[d] \in {"barrier", "closed"}
  PROVE  net[s][d] = << >>
<1>1. round[s] = Rounds /\ round[d] = Rounds /\ Rounds \in Nat
  BY BoundsAssumption DEF EndInv, EndAt
<1>2. Quiet(d, s) /\ ~ NotYet(d, s) /\ pc[d] # "thrown" /\ pc[s] # "thrown"
  BY BetweenRounds DEF NotYet
<1>3. PICK ro, ba : Ordered(s, d, ro, ba) /\ ReceiverAt(d, s, ro[1], ba[1])
  BY DEF DelInv, Between
<1>4. net[s][d] \in Seq(Message)
  BY DEF TypeInv
<1> SUFFICES ASSUME net[s][d] # << >>
             PROVE  FALSE
  OBVIOUS
<1>5. 1 \in 1 .. Len(net[s][d])
  BY <1>4, EmptySeq, LenProperties
<1>6. ro[1] \in 1 .. Len(sent[s][d])
  BY <1>3, <1>5 DEF Ordered, Issued
<1>7. CASE s \in Peers(d)
  <2>1. ro[1] = Rounds + 1
    BY <1>1, <1>2, <1>3, <1>7, RestingAt DEF HasAll
  <2>2. d \in Peers(s)
    BY <1>7 DEF Peers
  <2>3. Len(sent[s][d]) = Rounds
    BY <1>1, <1>2, <2>2, SentSoFar DEF SentRounds
  <2> QED BY <1>1, <1>6, <2>1, <2>3
<1>8. CASE s \notin Peers(d)
  <2>1. ro[1] = 0
    BY <1>3, <1>8 DEF ReceiverAt
  <2> QED BY <1>6, <2>1
<1> QED BY <1>7, <1>8

(***************************************************************************)
(* finalize(): MPI_Barrier before the worker is destroyed.  A worker that  *)
(* is destroyed has nothing in flight, nothing posted, no callback due, and*)
(* every request and every communication buffer is back.                   *)
(***************************************************************************)
THEOREM ClosedQuiet == Spec => []QuietWhenClosed
<1>1. IInv /\ DelInv /\ EndInv /\ NothingLost => QuietWhenClosed
  <2> SUFFICES ASSUME TypeInv, \A p \in Ranks : RankInv(p), DelInv, EndInv, NothingLost,
                      NEW r \in Ranks, pc[r] = "closed"
               PROVE  /\ \A s \in Ranks : net[s][r] = << >> /\ net[r][s] = << >> /\ posted[r][s] = << >>
                      /\ done[r] = {} /\ stack[r] = << >> /\ free[r] = Requests
                      /\ Len(cache[r]) = ncaches
    BY Zenon DEF IInv, QuietWhenClosed
  <2>1. \A s \in Ranks : pc[s] \in {"barrier", "closed"}
    BY DEF EndInv, EndAt
  <2>2. \A s \in Ranks : net[s][r] = << >> /\ net[r][s] = << >>
    BY <2>1, NothingUnderWay
  <2>3. InUCX(r) = {} /\ stack[r] = << >> /\ \A s \in Ranks : Quiet(r, s)
    BY BetweenRounds
  <2>4. done[r] = {} /\ \A s \in Ranks : posted[r][s] = << >>
    BY <2>3 DEF InUCX, Quiet
  <2>5. ~ Live(r)
    BY DEF Live, Open
  <2>6. free[r] = Requests
    BY <2>5 DEF NothingLost, LeakInv, TypeInv
  <2>7. Len(cache[r]) = ncaches
    <3>1. Len(cache[r]) = ncaches - 0 /\ ncaches \in Nat
      BY <2>5 DEF RankInv, CountInv, TypeInv
    <3> QED BY <3>1
  <2> QED BY <2>2, <2>3, <2>4, <2>6, <2>7
<1> QED BY <1>1, SpecIInv, SpecDel, SpecEnd, SpecLost, PTL
=============================================================================
