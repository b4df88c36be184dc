---------------------------- MODULE AllToAllProofs ----------------------------
(***************************************************************************)
(* Proofs about AllToAll and CompressionOptions, for every group size,     *)
(* table and choice of options: all ranks use the same compression         *)
(* options; because of that every size message, though all of them share   *)
(* one MPI tag, is taken by the exchange it belongs to, and every message  *)
(* of a communication round is for the receive posted in its place and as  *)
(* long as that receive expects; and because of that rows and strings      *)
(* arrive complete and in order.                                           *)
(***************************************************************************)
EXTENDS AllToAll, SequenceTheorems, WellFoundedInduction, TLAPS

(***************************************************************************)
(* The options every rank ends up with, and the walk of the broadcasts:    *)
(* after k of its eight words a rank has still to visit Rest(k), holds     *)
(* MethodAt(k) and has made OptionsAt(k).                                  *)
(***************************************************************************)
Made ==
  Tree(Root, IF call.way = "none" THEN {} ELSE IF call.way = "auto" THEN AutoNodes ELSE call.cascaded)

Word(k) ==
  IF k = 1 THEN Made["string"].method  ELSE IF k = 2 THEN Made["string"].format
  ELSE IF k = 3 THEN Made["offsets"].method ELSE IF k = 4 THEN Made["offsets"].format
  ELSE IF k = 5 THEN Made["chars"].method   ELSE IF k = 6 THEN Made["chars"].format
  ELSE IF k = 7 THEN Made["fixed"].method   ELSE Made["fixed"].format

Rest(k) ==
  IF k <= 1 THEN <<"string", "fixed">> ELSE IF k <= 3 THEN <<"offsets", "chars", "fixed">>
  ELSE IF k <= 5 THEN <<"chars", "fixed">> ELSE IF k <= 7 THEN <<"fixed">> ELSE <<>>

MethodAt(k) == IF k \in {1, 3, 5, 7} THEN Word(k) ELSE Unset.method

\* The words up to a node's format.
WordsTo(n) == IF n = "string" THEN 2 ELSE IF n = "offsets" THEN 4 ELSE IF n = "chars" THEN 6 ELSE 8

OptionsAt(k) == [n \in Nodes |-> IF k >= WordsTo(n) THEN Made[n] ELSE Unset]

\* On the way to d are the words the root has broadcast and d has not taken.
Between(at, d) ==
  /\ bcasts[d] \in Seq({Word(k) : k \in 1 .. 8})
  /\ d # Root => /\ Len(bcasts[d]) = at[Root] - at[d]
                 /\ \A i \in 1 .. Len(bcasts[d]) : bcasts[d][i] = Word(at[d] + i)

\* The same of the next state.
BetweenNext(at, d) ==
  /\ bcasts'[d] \in Seq({Word(k) : k \in 1 .. 8})
  /\ d # Root => /\ Len(bcasts'[d]) = at[Root] - at[d]
                 /\ \A i \in 1 .. Len(bcasts'[d]) : bcasts'[d][i] = Word(at[d] + i)

\* Rank r has walked over at[r] words; the root broadcasts a finished tree.
WalkAt(at) ==
  /\ todo = [r \in Ranks |-> Rest(at[r])]
  /\ method = [r \in Ranks |-> MethodAt(at[r])]
  /\ opts = [r \in Ranks |-> OptionsAt(at[r])]
  /\ bcasts = [d \in Ranks |-> bcasts[d]]
  /\ call.way = "none" => \A r \in Ranks : at[r] \in {0, 8}
  /\ call.way # "none" => /\ \A d \in Ranks : Between(at, d)
                          /\ at[Root] > 0 => \A n \in Nodes : chosen[n] # Unset

OptInv ==
  /\ call \in Calls
  /\ \A n \in Nodes : chosen[n] \in {Unset, Made[n]}
  /\ (call.way = "auto" /\ ~call.supported) => chosen["fixed"] = Unset
  /\ \E at \in [Ranks -> 0 .. 8] : WalkAt(at)

Node(b) == Made[NodeOf(b)]

Compressed(b) == Node(b).method = "cascaded"

(***************************************************************************)
(* How far a rank is, in numbers.                                          *)
(***************************************************************************)
Bit(b)   == IF Compressed(b) THEN 1 ELSE 0
Count(b) == (IF b >= Sizes THEN Bit(Sizes) ELSE 0) + (IF b >= Chars THEN Bit(Chars) ELSE 0)
            + (IF b >= Fixed THEN Bit(Fixed) ELSE 0)

\* The size exchanges: rows, chars, and one for every compressed buffer.
ExchangesSent(s) ==
  CASE pc[s] \in {"options", "thrown", "rows"} -> 0
    [] pc[s] \in {"rowsWait", "chars"}         -> 1
    [] pc[s] \in {"charsWait", "allocate"}     -> 2
    [] pc[s] = "compress"                      -> 2 + Count(cur[s] - 1)
    [] OTHER                                   -> 2 + Count(cur[s])

ExchangesDone(r) ==
  CASE pc[r] \in {"options", "thrown", "rows", "rowsWait"} -> 0
    [] pc[r] \in {"chars", "charsWait"}                    -> 1
    [] pc[r] = "allocate"                                  -> 2
    [] pc[r] \in {"compress", "compressWait"}              -> 2 + Count(cur[r] - 1)
    [] OTHER                                               -> 2 + Count(cur[r])

Order(e) == CASE e[1] = "rows" -> 1 [] e[1] = "chars" -> 2 [] e[1] = "compress" -> 2 + Count(e[2])

Exchanges == {<<"rows", Sizes>>, <<"chars", Sizes>>} \cup {<<"compress", b>> : b \in {b \in Buffers : Compressed(b)}}

SizeIn(e, s, d) ==
  CASE e[1] = "rows"     -> Len(Parcel(s, Fixed, d))
    [] e[1] = "chars"    -> Len(Parcel(s, Chars, d))
    [] e[1] = "compress" -> Len(CompressedParcel(s, e[2], d))

\* The buffers a rank has launched, and those whose round is over.
Before == {"options", "thrown", "rows", "rowsWait", "chars", "charsWait", "allocate"}

Launched(s) ==
  CASE pc[s] \in Before                                  -> 0
    [] pc[s] \in {"compress", "compressWait", "launch"}  -> cur[s] - 1
    [] OTHER                                             -> cur[s]

Stopped(r) ==
  CASE pc[r] \in Before                   -> 0
    [] pc[r] \in {"postprocess", "done"}  -> Fixed
    [] OTHER                              -> IF options.byBatch THEN 0 ELSE cur[r] - 1

Payload(s, b, d) == IF Compressed(b) THEN CompressedParcel(s, b, d) ELSE Parcel(s, b, d)

(***************************************************************************)
(* The inductive invariant.                                                *)
(***************************************************************************)
PCs == Before \cup {"compress", "compressWait", "launch", "stop", "postprocess", "done"}

SizeMessages == [of : {"rows", "chars", "compress"} \X Buffers, n : Nat]
Messages     == {[buf |-> b, val |-> Payload(s, b, d)] : b \in Buffers, s \in Ranks, d \in Ranks}

TypeInv ==
  /\ options \in Options
  /\ offsets \in [Ranks -> Offsets]
  /\ pc \in [Ranks -> PCs]
  /\ cur \in [Ranks -> Buffers]
  /\ recvOff \in [Ranks -> [Buffers -> [0 .. Size -> Nat]]]
  /\ compOff \in [Ranks -> [Buffers -> [0 .. Size -> Nat]]]
  /\ sizeMsgs \in [Ranks -> [Ranks -> Seq(SizeMessages)]]
  /\ chan \in [Ranks -> [Ranks -> Seq(Messages)]]
  /\ posted \in [Ranks -> Seq(Buffers)]

\* Where in the program a rank can be, and what it has posted.
ControlAt(r) ==
  /\ pc[r] \notin {"options", "thrown"} => opts[r] = Made
  /\ pc[r] \in Before => cur[r] = Sizes
  /\ pc[r] \in {"compress", "compressWait"} => Compressed(cur[r])
  /\ pc[r] \in {"postprocess", "done"} \/ (pc[r] = "stop" /\ options.byBatch) => cur[r] = Fixed
  /\ Len(posted[r]) = Launched(r) - Stopped(r)
  /\ \A k \in 1 .. Len(posted[r]) : posted[r][k] = Stopped(r) + k

\* A receiver's offsets are the partial sums of what the senders will send.
RowCounts(r, b)  == [s \in Ranks |-> Len(Parcel(s, b, r))]
ByteCounts(r, b) == [s \in Ranks |-> Len(CompressedParcel(s, b, r))]

OffsetsAt(r) ==
  /\ ExchangesDone(r) >= 1 => \A b \in {Sizes, Fixed} : recvOff[r][b] = PartialSums(RowCounts(r, Fixed))
  /\ ExchangesDone(r) >= 2 => recvOff[r][Chars] = PartialSums(RowCounts(r, Chars))
  /\ \A b \in Buffers : (Compressed(b) /\ ExchangesDone(r) >= 2 + Count(b)) =>
       compOff[r][b] = PartialSums(ByteCounts(r, b))

\* The channels hold what was sent and not yet taken, in order.
SizesBetween(s, r) ==
  /\ Len(sizeMsgs[s][r]) = ExchangesSent(s) - ExchangesDone(r)
  /\ \A k \in 1 .. Len(sizeMsgs[s][r]) :
       LET m == sizeMsgs[s][r][k] IN
       /\ m.of \in Exchanges /\ Order(m.of) = ExchangesDone(r) + k
       /\ m.n = SizeIn(m.of, s, r)

DataBetween(s, r) ==
  s \in Peers(r) =>
    /\ Len(chan[s][r]) = Launched(s) - Stopped(r)
    /\ \A k \in 1 .. Len(chan[s][r]) :
         /\ chan[s][r][k].buf = Stopped(r) + k
         /\ chan[s][r][k].val = Payload(s, chan[s][r][k].buf, r)

IInv ==
  /\ OptInv /\ TypeInv
  /\ \A r \in Ranks : ControlAt(r) /\ OffsetsAt(r)
  /\ \A s, r \in Ranks : SizesBetween(s, r) /\ DataBetween(s, r)
-----------------------------------------------------------------------------
(***************************************************************************)
(* The walk over the options (module CompressionOptions).                  *)
(***************************************************************************)
LEMMA ShortSeqEqual ==
  ASSUME NEW S, NEW s \in Seq(S), NEW t \in Seq(S), Len(s) = Len(t), Len(s) <= 3,
         Len(s) >= 1 => s[1] = t[1], Len(s) >= 2 => s[2] = t[2], Len(s) >= 3 => s[3] = t[3]
  PROVE  s = t
<1>1. ASSUME NEW i \in 1 .. Len(s)
      PROVE  s[i] = t[i]
  <2>1. Len(s) \in Nat
    OBVIOUS
  <2>2. i = 1 \/ i = 2 \/ i = 3
    BY <2>1
  <2> QED BY <2>1, <2>2
<1> QED BY <1>1, SeqEqual

LEMMA ShortTails ==
  ASSUME NEW a, NEW b, NEW c
  PROVE  /\ Tail(<<a>>) = <<>> /\ Tail(<<a, b>>) = <<b>>
         /\ Tail(<<a, b, c>>) = <<b, c>>
OBVIOUS

LEMMA Concatenations ==
  ASSUME NEW a, NEW b, NEW c
  PROVE  /\ <<>> \o <<>> = <<>> /\ <<>> \o <<c>> = <<c>> /\ <<>> \o <<b, c>> = <<b, c>>
         /\ <<a, b>> \o <<c>> = <<a, b, c>>
<1> DEFINE U == {a, b, c}
<1>1. /\ <<>> \in Seq(U) /\ <<c>> \in Seq(U) /\ <<b, c>> \in Seq(U) /\ <<a, b>> \in Seq(U)
      /\ <<a, b, c>> \in Seq(U)
  OBVIOUS
<1> HIDE DEF U
<1>2. <<>> \o <<>> = <<>> /\ <<>> \o <<c>> = <<c>> /\ <<>> \o <<b, c>> = <<b, c>>
  BY <1>1, ConcatEmptySeq
<1>3. <<a, b>> \o <<c>> = <<a, b, c>>
  <2> DEFINE s == <<a, b>> \o <<c>>
             t == <<a, b, c>>
  <2>1. s \in Seq(U) /\ Len(s) = 3 /\ s[1] = a /\ s[2] = b /\ s[3] = c
    BY <1>1, ConcatProperties
  <2>2. t \in Seq(U) /\ Len(t) = 3 /\ t[1] = a /\ t[2] = b /\ t[3] = c
    BY <1>1
  <2> HIDE DEF s, t
  <2>3. s = t
    BY <2>1, <2>2, ShortSeqEqual
  <2> QED BY <2>3 DEF s, t
<1> QED BY <1>2, <1>3

LEMMA MadeFacts ==
  /\ Made \in [Nodes -> {Made[n] : n \in Nodes}]
  /\ \A n \in Nodes : /\ Made[n] # Unset /\ Made[n].method # Unset.method
                      /\ Made[n] = Option(Made[n].method, Made[n].format)
<1> DEFINE S == IF call.way = "none" THEN {} ELSE IF call.way = "auto" THEN AutoNodes ELSE call.cascaded
<1>1. Made = [n \in Nodes |-> IF n \in S THEN Cascaded(Root, n) ELSE Plain]
  BY DEF Made, Tree
<1> HIDE DEF S
<1>2. ASSUME NEW n \in Nodes
      PROVE  /\ Made[n].method # Unset.method
             /\ Made[n] = Option(Made[n].method, Made[n].format)
  <2>1. CASE n \in S
    <3>1. Made[n] = Option("cascaded", Selected(Root, n))
      BY <1>1, <2>1 DEF Cascaded
    <3> QED BY <3>1 DEF Option, Unset
  <2>2. CASE n \notin S
    <3>1. Made[n] = Option("none", DefaultFormat)
      BY <1>1, <2>2 DEF Plain
    <3> QED BY <3>1 DEF Option, Unset
  <2> QED BY <2>1, <2>2
<1>3. \A n \in Nodes : Made[n] # Unset
  BY <1>2
<1> QED BY <1>1, <1>2, <1>3

\* Where a walk is over, and where it is between a method and a format.
LEMMA WalkEnd ==
  \A k \in 0 .. 8 : /\ Rest(k) = <<>> <=> k = 8
                    /\ MethodAt(k) = Unset.method <=> k \in {0, 2, 4, 6, 8}
<1> SUFFICES ASSUME NEW k \in 0 .. 8
             PROVE  /\ Rest(k) = <<>> <=> k = 8
                    /\ MethodAt(k) = Unset.method <=> k \in {0, 2, 4, 6, 8}
  OBVIOUS
<1>1. "string" \in Nodes /\ "offsets" \in Nodes /\ "chars" \in Nodes /\ "fixed" \in Nodes
  BY DEF Nodes
<1>2. k \in {0, 1, 2, 3, 4, 5, 6, 7, 8}
  OBVIOUS
<1>3. Rest(k) = <<>> <=> k = 8
  BY <1>2 DEF Rest
<1>4. k \in {1, 3, 5, 7} => MethodAt(k) # Unset.method
  BY <1>1, MadeFacts DEF MethodAt, Word
<1> QED BY <1>2, <1>3, <1>4 DEF MethodAt

\* What the next two words of a walk do.
LEMMA WalkFacts ==
  ASSUME NEW k \in 0 .. 8
  PROVE  /\ k \in {0, 2, 4, 6} => /\ Head(Rest(k)) \in Nodes /\ Rest(k + 1) = Rest(k)
                                  /\ Word(k + 1) = Made[Head(Rest(k))].method
                                  /\ OptionsAt(k + 1) = OptionsAt(k)
         /\ k \in {1, 3, 5, 7} =>
              /\ Head(Rest(k)) \in Nodes
              /\ Rest(k + 1) = Subcolumns(Head(Rest(k))) \o Tail(Rest(k))
              /\ MethodAt(k) = Made[Head(Rest(k))].method
              /\ Word(k + 1) = Made[Head(Rest(k))].format
              /\ OptionsAt(k + 1) = [OptionsAt(k) EXCEPT ![Head(Rest(k))] = Made[Head(Rest(k))]]
<1>1. "string" \in Nodes /\ "offsets" \in Nodes /\ "chars" \in Nodes /\ "fixed" \in Nodes
  BY DEF Nodes
<1>5. /\ Head(Rest(0)) = "string" /\ Head(Rest(1)) = "string" /\ Head(Rest(2)) = "offsets"
      /\ Head(Rest(3)) = "offsets" /\ Head(Rest(4)) = "chars" /\ Head(Rest(5)) = "chars"
      /\ Head(Rest(6)) = "fixed" /\ Head(Rest(7)) = "fixed"
  BY DEF Rest
<1>6. /\ Rest(1) = Rest(0) /\ Rest(3) = Rest(2) /\ Rest(5) = Rest(4) /\ Rest(7) = Rest(6)
  BY DEF Rest
<1>7. ASSUME k \in {0, 2, 4, 6}
      PROVE  /\ Head(Rest(k)) \in Nodes /\ Rest(k + 1) = Rest(k)
             /\ Word(k + 1) = Made[Head(Rest(k))].method
  BY <1>1, <1>5, <1>6, <1>7 DEF Word
<1>8. ASSUME k \in {0, 2, 4, 6}
      PROVE  OptionsAt(k + 1) = OptionsAt(k)
  <2>1. \A n \in Nodes : k + 1 >= WordsTo(n) <=> k >= WordsTo(n)
    BY <1>8 DEF WordsTo, Nodes
  <2> QED BY <2>1 DEF OptionsAt
<1>9. /\ Rest(2) = Subcolumns(Head(Rest(1))) \o Tail(Rest(1))
      /\ Rest(4) = Subcolumns(Head(Rest(3))) \o Tail(Rest(3))
      /\ Rest(6) = Subcolumns(Head(Rest(5))) \o Tail(Rest(5))
      /\ Rest(8) = Subcolumns(Head(Rest(7))) \o Tail(Rest(7))
  <2>1. /\ Subcolumns("string") = <<"offsets", "chars">> /\ Subcolumns("offsets") = <<>>
        /\ Subcolumns("chars") = <<>> /\ Subcolumns("fixed") = <<>>
    BY DEF Subcolumns
  <2>2. /\ Tail(Rest(1)) = <<"fixed">> /\ Tail(Rest(3)) = <<"chars", "fixed">>
        /\ Tail(Rest(5)) = <<"fixed">> /\ Tail(Rest(7)) = <<>>
    <3>1. Tail(<<"string", "fixed">>) = <<"fixed">> /\ Tail(<<"chars", "fixed">>) = <<"fixed">>
      BY ShortTails
    <3>2. Tail(<<"offsets", "chars", "fixed">>) = <<"chars", "fixed">> /\ Tail(<<"fixed">>) = <<>>
      BY ShortTails
    <3> QED BY <3>1, <3>2 DEF Rest
  <2>3. /\ <<"offsets", "chars">> \o <<"fixed">> = <<"offsets", "chars", "fixed">>
        /\ <<>> \o <<"chars", "fixed">> = <<"chars", "fixed">>
        /\ <<>> \o <<"fixed">> = <<"fixed">> /\ <<>> \o <<>> = <<>>
    BY Concatenations
  <2>4. /\ Rest(2) = <<"offsets", "chars", "fixed">> /\ Rest(4) = <<"chars", "fixed">>
        /\ Rest(6) = <<"fixed">> /\ Rest(8) = <<>>
    BY DEF Rest
  <2> QED BY <1>5, <2>1, <2>2, <2>3, <2>4, Zenon
<1>10. ASSUME k \in {1, 3, 5, 7}
       PROVE  /\ Head(Rest(k)) \in Nodes
              /\ MethodAt(k) = Made[Head(Rest(k))].method
              /\ Word(k + 1) = Made[Head(Rest(k))].format
  BY <1>1, <1>5, <1>10 DEF Word, MethodAt
<1>11. ASSUME k \in {1, 3, 5, 7}
       PROVE  OptionsAt(k + 1) = [OptionsAt(k) EXCEPT ![Head(Rest(k))] = Made[Head(Rest(k))]]
  <2>1. \A n \in Nodes : k + 1 >= WordsTo(n) <=> (n = Head(Rest(k)) \/ k >= WordsTo(n))
    BY <1>5, <1>11 DEF WordsTo, Nodes
  <2>2. Head(Rest(k)) \in Nodes
    BY <1>10, <1>11
  <2> QED BY <2>1, <2>2 DEF OptionsAt
<1>12. ASSUME k \in {1, 3, 5, 7}
       PROVE  Rest(k + 1) = Subcolumns(Head(Rest(k))) \o Tail(Rest(k))
  <2>1. (k = 1 /\ k + 1 = 2) \/ (k = 3 /\ k + 1 = 4) \/ (k = 5 /\ k + 1 = 6) \/ (k = 7 /\ k + 1 = 8)
    BY <1>12
  <2> QED BY <1>9, <2>1
<1> QED BY <1>7, <1>8, <1>10, <1>11, <1>12

\* A broadcast moves rank r one word further, whoever it is.
LEMMA BcastStep ==
  ASSUME NEW at \in [Ranks -> 0 .. 8], NEW r \in Ranks, at[r] < 8, NEW w,
         r = Root => w = Word(at[r] + 1),
         bcasts = [d \in Ranks |-> bcasts[d]], \A d \in Ranks : Between(at, d), Bcast(r, w),
         NEW to, to = [at EXCEPT ![r] = at[r] + 1]
  PROVE  /\ Received(r, w) = Word(at[r] + 1)
         /\ bcasts' = [d \in Ranks |-> bcasts'[d]]
         /\ \A d \in Ranks : BetweenNext(to, d)
         /\ r = Root => \A n \in Nodes : chosen[n] # Unset
         /\ r # Root => at[Root] > 0
<1> DEFINE W == {Word(k) : k \in 1 .. 8}
<1>1. Root \in Ranks
  BY SizeAssumption DEF Ranks, Root
<1>2. /\ to \in [Ranks -> Int] /\ to[r] = at[r] + 1 /\ \A d \in Ranks \ {r} : to[d] = at[d]
      /\ at[r] + 1 \in 1 .. 8 /\ \A d \in Ranks : at[d] \in 0 .. 8
  OBVIOUS
<1>3. Word(at[r] + 1) \in W
  BY <1>2
<1>4. \A d \in Ranks : /\ bcasts[d] \in Seq(W)
                       /\ d # Root => /\ Len(bcasts[d]) = at[Root] - at[d]
                                      /\ \A i \in 1 .. Len(bcasts[d]) : bcasts[d][i] = Word(at[d] + i)
  BY DEF Between
<1> HIDE DEF W
<1>7. ASSUME NEW l \in Int, NEW x \in Int, NEW y \in Int, l = x - y
      PROVE  y + (l + 1) = x + 1 /\ l - 1 = x - (y + 1)
  BY <1>7
<1>5. CASE r = Root
  <2>1. /\ bcasts' = [d \in Ranks |-> IF d = Root THEN <<>> ELSE Append(bcasts[d], w)]
        /\ \A n \in Nodes : chosen[n] # Unset
    BY <1>5, Zenon DEF Bcast
  <2>2. w \in W /\ w = Word(at[Root] + 1)
    BY <1>3, <1>5
  <2>3. ASSUME NEW d \in Ranks
        PROVE  /\ bcasts'[d] \in Seq(W)
               /\ d # Root => /\ Len(bcasts'[d]) = to[Root] - to[d]
                              /\ \A i \in 1 .. Len(bcasts'[d]) : bcasts'[d][i] = Word(to[d] + i)
    <3>1. CASE d = Root
      BY <2>1, <3>1
    <3>2. CASE d # Root
      <4>1. bcasts'[d] = Append(bcasts[d], w) /\ to[d] = at[d] /\ to[Root] = at[Root] + 1
        BY <1>1, <1>2, <1>5, <2>1, <3>2
      <4>2. /\ bcasts[d] \in Seq(W) /\ Len(bcasts[d]) = at[Root] - at[d]
            /\ \A i \in 1 .. Len(bcasts[d]) : bcasts[d][i] = Word(at[d] + i)
        BY <1>4, <3>2
      <4>3. /\ Append(bcasts[d], w) \in Seq(W) /\ Len(Append(bcasts[d], w)) = Len(bcasts[d]) + 1
            /\ \A i \in 1 .. Len(bcasts[d]) : Append(bcasts[d], w)[i] = bcasts[d][i]
            /\ Append(bcasts[d], w)[Len(bcasts[d]) + 1] = w
        BY <2>2, <4>2, AppendProperties
      <4>4. /\ Len(bcasts[d]) \in Nat /\ at[d] \in 0 .. 8 /\ at[Root] \in 0 .. 8
        BY <1>1, <1>2, <4>2
      <4>5. Len(bcasts'[d]) = to[Root] - to[d]
        BY <4>1, <4>2, <4>3, <4>4
      <4>6. ASSUME NEW i \in 1 .. Len(bcasts'[d])
            PROVE  bcasts'[d][i] = Word(to[d] + i)
        <5>1. CASE i = Len(bcasts[d]) + 1
          <6>1. at[d] + (Len(bcasts[d]) + 1) = at[Root] + 1
            <7>1. Len(bcasts[d]) \in Int /\ at[Root] \in Int /\ at[d] \in Int
              BY <4>4
            <7> QED BY <1>7, <4>2, <7>1
          <6>2. at[d] + i = at[Root] + 1
            BY <5>1, <6>1
          <6> QED BY <2>2, <4>1, <4>3, <5>1, <6>2
        <5>2. CASE i # Len(bcasts[d]) + 1
          <6>1. i \in 1 .. Len(bcasts[d])
            BY <4>1, <4>3, <4>4, <5>2
          <6> QED BY <4>1, <4>2, <4>3, <6>1
        <5> QED BY <5>1, <5>2
      <4> QED BY <4>1, <4>3, <4>5, <4>6
    <3> QED BY <3>1, <3>2
  <2>4. Received(r, w) = Word(at[r] + 1)
    BY <1>5 DEF Received
  <2> QED BY <1>5, <2>1, <2>3, <2>4 DEF W, BetweenNext
<1>6. CASE r # Root
  <2>1. bcasts[r] # <<>> /\ bcasts' = [bcasts EXCEPT ![r] = Tail(bcasts[r])]
    BY <1>6, Zenon DEF Bcast
  <2>2. /\ bcasts[r] \in Seq(W) /\ Len(bcasts[r]) = at[Root] - at[r]
        /\ \A i \in 1 .. Len(bcasts[r]) : bcasts[r][i] = Word(at[r] + i)
    BY <1>4, <1>6
  <2>3. /\ Tail(bcasts[r]) \in Seq(W) /\ Len(Tail(bcasts[r])) = Len(bcasts[r]) - 1
        /\ \A i \in 1 .. Len(Tail(bcasts[r])) : Tail(bcasts[r])[i] = bcasts[r][i + 1]
        /\ Head(bcasts[r]) = bcasts[r][1] /\ Len(bcasts[r]) \in Nat \ {0}
    BY <2>1, <2>2, HeadTailProperties, EmptySeq
  <2>4. at[Root] > 0 /\ Received(r, w) = Word(at[r] + 1)
    BY <1>1, <1>2, <1>6, <2>2, <2>3 DEF Received
  <2>5. /\ bcasts' = [d \in Ranks |-> bcasts'[d]] /\ bcasts'[r] = Tail(bcasts[r])
        /\ \A d \in Ranks \ {r} : bcasts'[d] = bcasts[d]
    BY <2>1
  <2>6. to[Root] = at[Root]
    BY <1>1, <1>2, <1>6
  <2>7. /\ Len(bcasts'[r]) = to[Root] - to[r]
        /\ \A i \in 1 .. Len(bcasts'[r]) : bcasts'[r][i] = Word(to[r] + i)
    <3>1. Len(bcasts'[r]) = to[Root] - to[r]
      <4>1. Len(bcasts[r]) \in Int /\ at[Root] \in Int /\ at[r] \in Int
        BY <1>1, <1>2, <2>3
      <4>2. Len(bcasts[r]) - 1 = at[Root] - (at[r] + 1)
        BY <1>7, <2>2, <4>1
      <4>3. Len(bcasts'[r]) = Len(bcasts[r]) - 1 /\ to[Root] = at[Root] /\ to[r] = at[r] + 1
        BY <1>2, <2>3, <2>5, <2>6
      <4> QED BY <4>2, <4>3
    <3>2. ASSUME NEW i \in 1 .. Len(bcasts'[r])
          PROVE  bcasts'[r][i] = Word(to[r] + i)
      <4>1. i \in 1 .. Len(Tail(bcasts[r])) /\ i + 1 \in 1 .. Len(bcasts[r])
        BY <2>3, <2>5
      <4>2. at[r] + (i + 1) = to[r] + i
        BY <1>2
      <4> QED BY <2>2, <2>3, <2>5, <4>1, <4>2
    <3> QED BY <3>1, <3>2
  <2>8. ASSUME NEW d \in Ranks \ {r}
        PROVE  /\ bcasts'[d] \in Seq(W)
               /\ d # Root => /\ Len(bcasts'[d]) = to[Root] - to[d]
                              /\ \A i \in 1 .. Len(bcasts'[d]) : bcasts'[d][i] = Word(to[d] + i)
    BY <1>2, <1>4, <2>5, <2>6
  <2> QED BY <1>6, <2>3, <2>4, <2>5, <2>7, <2>8 DEF W, BetweenNext
<1> QED BY <1>5, <1>6

(***************************************************************************)
(* The options of all ranks.                                               *)
(***************************************************************************)
LEMMA InitOptInv == OptInit => OptInv
<1> SUFFICES ASSUME OptInit PROVE OptInv
  OBVIOUS
<1>1. /\ call \in Calls /\ todo = [r \in Ranks |-> Columns] /\ method = [r \in Ranks |-> Unset.method]
      /\ opts = [r \in Ranks |-> [n \in Nodes |-> Unset]] /\ bcasts = [d \in Ranks |-> <<>>]
      /\ chosen = IF call.way = "given" THEN Tree(Root, call.cascaded) ELSE [n \in Nodes |-> Unset]
  BY DEF OptInit
<1>2. \A n \in Nodes : chosen[n] \in {Unset, Made[n]}
  BY <1>1 DEF Made
<1>3. (call.way = "auto" /\ ~call.supported) => chosen["fixed"] = Unset
  BY <1>1 DEF Nodes
<1> DEFINE at == [r \in Ranks |-> 0]
<1>4. at \in [Ranks -> 0 .. 8] /\ Root \in Ranks /\ \A r \in Ranks : at[r] = 0
  BY SizeAssumption DEF Ranks, Root
<1> HIDE DEF at
<1>5. Rest(0) = Columns /\ MethodAt(0) = Unset.method /\ OptionsAt(0) = [n \in Nodes |-> Unset]
  BY DEF Rest, Columns, MethodAt, OptionsAt, WordsTo
<1>6. ASSUME NEW d \in Ranks
      PROVE  Between(at, d)
  BY <1>1, <1>4 DEF Between
<1>7. WalkAt(at)
  BY <1>1, <1>4, <1>5, <1>6 DEF WalkAt
<1> QED BY <1>1, <1>2, <1>3, <1>4, <1>7 DEF OptInv

\* The walk is a function of the call only.
LEMMA SameCall ==
  ASSUME call' = call
  PROVE  /\ Made' = Made
         /\ \A k : Word(k)' = Word(k) /\ Rest(k)' = Rest(k) /\ MethodAt(k)' = MethodAt(k)
                   /\ OptionsAt(k)' = OptionsAt(k)
<1>1. Made' = Made
  BY DEF Made
<1>2. \A k : Word(k)' = Word(k)
  BY <1>1, Zenon DEF Word
<1>3. \A k : MethodAt(k)' = MethodAt(k)
  BY <1>2, Zenon DEF MethodAt
<1>4. \A k : OptionsAt(k)' = OptionsAt(k)
  BY <1>1 DEF OptionsAt
<1>5. \A k : Rest(k)' = Rest(k)
  BY Zenon DEF Rest
<1> QED BY <1>1, <1>2, <1>3, <1>4, <1>5

\* What the walk says of the next state.
LEMMA NextWalk ==
  ASSUME call' = call, NEW at,
         todo' = [s \in Ranks |-> Rest(at[s])], method' = [s \in Ranks |-> MethodAt(at[s])],
         opts' = [s \in Ranks |-> OptionsAt(at[s])], bcasts' = [d \in Ranks |-> bcasts'[d]],
         call.way = "none" => \A s \in Ranks : at[s] \in {0, 8},
         call.way # "none" =>
           /\ \A d \in Ranks : BetweenNext(at, d)
           /\ at[Root] > 0 => \A n \in Nodes : chosen'[n] # Unset
  PROVE  WalkAt(at)'
<1>1. \A k : Word(k)' = Word(k) /\ Rest(k)' = Rest(k) /\ MethodAt(k)' = MethodAt(k)
             /\ OptionsAt(k)' = OptionsAt(k)
  BY SameCall
<1>2. /\ todo' = [s \in Ranks |-> Rest(at[s])'] /\ method' = [s \in Ranks |-> MethodAt(at[s])']
      /\ opts' = [s \in Ranks |-> OptionsAt(at[s])']
  BY <1>1
<1>3. {Word(k)' : k \in 1 .. 8} = {Word(k) : k \in 1 .. 8}
  BY <1>1
<1>4. ASSUME call.way # "none"
      PROVE  (\A d \in Ranks : Between(at, d))'
  <2>1. ASSUME NEW d \in Ranks
        PROVE  Between(at, d)'
    BY <1>1, <1>3, <1>4 DEF Between, BetweenNext
  <2> QED BY <2>1
<1> QED BY <1>2, <1>4 DEF WalkAt

\* A step that makes options walks on; a walk that is over has made them all.
LEMMA MakeOptInv ==
  ASSUME OptInv, NEW r \in Ranks, GenerateOptions(r)
  PROVE  /\ OptInv' /\ call' = call
         /\ opts' = [opts EXCEPT ![r] = opts'[r]]
         /\ todo'[r] = <<>> => opts'[r] = Made
<1>1. call' = call
  BY DEF GenerateOptions, GenerateLocally, Select, BcastMethod, BcastFormat
<1>2. Made' = Made
  BY <1>1, SameCall
<1>3. Root \in Ranks
  BY SizeAssumption DEF Ranks, Root
<1>4. /\ call \in Calls /\ \A n \in Nodes : chosen[n] \in {Unset, Made[n]}
      /\ (call.way = "auto" /\ ~call.supported) => chosen["fixed"] = Unset
  BY DEF OptInv
<1>5. PICK at \in [Ranks -> 0 .. 8] : WalkAt(at)
  BY DEF OptInv
<1>6. /\ todo = [s \in Ranks |-> Rest(at[s])] /\ method = [s \in Ranks |-> MethodAt(at[s])]
      /\ opts = [s \in Ranks |-> OptionsAt(at[s])] /\ bcasts = [d \in Ranks |-> bcasts[d]]
      /\ call.way = "none" => \A s \in Ranks : at[s] \in {0, 8}
      /\ call.way # "none" => /\ \A d \in Ranks : Between(at, d)
                              /\ at[Root] > 0 => \A n \in Nodes : chosen[n] # Unset
  BY <1>5 DEF WalkAt
<1>7. OptionsAt(8) = Made
  <2>1. \A n \in Nodes : 8 >= WordsTo(n)
    BY DEF WordsTo
  <2>2. Made = [n \in Nodes |-> Made[n]]
    BY MadeFacts
  <2> QED BY <2>1, <2>2 DEF OptionsAt
<1>8. /\ at[r] \in 0 .. 8 /\ todo[r] = Rest(at[r]) /\ method[r] = MethodAt(at[r])
      /\ opts[r] = OptionsAt(at[r])
  BY <1>6
\* What is left to show when r has come to word k of its walk.
<1>9. ASSUME chosen' = chosen, NEW k \in 0 .. 8, NEW to, to = [at EXCEPT ![r] = k],
             todo' = [todo EXCEPT ![r] = Rest(k)], method' = [method EXCEPT ![r] = MethodAt(k)],
             opts' = [opts EXCEPT ![r] = OptionsAt(k)], bcasts' = [d \in Ranks |-> bcasts'[d]],
             call.way = "none" => k \in {0, 8},
             call.way # "none" =>
               /\ \A d \in Ranks : BetweenNext(to, d)
               /\ to[Root] > 0 => \A n \in Nodes : chosen[n] # Unset
      PROVE  /\ OptInv'
             /\ opts' = [opts EXCEPT ![r] = opts'[r]]
             /\ todo'[r] = <<>> => opts'[r] = Made
  <2>1. to \in [Ranks -> 0 .. 8] /\ to[r] = k /\ \A s \in Ranks \ {r} : to[s] = at[s]
    BY <1>9
  <2>2. /\ todo' = [s \in Ranks |-> Rest(to[s])] /\ method' = [s \in Ranks |-> MethodAt(to[s])]
        /\ opts' = [s \in Ranks |-> OptionsAt(to[s])]
    BY <1>6, <1>9, <2>1
  <2>3. WalkAt(to)'
    <3>1. call.way = "none" => \A s \in Ranks : to[s] \in {0, 8}
      BY <1>6, <1>9, <2>1
    <3>2. call.way # "none" => (to[Root] > 0 => \A n \in Nodes : chosen'[n] # Unset)
      BY <1>9
    <3> QED BY <1>1, <1>9, <2>2, <3>1, <3>2, NextWalk
  <2>4. /\ call' \in Calls /\ \A n \in Nodes : chosen'[n] \in {Unset, Made'[n]}
        /\ (call'.way = "auto" /\ ~call'.supported) => chosen'["fixed"] = Unset
    BY <1>1, <1>2, <1>4, <1>9
  <2>5. OptInv'
    <3>1. \E f \in [Ranks -> 0 .. 8] : WalkAt(f)'
      BY <2>1, <2>3
    <3> QED BY <2>4, <3>1 DEF OptInv
  <2>6. opts' = [opts EXCEPT ![r] = opts'[r]] /\ opts'[r] = OptionsAt(k) /\ todo'[r] = Rest(k)
    BY <1>6, <1>9
  <2>7. Rest(k) = <<>> => k = 8
    BY WalkEnd
  <2> QED BY <1>7, <2>5, <2>6, <2>7
<1>10. CASE GenerateLocally(r)
  <2>1. /\ call.way = "none" /\ chosen' = chosen /\ method' = method /\ bcasts' = bcasts
        /\ opts' = [opts EXCEPT ![r] = Tree(r, {})] /\ todo' = [todo EXCEPT ![r] = <<>>]
        /\ todo[r] # <<>>
    BY <1>10 DEF GenerateLocally
  <2>2. Tree(r, {}) = OptionsAt(8) /\ Rest(8) = <<>>
    BY <1>7, <2>1 DEF Made, Tree, Rest
  <2>3. MethodAt(8) = Unset.method /\ MethodAt(0) = Unset.method
    BY DEF MethodAt
  <2>4. method' = [method EXCEPT ![r] = MethodAt(8)]
    <3>1. method[r] = Unset.method
      BY <1>6, <1>8, <2>1, <2>3
    <3> QED BY <1>6, <2>1, <2>3, <3>1
  <2>5. /\ opts' = [opts EXCEPT ![r] = OptionsAt(8)] /\ todo' = [todo EXCEPT ![r] = Rest(8)]
        /\ bcasts' = [d \in Ranks |-> bcasts'[d]]
    BY <1>6, <2>1, <2>2
  <2> DEFINE to == [at EXCEPT ![r] = 8]
  <2> HIDE DEF to
  <2>6. to = [at EXCEPT ![r] = 8] /\ 8 \in 0 .. 8
    BY DEF to
  <2> QED BY <1>1, <1>9, <2>1, <2>4, <2>5, <2>6
<1>11. CASE \E n \in Nodes : Select(r, n)
  <2>1. PICK n \in Nodes : Select(r, n)
    BY <1>11
  <2>2. /\ call.way = "auto" /\ r = Root /\ chosen[n] = Unset /\ (n = "fixed" => call.supported)
        /\ n \in {"string", "fixed"}
        /\ UNCHANGED <<call, todo, method, opts, bcasts>>
        /\ chosen' = [m \in Nodes |-> IF m = n \/ \E i \in DOMAIN Subcolumns(n) : m = Subcolumns(n)[i]
                                      THEN Tree(r, AutoNodes)[m] ELSE chosen[m]]
    BY <2>1 DEF Select, Selecting
  <2>3. Tree(r, AutoNodes) = Made
    BY <2>2 DEF Made
  <2>4. \A m \in Nodes : chosen'[m] \in {Unset, Made[m]}
    BY <1>4, <2>2, <2>3
  <2>5. ~call.supported => chosen'["fixed"] = Unset
    <3>1. SUFFICES ASSUME ~call.supported PROVE chosen'["fixed"] = Unset
      OBVIOUS
    <3>2. n = "string" /\ chosen["fixed"] = Unset /\ "fixed" \in Nodes
      BY <1>4, <2>2, <3>1 DEF Nodes
    <3>3. \A i \in DOMAIN Subcolumns("string") : Subcolumns("string")[i] # "fixed"
      BY DEF Subcolumns
    <3> QED BY <2>2, <3>2, <3>3
  <2>6. at[Root] = 0
    BY <1>3, <1>6, <2>2
  <2>7. WalkAt(at)'
    <3>1. /\ todo' = [s \in Ranks |-> Rest(at[s])] /\ method' = [s \in Ranks |-> MethodAt(at[s])]
          /\ opts' = [s \in Ranks |-> OptionsAt(at[s])] /\ bcasts' = [d \in Ranks |-> bcasts'[d]]
      BY <1>6, <2>2
    <3>2. \A d \in Ranks : BetweenNext(at, d)
      BY <1>6, <2>2 DEF Between, BetweenNext
    <3>3. call.way # "none" /\ ~ (at[Root] > 0)
      BY <2>2, <2>6
    <3> QED BY <1>1, <3>1, <3>2, <3>3, NextWalk
  <2>8. OptInv'
    <3>1. \E f \in [Ranks -> 0 .. 8] : WalkAt(f)'
      BY <2>7
    <3>2. /\ call' \in Calls /\ \A m \in Nodes : chosen'[m] \in {Unset, Made'[m]}
          /\ (call'.way = "auto" /\ ~call'.supported) => chosen'["fixed"] = Unset
      BY <1>1, <1>2, <1>4, <2>4, <2>5
    <3> QED BY <3>1, <3>2 DEF OptInv
  <2>9. opts' = [opts EXCEPT ![r] = opts'[r]] /\ opts'[r] = OptionsAt(at[r]) /\ todo'[r] = Rest(at[r])
    BY <1>6, <2>2
  <2>10. Rest(at[r]) = <<>> => at[r] = 8
    BY <1>8, WalkEnd
  <2> QED BY <1>1, <1>7, <2>8, <2>9, <2>10
\* A broadcast of rank r is of the next word of its walk.
<1>12. ASSUME call.way # "none", todo[r] # <<>>, NEW w, Bcast(r, w),
              r = Root => w = Word(at[r] + 1), NEW to, to = [at EXCEPT ![r] = at[r] + 1]
       PROVE  /\ Received(r, w) = Word(at[r] + 1) /\ bcasts' = [d \in Ranks |-> bcasts'[d]]
              /\ \A d \in Ranks : BetweenNext(to, d)
              /\ to[Root] > 0 => \A n \in Nodes : chosen[n] # Unset
  <2>1. at[r] < 8 /\ \A d \in Ranks : Between(at, d)
    <3>1. at[r] # 8
      BY <1>8, <1>12, WalkEnd
    <3> QED BY <1>6, <1>8, <1>12, <3>1
  <2>2. /\ Received(r, w) = Word(at[r] + 1) /\ bcasts' = [d \in Ranks |-> bcasts'[d]]
        /\ \A d \in Ranks : BetweenNext(to, d)
        /\ r = Root => \A n \in Nodes : chosen[n] # Unset
        /\ r # Root => at[Root] > 0
    BY <1>6, <1>12, <2>1, BcastStep
  <2> QED BY <1>6, <1>12, <2>2
<1>13. r = Root /\ call.way # "none" /\ (\A n \in Nodes : chosen[n] # Unset) => \A n \in Nodes : chosen[n] = Made[n]
  BY <1>4
<1>14. CASE BcastMethod(r)
  <2>1. PICK n, m : n = Head(todo[r]) /\ m = chosen[n].method
    OBVIOUS
  <2>2. /\ call.way # "none" /\ todo[r] # <<>> /\ method[r] = Unset.method /\ Bcast(r, m)
        /\ method' = [method EXCEPT ![r] = Received(r, m)]
        /\ chosen' = chosen /\ todo' = todo /\ opts' = opts
    BY <1>14, <2>1 DEF BcastMethod
  <2>3. at[r] \in {0, 2, 4, 6}
    BY <1>8, <2>2, WalkEnd
  <2>4. /\ n \in Nodes /\ Rest(at[r] + 1) = Rest(at[r]) /\ Word(at[r] + 1) = Made[n].method
        /\ OptionsAt(at[r] + 1) = OptionsAt(at[r])
    BY <1>8, <2>1, <2>3, WalkFacts
  <2>5. r = Root => m = Word(at[r] + 1)
    <3>1. SUFFICES ASSUME r = Root PROVE m = Word(at[r] + 1)
      OBVIOUS
    <3>2. \A x \in Nodes : chosen[x] # Unset
      BY <2>2, <3>1 DEF Bcast
    <3> QED BY <1>13, <2>1, <2>2, <2>4, <3>1, <3>2
  <2> DEFINE to == [at EXCEPT ![r] = at[r] + 1]
  <2> HIDE DEF to
  <2>6. to = [at EXCEPT ![r] = at[r] + 1]
    BY DEF to
  <2>7. /\ Received(r, m) = Word(at[r] + 1) /\ bcasts' = [d \in Ranks |-> bcasts'[d]]
        /\ \A d \in Ranks : BetweenNext(to, d)
        /\ to[Root] > 0 => \A x \in Nodes : chosen[x] # Unset
    BY <1>12, <2>2, <2>5, <2>6
  <2>8. at[r] + 1 \in {1, 3, 5, 7} /\ at[r] + 1 \in 0 .. 8
    BY <2>3
  <2>9. /\ todo' = [todo EXCEPT ![r] = Rest(at[r] + 1)]
        /\ method' = [method EXCEPT ![r] = MethodAt(at[r] + 1)]
        /\ opts' = [opts EXCEPT ![r] = OptionsAt(at[r] + 1)]
    <3>1. MethodAt(at[r] + 1) = Word(at[r] + 1)
      BY <2>8 DEF MethodAt
    <3> QED BY <1>6, <1>8, <2>2, <2>4, <2>7, <3>1
  <2>10. PICK k \in 0 .. 8 : k = at[r] + 1
    BY <2>8
  <2> QED BY <1>1, <1>9, <2>2, <2>6, <2>7, <2>9, <2>10
<1>15. CASE BcastFormat(r)
  <2>1. PICK n, f : n = Head(todo[r]) /\ f = chosen[n].format
    OBVIOUS
  <2>2. /\ call.way # "none" /\ todo[r] # <<>> /\ method[r] # Unset.method /\ Bcast(r, f)
        /\ opts' = [opts EXCEPT ![r] = [opts[r] EXCEPT ![n] = Option(method[r], Received(r, f))]]
        /\ todo' = [todo EXCEPT ![r] = Subcolumns(n) \o Tail(todo[r])]
        /\ method' = [method EXCEPT ![r] = Unset.method]
        /\ chosen' = chosen
    BY <1>15, <2>1 DEF BcastFormat, Children
  <2>3. at[r] \in {1, 3, 5, 7}
    <3>1. ~ (at[r] \in {0, 2, 4, 6, 8})
      BY <1>8, <2>2, WalkEnd
    <3> QED BY <1>8, <3>1
  <2>4. /\ n \in Nodes /\ Rest(at[r] + 1) = Subcolumns(n) \o Tail(Rest(at[r]))
        /\ MethodAt(at[r]) = Made[n].method /\ Word(at[r] + 1) = Made[n].format
        /\ OptionsAt(at[r] + 1) = [OptionsAt(at[r]) EXCEPT ![n] = Made[n]]
    BY <1>8, <2>1, <2>3, WalkFacts
  <2>5. r = Root => f = Word(at[r] + 1)
    <3>1. SUFFICES ASSUME r = Root PROVE f = Word(at[r] + 1)
      OBVIOUS
    <3>2. \A x \in Nodes : chosen[x] # Unset
      BY <2>2, <3>1 DEF Bcast
    <3> QED BY <1>13, <2>1, <2>2, <2>4, <3>1, <3>2
  <2> DEFINE to == [at EXCEPT ![r] = at[r] + 1]
  <2> HIDE DEF to
  <2>6. to = [at EXCEPT ![r] = at[r] + 1]
    BY DEF to
  <2>7. /\ Received(r, f) = Word(at[r] + 1) /\ bcasts' = [d \in Ranks |-> bcasts'[d]]
        /\ \A d \in Ranks : BetweenNext(to, d)
        /\ to[Root] > 0 => \A x \in Nodes : chosen[x] # Unset
    BY <1>12, <2>2, <2>5, <2>6
  <2>8. at[r] + 1 \in {2, 4, 6, 8} /\ at[r] + 1 \in 0 .. 8
    BY <2>3
  <2>9. Option(method[r], Received(r, f)) = Made[n]
    <3>1. method[r] = Made[n].method /\ Received(r, f) = Made[n].format
      BY <1>8, <2>4, <2>7
    <3> QED BY <2>4, <3>1, MadeFacts
  <2>10. /\ todo' = [todo EXCEPT ![r] = Rest(at[r] + 1)]
         /\ method' = [method EXCEPT ![r] = MethodAt(at[r] + 1)]
         /\ opts' = [opts EXCEPT ![r] = OptionsAt(at[r] + 1)]
    <3>1. MethodAt(at[r] + 1) = Unset.method
      BY <2>8 DEF MethodAt
    <3> QED BY <1>8, <2>2, <2>4, <2>9, <3>1
  <2>11. PICK k \in 0 .. 8 : k = at[r] + 1
    BY <2>8
  <2> QED BY <1>1, <1>9, <2>2, <2>6, <2>7, <2>10, <2>11
<1> QED BY <1>1, <1>10, <1>11, <1>14, <1>15 DEF GenerateOptions

LEMMA OptInvKept == OptInv /\ UNCHANGED optVars => OptInv'
<1> SUFFICES ASSUME OptInv, UNCHANGED optVars PROVE OptInv'
  OBVIOUS
<1>1. call' = call /\ chosen' = chosen /\ todo' = todo /\ method' = method /\ opts' = opts /\ bcasts' = bcasts
  BY DEF optVars
<1>2. PICK at \in [Ranks -> 0 .. 8] : WalkAt(at)
  BY DEF OptInv
<1>3. WalkAt(at)'
  <2>1. /\ todo = [s \in Ranks |-> Rest(at[s])] /\ method = [s \in Ranks |-> MethodAt(at[s])]
        /\ opts = [s \in Ranks |-> OptionsAt(at[s])] /\ bcasts = [d \in Ranks |-> bcasts[d]]
        /\ call.way = "none" => \A s \in Ranks : at[s] \in {0, 8}
        /\ call.way # "none" => /\ \A d \in Ranks : Between(at, d)
                                /\ at[Root] > 0 => \A n \in Nodes : chosen[n] # Unset
    BY <1>2 DEF WalkAt
  <2>2. call.way # "none" => \A d \in Ranks : BetweenNext(at, d)
    BY <1>1, <2>1 DEF Between, BetweenNext
  <2> QED BY <1>1, <2>1, <2>2, NextWalk
<1>4. Made' = Made
  BY <1>1, SameCall
<1>5. \E f \in [Ranks -> 0 .. 8] : WalkAt(f)'
  BY <1>3
<1>6. /\ call' \in Calls /\ \A m \in Nodes : chosen'[m] \in {Unset, Made'[m]}
      /\ (call'.way = "auto" /\ ~call'.supported) => chosen'["fixed"] = Unset
  BY <1>1, <1>4 DEF OptInv
<1> QED BY <1>5, <1>6 DEF OptInv

LEMMA OptInvImplies == OptInv => SameOptions
<1> SUFFICES ASSUME OptInv PROVE SameOptions
  OBVIOUS
<1>1. PICK at \in [Ranks -> 0 .. 8] : WalkAt(at)
  BY DEF OptInv
<1>2. \A r \in Ranks : /\ at[r] \in 0 .. 8 /\ todo[r] = Rest(at[r]) /\ method[r] = MethodAt(at[r])
                       /\ opts[r] = OptionsAt(at[r])
  BY <1>1 DEF WalkAt
<1>3. \A r \in Ranks : \A n \in Nodes : opts[r][n] \in {Unset, Made[n]}
  BY <1>2 DEF OptionsAt
<1>4. ASSUME NEW r \in Ranks, todo[r] = <<>>, NEW n \in Nodes
      PROVE  opts[r][n] # Unset
  <2>1. at[r] = 8
    BY <1>2, <1>4, WalkEnd
  <2>2. 8 >= WordsTo(n)
    BY DEF WordsTo
  <2>3. opts[r][n] = Made[n]
    BY <1>2, <2>1, <2>2 DEF OptionsAt
  <2> QED BY <2>3, MadeFacts
<1>5. ASSUME call.way = "auto", ~call.supported, NEW r \in Ranks
      PROVE  method[r] = Unset.method /\ \A n \in Nodes : opts[r][n] = Unset
  <2>1. chosen["fixed"] = Unset /\ "fixed" \in Nodes
    BY <1>5 DEF OptInv, Nodes
  <2>2. Root \in Ranks
    BY SizeAssumption DEF Ranks, Root
  <2>3. /\ \A d \in Ranks : Between(at, d)
        /\ at[Root] > 0 => \A n \in Nodes : chosen[n] # Unset
    BY <1>1, <1>5 DEF WalkAt
  <2>4. at[Root] = 0
    BY <1>2, <2>1, <2>2, <2>3
  <2>5. at[r] = 0
    <3>1. CASE r # Root
      <4>1. bcasts[r] \in Seq({Word(k) : k \in 1 .. 8}) /\ Len(bcasts[r]) = at[Root] - at[r]
        BY <2>3, <3>1 DEF Between
      <4>2. Len(bcasts[r]) \in Nat
        BY <4>1
      <4> QED BY <1>2, <2>4, <4>1, <4>2
    <3> QED BY <2>4, <3>1
  <2>6. method[r] = Unset.method
    BY <1>2, <2>5 DEF MethodAt
  <2>7. \A n \in Nodes : ~ (0 >= WordsTo(n))
    BY DEF WordsTo
  <2> QED BY <1>2, <2>5, <2>6, <2>7 DEF OptionsAt
<1> QED BY <1>3, <1>4, <1>5 DEF SameOptions
-----------------------------------------------------------------------------
(***************************************************************************)
(* Partial sums.                                                           *)
(***************************************************************************)
LEMMA SmallestExists ==
  ASSUME NEW S, S \subseteq Nat, S # {}
  PROVE  \E x \in S : \A y \in S : x <= y
<1>1. PICK x \in S : \A y \in S : ~ (<<y, x>> \in OpToRel(<, Nat))
  BY NatLessThanWellFounded, WFMin
<1>2. ASSUME NEW y \in S
      PROVE  x <= y
  <2>1. x \in Nat /\ y \in Nat
    OBVIOUS
  <2>2. ~ (y < x)
    BY <1>1, <2>1, Zenon DEF OpToRel
  <2> QED BY <2>1, <2>2
<1> QED BY <1>2

\* A function on 0 .. n with the equation that defines PartialSums.
SumsUpTo(count, n, f) ==
  /\ DOMAIN f = 0 .. n
  /\ f = [i \in 0 .. n |-> f[i]]
  /\ f[0] = 0
  /\ \A i \in 1 .. n : f[i] = f[i - 1] + count[i - 1]

LEMMA SumsExist ==
  ASSUME NEW count, NEW n \in Nat
  PROVE  \E f : SumsUpTo(count, n, f)
<1> DEFINE Bad == {m \in Nat : ~ \E f : SumsUpTo(count, m, f)}
<1> SUFFICES ASSUME Bad # {} PROVE FALSE
  OBVIOUS
<1>1. PICK m \in Bad : \A k \in Bad : m <= k
  BY SmallestExists
<1>2. CASE m = 0
  <2> DEFINE g == [i \in 0 .. 0 |-> 0]
  <2>1. SumsUpTo(count, 0, g)
    BY DEF SumsUpTo
  <2> QED BY <1>1, <1>2, <2>1
<1>3. CASE m # 0
  <2>1. m - 1 \in Nat /\ m - 1 \notin Bad /\ m \in Nat
    BY <1>1, <1>3
  <2>2. PICK h : SumsUpTo(count, m - 1, h)
    BY <2>1
  <2> DEFINE g == [i \in 0 .. m |-> IF i = m THEN h[m - 1] + count[m - 1] ELSE h[i]]
  <2>3. DOMAIN g = 0 .. m /\ g = [i \in 0 .. m |-> g[i]]
    OBVIOUS
  <2>4. g[0] = 0
    BY <2>1, <2>2, <1>3 DEF SumsUpTo
  <2>5. ASSUME NEW i \in 1 .. m
        PROVE  g[i] = g[i - 1] + count[i - 1]
    <3>1. g[i - 1] = h[i - 1]
      BY <2>1
    <3>2. CASE i = m
      BY <3>1, <3>2, <2>1
    <3>3. CASE i # m
      <4>1. i \in 1 .. m - 1 /\ g[i] = h[i]
        BY <3>3, <2>1
      <4> QED BY <4>1, <3>1, <2>2 DEF SumsUpTo
    <3> QED BY <3>2, <3>3
  <2>6. SumsUpTo(count, m, g)
    <3> HIDE DEF g
    <3> QED BY <2>3, <2>4, <2>5 DEF SumsUpTo
  <2> QED BY <1>1, <2>6
<1> QED BY <1>2, <1>3

LEMMA PartialSumsUpTo ==
  ASSUME NEW count
  PROVE  SumsUpTo(count, Size, PartialSums(count))
<1> DEFINE Step(f) == [i \in 0 .. Size |-> IF i = 0 THEN 0 ELSE f[i - 1] + count[i - 1]]
           f == CHOOSE h : h = Step(h)
<1>1. PartialSums(count) = f
  BY Zenon DEF PartialSums
<1>2. PICK g : SumsUpTo(count, Size, g)
  BY SumsExist, SizeAssumption
<1>3. g = Step(g)
  <2>1. ASSUME NEW i \in 0 .. Size
        PROVE  g[i] = IF i = 0 THEN 0 ELSE g[i - 1] + count[i - 1]
    <3>1. CASE i = 0
      BY <1>2, <3>1 DEF SumsUpTo
    <3>2. CASE i # 0
      <4>1. i \in 1 .. Size
        BY <3>2, SizeAssumption
      <4> QED BY <1>2, <3>2, <4>1 DEF SumsUpTo
    <3> QED BY <3>1, <3>2
  <2>2. g = [i \in 0 .. Size |-> g[i]]
    BY <1>2 DEF SumsUpTo
  <2> QED BY <2>1, <2>2, Zenon
<1>4. f = Step(f)
  <2>1. \E h : h = Step(h)
    BY <1>3, Zenon
  <2> HIDE DEF Step
  <2> QED BY <2>1, Zenon
<1> HIDE DEF f
<1>5. \A i \in 0 .. Size : f[i] = IF i = 0 THEN 0 ELSE f[i - 1] + count[i - 1]
  BY <1>4
<1>6. DOMAIN f = 0 .. Size /\ f = [i \in 0 .. Size |-> f[i]]
  BY <1>4
<1>7. f[0] = 0 /\ \A i \in 1 .. Size : f[i] = f[i - 1] + count[i - 1]
  BY <1>5, SizeAssumption
<1> QED BY <1>1, <1>6, <1>7, Zenon DEF SumsUpTo

\* The offset after a rank's is its own plus what the rank sends.
LEMMA PartialSumsFacts ==
  ASSUME NEW count \in [Ranks -> Nat]
  PROVE  /\ PartialSums(count) \in [0 .. Size -> Nat]
         /\ PartialSums(count)[0] = 0
         /\ \A s \in Ranks : PartialSums(count)[s + 1] - PartialSums(count)[s] = count[s]
<1> DEFINE f == PartialSums(count)
           Bad == {i \in Nat : i <= Size /\ f[i] \notin Nat}
<1> USE SizeAssumption
<1>1. SumsUpTo(count, Size, f)
  BY PartialSumsUpTo
<1> HIDE DEF f
<1>2. ASSUME NEW i \in 1 .. Size
      PROVE  f[i] = f[i - 1] + count[i - 1] /\ count[i - 1] \in Nat /\ i - 1 \in Ranks
  <2>1. f[i] = f[i - 1] + count[i - 1]
    BY <1>1 DEF SumsUpTo
  <2>2. i - 1 \in Ranks
    BY DEF Ranks
  <2> QED BY <2>1, <2>2
<1>3. Bad = {}
  <2> SUFFICES ASSUME Bad # {} PROVE FALSE
    OBVIOUS
  <2>1. PICK m \in Bad : \A k \in Bad : m <= k
    BY SmallestExists
  <2>2. m # 0
    BY <2>1, <1>1 DEF SumsUpTo
  <2>3. m \in 1 .. Size /\ m - 1 \in Nat /\ m - 1 \notin Bad /\ m - 1 <= Size
    BY <2>1, <2>2
  <2>4. f[m - 1] \in Nat
    BY <2>3
  <2> QED BY <1>2, <2>1, <2>3, <2>4
<1>4. \A i \in 0 .. Size : f[i] \in Nat
  BY <1>3
<1>5. f \in [0 .. Size -> Nat] /\ f[0] = 0
  BY <1>1, <1>4 DEF SumsUpTo
<1>6. ASSUME NEW s \in Ranks
      PROVE  f[s + 1] - f[s] = count[s]
  <2>1. s + 1 \in 1 .. Size /\ (s + 1) - 1 = s /\ s \in 0 .. Size
    BY DEF Ranks
  <2>2. f[s + 1] = f[s] + count[s] /\ count[s] \in Nat
    BY <1>2, <2>1
  <2> QED BY <2>1, <2>2, <1>4
<1> QED BY <1>5, <1>6 DEF f
-----------------------------------------------------------------------------
(***************************************************************************)
(* What is sent, how long it is, and that it never changes.                *)
(***************************************************************************)
Static == call' = call /\ options' = options /\ offsets' = offsets

LEMMA Frozen ==
  ASSUME Static
  PROVE  /\ Made' = Made
         /\ \A b : (Compressed(b)' <=> Compressed(b)) /\ Bit(b)' = Bit(b) /\ Count(b)' = Count(b)
         /\ \A s, b, d : /\ Parcel(s, b, d)' = Parcel(s, b, d)
                         /\ CompressedParcel(s, b, d)' = CompressedParcel(s, b, d)
                         /\ Payload(s, b, d)' = Payload(s, b, d)
         /\ \A r : Peers(r)' = Peers(r)
         /\ \A e : Order(e)' = Order(e)
         /\ \A e, s, d : SizeIn(e, s, d)' = SizeIn(e, s, d)
         /\ \A r, b : RowCounts(r, b)' = RowCounts(r, b) /\ ByteCounts(r, b)' = ByteCounts(r, b)
         /\ Messages' = Messages /\ Exchanges' = Exchanges
<1>1. Made' = Made
  BY DEF Static, Made
<1>2. \A b : (Compressed(b)' <=> Compressed(b)) /\ Bit(b)' = Bit(b) /\ Count(b)' = Count(b)
  BY <1>1, Zenon DEF Compressed, Node, Bit, Count
<1>3. \A r : Peers(r)' = Peers(r)
  BY DEF Static, Peers
<1>4. \A s, b, d : Parcel(s, b, d)' = Parcel(s, b, d)
  <2>1. \A s, b : SendOff(s, b)' = SendOff(s, b)
    BY DEF Static, SendOff
  <2>2. \A s, b, i : SendWord(s, b, i)' = SendWord(s, b, i)
    BY DEF Static, SendWord, StringSize
  <2> QED BY <2>1, <2>2 DEF Parcel
<1>5. \A s, b, d : CompressedParcel(s, b, d)' = CompressedParcel(s, b, d)
  BY <1>3, <1>4 DEF CompressedParcel
<1>6. \A s, b, d : Payload(s, b, d)' = Payload(s, b, d)
  BY <1>2, <1>4, <1>5, Zenon DEF Payload
<1>7. \A e : Order(e)' = Order(e)
  BY <1>2, Zenon DEF Order
<1>8. \A e, s, d : SizeIn(e, s, d)' = SizeIn(e, s, d)
  BY <1>4, <1>5, Zenon DEF SizeIn
<1>9. \A r, b : RowCounts(r, b)' = RowCounts(r, b) /\ ByteCounts(r, b)' = ByteCounts(r, b)
  BY <1>4, <1>5, Zenon DEF RowCounts, ByteCounts
<1>10. Messages' = Messages
  BY <1>6 DEF Messages
<1>11. Exchanges' = Exchanges
  <2>1. {b \in Buffers : Compressed(b)}' = {b \in Buffers : Compressed(b)}
    BY <1>2
  <2> QED BY <2>1, Zenon DEF Exchanges
<1> QED BY <1>1, <1>2, <1>3, <1>4, <1>5, <1>6, <1>7, <1>8, <1>9, <1>10, <1>11

LEMMA BufferNumbers ==
  /\ Sizes = 1 /\ Chars = 2 /\ Fixed = 3 /\ Buffers = 1 .. 3
  /\ \A b \in Buffers : b = Sizes \/ b = Chars \/ b = Fixed
BY DEF Sizes, Chars, Fixed, Buffers

\* Count(b) compressed buffers up to b.
LEMMA CountFacts ==
  /\ Count(0) = 0
  /\ \A b \in Buffers : /\ Count(b) \in 0 .. 3 /\ Count(b - 1) \in 0 .. 3 /\ Bit(b) \in {0, 1}
                        /\ Count(b) = Count(b - 1) + Bit(b)
                        /\ Compressed(b) => Bit(b) = 1
                        /\ ~ Compressed(b) => Bit(b) = 0
  /\ \A b, c \in Buffers : b < c => Count(b) <= Count(c - 1)
<1>1. \A b : Bit(b) \in {0, 1} /\ (Compressed(b) => Bit(b) = 1) /\ (~ Compressed(b) => Bit(b) = 0)
  BY DEF Bit
<1> DEFINE x == Bit(Sizes)
           y == Bit(Chars)
           z == Bit(Fixed)
<1>2. x \in {0, 1} /\ y \in {0, 1} /\ z \in {0, 1}
  BY <1>1
<1>3. Count(0) = 0 /\ Count(1) = x /\ Count(2) = x + y /\ Count(3) = x + y + z
  BY <1>2, BufferNumbers DEF Count
<1>4. Bit(1) = x /\ Bit(2) = y /\ Bit(3) = z
  BY BufferNumbers
<1> HIDE DEF x, y, z
<1>5. ASSUME NEW b \in Buffers
      PROVE  /\ Count(b) \in 0 .. 3 /\ Count(b - 1) \in 0 .. 3
             /\ Count(b) = Count(b - 1) + Bit(b)
  <2>1. b = 1 \/ b = 2 \/ b = 3
    BY BufferNumbers
  <2>2. CASE b = 1
    BY <1>2, <1>3, <1>4, <2>2
  <2>3. CASE b = 2
    BY <1>2, <1>3, <1>4, <2>3
  <2>4. CASE b = 3
    BY <1>2, <1>3, <1>4, <2>4
  <2> QED BY <2>1, <2>2, <2>3, <2>4
<1>6. ASSUME NEW b \in Buffers, NEW c \in Buffers, b < c
      PROVE  Count(b) <= Count(c - 1)
  <2>1. (b = 1 /\ c = 2) \/ (b = 1 /\ c = 3) \/ (b = 2 /\ c = 3)
    BY <1>6, BufferNumbers
  <2> QED BY <1>2, <1>3, <2>1
<1> QED BY <1>1, <1>3, <1>5, <1>6

\* A rank that has options compresses the buffers the others do.
LEMMA SameCompression ==
  ASSUME NEW r \in Ranks, opts[r] = Made
  PROVE  \A b \in Buffers : IsCompressed(r, b) <=> Compressed(b)
BY DEF IsCompressed, Compressed, NodeOf, Node

LEMMA SymmetricPeers ==
  \A r, s \in Ranks : s \in Peers(r) <=> r \in Peers(s)
BY DEF Peers

LEMMA ParcelFacts ==
  ASSUME offsets \in [Ranks -> Offsets], NEW r \in Ranks, NEW b \in Buffers, NEW d \in Ranks
  PROVE  /\ Len(Parcel(r, b, d)) \in Nat
         /\ Len(Parcel(r, Sizes, d)) = Len(Parcel(r, Fixed, d))
         /\ Len(CompressedParcel(r, b, d)) \in Nat
<1> DEFINE i == offsets[r][d]
           j == offsets[r][d + 1]
<1>1. i \in 0 .. NumRows /\ j \in 0 .. NumRows
  <2>1. offsets[r] \in [0 .. Size -> 0 .. NumRows]
    BY OffsetAssumption
  <2>2. d \in 0 .. Size /\ d + 1 \in 0 .. Size
    BY SizeAssumption DEF Ranks
  <2> QED BY <2>1, <2>2
<1>2. i \in Int /\ j \in Int /\ StrOff[r][i] \in Int /\ StrOff[r][j] \in Int
  BY <1>1, SizeAssumption, StringAssumption
<1>3. d \in 0 .. Size /\ d + 1 \in 0 .. Size
  BY SizeAssumption DEF Ranks
<1> HIDE DEF i, j
<1>4. ASSUME NEW c \in Buffers
      PROVE  \E n \in {j - i, StrOff[r][j] - StrOff[r][i]} :
               /\ Len(Parcel(r, c, d)) = IF n > 0 THEN n ELSE 0
               /\ Parcel(r, c, d) # <<>> => n > 0
               /\ c # Chars => n = j - i
  <2> DEFINE o == SendOff(r, c)
             n == o[d + 1] - o[d]
             p == Parcel(r, c, d)
  <2>1. n \in {j - i, StrOff[r][j] - StrOff[r][i]} /\ (c # Chars => n = j - i)
    BY <1>3 DEF SendOff, i, j
  <2>2. n \in Int
    BY <1>2, <2>1
  <2>3. p = [k \in 1 .. n |-> SendWord(r, c, o[d] + k - 1)]
    BY Zenon DEF Parcel
  <2> HIDE DEF o, n, p
  <2>4. CASE n > 0
    <3>1. n \in Nat
      BY <2>2, <2>4
    <3>2. Len(p) = n
      BY <2>3, <3>1
    <3> QED BY <2>1, <2>4, <3>2 DEF p
  <2>5. CASE ~ (n > 0)
    <3>1. 1 .. n = {}
      BY <2>2, <2>5
    <3>2. p = <<>>
      BY <2>3, <3>1
    <3> QED BY <2>1, <2>5, <3>2 DEF p
  <2> QED BY <2>4, <2>5
<1>5. Len(Parcel(r, b, d)) \in Nat
  <2>1. PICK n \in {j - i, StrOff[r][j] - StrOff[r][i]} : Len(Parcel(r, b, d)) = IF n > 0 THEN n ELSE 0
    BY <1>4
  <2>2. n \in Int
    BY <1>2
  <2> QED BY <2>1, <2>2
<1>6. Len(Parcel(r, Sizes, d)) = Len(Parcel(r, Fixed, d))
  <2>1. Sizes \in Buffers /\ Fixed \in Buffers /\ Sizes # Chars /\ Fixed # Chars
    BY BufferNumbers
  <2> QED BY <1>4, <2>1
<1>7. Len(CompressedParcel(r, b, d)) \in Nat
  <2> DEFINE p == Parcel(r, b, d)
             n == IF d \in Peers(r) /\ p # <<>> THEN CompressedSize(Len(p)) ELSE 0
  <2>1. PICK m \in {j - i, StrOff[r][j] - StrOff[r][i]} :
          Len(p) = (IF m > 0 THEN m ELSE 0) /\ (p # <<>> => m > 0)
    BY <1>4
  <2>2. p # <<>> => CompressedSize(Len(p)) \in Nat
    <3>1. SUFFICES ASSUME p # <<>> PROVE CompressedSize(Len(p)) \in Nat
      OBVIOUS
    <3>2. Len(p) = m /\ m > 0
      BY <2>1, <3>1
    <3>3. CompressedSize(m) \in Nat
      BY <1>1, <2>1, <3>2, CompressedAssumption
    <3> QED BY <3>2, <3>3
  <2>3. n \in Nat
    BY <2>2
  <2>4. CompressedParcel(r, b, d) = [k \in 1 .. n |-> [data |-> p, at |-> k, of |-> n]]
    BY Zenon DEF CompressedParcel
  <2> HIDE DEF n, p
  <2> QED BY <2>3, <2>4
<1> QED BY <1>5, <1>6, <1>7
-----------------------------------------------------------------------------
(***************************************************************************)
(* What a step of one rank leaves alone.                                   *)
(***************************************************************************)
LEMMA CounterTypes ==
  ASSUME TypeInv, NEW q \in Ranks
  PROVE  /\ ExchangesSent(q) \in 0 .. 5 /\ ExchangesDone(q) \in 0 .. 5
         /\ Launched(q) \in 0 .. 3 /\ Stopped(q) \in 0 .. 3
<1>1. cur[q] \in Buffers /\ pc[q] \in PCs /\ cur[q] \in 1 .. 3
  BY BufferNumbers DEF TypeInv
<1>2. Count(cur[q]) \in 0 .. 3 /\ Count(cur[q] - 1) \in 0 .. 3
  BY <1>1, CountFacts
<1>3. ExchangesSent(q) \in 0 .. 5
  BY <1>2 DEF ExchangesSent
<1>4. ExchangesDone(q) \in 0 .. 5
  BY <1>2 DEF ExchangesDone
<1>5. Launched(q) \in 0 .. 3
  BY <1>1 DEF Launched
<1>6. Stopped(q) \in 0 .. 3
  BY <1>1, BufferNumbers DEF Stopped
<1> QED BY <1>3, <1>4, <1>5, <1>6

\* A step in which only rank r goes on, and nothing fixed changes.
OnlyMoves(r) == Static /\ \A q \in Ranks \ {r} : pc'[q] = pc[q] /\ cur'[q] = cur[q]

SameCounters(q) ==
  /\ ExchangesSent(q)' = ExchangesSent(q) /\ ExchangesDone(q)' = ExchangesDone(q)
  /\ Launched(q)' = Launched(q) /\ Stopped(q)' = Stopped(q)

LEMMA KeptCounters ==
  ASSUME Static, NEW q, pc'[q] = pc[q], cur'[q] = cur[q]
  PROVE  SameCounters(q)
<1>1. \A b : Count(b)' = Count(b)
  BY Frozen
<1>2. ExchangesSent(q)' = ExchangesSent(q)
  BY <1>1 DEF ExchangesSent
<1>3. ExchangesDone(q)' = ExchangesDone(q)
  BY <1>1 DEF ExchangesDone
<1>4. Launched(q)' = Launched(q) /\ Stopped(q)' = Stopped(q)
  BY DEF Launched, Stopped, Static
<1> QED BY <1>2, <1>3, <1>4 DEF SameCounters

LEMMA KeptControl ==
  ASSUME Static, NEW q \in Ranks, ControlAt(q), pc'[q] = pc[q], cur'[q] = cur[q],
         opts'[q] = opts[q], posted'[q] = posted[q]
  PROVE  ControlAt(q)'
<1>1. Made' = Made /\ options' = options /\ \A b : Compressed(b)' <=> Compressed(b)
  BY Frozen DEF Static
<1>2. Launched(q)' = Launched(q) /\ Stopped(q)' = Stopped(q)
  BY KeptCounters DEF SameCounters
<1> QED BY <1>1, <1>2 DEF ControlAt

LEMMA KeptOffsets ==
  ASSUME Static, NEW q \in Ranks, OffsetsAt(q), recvOff'[q] = recvOff[q],
         compOff'[q] = compOff[q], ExchangesDone(q)' = ExchangesDone(q)
  PROVE  OffsetsAt(q)'
<1>1. /\ \A b : (Compressed(b)' <=> Compressed(b)) /\ Count(b)' = Count(b)
      /\ \A b : RowCounts(q, b)' = RowCounts(q, b) /\ ByteCounts(q, b)' = ByteCounts(q, b)
  BY Frozen
<1>2. \A b : /\ PartialSums(RowCounts(q, b))' = PartialSums(RowCounts(q, b))
             /\ PartialSums(ByteCounts(q, b))' = PartialSums(ByteCounts(q, b))
  BY <1>1
<1> QED BY <1>1, <1>2 DEF OffsetsAt

LEMMA KeptSizes ==
  ASSUME Static, NEW s \in Ranks, NEW r \in Ranks, SizesBetween(s, r),
         sizeMsgs'[s][r] = sizeMsgs[s][r], ExchangesSent(s)' = ExchangesSent(s),
         ExchangesDone(r)' = ExchangesDone(r)
  PROVE  SizesBetween(s, r)'
<1>1. /\ \A e : Order(e)' = Order(e) /\ SizeIn(e, s, r)' = SizeIn(e, s, r)
      /\ Exchanges' = Exchanges
  BY Frozen
<1> QED BY <1>1 DEF SizesBetween

LEMMA KeptData ==
  ASSUME Static, NEW s \in Ranks, NEW r \in Ranks, DataBetween(s, r),
         chan'[s][r] = chan[s][r], Launched(s)' = Launched(s), Stopped(r)' = Stopped(r)
  PROVE  DataBetween(s, r)'
<1>1. Peers(r)' = Peers(r) /\ \A b : Payload(s, b, r)' = Payload(s, b, r)
  BY Frozen
<1> QED BY <1>1 DEF DataBetween

\* A step of rank r that changes no counter and no channel.
LEMMA QuietStep ==
  ASSUME IInv, Static, NEW r \in Ranks, OptInv', TypeInv', ControlAt(r)', SameCounters(r),
         UNCHANGED <<sizeMsgs, chan, posted, recvOff, compOff>>,
         \A q \in Ranks \ {r} : pc'[q] = pc[q] /\ cur'[q] = cur[q] /\ opts'[q] = opts[q]
  PROVE  IInv'
<1>1. \A q \in Ranks : SameCounters(q)
  BY KeptCounters
<1>2. \A q \in Ranks : ControlAt(q)'
  BY KeptControl DEF IInv
<1>3. \A q \in Ranks : OffsetsAt(q)'
  BY <1>1, KeptOffsets DEF IInv, SameCounters
<1>4. \A s, q \in Ranks : SizesBetween(s, q)'
  BY <1>1, KeptSizes DEF IInv, SameCounters
<1>5. \A s, q \in Ranks : DataBetween(s, q)'
  BY <1>1, KeptData DEF IInv, SameCounters
<1> QED BY <1>2, <1>3, <1>4, <1>5 DEF IInv
-----------------------------------------------------------------------------
(***************************************************************************)
(* Every action preserves the invariant.                                   *)
(***************************************************************************)
LEMMA InitIInv == Init => IInv
<1> SUFFICES ASSUME Init PROVE IInv
  OBVIOUS
<1>1. OptInv
  BY InitOptInv DEF Init
<1>2. TypeInv
  <2>1. /\ pc \in [Ranks -> PCs] /\ cur \in [Ranks -> Buffers]
        /\ options \in Options /\ offsets \in [Ranks -> Offsets]
    BY BufferNumbers DEF Init, PCs, Before
  <2>2. /\ recvOff \in [Ranks -> [Buffers -> [0 .. Size -> Nat]]]
        /\ compOff \in [Ranks -> [Buffers -> [0 .. Size -> Nat]]]
    <3>1. NoOffsets \in [0 .. Size -> Nat]
      BY DEF NoOffsets
    <3> QED BY <3>1 DEF Init
  <2>3. \A S : /\ sizeMsgs \in [Ranks -> [Ranks -> Seq(S)]] /\ chan \in [Ranks -> [Ranks -> Seq(S)]]
               /\ posted \in [Ranks -> Seq(S)]
    BY DEF Init
  <2> QED BY <2>1, <2>2, <2>3 DEF TypeInv
<1>3. ASSUME NEW r \in Ranks
      PROVE  /\ pc[r] = "options" /\ cur[r] = Sizes /\ posted[r] = <<>>
             /\ ExchangesSent(r) = 0 /\ ExchangesDone(r) = 0 /\ Launched(r) = 0 /\ Stopped(r) = 0
  BY DEF Init, ExchangesSent, ExchangesDone, Launched, Stopped, Before
<1>4. ASSUME NEW r \in Ranks
      PROVE  ControlAt(r) /\ OffsetsAt(r)
  <2>1. ControlAt(r)
    BY <1>3 DEF ControlAt, Before
  <2>2. \A b \in Buffers : Count(b) \in 0 .. 3
    BY CountFacts
  <2>3. OffsetsAt(r)
    BY <1>3, <2>2 DEF OffsetsAt
  <2> QED BY <2>1, <2>3
<1>5. ASSUME NEW s \in Ranks, NEW r \in Ranks
      PROVE  SizesBetween(s, r) /\ DataBetween(s, r)
  <2>1. sizeMsgs[s][r] = <<>> /\ chan[s][r] = <<>>
    BY DEF Init
  <2> QED BY <1>3, <2>1 DEF SizesBetween, DataBetween
<1> QED BY <1>1, <1>2, <1>4, <1>5 DEF IInv

\* Types after a step that moves rank r and touches neither channels nor offsets.
LEMMA QuietTypes ==
  ASSUME TypeInv, Static, NEW r \in Ranks, NEW p \in PCs, pc' = [pc EXCEPT ![r] = p], cur' = cur,
         UNCHANGED <<sizeMsgs, chan, posted, recvOff, compOff>>
  PROVE  TypeInv'
<1>1. Messages' = Messages
  BY Frozen
<1> QED BY <1>1 DEF TypeInv, Static, SizeMessages

LEMMA MakeOptionsStep ==
  ASSUME IInv, NEW r \in Ranks, MakeOptions(r)
  PROVE  IInv'
<1>1. OptInv /\ TypeInv /\ ControlAt(r)
  BY DEF IInv
<1>2. GenerateOptions(r)
  BY DEF MakeOptions
<1>3. PICK p \in {"options", "rows"} :
        /\ pc[r] = "options" /\ pc' = [pc EXCEPT ![r] = p] /\ cur' = cur
        /\ p = "rows" => todo'[r] = <<>>
        /\ UNCHANGED <<options, offsets, sizeMsgs, chan, posted, recvOff, compOff>>
  BY Zenon DEF MakeOptions
<1>4. OptInv' /\ call' = call
  BY <1>1, <1>2, MakeOptInv
<1>5. opts' = [opts EXCEPT ![r] = opts'[r]]
  BY <1>1, <1>2, MakeOptInv
<1>6. p = "rows" => opts'[r] = Made
  BY <1>1, <1>2, <1>3, MakeOptInv
<1>7. Static
  BY <1>3, <1>4 DEF Static
<1>8. pc'[r] = p /\ \A q \in Ranks \ {r} : pc'[q] = pc[q] /\ cur'[q] = cur[q]
  BY <1>1, <1>3 DEF TypeInv
<1>9. \A q \in Ranks \ {r} : opts'[q] = opts[q]
  <2>1. PICK x : x = opts'[r]
    OBVIOUS
  <2>2. DOMAIN opts = Ranks
    <3>1. PICK at \in [Ranks -> 0 .. 8] : WalkAt(at)
      BY <1>1 DEF OptInv
    <3> QED BY <3>1 DEF WalkAt
  <2> QED BY <1>5, <2>1, <2>2
<1>10. p \in PCs /\ TypeInv'
  <2>1. p \in PCs
    BY <1>3 DEF PCs, Before
  <2> QED BY <1>1, <1>3, <1>7, <2>1, QuietTypes
<1>11. SameCounters(r)
  BY <1>3, <1>8 DEF SameCounters, ExchangesSent, ExchangesDone, Launched, Stopped, Before
<1>12. ControlAt(r)'
  <2>1. Made' = Made
    BY <1>7, Frozen
  <2> QED BY <1>1, <1>3, <1>6, <1>8, <1>11, <2>1 DEF ControlAt, SameCounters, Before
<1> QED BY <1>3, <1>4, <1>7, <1>8, <1>9, <1>10, <1>11, <1>12, QuietStep

LEMMA OptionsThrowStep ==
  ASSUME IInv, NEW r \in Ranks, OptionsThrow(r)
  PROVE  IInv'
<1>1. Static /\ UNCHANGED optVars /\ opts' = opts
  BY DEF Static, OptionsThrow, SelectorThrows, optVars
<1>2. /\ pc[r] = "options" /\ pc' = [pc EXCEPT ![r] = "thrown"] /\ cur' = cur
      /\ UNCHANGED <<sizeMsgs, chan, posted, recvOff, compOff>>
  BY DEF OptionsThrow
<1>3. OptInv' /\ TypeInv'
  BY <1>1, <1>2, QuietTypes, OptInvKept DEF IInv, PCs, Before
<1>4. pc'[r] = "thrown"
  BY <1>2 DEF IInv, TypeInv
<1>5. SameCounters(r)
  BY <1>2, <1>4 DEF SameCounters, ExchangesSent, ExchangesDone, Launched, Stopped, Before
<1>6. ControlAt(r)'
  <2>1. ControlAt(r)
    BY DEF IInv
  <2> QED BY <1>2, <1>4, <1>5, <2>1 DEF ControlAt, SameCounters, Before
<1>7. \A q \in Ranks \ {r} : pc'[q] = pc[q] /\ cur'[q] = cur[q] /\ opts'[q] = opts[q]
  BY <1>1, <1>2 DEF IInv, TypeInv
<1> QED BY <1>1, <1>2, <1>3, <1>5, <1>6, <1>7, QuietStep

LEMMA AllocateStep ==
  ASSUME IInv, NEW r \in Ranks, Allocate(r)
  PROVE  IInv'
<1>1. Static /\ UNCHANGED optVars /\ opts' = opts
  BY DEF Static, Allocate, args, optVars
<1> DEFINE p == AtBuffer(r, Sizes)
<1>2. /\ pc[r] = "allocate" /\ pc' = [pc EXCEPT ![r] = p] /\ cur' = cur
      /\ UNCHANGED <<sizeMsgs, chan, posted, recvOff, compOff>>
  BY DEF Allocate
<1>3. opts[r] = Made /\ cur[r] = Sizes /\ ControlAt(r) /\ Sizes \in Buffers
  BY <1>2, BufferNumbers DEF IInv, ControlAt, Before
<1>4. IsCompressed(r, Sizes) <=> Compressed(Sizes)
  BY <1>3, SameCompression
<1>5. p = IF Compressed(Sizes) THEN "compress" ELSE "launch"
  BY <1>4 DEF AtBuffer
<1> HIDE DEF p
<1>6. OptInv' /\ TypeInv'
  BY <1>1, <1>2, <1>5, QuietTypes, OptInvKept DEF IInv, PCs
<1>7. pc'[r] = p /\ cur'[r] = Sizes
  BY <1>2, <1>3 DEF IInv, TypeInv
<1>8. Made' = Made /\ \A b : (Compressed(b)' <=> Compressed(b)) /\ Count(b)' = Count(b)
  BY <1>1, Frozen
<1>9. SameCounters(r)
  <2>1. Count(0) = 0 /\ (~ Compressed(Sizes) => Count(Sizes) = 0)
    BY CountFacts, BufferNumbers
  <2>2. ExchangesSent(r) = 2 /\ ExchangesDone(r) = 2 /\ Launched(r) = 0 /\ Stopped(r) = 0
    BY <1>2 DEF ExchangesSent, ExchangesDone, Launched, Stopped, Before
  <2>3. ExchangesSent(r)' = 2 /\ ExchangesDone(r)' = 2
    BY <1>5, <1>7, <1>8, <2>1, BufferNumbers DEF ExchangesSent, ExchangesDone
  <2>4. Launched(r)' = 0 /\ Stopped(r)' = 0
    BY <1>5, <1>7, BufferNumbers DEF Launched, Stopped, Before
  <2> QED BY <2>2, <2>3, <2>4 DEF SameCounters
<1>10. ControlAt(r)'
  BY <1>1, <1>2, <1>3, <1>5, <1>7, <1>8, <1>9 DEF ControlAt, SameCounters, Before
<1>11. \A q \in Ranks \ {r} : pc'[q] = pc[q] /\ cur'[q] = cur[q] /\ opts'[q] = opts[q]
  BY <1>1, <1>2 DEF IInv, TypeInv
<1> QED BY <1>1, <1>2, <1>6, <1>9, <1>10, <1>11, QuietStep

LEMMA PostprocessStep ==
  ASSUME IInv, NEW r \in Ranks, Postprocess(r)
  PROVE  IInv'
<1>1. Static /\ UNCHANGED optVars /\ opts' = opts
  BY DEF Static, Postprocess, args, optVars
<1>2. /\ pc[r] = "postprocess" /\ pc' = [pc EXCEPT ![r] = "done"] /\ cur' = cur
      /\ UNCHANGED <<sizeMsgs, chan, posted, recvOff, compOff>>
  BY DEF Postprocess
<1>3. OptInv' /\ TypeInv'
  BY <1>1, <1>2, QuietTypes, OptInvKept DEF IInv, PCs
<1>4. pc'[r] = "done" /\ cur'[r] = cur[r]
  BY <1>2 DEF IInv, TypeInv
<1>5. Made' = Made /\ \A b : (Compressed(b)' <=> Compressed(b)) /\ Count(b)' = Count(b)
  BY <1>1, Frozen
<1>6. SameCounters(r)
  BY <1>2, <1>4, <1>5 DEF SameCounters, ExchangesSent, ExchangesDone, Launched, Stopped, Before
<1>7. ControlAt(r)'
  <2>1. ControlAt(r)
    BY DEF IInv
  <2> QED BY <1>1, <1>2, <1>4, <1>5, <1>6, <2>1 DEF ControlAt, SameCounters, Before
<1>8. \A q \in Ranks \ {r} : pc'[q] = pc[q] /\ cur'[q] = cur[q] /\ opts'[q] = opts[q]
  BY <1>1, <1>2 DEF IInv, TypeInv
<1> QED BY <1>1, <1>2, <1>3, <1>6, <1>7, <1>8, QuietStep
\* One more message in a channel.
LEMMA AppendSize ==
  ASSUME NEW q \in Seq(SizeMessages), NEW m \in SizeMessages
  PROVE  /\ q \o <<m>> \in Seq(SizeMessages) /\ Len(q \o <<m>>) = Len(q) + 1
         /\ \A k \in 1 .. Len(q) : (q \o <<m>>)[k] = q[k]
         /\ (q \o <<m>>)[Len(q) + 1] = m
<1>1. <<m>> \in Seq(SizeMessages) /\ Len(<<m>>) = 1 /\ <<m>>[1] = m
  OBVIOUS
<1> DEFINE t == <<m>>
<1>2. t \in Seq(SizeMessages) /\ Len(t) = 1 /\ t[1] = m
  BY <1>1
<1> HIDE DEF t
<1>3. /\ q \o t \in Seq(SizeMessages) /\ Len(q \o t) = Len(q) + 1
      /\ \A i \in 1 .. Len(q) + 1 : (q \o t)[i] = IF i <= Len(q) THEN q[i] ELSE t[i - Len(q)]
  BY <1>2, ConcatProperties
<1>4. Len(q) \in Nat
  OBVIOUS
<1>5. (\A k \in 1 .. Len(q) : (q \o t)[k] = q[k]) /\ (q \o t)[Len(q) + 1] = m
  BY <1>2, <1>3, <1>4
<1> QED BY <1>3, <1>5 DEF t

LEMMA PostSizesStep ==
  ASSUME IInv, NEW r \in Ranks, PostSizes(r)
  PROVE  /\ IInv' /\ OnlyMoves(r)
         /\ ExchangesDone(r)' = ExchangesDone(r) /\ Stopped(r)' = Stopped(r)
<1>1. Static /\ UNCHANGED optVars /\ opts' = opts
  BY DEF Static, PostSizes, args, optVars
<1>2. ControlAt(r) /\ TypeInv
  BY DEF IInv
<1> DEFINE p == CASE pc[r] = "rows" -> "rowsWait" [] pc[r] = "chars" -> "charsWait"
                  [] pc[r] = "compress" -> "compressWait"
           m(d) == [of |-> Exchange(r), n |-> SizeTo(r, d)]
<1>3. /\ pc[r] \in {"rows", "chars", "compress"} /\ pc' = [pc EXCEPT ![r] = p]
      /\ cur' = cur /\ chan' = chan /\ posted' = posted /\ recvOff' = recvOff /\ compOff' = compOff
  BY DEF PostSizes
<1>4. sizeMsgs' = [sizeMsgs EXCEPT ![r] = [d \in Ranks |-> sizeMsgs[r][d] \o <<m(d)>>]]
  BY DEF PostSizes, SizeMsg
<1>5. cur[r] \in Buffers /\ (pc[r] # "compress" => cur[r] = Sizes)
  BY <1>2, <1>3 DEF ControlAt, Before, TypeInv
<1>6. pc'[r] = p /\ cur'[r] = cur[r] /\ p \in PCs
  BY <1>2, <1>3 DEF TypeInv, PCs, Before
<1>7. /\ Exchange(r) \in Exchanges
      /\ Exchange(r) \in {"rows", "chars", "compress"} \X Buffers
  BY <1>2, <1>3, <1>5 DEF Exchange, Exchanges, ControlAt
<1>8. \A d : SizeTo(r, d) = SizeIn(Exchange(r), r, d)
  BY <1>3 DEF SizeTo, SizeIn, Exchange
<1>9. ASSUME NEW d \in Ranks
      PROVE  m(d) \in SizeMessages
  <2>1. SizeTo(r, d) \in Nat
    <3>1. /\ Len(Parcel(r, Fixed, d)) \in Nat /\ Len(Parcel(r, Chars, d)) \in Nat
          /\ Len(CompressedParcel(r, cur[r], d)) \in Nat
      BY <1>2, <1>5, ParcelFacts, BufferNumbers DEF TypeInv
    <3> QED BY <1>3, <3>1 DEF SizeTo
  <2> QED BY <1>7, <2>1 DEF SizeMessages
<1>10. Order(Exchange(r)) = ExchangesSent(r) + 1
  <2>1. CASE pc[r] = "rows"
    BY <2>1 DEF Order, Exchange, ExchangesSent, Before
  <2>2. CASE pc[r] = "chars"
    BY <2>2 DEF Order, Exchange, ExchangesSent, Before
  <2>3. CASE pc[r] = "compress"
    <3>1. Compressed(cur[r])
      BY <1>2, <2>3 DEF ControlAt
    <3>2. Count(cur[r]) = Count(cur[r] - 1) + 1 /\ Count(cur[r] - 1) \in Int
      BY <1>5, <3>1, CountFacts
    <3> QED BY <2>3, <3>2 DEF Order, Exchange, ExchangesSent
  <2> QED BY <1>3, <2>1, <2>2, <2>3
<1>11. Made' = Made /\ \A b : (Compressed(b)' <=> Compressed(b)) /\ Count(b)' = Count(b)
  BY <1>1, Frozen
<1>12. ExchangesSent(r)' = ExchangesSent(r) + 1
  <2>1. CASE pc[r] = "rows"
    BY <1>6, <2>1 DEF ExchangesSent
  <2>2. CASE pc[r] = "chars"
    BY <1>6, <2>2 DEF ExchangesSent
  <2>3. CASE pc[r] = "compress"
    <3>1. Order(Exchange(r)) = 2 + Count(cur[r])
      BY <2>3 DEF Order, Exchange
    <3>2. ExchangesSent(r)' = 2 + Count(cur[r])
      BY <1>6, <1>11, <2>3 DEF ExchangesSent
    <3> QED BY <1>10, <3>1, <3>2
  <2> QED BY <1>3, <2>1, <2>2, <2>3
<1>13. /\ ExchangesDone(r)' = ExchangesDone(r) /\ Launched(r)' = Launched(r)
       /\ Stopped(r)' = Stopped(r)
  BY <1>1, <1>3, <1>6, <1>11 DEF ExchangesDone, Launched, Stopped, Before, Static
<1>14. ASSUME NEW q \in Ranks
       PROVE  /\ q # r => pc'[q] = pc[q] /\ cur'[q] = cur[q] /\ SameCounters(q)
              /\ ExchangesDone(q)' = ExchangesDone(q) /\ Launched(q)' = Launched(q)
              /\ Stopped(q)' = Stopped(q)
  <2>1. q # r => pc'[q] = pc[q] /\ cur'[q] = cur[q]
    BY <1>2, <1>3 DEF TypeInv
  <2> QED BY <1>1, <1>13, <2>1, KeptCounters DEF SameCounters
<1>15. ASSUME NEW q \in Ranks
       PROVE  ControlAt(q)' /\ OffsetsAt(q)'
  <2>1. OffsetsAt(q)'
    BY <1>1, <1>3, <1>14, KeptOffsets DEF IInv
  <2>2. CASE q # r
    BY <1>1, <1>3, <1>14, <2>1, <2>2, KeptControl DEF IInv
  <2>3. CASE q = r
    BY <1>1, <1>2, <1>3, <1>6, <1>11, <1>13, <2>1, <2>3 DEF ControlAt, Before
  <2> QED BY <2>2, <2>3
<1>16. sizeMsgs' \in [Ranks -> [Ranks -> Seq(SizeMessages)]]
  BY <1>2, <1>4, <1>9, AppendSize DEF TypeInv
<1>17. TypeInv'
  <2>1. Messages' = Messages /\ SizeMessages' = SizeMessages
    BY <1>1, Frozen DEF SizeMessages
  <2> QED BY <1>1, <1>2, <1>3, <1>6, <1>16, <2>1 DEF TypeInv, Static
<1>18. ASSUME NEW s \in Ranks, NEW d \in Ranks
       PROVE  SizesBetween(s, d)' /\ DataBetween(s, d)'
  <2>1. DataBetween(s, d)'
    BY <1>1, <1>3, <1>14, KeptData DEF IInv
  <2>2. CASE s # r
    <3>1. sizeMsgs'[s][d] = sizeMsgs[s][d]
      BY <1>2, <1>4, <2>2 DEF TypeInv
    <3> QED BY <1>1, <1>14, <2>1, <2>2, <3>1, KeptSizes DEF IInv, SameCounters
  <2>3. CASE s = r
    <3> DEFINE o == sizeMsgs[r][d]
               n == sizeMsgs'[r][d]
    <3>1. n = o \o <<m(d)>> /\ o \in Seq(SizeMessages)
      BY <1>2, <1>4 DEF TypeInv
    <3>2. Len(n) = Len(o) + 1 /\ (\A k \in 1 .. Len(o) : n[k] = o[k]) /\ n[Len(o) + 1] = m(d)
      BY <1>9, <3>1, AppendSize
    <3>3. SizesBetween(r, d)
      BY DEF IInv
    <3>4. ExchangesSent(r) \in Int /\ ExchangesDone(d) \in Int /\ Len(o) \in Nat
      BY <1>2, <3>1, CounterTypes
    <3>5. ExchangesDone(d)' = ExchangesDone(d)
      BY <1>14
    <3>6. /\ \A e : Order(e)' = Order(e) /\ SizeIn(e, r, d)' = SizeIn(e, r, d)
          /\ Exchanges' = Exchanges
      BY <1>1, Frozen
    <3> HIDE DEF n, o, m
    <3>7. ASSUME NEW k \in 1 .. Len(n)
          PROVE  /\ n[k].of \in Exchanges /\ Order(n[k].of) = ExchangesDone(d) + k
                 /\ n[k].n = SizeIn(n[k].of, r, d)
      <4>1. CASE k \in 1 .. Len(o)
        BY <3>2, <3>3, <4>1 DEF SizesBetween, o
      <4>2. CASE k = Len(o) + 1
        <5>1. n[k].of = Exchange(r) /\ n[k].n = SizeTo(r, d)
          BY <3>2, <4>2 DEF m
        <5>2. Len(o) = ExchangesSent(r) - ExchangesDone(d)
          BY <3>3 DEF SizesBetween, o
        <5> QED BY <1>7, <1>8, <1>10, <3>4, <4>2, <5>1, <5>2
      <4> QED BY <3>2, <3>4, <4>1, <4>2
    <3>8. Len(n) = ExchangesSent(r)' - ExchangesDone(d)
      BY <1>12, <3>2, <3>3, <3>4 DEF SizesBetween, o
    <3>9. SizesBetween(r, d)'
      BY <3>5, <3>6, <3>7, <3>8 DEF SizesBetween, n
    <3> QED BY <2>1, <2>3, <3>9
  <2> QED BY <2>2, <2>3
<1>19. OptInv'
  BY <1>1, OptInvKept DEF IInv
<1> QED BY <1>1, <1>13, <1>14, <1>15, <1>17, <1>18, <1>19 DEF IInv, OnlyMoves
\* The exchanges follow one another: their numbers tell them apart.
LEMMA OrderInjective ==
  ASSUME NEW e \in Exchanges, NEW f \in Exchanges, Order(e) = Order(f)
  PROVE  e = f
<1>1. ASSUME NEW x \in Exchanges
      PROVE  \/ x = <<"rows", Sizes>> /\ Order(x) = 1
             \/ x = <<"chars", Sizes>> /\ Order(x) = 2
             \/ \E b \in Buffers : Compressed(b) /\ x = <<"compress", b>> /\ Order(x) = 2 + Count(b)
  BY DEF Exchanges, Order
<1>2. \A b \in Buffers : Compressed(b) => Count(b) \in 1 .. 3
  BY CountFacts
<1>3. ASSUME NEW b \in Buffers, NEW c \in Buffers, Compressed(b), Compressed(c), Count(b) = Count(c)
      PROVE  b = c
  <2>1. ~ (b < c) /\ ~ (c < b)
    BY <1>3, CountFacts
  <2> QED BY <2>1, BufferNumbers
<1>4. \/ e = <<"rows", Sizes>> /\ Order(e) = 1
      \/ e = <<"chars", Sizes>> /\ Order(e) = 2
      \/ \E b \in Buffers : Compressed(b) /\ e = <<"compress", b>> /\ Order(e) = 2 + Count(b)
  BY <1>1
<1>5. \/ f = <<"rows", Sizes>> /\ Order(f) = 1
      \/ f = <<"chars", Sizes>> /\ Order(f) = 2
      \/ \E b \in Buffers : Compressed(b) /\ f = <<"compress", b>> /\ Order(f) = 2 + Count(b)
  BY <1>1
<1>6. ASSUME NEW x \in Exchanges, \E b \in Buffers : Compressed(b) /\ x = <<"compress", b>> /\ Order(x) = 2 + Count(b)
      PROVE  Order(x) # 1 /\ Order(x) # 2
  <2>1. PICK b \in Buffers : Compressed(b) /\ x = <<"compress", b>> /\ Order(x) = 2 + Count(b)
    BY <1>6
  <2>2. Count(b) \in 1 .. 3
    BY <1>2, <2>1
  <2> QED BY <2>1, <2>2
<1>7. CASE Order(e) = 1 \/ Order(e) = 2
  <2>1. \/ e = <<"rows", Sizes>> /\ Order(e) = 1
        \/ e = <<"chars", Sizes>> /\ Order(e) = 2
    BY <1>4, <1>6, <1>7
  <2>2. \/ f = <<"rows", Sizes>> /\ Order(f) = 1
        \/ f = <<"chars", Sizes>> /\ Order(f) = 2
    BY <1>5, <1>6, <1>7
  <2> QED BY <2>1, <2>2
<1>8. CASE ~ (Order(e) = 1 \/ Order(e) = 2)
  <2>1. PICK b \in Buffers : Compressed(b) /\ e = <<"compress", b>> /\ Order(e) = 2 + Count(b)
    BY <1>4, <1>8
  <2>2. PICK c \in Buffers : Compressed(c) /\ f = <<"compress", c>> /\ Order(f) = 2 + Count(c)
    BY <1>5, <1>8
  <2>3. Count(b) \in 1 .. 3 /\ Count(c) \in 1 .. 3
    BY <1>2, <2>1, <2>2
  <2>4. Count(b) = Count(c)
    <3>1. 2 + Count(b) = 2 + Count(c)
      BY <2>1, <2>2, Zenon
    <3> QED BY <2>3, <3>1
  <2>5. b = c
    BY <1>3, <2>1, <2>2, <2>4
  <2> QED BY <2>1, <2>2, <2>5
<1> QED BY <1>7, <1>8

\* The exchange whose sizes a rank waits for.
Awaited(r) == <<CASE pc[r] = "rowsWait" -> "rows"
                  [] pc[r] = "charsWait" -> "chars"
                  [] pc[r] = "compressWait" -> "compress", cur[r]>>

LEMMA AwaitedNext ==
  ASSUME TypeInv, NEW r \in Ranks, ControlAt(r), Waiting(r)
  PROVE  Awaited(r) \in Exchanges /\ Order(Awaited(r)) = ExchangesDone(r) + 1
<1>1. cur[r] \in Buffers
  BY DEF TypeInv
<1>2. CASE pc[r] = "rowsWait"
  BY <1>2 DEF Awaited, Exchanges, Order, ExchangesDone, ControlAt, Before
<1>3. CASE pc[r] = "charsWait"
  BY <1>3 DEF Awaited, Exchanges, Order, ExchangesDone, ControlAt, Before
<1>4. CASE pc[r] = "compressWait"
  <2>1. Compressed(cur[r])
    BY <1>4 DEF ControlAt
  <2>2. Count(cur[r]) = Count(cur[r] - 1) + 1 /\ Count(cur[r] - 1) \in Int
    BY <1>1, <2>1, CountFacts
  <2> QED BY <1>1, <1>4, <2>1, <2>2 DEF Awaited, Exchanges, Order, ExchangesDone
<1> QED BY <1>2, <1>3, <1>4 DEF Waiting

\* The first message from any rank belongs to that exchange.
LEMMA HeadIsAwaited ==
  ASSUME IInv, NEW r \in Ranks, Waiting(r), NEW s \in Ranks, sizeMsgs[s][r] # <<>>
  PROVE  /\ Head(sizeMsgs[s][r]).of = Awaited(r)
         /\ Head(sizeMsgs[s][r]).n = SizeIn(Awaited(r), s, r)
<1> DEFINE q == sizeMsgs[s][r]
<1>1. SizesBetween(s, r) /\ ControlAt(r) /\ TypeInv
  BY DEF IInv
<1>2. q \in Seq(SizeMessages) /\ q # <<>>
  BY <1>1 DEF TypeInv
<1>3. 1 \in 1 .. Len(q) /\ Head(q) = q[1]
  <2> HIDE DEF q
  <2> QED BY <1>2
<1>4. /\ q[1].of \in Exchanges /\ Order(q[1].of) = ExchangesDone(r) + 1
      /\ q[1].n = SizeIn(q[1].of, s, r)
  BY <1>1, <1>3 DEF SizesBetween
<1>5. q[1].of = Awaited(r)
  BY <1>1, <1>4, AwaitedNext, OrderInjective
<1> QED BY <1>3, <1>4, <1>5

LEMMA TailSize ==
  ASSUME NEW S, NEW q \in Seq(S), q # <<>>
  PROVE  Tail(q) \in Seq(S) /\ Len(Tail(q)) = Len(q) - 1 /\ \A k \in 1 .. Len(q) - 1 : Tail(q)[k] = q[k + 1]
BY HeadTailProperties

LEMMA TakeSizesStep ==
  ASSUME IInv, NEW r \in Ranks, TakeSizes(r), NEW c \in Buffers, c = cur[r]
  PROVE  /\ IInv' /\ OnlyMoves(r)
         /\ ExchangesDone(r)' = ExchangesDone(r) + 1 /\ Stopped(r)' = Stopped(r)
<1>1. Static /\ UNCHANGED optVars /\ opts' = opts
  BY DEF Static, TakeSizes, args, optVars
<1>2. ControlAt(r) /\ OffsetsAt(r) /\ TypeInv /\ Waiting(r) /\ \A s \in Ranks : sizeMsgs[s][r] # <<>>
  BY DEF IInv, TakeSizes, SizesHere
<1> DEFINE p == CASE pc[r] = "rowsWait" -> "chars" [] pc[r] = "charsWait" -> "allocate"
                  [] pc[r] = "compressWait" -> "launch"
           count == [s \in Ranks |-> Head(sizeMsgs[s][r]).n]
           got == PartialSums(count)
<1>3. /\ pc[r] \in {"rowsWait", "charsWait", "compressWait"} /\ pc' = [pc EXCEPT ![r] = p]
      /\ cur' = cur /\ chan' = chan /\ posted' = posted
  BY DEF TakeSizes, Waiting
<1>4. sizeMsgs' = [s \in Ranks |-> [sizeMsgs[s] EXCEPT ![r] = Tail(@)]]
  BY DEF TakeSizes
<1>5. /\ pc[r] = "rowsWait" => /\ recvOff' = [recvOff EXCEPT ![r][Fixed] = got, ![r][Sizes] = got]
                               /\ compOff' = compOff
      /\ pc[r] = "charsWait" => recvOff' = [recvOff EXCEPT ![r][Chars] = got] /\ compOff' = compOff
      /\ pc[r] = "compressWait" => recvOff' = recvOff /\ compOff' = [compOff EXCEPT ![r][c] = got]
  BY DEF TakeSizes
<1>6. c \in Buffers /\ (pc[r] # "compressWait" => c = Sizes) /\ (pc[r] = "compressWait" => Compressed(c))
  BY <1>2, <1>3 DEF ControlAt, Before, TypeInv
<1>7. pc'[r] = p /\ cur'[r] = c /\ p \in PCs
  BY <1>2, <1>3 DEF TypeInv, PCs, Before
<1>8. \A s \in Ranks : Head(sizeMsgs[s][r]).n = SizeIn(Awaited(r), s, r)
  BY <1>2, HeadIsAwaited
<1>9. /\ pc[r] = "rowsWait" => count = RowCounts(r, Fixed)
      /\ pc[r] = "charsWait" => count = RowCounts(r, Chars)
      /\ pc[r] = "compressWait" => count = ByteCounts(r, c)
  BY <1>8 DEF SizeIn, Awaited, RowCounts, ByteCounts
<1> HIDE DEF count
<1>10. /\ Made' = Made /\ \A b : (Compressed(b)' <=> Compressed(b)) /\ Count(b)' = Count(b)
       /\ \A b : RowCounts(r, b)' = RowCounts(r, b) /\ ByteCounts(r, b)' = ByteCounts(r, b)
  BY <1>1, Frozen
<1>11. /\ pc[r] = "compressWait" => Count(c) = Count(c - 1) + 1 /\ Count(c - 1) \in 0 .. 3
       /\ \A b \in Buffers : Count(b) \in 0 .. 3 /\ (Compressed(b) => Count(b) >= 1)
  BY <1>6, CountFacts
<1>12. /\ ExchangesDone(r)' = ExchangesDone(r) + 1 /\ ExchangesSent(r)' = ExchangesSent(r)
  <2>1. CASE pc[r] = "rowsWait"
    BY <1>7, <2>1 DEF ExchangesDone, ExchangesSent
  <2>2. CASE pc[r] = "charsWait"
    BY <1>7, <2>2 DEF ExchangesDone, ExchangesSent
  <2>3. CASE pc[r] = "compressWait"
    <3>1. ExchangesDone(r) = 2 + Count(c - 1) /\ ExchangesSent(r) = 2 + Count(c)
      BY <2>3 DEF ExchangesDone, ExchangesSent
    <3>2. ExchangesDone(r)' = 2 + Count(c) /\ ExchangesSent(r)' = 2 + Count(c)
      BY <1>7, <1>10, <2>3 DEF ExchangesDone, ExchangesSent
    <3> QED BY <1>11, <2>3, <3>1, <3>2
  <2> QED BY <1>3, <2>1, <2>2, <2>3
<1>13. Launched(r)' = Launched(r) /\ Stopped(r)' = Stopped(r)
  BY <1>1, <1>3, <1>7 DEF Launched, Stopped, Before, Static
<1>14. ASSUME NEW q \in Ranks
       PROVE  /\ q # r => pc'[q] = pc[q] /\ cur'[q] = cur[q] /\ SameCounters(q)
              /\ q # r => recvOff'[q] = recvOff[q] /\ compOff'[q] = compOff[q]
              /\ ExchangesSent(q)' = ExchangesSent(q) /\ Launched(q)' = Launched(q)
              /\ Stopped(q)' = Stopped(q)
  <2>1. q # r => pc'[q] = pc[q] /\ cur'[q] = cur[q]
    BY <1>2, <1>3 DEF TypeInv
  <2>2. q # r => recvOff'[q] = recvOff[q] /\ compOff'[q] = compOff[q]
    BY <1>2, <1>3, <1>5 DEF TypeInv
  <2> QED BY <1>1, <1>12, <1>13, <2>1, <2>2, KeptCounters DEF SameCounters
<1>15. OffsetsAt(r)'
  <2>1. CASE pc[r] = "rowsWait"
    <3>1. ExchangesDone(r)' = 1
      BY <1>7, <2>1 DEF ExchangesDone
    <3>2. recvOff'[r][Sizes] = got /\ recvOff'[r][Fixed] = got
      BY <1>2, <1>5, <2>1, BufferNumbers DEF TypeInv
    <3>3. got = PartialSums(RowCounts(r, Fixed))'
      BY <1>9, <1>10, <2>1
    <3> QED BY <1>10, <1>11, <3>1, <3>2, <3>3 DEF OffsetsAt
  <2>2. CASE pc[r] = "charsWait"
    <3>1. ExchangesDone(r)' = 2 /\ ExchangesDone(r) = 1
      BY <1>7, <2>2 DEF ExchangesDone
    <3>2. /\ recvOff'[r][Chars] = got /\ recvOff'[r][Sizes] = recvOff[r][Sizes]
          /\ recvOff'[r][Fixed] = recvOff[r][Fixed]
      BY <1>2, <1>5, <2>2, BufferNumbers DEF TypeInv
    <3>3. got = PartialSums(RowCounts(r, Chars))'
      BY <1>9, <1>10, <2>2
    <3>4. \A b \in {Sizes, Fixed} : recvOff[r][b] = PartialSums(RowCounts(r, Fixed))'
      BY <1>2, <1>10, <3>1 DEF OffsetsAt
    <3> QED BY <1>10, <1>11, <3>1, <3>2, <3>3, <3>4 DEF OffsetsAt
  <2>3. CASE pc[r] = "compressWait"
    <3>1. ExchangesDone(r) = 2 + Count(c - 1) /\ ExchangesDone(r)' = 2 + Count(c)
      BY <1>7, <1>10, <2>3 DEF ExchangesDone
    <3>2. recvOff' = recvOff /\ compOff'[r][c] = got
      BY <1>2, <1>5, <1>6, <2>3 DEF TypeInv
    <3>3. \A b \in Buffers : b # c => compOff'[r][b] = compOff[r][b]
      BY <1>2, <1>5, <1>6, <2>3 DEF TypeInv
    <3>4. got = PartialSums(ByteCounts(r, c))'
      BY <1>9, <1>10, <2>3
    <3>5. /\ \A b \in {Sizes, Fixed} : recvOff[r][b] = PartialSums(RowCounts(r, Fixed))'
          /\ recvOff[r][Chars] = PartialSums(RowCounts(r, Chars))'
      BY <1>2, <1>10, <1>11, <2>3, <3>1 DEF OffsetsAt
    <3>6. ASSUME NEW b \in Buffers, Compressed(b), 2 + Count(c) >= 2 + Count(b)
          PROVE  compOff'[r][b] = PartialSums(ByteCounts(r, b))'
      <4>1. CASE b = c
        BY <3>2, <3>4, <4>1
      <4>2. CASE b < c
        <5>1. Count(b) <= Count(c - 1) /\ Count(b) \in Int
          BY <1>6, <1>11, <4>2, CountFacts
        <5>2. ExchangesDone(r) >= 2 + Count(b)
          BY <1>11, <2>3, <3>1, <5>1
        <5>3. compOff[r][b] = PartialSums(ByteCounts(r, b))
          BY <1>2, <3>6, <5>2 DEF OffsetsAt
        <5> QED BY <1>10, <3>3, <4>2, <5>3, BufferNumbers
      <4>3. CASE c < b
        <5>1. Count(c) <= Count(b - 1) /\ Count(b) = Count(b - 1) + 1 /\ Count(b - 1) \in Int
          BY <1>6, <3>6, <4>3, CountFacts
        <5> QED BY <1>11, <1>6, <3>6, <5>1
      <4> QED BY <1>6, <4>1, <4>2, <4>3, BufferNumbers
    <3> QED BY <1>10, <3>1, <3>2, <3>5, <3>6 DEF OffsetsAt
  <2> QED BY <1>3, <2>1, <2>2, <2>3
<1>16. ASSUME NEW q \in Ranks
       PROVE  ControlAt(q)' /\ OffsetsAt(q)'
  <2>1. CASE q # r
    BY <1>1, <1>3, <1>14, <2>1, KeptControl, KeptOffsets DEF IInv, SameCounters
  <2>2. ControlAt(r)'
    BY <1>1, <1>2, <1>3, <1>6, <1>7, <1>10, <1>13 DEF ControlAt, Before
  <2> QED BY <1>15, <2>1, <2>2
<1>17. sizeMsgs' \in [Ranks -> [Ranks -> Seq(SizeMessages)]]
  <2>1. \A s \in Ranks : Tail(sizeMsgs[s][r]) \in Seq(SizeMessages)
    BY <1>2, TailSize DEF TypeInv
  <2> QED BY <1>2, <1>4, <2>1 DEF TypeInv
<1>18. /\ recvOff' \in [Ranks -> [Buffers -> [0 .. Size -> Nat]]]
       /\ compOff' \in [Ranks -> [Buffers -> [0 .. Size -> Nat]]]
  <2>1. got \in [0 .. Size -> Nat]
    <3>1. \A s \in Ranks : Head(sizeMsgs[s][r]).n \in Nat
      <4>1. \A s \in Ranks : sizeMsgs[s][r] \in Seq(SizeMessages) /\ sizeMsgs[s][r] # <<>>
        BY <1>2 DEF TypeInv
      <4>2. \A s \in Ranks : Head(sizeMsgs[s][r]) \in SizeMessages
        BY <4>1, HeadTailProperties
      <4> QED BY <4>2 DEF SizeMessages
    <3>2. count \in [Ranks -> Nat]
      BY <3>1 DEF count
    <3> QED BY <3>2, PartialSumsFacts
  <2>2. Sizes \in Buffers /\ Chars \in Buffers /\ Fixed \in Buffers
    BY BufferNumbers
  <2> HIDE DEF got
  <2> DEFINE T == [0 .. Size -> Nat]
  <2>3. recvOff \in [Ranks -> [Buffers -> T]] /\ compOff \in [Ranks -> [Buffers -> T]] /\ got \in T
    BY <1>2, <2>1 DEF TypeInv
  <2> HIDE DEF T
  <2>4. CASE pc[r] = "rowsWait"
    <3> DEFINE x == [recvOff[r] EXCEPT ![Fixed] = got, ![Sizes] = got]
    <3>1. x \in [Buffers -> T]
      BY <2>3, <2>2
    <3>2. recvOff' = [recvOff EXCEPT ![r] = x] /\ compOff' = compOff
      BY <1>5, <2>3, <2>4
    <3> HIDE DEF x
    <3> QED BY <2>3, <3>1, <3>2 DEF T
  <2>5. CASE pc[r] = "charsWait"
    <3> DEFINE x == [recvOff[r] EXCEPT ![Chars] = got]
    <3>1. x \in [Buffers -> T]
      BY <2>3, <2>2
    <3>2. recvOff' = [recvOff EXCEPT ![r] = x] /\ compOff' = compOff
      BY <1>5, <2>3, <2>5
    <3> HIDE DEF x
    <3> QED BY <2>3, <3>1, <3>2 DEF T
  <2>6. CASE pc[r] = "compressWait"
    <3> DEFINE x == [compOff[r] EXCEPT ![c] = got]
    <3>1. x \in [Buffers -> T]
      BY <2>3
    <3>2. compOff' = [compOff EXCEPT ![r] = x] /\ recvOff' = recvOff
      BY <1>5, <2>3, <2>6
    <3> HIDE DEF x
    <3> QED BY <2>3, <3>1, <3>2 DEF T
  <2> QED BY <1>3, <2>4, <2>5, <2>6
<1>19. TypeInv'
  <2>1. Messages' = Messages /\ SizeMessages' = SizeMessages
    BY <1>1, Frozen DEF SizeMessages
  <2> QED BY <1>1, <1>2, <1>3, <1>7, <1>17, <1>18, <2>1 DEF TypeInv, Static
<1>20. ASSUME NEW s \in Ranks, NEW d \in Ranks
       PROVE  SizesBetween(s, d)' /\ DataBetween(s, d)'
  <2>1. DataBetween(s, d)'
    BY <1>1, <1>3, <1>14, KeptData DEF IInv
  <2>2. CASE d # r
    <3>1. sizeMsgs'[s][d] = sizeMsgs[s][d]
      BY <1>2, <1>4, <2>2 DEF TypeInv
    <3> QED BY <1>1, <1>14, <2>1, <2>2, <3>1, KeptSizes DEF IInv, SameCounters
  <2>3. CASE d = r
    <3> DEFINE o == sizeMsgs[s][r]
               n == sizeMsgs'[s][r]
    <3>1. n = Tail(o) /\ o \in Seq(SizeMessages) /\ o # <<>>
      BY <1>2, <1>4 DEF TypeInv
    <3>2. Len(n) = Len(o) - 1 /\ \A k \in 1 .. Len(o) - 1 : n[k] = o[k + 1]
      BY <3>1, TailSize
    <3>3. SizesBetween(s, r)
      BY DEF IInv
    <3>4. ExchangesSent(s) \in Int /\ ExchangesDone(r) \in Int /\ Len(o) \in Nat
      BY <1>2, <3>1, CounterTypes
    <3>5. /\ \A e : Order(e)' = Order(e) /\ SizeIn(e, s, r)' = SizeIn(e, s, r)
          /\ Exchanges' = Exchanges
      BY <1>1, Frozen
    <3> HIDE DEF n, o
    <3>6. ASSUME NEW k \in 1 .. Len(n)
          PROVE  /\ n[k].of \in Exchanges /\ Order(n[k].of) = ExchangesDone(r) + 1 + k
                 /\ n[k].n = SizeIn(n[k].of, s, r)
      <4>1. n[k] = o[k + 1] /\ k + 1 \in 1 .. Len(o)
        BY <3>2, <3>4
      <4> QED BY <3>3, <3>4, <4>1 DEF SizesBetween, o
    <3>7. Len(n) = ExchangesSent(s)' - (ExchangesDone(r) + 1)
      BY <1>14, <3>2, <3>3, <3>4 DEF SizesBetween, o
    <3>8. SizesBetween(s, r)'
      BY <1>12, <3>5, <3>6, <3>7 DEF SizesBetween, n
    <3> QED BY <2>1, <2>3, <3>8
  <2> QED BY <2>2, <2>3
<1>21. OptInv'
  BY <1>1, OptInvKept DEF IInv
<1> QED BY <1>1, <1>12, <1>13, <1>14, <1>16, <1>19, <1>20, <1>21 DEF IInv, OnlyMoves
\* Where a rank is after buffer c: at the next one, or through with the loop.
LEMMA AfterBufferFacts ==
  ASSUME NEW r \in Ranks, opts[r] = Made, NEW c \in Buffers
  PROVE  /\ c < Fixed => c + 1 \in Buffers
         /\ c < Fixed => AfterBuffer(r, c) = IF Compressed(c + 1) THEN "compress" ELSE "launch"
         /\ ~ (c < Fixed) => c = Fixed /\ AfterBuffer(r, c) = "postprocess"
         /\ (c < Fixed /\ ~ Compressed(c + 1)) => Count(c + 1) = Count(c)
         /\ (c + 1) - 1 = c
<1>1. c < Fixed => c + 1 \in Buffers
  BY BufferNumbers
<1>2. c < Fixed => (IsCompressed(r, c + 1) <=> Compressed(c + 1))
  BY <1>1, SameCompression
<1>3. (c < Fixed /\ ~ Compressed(c + 1)) => Count(c + 1) = Count(c)
  <2>1. SUFFICES ASSUME c < Fixed, ~ Compressed(c + 1) PROVE Count(c + 1) = Count(c)
    OBVIOUS
  <2>2. (c + 1) - 1 = c
    BY BufferNumbers
  <2>3. Count(c + 1) = Count((c + 1) - 1) + 0 /\ Count((c + 1) - 1) \in 0 .. 3
    BY <1>1, <2>1, CountFacts
  <2> QED BY <2>2, <2>3
<1> QED BY <1>1, <1>2, <1>3, BufferNumbers DEF AfterBuffer, AtBuffer

LEMMA LaunchStep ==
  ASSUME IInv, NEW r \in Ranks, Launch(r), NEW c \in Buffers, c = cur[r]
  PROVE  /\ IInv' /\ OnlyMoves(r)
         /\ ExchangesDone(r)' = ExchangesDone(r) /\ Stopped(r)' = Stopped(r)
<1>1. Static /\ UNCHANGED optVars /\ opts' = opts
  BY DEF Static, Launch, args, optVars
<1>2. ControlAt(r) /\ TypeInv
  BY DEF IInv
<1> DEFINE more == options.byBatch /\ c < Fixed
           m(d) == [buf |-> c, val |-> Payload(r, c, d)]
<1>3. /\ pc[r] = "launch"
      /\ more => pc' = [pc EXCEPT ![r] = AfterBuffer(r, c)] /\ cur' = [cur EXCEPT ![r] = c + 1]
      /\ ~ more => pc' = [pc EXCEPT ![r] = "stop"] /\ cur' = cur
      /\ sizeMsgs' = sizeMsgs /\ recvOff' = recvOff /\ compOff' = compOff
      /\ posted' = [posted EXCEPT ![r] = Append(posted[r], c)]
  BY DEF Launch
<1>4. opts[r] = Made
  BY <1>2, <1>3 DEF ControlAt
<1>5. IsCompressed(r, c) <=> Compressed(c)
  BY <1>4, SameCompression
<1>6. chan' = [chan EXCEPT ![r] = [d \in Ranks |->
                 IF d \in Peers(r) THEN Append(chan[r][d], m(d)) ELSE chan[r][d]]]
  BY <1>5 DEF Launch, Payload
<1>7. \A d \in Ranks : m(d) \in Messages
  BY DEF Messages
<1>8. /\ more => /\ c + 1 \in Buffers /\ AfterBuffer(r, c) = IF Compressed(c + 1) THEN "compress" ELSE "launch"
                 /\ (~ Compressed(c + 1) => Count(c + 1) = Count(c)) /\ (c + 1) - 1 = c
      /\ ~ more /\ options.byBatch => c = Fixed
  BY <1>4, AfterBufferFacts
<1> HIDE DEF more, m
<1>9. /\ more => pc'[r] = (IF Compressed(c + 1) THEN "compress" ELSE "launch") /\ cur'[r] = c + 1
      /\ ~ more => pc'[r] = "stop" /\ cur'[r] = c
  BY <1>2, <1>3, <1>8 DEF TypeInv
<1>10. Made' = Made /\ \A b : (Compressed(b)' <=> Compressed(b)) /\ Count(b)' = Count(b)
  BY <1>1, Frozen
<1>11. ExchangesSent(r) = 2 + Count(c) /\ ExchangesDone(r) = 2 + Count(c) /\ Launched(r) = c - 1
       /\ Stopped(r) = IF options.byBatch THEN 0 ELSE c - 1
  BY <1>3 DEF ExchangesSent, ExchangesDone, Launched, Stopped, Before
<1>12. ExchangesSent(r)' = 2 + Count(c) /\ ExchangesDone(r)' = 2 + Count(c)
  <2>1. CASE ~ more
    BY <1>9, <1>10, <2>1 DEF ExchangesSent, ExchangesDone
  <2>2. CASE more /\ Compressed(c + 1)
    <3>1. pc'[r] = "compress" /\ cur'[r] - 1 = c
      BY <1>8, <1>9, <2>2
    <3> QED BY <1>10, <3>1 DEF ExchangesSent, ExchangesDone
  <2>3. CASE more /\ ~ Compressed(c + 1)
    <3>1. pc'[r] = "launch" /\ Count(cur'[r]) = Count(c)
      BY <1>8, <1>9, <2>3
    <3> QED BY <1>10, <3>1 DEF ExchangesSent, ExchangesDone
  <2> QED BY <2>1, <2>2, <2>3
<1>13. Launched(r)' = Launched(r) + 1 /\ Stopped(r)' = Stopped(r)
  <2>1. c \in 1 .. 3 /\ options' = options
    BY <1>1, BufferNumbers DEF Static
  <2>2. CASE ~ more
    BY <1>9, <1>11, <2>1, <2>2 DEF Launched, Stopped, Before
  <2>3. CASE more
    <3>1. pc'[r] \in {"compress", "launch"} /\ cur'[r] = c + 1 /\ options.byBatch
      BY <1>9, <2>3 DEF more
    <3> QED BY <1>11, <2>1, <3>1 DEF Launched, Stopped, Before
  <2> QED BY <2>2, <2>3
<1>14. ASSUME NEW q \in Ranks
       PROVE  /\ q # r => pc'[q] = pc[q] /\ cur'[q] = cur[q] /\ posted'[q] = posted[q] /\ SameCounters(q)
              /\ ExchangesSent(q)' = ExchangesSent(q) /\ ExchangesDone(q)' = ExchangesDone(q)
              /\ Stopped(q)' = Stopped(q)
  <2>1. q # r => pc'[q] = pc[q] /\ cur'[q] = cur[q] /\ posted'[q] = posted[q]
    BY <1>2, <1>3 DEF TypeInv
  <2> QED BY <1>1, <1>11, <1>12, <1>13, <2>1, KeptCounters DEF SameCounters
<1>15. ControlAt(r)'
  <2>1. posted[r] \in Seq(Buffers) /\ posted'[r] = Append(posted[r], c)
    BY <1>2, <1>3 DEF TypeInv
  <2>2. Launched(r) \in Int /\ Stopped(r) \in Int
    BY <1>2, CounterTypes
  <2>3. /\ Len(posted[r]) = Launched(r) - Stopped(r)
        /\ \A k \in 1 .. Len(posted[r]) : posted[r][k] = Stopped(r) + k
    BY <1>2 DEF ControlAt
  <2>4. /\ Len(posted'[r]) = Len(posted[r]) + 1 /\ posted'[r][Len(posted[r]) + 1] = c
        /\ \A k \in 1 .. Len(posted[r]) : posted'[r][k] = posted[r][k]
    BY <2>1, AppendProperties
  <2>5. c = Launched(r) + 1
    BY <1>11, BufferNumbers
  <2>6. Len(posted'[r]) = Launched(r)' - Stopped(r)'
    BY <1>13, <2>2, <2>3, <2>4
  <2>7. ASSUME NEW k \in 1 .. Len(posted'[r])
        PROVE  posted'[r][k] = Stopped(r)' + k
    <3>1. k \in 1 .. Len(posted[r]) \/ k = Len(posted[r]) + 1
      BY <2>1, <2>4
    <3>2. CASE k \in 1 .. Len(posted[r])
      BY <1>13, <2>3, <2>4, <3>2
    <3>3. CASE k = Len(posted[r]) + 1
      BY <1>13, <2>2, <2>3, <2>4, <2>5, <3>3
    <3> QED BY <3>1, <3>2, <3>3
  <2>8. CASE ~ more
    BY <1>1, <1>4, <1>8, <1>9, <1>10, <2>6, <2>7, <2>8 DEF ControlAt, Before, Static
  <2>9. CASE more
    <3>1. opts'[r] = Made'
      BY <1>1, <1>4, <1>10
    <3>2. pc'[r] = "compress" => Compressed(cur[r])'
      <4>1. CASE Compressed(c + 1)
        BY <1>9, <1>10, <2>9, <4>1
      <4>2. CASE ~ Compressed(c + 1)
        BY <1>9, <2>9, <4>2
      <4> QED BY <4>1, <4>2
    <3>3. pc'[r] \in {"compress", "launch"}
      BY <1>9, <2>9
    <3> QED BY <2>6, <2>7, <3>1, <3>2, <3>3 DEF ControlAt, Before
  <2> QED BY <2>8, <2>9
<1>16. ASSUME NEW q \in Ranks
       PROVE  ControlAt(q)' /\ OffsetsAt(q)'
  <2>1. OffsetsAt(q)'
    BY <1>1, <1>3, <1>14, KeptOffsets DEF IInv
  <2>2. CASE q # r
    BY <1>1, <1>14, <2>1, <2>2, KeptControl DEF IInv
  <2> QED BY <1>15, <2>1, <2>2
<1>17. TypeInv'
  <2>1. Messages' = Messages /\ SizeMessages' = SizeMessages
    BY <1>1, Frozen DEF SizeMessages
  <2>2. pc' \in [Ranks -> PCs] /\ cur' \in [Ranks -> Buffers]
    <3>1. CASE ~ more
      BY <1>2, <1>3, <3>1 DEF TypeInv, PCs
    <3>2. CASE more
      <4>1. AfterBuffer(r, c) = "compress" \/ AfterBuffer(r, c) = "launch"
        BY <1>8, <3>2
      <4>2. AfterBuffer(r, c) \in PCs
        BY <4>1 DEF PCs
      <4>3. /\ pc' = [pc EXCEPT ![r] = AfterBuffer(r, c)] /\ cur' = [cur EXCEPT ![r] = c + 1]
            /\ c + 1 \in Buffers
        BY <1>3, <1>8, <3>2
      <4>4. pc \in [Ranks -> PCs] /\ cur \in [Ranks -> Buffers]
        BY <1>2 DEF TypeInv
      <4> QED BY <4>2, <4>3, <4>4
    <3> QED BY <3>1, <3>2
  <2>3. posted' \in [Ranks -> Seq(Buffers)]
    BY <1>2, <1>3 DEF TypeInv
  <2>4. chan' \in [Ranks -> [Ranks -> Seq(Messages)]]
    <3>1. \A d \in Ranks : chan[r][d] \in Seq(Messages) /\ Append(chan[r][d], m(d)) \in Seq(Messages)
      BY <1>2, <1>7, AppendProperties DEF TypeInv
    <3> QED BY <1>2, <1>6, <3>1 DEF TypeInv
  <2> QED BY <1>1, <1>2, <1>3, <2>1, <2>2, <2>3, <2>4 DEF TypeInv, Static
<1>18. ASSUME NEW s \in Ranks, NEW d \in Ranks
       PROVE  SizesBetween(s, d)' /\ DataBetween(s, d)'
  <2>1. SizesBetween(s, d)'
    BY <1>1, <1>3, <1>14, KeptSizes DEF IInv
  <2>2. CASE s # r
    <3>1. chan'[s][d] = chan[s][d]
      BY <1>2, <1>6, <2>2 DEF TypeInv
    <3> QED BY <1>1, <1>14, <2>1, <2>2, <3>1, KeptData DEF IInv, SameCounters
  <2>3. CASE s = r
    <3>1. Peers(d)' = Peers(d) /\ \A b : Payload(r, b, d)' = Payload(r, b, d)
      BY <1>1, Frozen
    <3>2. CASE r \notin Peers(d)
      BY <2>1, <2>3, <3>1, <3>2 DEF DataBetween
    <3>3. CASE r \in Peers(d)
      <4> DEFINE o == chan[r][d]
                 n == chan'[r][d]
      <4>1. d \in Peers(r)
        BY <3>3, SymmetricPeers
      <4>2. n = Append(o, m(d)) /\ o \in Seq(Messages)
        BY <1>2, <1>6, <4>1 DEF TypeInv
      <4>3. Len(n) = Len(o) + 1 /\ (\A k \in 1 .. Len(o) : n[k] = o[k]) /\ n[Len(o) + 1] = m(d)
        BY <1>7, <4>2, AppendProperties
      <4>4. DataBetween(r, d)
        BY DEF IInv
      <4>5. Launched(r) \in Int /\ Stopped(d) \in Int /\ Len(o) \in Nat
        BY <1>2, <4>2, CounterTypes
      <4>6. Stopped(d)' = Stopped(d) /\ c = Launched(r) + 1
        BY <1>11, <1>14, BufferNumbers
      <4> HIDE DEF n, o
      <4>7. Len(n) = Launched(r)' - Stopped(d)'
        BY <1>13, <3>3, <4>3, <4>4, <4>5, <4>6 DEF DataBetween, o
      <4>8. ASSUME NEW k \in 1 .. Len(n)
            PROVE  n[k].buf = Stopped(d) + k /\ n[k].val = Payload(r, n[k].buf, d)
        <5>1. CASE k \in 1 .. Len(o)
          BY <3>3, <4>3, <4>4, <5>1 DEF DataBetween, o
        <5>2. CASE k = Len(o) + 1
          <6>1. n[k].buf = c /\ n[k].val = Payload(r, c, d)
            BY <4>3, <5>2 DEF m
          <6>2. Len(o) = Launched(r) - Stopped(d)
            BY <3>3, <4>4 DEF DataBetween, o
          <6> QED BY <4>5, <4>6, <5>2, <6>1, <6>2
        <5> QED BY <4>3, <4>5, <5>1, <5>2
      <4>9. DataBetween(r, d)'
        BY <3>1, <4>6, <4>7, <4>8 DEF DataBetween, n
      <4> QED BY <2>1, <2>3, <4>9
    <3> QED BY <3>2, <3>3
  <2> QED BY <2>2, <2>3
<1>19. OptInv'
  BY <1>1, OptInvKept DEF IInv
<1> QED BY <1>1, <1>11, <1>12, <1>13, <1>14, <1>16, <1>17, <1>18, <1>19 DEF IInv, OnlyMoves
\* A channel without its first n messages.
LEMMA DropFirst ==
  ASSUME NEW S, NEW q \in Seq(S), NEW n \in Nat, n <= Len(q)
  PROVE  /\ SubSeq(q, n + 1, Len(q)) \in Seq(S) /\ Len(SubSeq(q, n + 1, Len(q))) = Len(q) - n
         /\ \A k \in 1 .. Len(q) - n : SubSeq(q, n + 1, Len(q))[k] = q[n + k]
<1>1. Len(q) \in Nat /\ \A i \in n + 1 .. Len(q) : q[i] \in S
  BY ElementOfSeq
<1> DEFINE l == Len(q)
           m == n + 1
           t == SubSeq(q, m, l)
<1>2. /\ t \in Seq(S) /\ Len(t) = (IF m <= l THEN l - m + 1 ELSE 0)
      /\ \A i \in 1 .. l - m + 1 : t[i] = q[m + i - 1]
  BY <1>1, SubSeqProperties
<1> HIDE DEF t
<1>3. Len(t) = l - n /\ \A k \in 1 .. l - n : t[k] = q[n + k]
  BY <1>1, <1>2
<1> QED BY <1>2, <1>3 DEF t

LEMMA StopStep ==
  ASSUME IInv, NEW r \in Ranks, Stop(r), NEW c \in Buffers, c = cur[r]
  PROVE  /\ IInv' /\ OnlyMoves(r)
         /\ ExchangesDone(r)' = ExchangesDone(r) /\ Stopped(r)' = c
<1>1. Static /\ UNCHANGED optVars /\ opts' = opts /\ options' = options
  BY DEF Static, Stop, args, optVars
<1>2. ControlAt(r) /\ TypeInv
  BY DEF IInv
<1> DEFINE n == Len(posted[r])
           next == IF c < Fixed THEN c + 1 ELSE c
<1>3. /\ pc[r] = "stop" /\ Arrived(r)
      /\ pc' = [pc EXCEPT ![r] = AfterBuffer(r, c)]
      /\ cur' = [cur EXCEPT ![r] = next]
      /\ sizeMsgs' = sizeMsgs /\ recvOff' = recvOff /\ compOff' = compOff
      /\ posted' = [posted EXCEPT ![r] = <<>>]
      /\ chan' = [s \in Ranks |-> [chan[s] EXCEPT ![r] =
                    IF s \in Peers(r) THEN SubSeq(chan[s][r], n + 1, Len(chan[s][r])) ELSE chan[s][r]]]
  BY DEF Stop
<1>4. opts[r] = Made /\ (options.byBatch => c = Fixed)
  BY <1>2, <1>3 DEF ControlAt
<1> DEFINE more == c < Fixed
<1>5. /\ more => /\ c + 1 \in Buffers /\ AfterBuffer(r, c) = IF Compressed(c + 1) THEN "compress" ELSE "launch"
                 /\ (~ Compressed(c + 1) => Count(c + 1) = Count(c)) /\ (c + 1) - 1 = c
                 /\ ~ options.byBatch
      /\ ~ more => c = Fixed /\ AfterBuffer(r, c) = "postprocess"
  BY <1>4, AfterBufferFacts, BufferNumbers
<1>6. more => AfterBuffer(r, c) \in {"compress", "launch"}
  <2>1. CASE Compressed(c + 1)
    BY <1>5, <2>1
  <2>2. CASE ~ Compressed(c + 1)
    BY <1>5, <2>2
  <2> QED BY <2>1, <2>2
<1>7. next \in Buffers /\ (more => next = c + 1) /\ (~ more => next = c)
  BY <1>5
<1> HIDE DEF more, next
<1>8. pc'[r] = AfterBuffer(r, c) /\ cur'[r] = next
  BY <1>2, <1>3 DEF TypeInv
<1>9. Made' = Made /\ \A b : (Compressed(b)' <=> Compressed(b)) /\ Count(b)' = Count(b)
  BY <1>1, Frozen
<1>10. /\ ExchangesSent(r) = 2 + Count(c) /\ ExchangesDone(r) = 2 + Count(c) /\ Launched(r) = c
       /\ Stopped(r) \in Int
  <2>1. Stopped(r) \in Int
    BY <1>2, CounterTypes
  <2> QED BY <1>3, <2>1 DEF ExchangesSent, ExchangesDone, Launched, Before
<1>11. n = c - Stopped(r) /\ n \in Nat
  <2>1. posted[r] \in Seq(Buffers)
    BY <1>2 DEF TypeInv
  <2> QED BY <1>2, <1>10, <2>1 DEF ControlAt
<1>12. ExchangesSent(r)' = 2 + Count(c) /\ ExchangesDone(r)' = 2 + Count(c)
  <2>1. CASE ~ more
    <3>1. pc'[r] = "postprocess" /\ cur'[r] = c
      BY <1>5, <1>7, <1>8, <2>1
    <3> QED BY <1>9, <3>1 DEF ExchangesSent, ExchangesDone
  <2>2. CASE more /\ Compressed(c + 1)
    <3>1. pc'[r] = "compress" /\ cur'[r] - 1 = c
      BY <1>5, <1>7, <1>8, <2>2
    <3> QED BY <1>9, <3>1 DEF ExchangesSent, ExchangesDone
  <2>3. CASE more /\ ~ Compressed(c + 1)
    <3>1. pc'[r] = "launch" /\ Count(cur'[r]) = Count(c)
      BY <1>5, <1>7, <1>8, <2>3
    <3> QED BY <1>9, <3>1 DEF ExchangesSent, ExchangesDone
  <2> QED BY <2>1, <2>2, <2>3
<1>13. Launched(r)' = c /\ Stopped(r)' = c
  <2>1. CASE ~ more
    <3>1. pc'[r] = "postprocess" /\ cur'[r] = c /\ c = Fixed
      BY <1>5, <1>7, <1>8, <2>1
    <3> QED BY <3>1 DEF Launched, Stopped, Before
  <2>2. CASE more
    <3>1. pc'[r] \in {"compress", "launch"} /\ cur'[r] - 1 = c /\ ~ options'.byBatch
      BY <1>1, <1>5, <1>6, <1>7, <1>8, <2>2
    <3> QED BY <3>1 DEF Launched, Stopped, Before
  <2> QED BY <2>1, <2>2
<1>14. ASSUME NEW q \in Ranks
       PROVE  /\ q # r => pc'[q] = pc[q] /\ cur'[q] = cur[q] /\ posted'[q] = posted[q] /\ SameCounters(q)
              /\ ExchangesSent(q)' = ExchangesSent(q) /\ ExchangesDone(q)' = ExchangesDone(q)
              /\ Launched(q)' = Launched(q)
  <2>1. q # r => pc'[q] = pc[q] /\ cur'[q] = cur[q] /\ posted'[q] = posted[q]
    BY <1>2, <1>3 DEF TypeInv
  <2> QED BY <1>1, <1>10, <1>12, <1>13, <2>1, KeptCounters DEF SameCounters
<1>15. ControlAt(r)'
  <2>1. posted'[r] = <<>>
    BY <1>2, <1>3 DEF TypeInv
  <2>2. Len(posted'[r]) = Launched(r)' - Stopped(r)' /\ \A k \in 1 .. Len(posted'[r]) : posted'[r][k] = Stopped(r)' + k
    BY <1>13, <2>1, BufferNumbers
  <2>3. opts'[r] = Made'
    BY <1>1, <1>4, <1>9
  <2>4. CASE ~ more
    <3>1. pc'[r] = "postprocess" /\ cur'[r] = Fixed
      BY <1>5, <1>7, <1>8, <2>4
    <3> QED BY <2>2, <2>3, <3>1 DEF ControlAt, Before
  <2>5. CASE more
    <3>1. pc'[r] \in {"compress", "launch"}
      BY <1>6, <1>8, <2>5
    <3>2. pc'[r] = "compress" => Compressed(cur[r])'
      <4>1. CASE Compressed(c + 1)
        BY <1>7, <1>8, <1>9, <2>5, <4>1
      <4>2. CASE ~ Compressed(c + 1)
        BY <1>5, <1>8, <2>5, <4>2
      <4> QED BY <4>1, <4>2
    <3> QED BY <2>2, <2>3, <3>1, <3>2 DEF ControlAt, Before
  <2> QED BY <2>4, <2>5
<1>16. ASSUME NEW q \in Ranks
       PROVE  ControlAt(q)' /\ OffsetsAt(q)'
  <2>1. OffsetsAt(q)'
    BY <1>1, <1>3, <1>14, KeptOffsets DEF IInv
  <2>2. CASE q # r
    BY <1>1, <1>14, <2>1, <2>2, KeptControl DEF IInv
  <2> QED BY <1>15, <2>1, <2>2
<1>17. ASSUME NEW s \in Ranks, s \in Peers(r)
       PROVE  /\ chan'[s][r] \in Seq(Messages) /\ Len(chan'[s][r]) = Len(chan[s][r]) - n
              /\ \A k \in 1 .. Len(chan[s][r]) - n : chan'[s][r][k] = chan[s][r][n + k]
              /\ Len(chan[s][r]) \in Nat
  <2>1. chan[s][r] \in Seq(Messages) /\ n <= Len(chan[s][r])
    BY <1>2, <1>3, <1>17 DEF TypeInv, Arrived
  <2>2. chan'[s][r] = SubSeq(chan[s][r], n + 1, Len(chan[s][r]))
    BY <1>2, <1>3, <1>17 DEF TypeInv
  <2> DEFINE q == chan[s][r]
             t == SubSeq(q, n + 1, Len(q))
  <2>3. n \in Nat /\ q \in Seq(Messages) /\ n <= Len(q) /\ chan'[s][r] = t
    BY <1>11, <2>1, <2>2
  <2> HIDE DEF n, q
  <2>4. t \in Seq(Messages) /\ Len(t) = Len(q) - n /\ \A k \in 1 .. Len(q) - n : t[k] = q[n + k]
    BY <2>3, DropFirst
  <2>5. Len(q) \in Nat
    BY <2>3
  <2> HIDE DEF t
  <2> QED BY <2>3, <2>4, <2>5 DEF q
<1>18. TypeInv'
  <2>1. Messages' = Messages /\ SizeMessages' = SizeMessages
    BY <1>1, Frozen DEF SizeMessages
  <2>2. pc' \in [Ranks -> PCs] /\ cur' \in [Ranks -> Buffers]
    <3>1. AfterBuffer(r, c) \in PCs
      BY <1>5, <1>6 DEF PCs
    <3>2. pc \in [Ranks -> PCs] /\ cur \in [Ranks -> Buffers]
      BY <1>2 DEF TypeInv
    <3> QED BY <1>3, <1>7, <3>1, <3>2
  <2>3. posted' \in [Ranks -> Seq(Buffers)]
    BY <1>2, <1>3 DEF TypeInv
  <2>4. chan' \in [Ranks -> [Ranks -> Seq(Messages)]]
    <3> DEFINE v(s) == IF s \in Peers(r) THEN SubSeq(chan[s][r], n + 1, Len(chan[s][r])) ELSE chan[s][r]
    <3>1. chan \in [Ranks -> [Ranks -> Seq(Messages)]]
      BY <1>2 DEF TypeInv
    <3>2. \A s \in Ranks : v(s) = chan'[s][r]
      BY <1>3, <3>1
    <3>3. \A s \in Ranks : v(s) \in Seq(Messages)
      BY <1>17, <3>1, <3>2
    <3>4. chan' = [s \in Ranks |-> [chan[s] EXCEPT ![r] = v(s)]]
      BY <1>3
    <3> HIDE DEF v
    <3> QED BY <3>1, <3>3, <3>4
  <2> QED BY <1>1, <1>2, <1>3, <2>1, <2>2, <2>3, <2>4 DEF TypeInv, Static
<1>19. ASSUME NEW s \in Ranks, NEW d \in Ranks
       PROVE  SizesBetween(s, d)' /\ DataBetween(s, d)'
  <2>1. SizesBetween(s, d)'
    BY <1>1, <1>3, <1>14, KeptSizes DEF IInv
  <2>2. CASE d # r
    <3>1. chan'[s][d] = chan[s][d]
      BY <1>2, <1>3, <2>2 DEF TypeInv
    <3> QED BY <1>1, <1>14, <2>1, <2>2, <3>1, KeptData DEF IInv, SameCounters
  <2>3. CASE d = r
    <3>1. Peers(r)' = Peers(r) /\ \A b : Payload(s, b, r)' = Payload(s, b, r)
      BY <1>1, Frozen
    <3>2. CASE s \notin Peers(r)
      BY <2>1, <2>3, <3>1, <3>2 DEF DataBetween
    <3>3. CASE s \in Peers(r)
      <4> DEFINE o == chan[s][r]
                 m == chan'[s][r]
      <4>1. /\ Len(m) = Len(o) - n /\ (\A k \in 1 .. Len(o) - n : m[k] = o[n + k])
            /\ Len(o) \in Nat
        BY <1>17, <3>3
      <4>2. DataBetween(s, r)
        BY DEF IInv
      <4>3. Launched(s) \in Int /\ Launched(s)' = Launched(s)
        BY <1>2, <1>14, CounterTypes
      <4>4. c \in Int
        BY BufferNumbers
      <4> HIDE DEF m, o, n
      <4>5. Len(m) = Launched(s)' - Stopped(r)'
        BY <1>10, <1>11, <1>13, <3>3, <4>1, <4>2, <4>3, <4>4 DEF DataBetween, o
      <4>6. ASSUME NEW k \in 1 .. Len(m)
            PROVE  m[k].buf = Stopped(r)' + k /\ m[k].val = Payload(s, m[k].buf, r)
        <5>1. m[k] = o[n + k] /\ n + k \in 1 .. Len(o)
          BY <1>11, <4>1
        <5>2. o[n + k].buf = Stopped(r) + (n + k) /\ o[n + k].val = Payload(s, o[n + k].buf, r)
          BY <3>3, <4>2, <5>1 DEF DataBetween, o
        <5> QED BY <1>10, <1>11, <1>13, <4>4, <5>1, <5>2
      <4>7. DataBetween(s, r)'
        BY <3>1, <4>5, <4>6 DEF DataBetween, m
      <4> QED BY <2>1, <2>3, <4>7
    <3> QED BY <3>2, <3>3
  <2> QED BY <2>2, <2>3
<1>20. OptInv'
  BY <1>1, OptInvKept DEF IInv
<1> QED BY <1>1, <1>10, <1>12, <1>13, <1>14, <1>16, <1>18, <1>19, <1>20 DEF IInv, OnlyMoves

LEMMA StutterStep == IInv /\ UNCHANGED vars => IInv'
<1> SUFFICES ASSUME IInv, UNCHANGED vars PROVE IInv'
  OBVIOUS
<1>1. /\ Static /\ UNCHANGED optVars
      /\ UNCHANGED <<pc, cur, opts, posted, recvOff, compOff, sizeMsgs, chan, options, offsets>>
  BY DEF vars, Static, optVars
<1>2. Messages' = Messages /\ SizeMessages' = SizeMessages
  BY <1>1, Frozen DEF SizeMessages
<1>3. TypeInv'
  BY <1>1, <1>2 DEF IInv, TypeInv
<1>4. OptInv'
  BY <1>1, OptInvKept DEF IInv
<1>5. \A q \in Ranks : SameCounters(q)
  BY <1>1, KeptCounters
<1>6. \A q \in Ranks : ControlAt(q)' /\ OffsetsAt(q)'
  BY <1>1, <1>5, KeptControl, KeptOffsets DEF IInv, SameCounters
<1>7. \A s, q \in Ranks : SizesBetween(s, q)' /\ DataBetween(s, q)'
  BY <1>1, <1>5, KeptSizes, KeptData DEF IInv, SameCounters
<1> QED BY <1>3, <1>4, <1>6, <1>7 DEF IInv

LEMMA NextIInv == IInv /\ [Next]_vars => IInv'
<1> SUFFICES ASSUME IInv, [Next]_vars PROVE IInv'
  OBVIOUS
<1>1. ASSUME NEW r \in Ranks, RankStep(r)
      PROVE  IInv'
  <2>1. cur[r] \in Buffers
    BY DEF IInv, TypeInv
  <2>2. CASE MakeOptions(r)
    BY <2>2, MakeOptionsStep
  <2>3. CASE OptionsThrow(r)
    BY <2>3, OptionsThrowStep
  <2>4. CASE PostSizes(r)
    BY <2>4, PostSizesStep
  <2>5. CASE TakeSizes(r)
    BY <2>1, <2>5, TakeSizesStep
  <2>6. CASE Allocate(r)
    BY <2>6, AllocateStep
  <2>7. CASE Launch(r)
    BY <2>1, <2>7, LaunchStep
  <2>8. CASE Stop(r)
    BY <2>1, <2>8, StopStep
  <2>9. CASE Postprocess(r)
    BY <2>9, PostprocessStep
  <2> QED BY <1>1, <2>2, <2>3, <2>4, <2>5, <2>6, <2>7, <2>8, <2>9 DEF RankStep
<1>2. CASE UNCHANGED vars
  BY <1>2, StutterStep
<1> QED BY <1>1, <1>2 DEF Next, Ended

LEMMA SpecIInv == Spec => []IInv
<1> QED BY InitIInv, NextIInv, PTL DEF Spec

-----------------------------------------------------------------------------
(***************************************************************************)
(* What the buffers hold.                                                  *)
(***************************************************************************)
Holds(buf, at, p) == \A j \in 1 .. Len(p) : buf[at + j - 1] = p[j]

\* Where the messages of buffer b land, and at which offsets.
Box(r, b)   == IF Compressed(b) THEN compBuf[r][b] ELSE recvBuf[r][b]
Slots(r, b) == IF Compressed(b) THEN compOff[r][b] ELSE recvOff[r][b]

ShapeAt(r) ==
  /\ DOMAIN recvBuf[r] = Buffers /\ DOMAIN compBuf[r] = Buffers
  /\ pc[r] \notin Before => \A b \in Buffers : DOMAIN recvBuf[r][b] = 0 .. recvOff[r][b][Size] - 1
  /\ \A b \in Buffers : (Compressed(b) /\ ExchangesDone(r) >= 2 + Count(b)) =>
       DOMAIN compBuf[r][b] = 0 .. compOff[r][b][Size] - 1

\* The rounds that are over have put every peer's message into its place.
LandedAt(r) ==
  \A b \in Buffers : b <= Stopped(r) =>
    \A s \in Peers(r) : Holds(Box(r, b), Slots(r, b)[s], Payload(s, b, r))

\* The part that stays is there from the beginning, everything at the end.
FinishedAt(r) ==
  pc[r] \notin Before =>
    \A b \in Buffers, s \in Ranks : (s \notin Peers(r) \/ pc[r] = "done") =>
      Holds(recvBuf[r][b], recvOff[r][b][s], Parcel(s, b, r))

RebuiltAt(r) ==
  pc[r] = "done" => strOut[r] = StringOffsets(recvBuf[r][Sizes], recvOff[r][Sizes][Size])

DataAt(r) == ShapeAt(r) /\ LandedAt(r) /\ FinishedAt(r) /\ RebuiltAt(r)

DataInv ==
  /\ DOMAIN recvBuf = Ranks /\ DOMAIN compBuf = Ranks /\ DOMAIN strOut = Ranks
  /\ \A r \in Ranks : DataAt(r)
\* Partial sums never decrease, and two ranks' places do not overlap.
LEMMA PartialSumsOrder ==
  ASSUME NEW count \in [Ranks -> Nat], NEW i \in 0 .. Size, NEW j \in 0 .. Size, i <= j
  PROVE  PartialSums(count)[i] <= PartialSums(count)[j]
<1> DEFINE f == PartialSums(count)
           Bad == {k \in Nat : i + k <= Size /\ ~ (f[i] <= f[i + k])}
<1>1. f \in [0 .. Size -> Nat] /\ \A s \in Ranks : f[s + 1] - f[s] = count[s]
  BY PartialSumsFacts
<1> HIDE DEF f
<1> USE SizeAssumption
<1>2. Bad = {}
  <2> SUFFICES ASSUME Bad # {} PROVE FALSE
    OBVIOUS
  <2>1. PICK k \in Bad : \A m \in Bad : k <= m
    BY SmallestExists
  <2>2. k # 0
    BY <2>1, <1>1
  <2>3. k - 1 \in Nat /\ k - 1 \notin Bad /\ i + k <= Size /\ ~ (f[i] <= f[i + k])
    BY <2>1, <2>2
  <2>4. f[i] <= f[i + k - 1]
    <3>1. i + (k - 1) = i + k - 1 /\ i + (k - 1) <= Size
      BY <2>3
    <3> QED BY <2>3, <3>1
  <2>5. PICK s \in Ranks : s = i + k - 1 /\ s + 1 = i + k
    BY <2>3 DEF Ranks
  <2>6. f[s + 1] - f[s] = count[s] /\ count[s] \in Nat /\ s \in 0 .. Size /\ s + 1 \in 0 .. Size
    BY <1>1 DEF Ranks
  <2>7. f[s + 1] \in Nat /\ f[s] \in Nat /\ f[i] \in Nat
    BY <1>1, <2>6
  <2> QED BY <2>3, <2>4, <2>5, <2>6, <2>7
<1>3. j - i \in Nat /\ i + (j - i) = j /\ j - i \notin Bad /\ j <= Size
  <2>1. j - i \in Nat /\ i + (j - i) = j /\ j <= Size
    OBVIOUS
  <2> HIDE DEF Bad
  <2> QED BY <1>2, <2>1
<1>4. f[i] <= f[j]
  BY <1>3
<1> QED BY <1>4 DEF f

LEMMA OnePlace ==
  ASSUME NEW count \in [Ranks -> Nat], NEW s \in Ranks, NEW t \in Ranks, NEW i \in Int,
         i \in PartialSums(count)[s] .. PartialSums(count)[s + 1] - 1,
         i \in PartialSums(count)[t] .. PartialSums(count)[t + 1] - 1
  PROVE  s = t
<1> DEFINE f == PartialSums(count)
<1>1. \A a \in 0 .. Size : f[a] \in Nat
  BY PartialSumsFacts
<1>2. \A a, b \in 0 .. Size : a <= b => f[a] <= f[b]
  BY PartialSumsOrder
<1>3. s \in 0 .. Size /\ s + 1 \in 0 .. Size /\ t \in 0 .. Size /\ t + 1 \in 0 .. Size
  BY SizeAssumption DEF Ranks
<1> HIDE DEF f
<1>4. i \in f[s] .. f[s + 1] - 1 /\ i \in f[t] .. f[t + 1] - 1
  BY DEF f
<1>5. ~ (s < t)
  <2> SUFFICES ASSUME s < t PROVE FALSE
    OBVIOUS
  <2>1. f[s + 1] <= f[t]
    BY <1>2, <1>3
  <2> QED BY <1>1, <1>3, <1>4, <2>1
<1>6. ~ (t < s)
  <2> SUFFICES ASSUME t < s PROVE FALSE
    OBVIOUS
  <2>1. f[t + 1] <= f[s]
    BY <1>2, <1>3
  <2> QED BY <1>1, <1>3, <1>4, <2>1
<1> QED BY <1>3, <1>5, <1>6

\* A place lies in the buffer.
LEMMA PlaceInside ==
  ASSUME NEW count \in [Ranks -> Nat], NEW s \in Ranks, NEW j \in 1 .. count[s]
  PROVE  /\ PartialSums(count)[s] + j - 1 \in PartialSums(count)[s] .. PartialSums(count)[s + 1] - 1
         /\ PartialSums(count)[s] + j - 1 \in PartialSums(count)[s] .. PartialSums(count)[s] + count[s] - 1
         /\ PartialSums(count)[s] + j - 1 \in 0 .. PartialSums(count)[Size] - 1
         /\ (PartialSums(count)[s] + j - 1) - PartialSums(count)[s] + 1 = j
<1> DEFINE f == PartialSums(count)
<1>1. f \in [0 .. Size -> Nat] /\ f[s + 1] - f[s] = count[s]
  BY PartialSumsFacts
<1>2. s \in 0 .. Size /\ s + 1 \in 0 .. Size /\ Size \in 0 .. Size /\ s + 1 <= Size
  BY SizeAssumption DEF Ranks
<1>3. f[s + 1] <= f[Size]
  BY <1>2, PartialSumsOrder
<1>4. f[s] \in Nat /\ f[s + 1] \in Nat /\ f[Size] \in Nat /\ count[s] \in Nat
  BY <1>1, <1>2
<1> HIDE DEF f
<1> DEFINE x == f[s]
           y == f[s + 1]
           z == f[Size]
           n == count[s]
<1>5. x \in Nat /\ y \in Nat /\ z \in Nat /\ n \in Nat /\ y - x = n /\ y <= z /\ j \in 1 .. n
  BY <1>1, <1>3, <1>4
<1> HIDE DEF x, y, z, n
<1>6. /\ x + j - 1 \in x .. y - 1 /\ x + j - 1 \in 0 .. z - 1
      /\ (x + j - 1) - x + 1 = j /\ x + j - 1 \in x .. x + n - 1
  BY <1>5
<1> QED BY <1>6 DEF f, x, y, z, n

-----------------------------------------------------------------------------
(***************************************************************************)
(* How long the messages are that a rank is told of.                       *)
(***************************************************************************)
PayloadCounts(r, b) == [s \in Ranks |-> Len(Payload(s, b, r))]

LEMMA CountsTyped ==
  ASSUME offsets \in [Ranks -> Offsets], NEW r \in Ranks, NEW b \in Buffers
  PROVE  /\ RowCounts(r, b) \in [Ranks -> Nat] /\ ByteCounts(r, b) \in [Ranks -> Nat]
         /\ PayloadCounts(r, b) \in [Ranks -> Nat]
         /\ RowCounts(r, Sizes) = RowCounts(r, Fixed)
         /\ PayloadCounts(r, b) = IF Compressed(b) THEN ByteCounts(r, b) ELSE RowCounts(r, b)
<1>1. RowCounts(r, b) \in [Ranks -> Nat]
  <2>1. \A s \in Ranks : Len(Parcel(s, b, r)) \in Nat
    BY ParcelFacts
  <2> QED BY <2>1 DEF RowCounts
<1>2. ByteCounts(r, b) \in [Ranks -> Nat]
  <2>1. \A s \in Ranks : Len(CompressedParcel(s, b, r)) \in Nat
    BY ParcelFacts
  <2> QED BY <2>1 DEF ByteCounts
<1>3. RowCounts(r, Sizes) = RowCounts(r, Fixed)
  <2>1. \A q \in Ranks : Len(Parcel(q, Sizes, r)) = Len(Parcel(q, Fixed, r))
    BY ParcelFacts
  <2> QED BY <2>1 DEF RowCounts
<1>4. PayloadCounts(r, b) = IF Compressed(b) THEN ByteCounts(r, b) ELSE RowCounts(r, b)
  <2>1. CASE Compressed(b)
    BY <2>1 DEF PayloadCounts, Payload, ByteCounts
  <2>2. CASE ~ Compressed(b)
    BY <2>2 DEF PayloadCounts, Payload, RowCounts
  <2> QED BY <2>1, <2>2
<1>5. PayloadCounts(r, b) \in [Ranks -> Nat]
  BY <1>1, <1>2, <1>4
<1> QED BY <1>1, <1>2, <1>3, <1>4, <1>5

\* Once the sizes of the rows and the chars are known, so are the places.
LEMMA KnownOffsets ==
  ASSUME IInv, NEW r \in Ranks, pc[r] \notin Before, NEW b \in Buffers
  PROVE  /\ recvOff[r][b] = PartialSums(RowCounts(r, b))
         /\ (Compressed(b) => ExchangesDone(r) >= 2 + Count(b)) =>
               Slots(r, b) = PartialSums(PayloadCounts(r, b))
<1>1. offsets \in [Ranks -> Offsets] /\ OffsetsAt(r) /\ TypeInv
  BY DEF IInv, TypeInv
<1>2. ExchangesDone(r) >= 2
  <2>1. cur[r] \in Buffers
    BY <1>1 DEF TypeInv
  <2>2. Count(cur[r]) \in 0 .. 3 /\ Count(cur[r] - 1) \in 0 .. 3
    BY <2>1, CountFacts
  <2> QED BY <2>2 DEF ExchangesDone, Before
<1>3. recvOff[r][b] = PartialSums(RowCounts(r, b))
  <2>1. RowCounts(r, Sizes) = RowCounts(r, Fixed)
    BY <1>1, CountsTyped
  <2>2. ExchangesDone(r) >= 1
    BY <1>1, <1>2, CounterTypes
  <2>3. CASE b = Chars
    BY <1>1, <1>2, <2>3 DEF OffsetsAt
  <2>4. CASE b # Chars
    <3>1. b = Sizes \/ b = Fixed
      BY <2>4, BufferNumbers
    <3> QED BY <1>1, <2>1, <2>2, <3>1 DEF OffsetsAt
  <2> QED BY <2>3, <2>4
<1>4. PayloadCounts(r, b) = IF Compressed(b) THEN ByteCounts(r, b) ELSE RowCounts(r, b)
  BY <1>1, CountsTyped
<1>5. (Compressed(b) => ExchangesDone(r) >= 2 + Count(b)) =>
               Slots(r, b) = PartialSums(PayloadCounts(r, b))
  <2>1. CASE Compressed(b)
    BY <1>1, <1>4, <2>1 DEF OffsetsAt, Slots
  <2>2. CASE ~ Compressed(b)
    BY <1>3, <1>4, <2>2 DEF Slots
  <2> QED BY <2>1, <2>2
<1> QED BY <1>3, <1>5

\* A rank has exchanged the sizes of the compressed buffers up to its current one.
LEMMA SizesKnown ==
  ASSUME TypeInv, NEW r \in Ranks, pc[r] \notin Before, NEW b \in Buffers, Compressed(b),
         b <= cur[r], b < cur[r] \/ pc[r] \notin {"compress", "compressWait"}
  PROVE  ExchangesDone(r) >= 2 + Count(b)
<1>1. cur[r] \in Buffers
  BY DEF TypeInv
<1>2. Count(cur[r]) \in 0 .. 3 /\ Count(cur[r] - 1) \in 0 .. 3 /\ Count(b) \in 0 .. 3
  BY <1>1, CountFacts
<1>3. b < cur[r] => Count(b) <= Count(cur[r] - 1)
  BY <1>1, CountFacts
<1>4. Count(cur[r]) >= Count(cur[r] - 1)
  <2>1. Count(cur[r]) = Count(cur[r] - 1) + Bit(cur[r]) /\ Bit(cur[r]) \in {0, 1}
    BY <1>1, CountFacts
  <2> QED BY <1>2, <2>1
<1>5. b = cur[r] \/ b < cur[r]
  BY <1>1, BufferNumbers
<1>6. CASE pc[r] \in {"compress", "compressWait"}
  <2>1. ExchangesDone(r) = 2 + Count(cur[r] - 1)
    BY <1>6 DEF ExchangesDone
  <2> QED BY <1>2, <1>3, <1>5, <1>6, <2>1
<1>7. CASE pc[r] \notin {"compress", "compressWait"}
  <2>1. ExchangesDone(r) = 2 + Count(cur[r])
    BY <1>7 DEF ExchangesDone, Before
  <2>2. Count(b) <= Count(cur[r])
    <3>1. CASE b = cur[r]
      BY <1>2, <3>1
    <3>2. CASE b < cur[r]
      BY <1>2, <1>3, <1>4, <3>2
    <3> QED BY <1>5, <3>1, <3>2
  <2> QED BY <1>2, <2>1, <2>2
<1> QED BY <1>6, <1>7

LEMMA StoppedBound ==
  ASSUME TypeInv, NEW r \in Ranks, ControlAt(r)
  PROVE  /\ pc[r] \in Before => Stopped(r) = 0
         /\ Stopped(r) <= cur[r]
         /\ pc[r] \in {"compress", "compressWait", "launch", "stop"} => Stopped(r) < cur[r]
<1>1. cur[r] \in Buffers /\ cur[r] \in 1 .. 3
  BY BufferNumbers DEF TypeInv
<1>2. pc[r] \in {"postprocess", "done"} => cur[r] = Fixed
  BY DEF ControlAt
<1>3. pc[r] \in PCs
  BY DEF TypeInv
<1> QED BY <1>1, <1>2, <1>3, BufferNumbers DEF Stopped, Before, PCs

-----------------------------------------------------------------------------
(***************************************************************************)
(* The steps that leave the buffers alone.                                 *)
(***************************************************************************)
\* Before the output is allocated nothing is in a buffer.
LEMMA EarlyData ==
  ASSUME TypeInv, NEW r \in Ranks, ControlAt(r), pc[r] \in Before,
         DOMAIN recvBuf[r] = Buffers, DOMAIN compBuf[r] = Buffers
  PROVE  DataAt(r)
<1>1. Stopped(r) = 0
  BY DEF Stopped, Before
<1>2. ExchangesDone(r) <= 2
  BY DEF ExchangesDone, Before
<1>3. ExchangesDone(r) \in Int
  BY CounterTypes
<1>4. ASSUME NEW b \in Buffers, Compressed(b)
      PROVE  ~ (ExchangesDone(r) >= 2 + Count(b))
  <2>1. Count(b) = Count(b - 1) + 1 /\ Count(b - 1) \in 0 .. 3
    BY <1>4, CountFacts
  <2> QED BY <1>2, <1>3, <2>1
<1>5. ShapeAt(r)
  BY <1>4 DEF ShapeAt
<1>6. LandedAt(r)
  BY <1>1, BufferNumbers DEF LandedAt
<1>7. FinishedAt(r) /\ RebuiltAt(r)
  BY DEF FinishedAt, RebuiltAt, Before
<1> QED BY <1>5, <1>6, <1>7 DEF DataAt

KeptBuffers(q) ==
  /\ recvBuf'[q] = recvBuf[q] /\ compBuf'[q] = compBuf[q] /\ strOut'[q] = strOut[q]
  /\ recvOff'[q] = recvOff[q] /\ compOff'[q] = compOff[q]

LEMMA KeptDataAt ==
  ASSUME Static, NEW q \in Ranks, DataAt(q), KeptBuffers(q),
         ExchangesDone(q)' = ExchangesDone(q), Stopped(q)' = Stopped(q),
         pc'[q] \in Before <=> pc[q] \in Before, pc'[q] = "done" <=> pc[q] = "done"
  PROVE  DataAt(q)'
<1>1. /\ \A b : (Compressed(b)' <=> Compressed(b)) /\ Count(b)' = Count(b)
      /\ \A s, b, d : Parcel(s, b, d)' = Parcel(s, b, d) /\ Payload(s, b, d)' = Payload(s, b, d)
      /\ Peers(q)' = Peers(q)
  BY Frozen
<1>2. \A b : Box(q, b)' = Box(q, b) /\ Slots(q, b)' = Slots(q, b)
  BY <1>1 DEF Box, Slots, KeptBuffers
<1>3. ShapeAt(q)'
  BY <1>1 DEF DataAt, ShapeAt, KeptBuffers
<1>4. LandedAt(q)'
  BY <1>1, <1>2 DEF DataAt, LandedAt, Holds
<1>5. FinishedAt(q)'
  BY <1>1 DEF DataAt, FinishedAt, Holds, KeptBuffers
<1>6. RebuiltAt(q)'
  BY DEF DataAt, RebuiltAt, KeptBuffers
<1> QED BY <1>3, <1>4, <1>5, <1>6 DEF DataAt

\* A rank's step leaves the other ranks' buffers alone.
LEMMA OthersData ==
  ASSUME Static, NEW q \in Ranks, DataAt(q), KeptBuffers(q), pc'[q] = pc[q], cur'[q] = cur[q]
  PROVE  DataAt(q)'
BY KeptCounters, KeptDataAt DEF SameCounters

LEMMA InitData == IInv /\ Init => DataInv
<1> SUFFICES ASSUME IInv, Init PROVE DataInv
  OBVIOUS
<1>1. ASSUME NEW r \in Ranks
      PROVE  DataAt(r)
  <2>1. TypeInv /\ ControlAt(r)
    BY DEF IInv
  <2>2. pc[r] \in Before /\ DOMAIN recvBuf[r] = Buffers /\ DOMAIN compBuf[r] = Buffers
    BY DEF Init, Before
  <2> QED BY <2>1, <2>2, EarlyData
<1>2. DOMAIN recvBuf = Ranks /\ DOMAIN compBuf = Ranks /\ DOMAIN strOut = Ranks
  BY DEF Init
<1> QED BY <1>1, <1>2 DEF DataInv

\* The same of the next state.
LEMMA EarlyDataNext ==
  \A r \in Ranks :
    (/\ TypeInv' /\ ControlAt(r)' /\ pc'[r] \in Before
     /\ DOMAIN recvBuf'[r] = Buffers /\ DOMAIN compBuf'[r] = Buffers) => DataAt(r)'
<1> DEFINE Early(r) == /\ TypeInv /\ ControlAt(r) /\ pc[r] \in Before
                       /\ DOMAIN recvBuf[r] = Buffers /\ DOMAIN compBuf[r] = Buffers
<1>1. \A r \in Ranks : Early(r) => DataAt(r)
  BY EarlyData
<1>2. (\A r \in Ranks : Early(r) => DataAt(r))'
  BY <1>1, PTL
<1> QED BY <1>2

\* Options and sizes are sent, and buffers launched, without touching a buffer.
LEMMA SendingData ==
  ASSUME IInv, IInv', DataInv, NEW r \in Ranks,
         MakeOptions(r) \/ OptionsThrow(r) \/ PostSizes(r) \/ Launch(r)
  PROVE  DataInv'
<1>1. OnlyMoves(r)
  <2>1. pc \in [Ranks -> PCs] /\ cur \in [Ranks -> Buffers]
    BY DEF IInv, TypeInv
  <2>2. CASE MakeOptions(r)
    BY <2>1, <2>2, MakeOptInv DEF Static, MakeOptions, IInv, OnlyMoves
  <2>3. CASE OptionsThrow(r)
    BY <2>1, <2>3 DEF Static, OptionsThrow, SelectorThrows, optVars, OnlyMoves
  <2>4. CASE PostSizes(r)
    BY <2>4, PostSizesStep
  <2>5. CASE Launch(r)
    <3>1. cur[r] \in Buffers
      BY <2>1
    <3> QED BY <2>5, <3>1, LaunchStep
  <2> QED BY <2>2, <2>3, <2>4, <2>5
<1>2. /\ recvBuf' = recvBuf /\ compBuf' = compBuf /\ strOut' = strOut
      /\ recvOff' = recvOff /\ compOff' = compOff
  BY DEF MakeOptions, OptionsThrow, PostSizes, Launch
<1>3. \A q \in Ranks : KeptBuffers(q)
  BY <1>2 DEF KeptBuffers
<1>4. DataAt(r)'
  <2>1. TypeInv' /\ ControlAt(r)' /\ DataAt(r) /\ TypeInv /\ ControlAt(r)
    BY DEF IInv, DataInv
  <2>2. CASE pc'[r] \in Before
    <3>1. DOMAIN recvBuf[r] = Buffers /\ DOMAIN compBuf[r] = Buffers
      BY <2>1 DEF DataAt, ShapeAt
    <3> QED BY <1>2, <2>1, <2>2, <3>1, EarlyDataNext
  <2>3. CASE pc'[r] \notin Before
    <3>1. pc \in [Ranks -> PCs] /\ cur[r] \in Buffers
      BY <2>1 DEF TypeInv
    <3>2. PostSizes(r) \/ Launch(r)
      BY <2>3, <3>1 DEF MakeOptions, OptionsThrow, Before
    <3>3. ExchangesDone(r)' = ExchangesDone(r) /\ Stopped(r)' = Stopped(r)
      BY <3>1, <3>2, PostSizesStep, LaunchStep
    <3>4. pc[r] \notin Before /\ pc[r] # "done" /\ pc'[r] # "done"
      <4>1. CASE PostSizes(r)
        BY <2>3, <3>1, <4>1 DEF PostSizes, Before
      <4>2. CASE Launch(r)
        BY <3>1, <4>2 DEF Launch, Before, AfterBuffer, AtBuffer
      <4> QED BY <3>2, <4>1, <4>2
    <3> QED BY <1>1, <1>3, <2>1, <2>3, <3>3, <3>4, KeptDataAt DEF OnlyMoves
  <2> QED BY <2>2, <2>3
<1>5. \A q \in Ranks : DataAt(q)'
  BY <1>1, <1>3, <1>4, OthersData DEF DataInv, OnlyMoves
<1> QED BY <1>2, <1>5 DEF DataInv

\* The sizes of compressed data come with the buffer to receive them.
LEMMA TakeSizesData ==
  ASSUME IInv, IInv', DataInv, NEW r \in Ranks, TakeSizes(r)
  PROVE  DataInv'
<1> DEFINE c == cur[r]
<1>1. c \in Buffers /\ TypeInv /\ TypeInv' /\ ControlAt(r) /\ ControlAt(r)' /\ DataAt(r)
  BY DEF IInv, TypeInv, DataInv
<1>2. /\ OnlyMoves(r) /\ Static
      /\ ExchangesDone(r)' = ExchangesDone(r) + 1 /\ Stopped(r)' = Stopped(r)
  BY <1>1, TakeSizesStep DEF OnlyMoves
<1>3. /\ recvBuf' = recvBuf /\ strOut' = strOut
      /\ DOMAIN recvBuf = Ranks /\ DOMAIN compBuf = Ranks /\ DOMAIN strOut = Ranks
      /\ pc \in [Ranks -> PCs] /\ recvOff \in [Ranks -> [Buffers -> [0 .. Size -> Nat]]]
      /\ compOff \in [Ranks -> [Buffers -> [0 .. Size -> Nat]]]
  BY DEF TakeSizes, DataInv, IInv, TypeInv
<1> DEFINE got == PartialSums([s \in Ranks |-> Head(sizeMsgs[s][r]).n])
           p == CASE pc[r] = "rowsWait" -> "chars" [] pc[r] = "charsWait" -> "allocate"
                  [] pc[r] = "compressWait" -> "launch"
<1>4. /\ pc[r] \in {"rowsWait", "charsWait", "compressWait"} /\ pc'[r] = p
      /\ pc[r] = "rowsWait" => /\ recvOff' = [recvOff EXCEPT ![r][Fixed] = got, ![r][Sizes] = got]
                               /\ compOff' = compOff /\ compBuf' = compBuf
      /\ pc[r] = "charsWait" => /\ recvOff' = [recvOff EXCEPT ![r][Chars] = got]
                                /\ compOff' = compOff /\ compBuf' = compBuf
      /\ pc[r] = "compressWait" =>
           /\ recvOff' = recvOff /\ compOff' = [compOff EXCEPT ![r][c] = got]
           /\ compBuf' = [compBuf EXCEPT ![r][c] = Fresh(got[Size], NoByte)]
  BY <1>3 DEF TakeSizes, Waiting
<1> HIDE DEF got, c, p
<1>5. ASSUME NEW q \in Ranks, q # r
      PROVE  KeptBuffers(q)
  BY <1>3, <1>4, <1>5 DEF KeptBuffers
<1>6. CASE pc[r] # "compressWait"
  <2>1. pc'[r] \in Before /\ compBuf' = compBuf
    BY <1>4, <1>6 DEF Before, p
  <2>2. DOMAIN recvBuf[r] = Buffers /\ DOMAIN compBuf[r] = Buffers
    BY <1>1 DEF DataAt, ShapeAt
  <2>3. DataAt(r)'
    BY <1>1, <1>3, <2>1, <2>2, EarlyDataNext
  <2>4. \A q \in Ranks : DataAt(q)'
    BY <1>2, <1>5, <2>3, OthersData DEF DataInv, OnlyMoves
  <2> QED BY <1>3, <2>1, <2>4 DEF DataInv
<1>7. CASE pc[r] = "compressWait"
  <2>1. /\ recvOff' = recvOff /\ compOff' = [compOff EXCEPT ![r][c] = got]
        /\ compBuf' = [compBuf EXCEPT ![r][c] = Fresh(got[Size], NoByte)]
        /\ pc'[r] = "launch" /\ DOMAIN compBuf[r] = Buffers
    BY <1>1, <1>4, <1>7 DEF p, DataAt, ShapeAt
  <2>2. /\ \A b : (Compressed(b)' <=> Compressed(b)) /\ Count(b)' = Count(b)
        /\ \A s, b, d : Parcel(s, b, d)' = Parcel(s, b, d) /\ Payload(s, b, d)' = Payload(s, b, d)
        /\ Peers(r)' = Peers(r)
    BY <1>2, Frozen
  <2>3. /\ compOff'[r][c] = got /\ compBuf'[r][c] = Fresh(got[Size], NoByte)
        /\ \A b \in Buffers : b # c => compOff'[r][b] = compOff[r][b] /\ compBuf'[r][b] = compBuf[r][b]
        /\ DOMAIN compBuf' = Ranks /\ DOMAIN compBuf'[r] = Buffers
    BY <1>1, <1>3, <2>1
  <2>4. Compressed(c) /\ Stopped(r) < c
    BY <1>1, <1>7, StoppedBound DEF ControlAt, c
  <2>5. ShapeAt(r)'
    <3>1. DOMAIN recvBuf'[r] = Buffers /\ DOMAIN compBuf'[r] = Buffers
      BY <1>1, <1>3, <2>3 DEF DataAt, ShapeAt
    <3>2. \A b \in Buffers : DOMAIN recvBuf'[r][b] = 0 .. recvOff'[r][b][Size] - 1
      BY <1>1, <1>3, <1>7, <2>1 DEF DataAt, ShapeAt, Before
    <3>3. ASSUME NEW b \in Buffers, Compressed(b), ExchangesDone(r) + 1 >= 2 + Count(b)
          PROVE  DOMAIN compBuf'[r][b] = 0 .. compOff'[r][b][Size] - 1
      <4>1. CASE b = c
        BY <2>3, <4>1 DEF Fresh
      <4>2. CASE b # c
        <5>1. ExchangesDone(r) = 2 + Count(c - 1)
          BY <1>7 DEF ExchangesDone, c
        <5>2. /\ Count(c) = Count(c - 1) + 1 /\ Count(c - 1) \in 0 .. 3 /\ Count(b) \in 0 .. 3
              /\ Count(b) = Count(b - 1) + 1 /\ Count(b - 1) \in 0 .. 3
          BY <1>1, <2>4, <3>3, CountFacts
        <5>3. ~ (c < b)
          <6>1. SUFFICES ASSUME c < b PROVE FALSE
            OBVIOUS
          <6>2. Count(c) <= Count(b - 1)
            BY <1>1, <6>1, CountFacts
          <6> QED BY <3>3, <5>1, <5>2, <6>2
        <5>4. b < c
          BY <1>1, <4>2, <5>3, BufferNumbers
        <5>5. Count(b) <= Count(c - 1)
          BY <1>1, <5>4, CountFacts
        <5>6. ExchangesDone(r) >= 2 + Count(b)
          BY <5>1, <5>2, <5>5
        <5>7. DOMAIN compBuf[r][b] = 0 .. compOff[r][b][Size] - 1
          BY <1>1, <3>3, <5>6 DEF DataAt, ShapeAt
        <5> QED BY <2>3, <4>2, <5>7
      <4> QED BY <4>1, <4>2
    <3> QED BY <1>2, <2>2, <3>1, <3>2, <3>3 DEF ShapeAt
  <2>6. LandedAt(r)'
    <3>1. ASSUME NEW b \in Buffers, b <= Stopped(r), NEW s \in Peers(r)
          PROVE  Holds(Box(r, b)', Slots(r, b)'[s], Payload(s, b, r))
      <4>1. b # c
        <5>1. Stopped(r) \in Int /\ c \in Int /\ b \in Int
          BY <1>1, CounterTypes, BufferNumbers
        <5> QED BY <2>4, <3>1, <5>1
      <4>2. Box(r, b)' = Box(r, b) /\ Slots(r, b)' = Slots(r, b)
        BY <1>3, <2>1, <2>2, <2>3, <4>1 DEF Box, Slots
      <4> QED BY <1>1, <3>1, <4>2 DEF DataAt, LandedAt
    <3> QED BY <1>2, <2>2, <3>1 DEF LandedAt, Holds
  <2>7. FinishedAt(r)' /\ RebuiltAt(r)'
    <3>1. pc[r] \notin Before /\ pc'[r] # "done" /\ recvBuf'[r] = recvBuf[r] /\ recvOff'[r] = recvOff[r]
      BY <1>3, <1>7, <2>1 DEF Before
    <3>2. FinishedAt(r)'
      BY <1>1, <2>2, <3>1 DEF DataAt, FinishedAt, Holds
    <3> QED BY <3>1, <3>2 DEF RebuiltAt
  <2>8. \A q \in Ranks : DataAt(q)'
    BY <1>2, <1>5, <2>5, <2>6, <2>7, OthersData DEF DataInv, DataAt, OnlyMoves
  <2> QED BY <1>3, <2>3, <2>8 DEF DataInv
<1> QED BY <1>6, <1>7

\* The output is allocated, and the part that stays copied.
LEMMA StoreHolds ==
  ASSUME NEW count \in [Ranks -> Nat], NEW s \in Ranks, NEW p, Len(p) = count[s], NEW buf,
         DOMAIN buf = 0 .. PartialSums(count)[Size] - 1
  PROVE  Holds(Store(buf, PartialSums(count)[s], p), PartialSums(count)[s], p)
<1> DEFINE at == PartialSums(count)[s]
           l == PartialSums(count)[Size]
<1>1. \A j \in 1 .. count[s] : /\ at + j - 1 \in at .. at + count[s] - 1 /\ at + j - 1 \in 0 .. l - 1
                               /\ (at + j - 1) - at + 1 = j
  BY PlaceInside
<1>2. DOMAIN buf = 0 .. l - 1
  OBVIOUS
<1> HIDE DEF at, l
<1>3. \A j \in 1 .. Len(p) : Store(buf, at, p)[at + j - 1] = p[j]
  BY <1>1, <1>2 DEF Store
<1> QED BY <1>3 DEF Holds, at

LEMMA AllocateData ==
  ASSUME IInv, IInv', DataInv, NEW r \in Ranks, Allocate(r)
  PROVE  DataInv'
<1>1. /\ TypeInv /\ TypeInv' /\ ControlAt(r) /\ ControlAt(r)' /\ DataAt(r) /\ OffsetsAt(r)
      /\ offsets \in [Ranks -> Offsets]
  BY DEF IInv, TypeInv, DataInv
<1>2. Static /\ pc[r] = "allocate" /\ cur' = cur /\ cur[r] = Sizes
  BY <1>1 DEF Static, Allocate, args, optVars, ControlAt, Before
<1>3. /\ recvOff' = recvOff /\ compOff' = compOff /\ compBuf' = compBuf /\ strOut' = strOut
      /\ DOMAIN recvBuf = Ranks /\ DOMAIN compBuf = Ranks /\ DOMAIN strOut = Ranks
      /\ pc \in [Ranks -> PCs]
  BY DEF Allocate, DataInv, IInv, TypeInv
<1>4. pc'[r] \in {"compress", "launch"} /\ \A q \in Ranks \ {r} : pc'[q] = pc[q]
  BY <1>3 DEF Allocate, AtBuffer
<1> DEFINE new(b) == Fresh(recvOff[r][b][Size], Garbage)
           full(b) == IF options.explicit THEN Store(new(b), recvOff[r][b][r], Parcel(r, b, r)) ELSE new(b)
<1>5. recvBuf' = [recvBuf EXCEPT ![r] = [b \in Buffers |-> full(b)]]
  BY DEF Allocate
<1>6. ASSUME NEW b \in Buffers
      PROVE  /\ DOMAIN full(b) = 0 .. recvOff[r][b][Size] - 1
             /\ options.explicit => Holds(full(b), recvOff[r][b][r], Parcel(r, b, r))
  <2>1. DOMAIN new(b) = 0 .. recvOff[r][b][Size] - 1
    BY DEF Fresh
  <2>2. DOMAIN full(b) = DOMAIN new(b)
    BY DEF Store
  <2>3. recvOff[r][b] = PartialSums(RowCounts(r, b))
    <3>1. RowCounts(r, Sizes) = RowCounts(r, Fixed) /\ ExchangesDone(r) = 2
      BY <1>1, <1>2, CountsTyped, BufferNumbers DEF ExchangesDone
    <3> QED BY <1>1, <3>1, BufferNumbers DEF OffsetsAt
  <2>4. RowCounts(r, b) \in [Ranks -> Nat] /\ Len(Parcel(r, b, r)) = RowCounts(r, b)[r]
    BY <1>1, CountsTyped DEF RowCounts
  <2>5. Holds(Store(new(b), recvOff[r][b][r], Parcel(r, b, r)), recvOff[r][b][r], Parcel(r, b, r))
    <3> HIDE DEF new
    <3> QED BY <2>1, <2>3, <2>4, StoreHolds
  <2> QED BY <2>1, <2>2, <2>5
<1> HIDE DEF full
<1>7. DOMAIN recvBuf' = Ranks /\ DOMAIN recvBuf'[r] = Buffers /\ \A b \in Buffers : recvBuf'[r][b] = full(b)
  BY <1>3, <1>5
<1>8. /\ \A b : (Compressed(b)' <=> Compressed(b)) /\ Count(b)' = Count(b)
      /\ \A s, b, d : Parcel(s, b, d)' = Parcel(s, b, d)
      /\ Peers(r)' = Peers(r)
  BY <1>2, Frozen
<1>9. ExchangesDone(r)' = 2 /\ Stopped(r)' = 0
  <2>1. Count(0) = 0 /\ (~ Compressed(Sizes) => Count(Sizes) = 0)
    BY CountFacts, BufferNumbers
  <2>2. cur'[r] = Sizes /\ Sizes - 1 = 0
    BY <1>2, BufferNumbers
  <2>3. pc'[r] = "launch" => ~ Compressed(Sizes)
    <3>1. opts[r] = Made
      BY <1>1, <1>2 DEF ControlAt
    <3>2. IsCompressed(r, Sizes) <=> Compressed(Sizes)
      BY <3>1, SameCompression, BufferNumbers
    <3> QED BY <1>3, <3>2 DEF Allocate, AtBuffer
  <2>4. ExchangesDone(r)' = 2
    BY <1>4, <1>8, <2>1, <2>2, <2>3 DEF ExchangesDone
  <2>5. Stopped(r)' = 0
    BY <1>4, <2>2 DEF Stopped, Before
  <2> QED BY <2>4, <2>5
<1>10. ShapeAt(r)'
  <2>1. ASSUME NEW b \in Buffers, Compressed(b)
        PROVE  ~ (2 >= 2 + Count(b))
    <3>1. Count(b) = Count(b - 1) + 1 /\ Count(b - 1) \in 0 .. 3
      BY <2>1, CountFacts
    <3> QED BY <3>1
  <2>2. DOMAIN compBuf'[r] = Buffers
    BY <1>1, <1>3 DEF DataAt, ShapeAt
  <2> QED BY <1>3, <1>6, <1>7, <1>8, <1>9, <2>1, <2>2 DEF ShapeAt
<1>11. LandedAt(r)'
  BY <1>9, BufferNumbers DEF LandedAt
<1>12. FinishedAt(r)' /\ RebuiltAt(r)'
  <2>1. pc'[r] # "done"
    BY <1>4
  <2>2. ASSUME NEW b \in Buffers, NEW s \in Ranks, s \notin Peers(r)
        PROVE  Holds(recvBuf'[r][b], recvOff'[r][b][s], Parcel(s, b, r))
    <3>1. options.explicit /\ s = r
      BY <2>2 DEF Peers
    <3> QED BY <1>3, <1>6, <1>7, <3>1
  <2>3. FinishedAt(r)'
    BY <1>8, <2>1, <2>2 DEF FinishedAt, Holds
  <2> QED BY <2>1, <2>3 DEF RebuiltAt
<1>13. ASSUME NEW q \in Ranks, q # r
       PROVE  DataAt(q)'
  <2>1. KeptBuffers(q)
    BY <1>3, <1>5, <1>13 DEF KeptBuffers
  <2> QED BY <1>2, <1>4, <1>13, <2>1, OthersData DEF DataInv
<1>14. \A q \in Ranks : DataAt(q)'
  BY <1>10, <1>11, <1>12, <1>13 DEF DataAt
<1> QED BY <1>3, <1>7, <1>14 DEF DataInv

\* new is buf with the sequence v[s] of every s in P at the place of s.
Pasted(P, at, v, buf, new) ==
  /\ DOMAIN new = DOMAIN buf
  /\ \A i \in DOMAIN buf :
       \/ new[i] = buf[i] /\ \A s \in P : i \notin at[s] .. at[s + 1] - 1
       \/ \E s \in P : i \in at[s] .. at[s + 1] - 1 /\ new[i] = v[s][i - at[s] + 1]

\* No place overlaps another: what is pasted is there, and the rest is not touched.
LEMMA PastedHolds ==
  ASSUME NEW count \in [Ranks -> Nat], NEW P, P \subseteq Ranks, NEW v, NEW buf, NEW new,
         DOMAIN buf = 0 .. PartialSums(count)[Size] - 1,
         Pasted(P, PartialSums(count), v, buf, new), NEW s \in Ranks, NEW p, Len(p) = count[s]
  PROVE  /\ (s \in P /\ p = v[s]) => Holds(new, PartialSums(count)[s], p)
         /\ (s \notin P /\ Holds(buf, PartialSums(count)[s], p)) => Holds(new, PartialSums(count)[s], p)
<1> DEFINE at == PartialSums(count)
<1>1. ASSUME NEW j \in 1 .. count[s]
      PROVE  /\ at[s] + j - 1 \in at[s] .. at[s + 1] - 1 /\ at[s] + j - 1 \in DOMAIN buf
             /\ (at[s] + j - 1) - at[s] + 1 = j /\ at[s] + j - 1 \in Int
  <2>1. /\ at[s] + j - 1 \in at[s] .. at[s + 1] - 1 /\ at[s] + j - 1 \in 0 .. at[Size] - 1
        /\ (at[s] + j - 1) - at[s] + 1 = j
    BY PlaceInside
  <2> HIDE DEF at
  <2> QED BY <2>1 DEF at
<1>2. ASSUME NEW i \in Int, i \in at[s] .. at[s + 1] - 1, NEW t \in P, i \in at[t] .. at[t + 1] - 1
      PROVE  s = t
  BY <1>2, OnePlace
<1>3. Pasted(P, at, v, buf, new)
  OBVIOUS
<1> HIDE DEF at
<1>4. ASSUME NEW j \in 1 .. Len(p), s \in P, p = v[s]
      PROVE  new[at[s] + j - 1] = p[j]
  <2> DEFINE i == at[s] + j - 1
  <2>1. i \in at[s] .. at[s + 1] - 1 /\ i \in DOMAIN buf /\ i - at[s] + 1 = j /\ i \in Int
    BY <1>1
  <2> HIDE DEF i
  <2>2. PICK t \in P : i \in at[t] .. at[t + 1] - 1 /\ new[i] = v[t][i - at[t] + 1]
    BY <1>3, <1>4, <2>1 DEF Pasted
  <2>3. s = t
    BY <1>2, <2>1, <2>2
  <2> QED BY <1>4, <2>1, <2>2, <2>3 DEF i
<1>5. ASSUME NEW j \in 1 .. Len(p), s \notin P
      PROVE  new[at[s] + j - 1] = buf[at[s] + j - 1]
  <2> DEFINE i == at[s] + j - 1
  <2>1. i \in at[s] .. at[s + 1] - 1 /\ i \in DOMAIN buf /\ i \in Int
    BY <1>1
  <2> HIDE DEF i
  <2>2. ~ \E t \in P : i \in at[t] .. at[t + 1] - 1
    BY <1>2, <1>5, <2>1
  <2> QED BY <1>3, <2>1, <2>2 DEF i, Pasted
<1> QED BY <1>4, <1>5 DEF Holds, at

\* The buffers of a round are those launched since the last one.
LEMMA RoundMembers ==
  ASSUME TypeInv, NEW r \in Ranks, ControlAt(r), pc[r] = "stop", NEW b \in Buffers
  PROVE  /\ b \in InRound(r) <=> (Stopped(r) < b /\ b <= cur[r])
         /\ b \in InRound(r) =>
              /\ b - Stopped(r) \in DOMAIN posted[r] /\ posted[r][b - Stopped(r)] = b
              /\ \A j \in DOMAIN posted[r] : posted[r][j] = b => j = b - Stopped(r)
<1>1. posted[r] \in Seq(Buffers) /\ cur[r] \in Buffers
  BY DEF TypeInv
<1> DEFINE p == posted[r]
           n == Len(p)
           o == Stopped(r)
<1>2. DOMAIN p = 1 .. n
  BY <1>1
<1>3. n = cur[r] - o /\ \A k \in 1 .. n : p[k] = o + k
  BY DEF ControlAt, Launched, Before
<1>4. o \in 0 .. 3 /\ b \in Int /\ cur[r] \in Int
  BY <1>1, CounterTypes, BufferNumbers
<1> HIDE DEF p, n, o
<1>5. ASSUME b \in InRound(r)
      PROVE  o < b /\ b <= cur[r]
  <2>1. PICK k \in 1 .. n : p[k] = b
    BY <1>2, <1>5 DEF InRound, p
  <2> QED BY <1>3, <1>4, <2>1
<1>6. ASSUME o < b, b <= cur[r]
      PROVE  b \in InRound(r)
  <2>1. b - o \in 1 .. n /\ p[b - o] = b
    BY <1>3, <1>4, <1>6
  <2> QED BY <1>2, <2>1 DEF InRound, p
<1>7. ASSUME b \in InRound(r)
      PROVE  /\ b - o \in DOMAIN p /\ p[b - o] = b
             /\ \A j \in DOMAIN p : p[j] = b => j = b - o
  <2>1. o < b /\ b <= cur[r]
    BY <1>5, <1>7
  <2>2. b - o \in 1 .. n /\ p[b - o] = b
    BY <1>3, <1>4, <2>1
  <2>3. \A j \in 1 .. n : p[j] = b => j = b - o
    BY <1>3, <1>4
  <2> QED BY <1>2, <2>2, <2>3
<1> QED BY <1>5, <1>6, <1>7 DEF p, o

\* The messages of a complete round are the payloads, and land where they fit.
LEMMA RoundFacts ==
  ASSUME IInv, NEW r \in Ranks, pc[r] = "stop", Arrived(r), NEW b \in Buffers, b \in InRound(r)
  PROVE  /\ Place(r, b) = Slots(r, b) /\ Slots(r, b) = PartialSums(PayloadCounts(r, b))
         /\ PayloadCounts(r, b) \in [Ranks -> Nat]
         /\ \A s \in Peers(r) : Landing(r, s, b - Stopped(r)) = Payload(s, b, r)
<1>1. TypeInv /\ ControlAt(r) /\ opts[r] = Made /\ offsets \in [Ranks -> Offsets]
  BY DEF IInv, TypeInv, ControlAt
<1> DEFINE k == b - Stopped(r)
<1>2. /\ Stopped(r) < b /\ b <= cur[r]
      /\ k \in DOMAIN posted[r] /\ posted[r][k] = b
  BY <1>1, RoundMembers
<1>3. IsCompressed(r, b) <=> Compressed(b)
  BY <1>1, SameCompression
<1>4. Place(r, b) = Slots(r, b)
  BY <1>3 DEF Place, Slots
<1>5. Compressed(b) => ExchangesDone(r) >= 2 + Count(b)
  BY <1>1, <1>2, SizesKnown DEF Before
<1>6. Slots(r, b) = PartialSums(PayloadCounts(r, b))
  BY <1>5, KnownOffsets DEF Before
<1>7. PayloadCounts(r, b) \in [Ranks -> Nat]
  BY <1>1, CountsTyped
<1>8. ASSUME NEW s \in Peers(r)
      PROVE  Landing(r, s, k) = Payload(s, b, r)
  <2>1. s \in Ranks /\ DataBetween(s, r)
    BY DEF IInv, Peers
  <2>2. k \in 1 .. Len(chan[s][r])
    <3>1. Len(chan[s][r]) >= Len(posted[r])
      BY DEF Arrived
    <3>2. posted[r] \in Seq(Buffers) /\ chan[s][r] \in Seq(Messages)
      BY <1>1, <2>1 DEF TypeInv
    <3> QED BY <1>2, <3>1, <3>2
  <2>3. Stopped(r) \in Int /\ b \in Int
    BY <1>1, CounterTypes, BufferNumbers
  <2>4. chan[s][r][k].buf = Stopped(r) + k /\ Stopped(r) + k = b
    BY <2>1, <2>2, <2>3 DEF DataBetween
  <2>5. chan[s][r][k].val = Payload(s, b, r)
    BY <2>1, <2>2, <2>4 DEF DataBetween
  <2>6. Expected(r, b, s) = Len(Payload(s, b, r))
    <3>1. PartialSums(PayloadCounts(r, b))[s + 1] - PartialSums(PayloadCounts(r, b))[s] = PayloadCounts(r, b)[s]
      BY <1>7, <2>1, PartialSumsFacts
    <3> QED BY <1>4, <1>6, <2>1, <3>1 DEF Expected, PayloadCounts
  <2>7. PayloadCounts(r, b)[s] \in Nat /\ PayloadCounts(r, b)[s] = Len(Payload(s, b, r))
    BY <1>7, <2>1 DEF PayloadCounts
  <2> HIDE DEF k
  <2> QED BY <1>2, <2>5, <2>6, <2>7 DEF Landing
<1> QED BY <1>4, <1>6, <1>7, <1>8

LEMMA FilledPasted ==
  ASSUME IInv, NEW r \in Ranks, pc[r] = "stop", Arrived(r), NEW b \in Buffers, b \in InRound(r), NEW buf,
         \A i \in DOMAIN buf : i \in Int
  PROVE  Pasted(Peers(r), PartialSums(PayloadCounts(r, b)), [s \in Ranks |-> Payload(s, b, r)],
                buf, Filled(r, b, buf))
<1> DEFINE k    == CHOOSE j \in DOMAIN posted[r] : posted[r][j] = b
           at   == Place(r, b)
           v    == [s \in Ranks |-> Payload(s, b, r)]
           from(i) == {s \in Peers(r) : i \in at[s] .. at[s] + Len(Landing(r, s, k)) - 1}
           new  == Filled(r, b, buf)
<1>1. k = b - Stopped(r)
  <2>1. TypeInv /\ ControlAt(r)
    BY DEF IInv
  <2> QED BY <2>1, RoundMembers
<1>2. new = [i \in DOMAIN buf |->
               IF from(i) = {} THEN buf[i]
               ELSE Landing(r, CHOOSE s \in from(i) : TRUE, k)[i - at[CHOOSE s \in from(i) : TRUE] + 1]]
  BY Zenon DEF Filled
<1>3. at = PartialSums(PayloadCounts(r, b)) /\ PayloadCounts(r, b) \in [Ranks -> Nat]
  BY RoundFacts
<1>4. \A s \in Peers(r) : Landing(r, s, k) = v[s]
  BY <1>1, RoundFacts DEF Peers
<1> HIDE DEF k, at, new
<1>5. ASSUME NEW s \in Peers(r)
      PROVE  at[s] + Len(Landing(r, s, k)) - 1 = at[s + 1] - 1
  <2>1. s \in Ranks /\ s \in 0 .. Size /\ s + 1 \in 0 .. Size
    BY SizeAssumption DEF Peers, Ranks
  <2>2. at[s] \in Nat /\ at[s + 1] \in Nat /\ at[s + 1] - at[s] = PayloadCounts(r, b)[s]
    BY <1>3, <2>1, PartialSumsFacts
  <2>3. PayloadCounts(r, b)[s] \in Nat /\ PayloadCounts(r, b)[s] = Len(Landing(r, s, k))
    BY <1>3, <1>4, <2>1 DEF PayloadCounts
  <2> DEFINE x == at[s]
             y == at[s + 1]
             n == PayloadCounts(r, b)[s]
  <2>4. x \in Nat /\ y \in Nat /\ n \in Nat /\ y - x = n
    BY <2>2, <2>3
  <2> HIDE DEF x, y, n
  <2>5. x + n - 1 = y - 1
    BY <2>4
  <2> QED BY <2>3, <2>5 DEF x, y, n
<1>6. ASSUME NEW i \in DOMAIN buf
      PROVE  \/ new[i] = buf[i] /\ \A s \in Peers(r) : i \notin at[s] .. at[s + 1] - 1
             \/ \E s \in Peers(r) : i \in at[s] .. at[s + 1] - 1 /\ new[i] = v[s][i - at[s] + 1]
  <2>1. from(i) = {s \in Peers(r) : i \in at[s] .. at[s + 1] - 1}
    BY <1>5
  <2>2. CASE from(i) = {}
    <3>1. new[i] = buf[i]
      BY <1>2, <1>6, <2>2, Zenon
    <3> QED BY <2>1, <2>2, <3>1
  <2>3. CASE from(i) # {}
    <3> DEFINE s == CHOOSE s \in from(i) : TRUE
    <3>1. s \in from(i)
      BY <2>3
    <3>2. new[i] = Landing(r, s, k)[i - at[s] + 1]
      BY <1>2, <1>6, <2>3, Zenon
    <3> HIDE DEF s
    <3>3. s \in Peers(r) /\ i \in at[s] .. at[s + 1] - 1
      BY <2>1, <3>1
    <3>4. new[i] = v[s][i - at[s] + 1]
      BY <1>4, <3>2, <3>3
    <3> QED BY <3>3, <3>4
  <2> QED BY <2>2, <2>3
<1>7. DOMAIN new = DOMAIN buf
  BY <1>2
<1> HIDE DEF v, from
<1>8. Pasted(Peers(r), at, v, buf, new)
  BY <1>6, <1>7 DEF Pasted
<1> QED BY <1>3, <1>8 DEF v, new

\* What the places of a buffer hold after a round.
LEMMA FilledHolds ==
  ASSUME IInv, NEW r \in Ranks, pc[r] = "stop", Arrived(r), NEW b \in Buffers, b \in InRound(r), NEW buf,
         DOMAIN buf = 0 .. Slots(r, b)[Size] - 1
  PROVE  /\ DOMAIN Filled(r, b, buf) = DOMAIN buf
         /\ \A s \in Peers(r) : Holds(Filled(r, b, buf), Slots(r, b)[s], Payload(s, b, r))
         /\ \A s \in Ranks \ Peers(r) : Holds(buf, Slots(r, b)[s], Payload(s, b, r)) =>
              Holds(Filled(r, b, buf), Slots(r, b)[s], Payload(s, b, r))
<1> DEFINE count == PayloadCounts(r, b)
           v     == [s \in Ranks |-> Payload(s, b, r)]
           new   == Filled(r, b, buf)
<1>1. Slots(r, b) = PartialSums(count) /\ count \in [Ranks -> Nat]
  BY RoundFacts
<1>2. \A i \in DOMAIN buf : i \in Int
  <2>1. PartialSums(count)[Size] \in Nat
    BY <1>1, PartialSumsFacts, SizeAssumption
  <2> HIDE DEF count
  <2> QED BY <1>1, <2>1
<1>3. Pasted(Peers(r), PartialSums(count), v, buf, new)
  BY <1>2, FilledPasted
<1>4. DOMAIN new = DOMAIN buf
  BY <1>3 DEF Pasted
<1>5. \A s \in Ranks : v[s] = Payload(s, b, r) /\ Len(v[s]) = count[s]
  BY DEF PayloadCounts
<1>6. Peers(r) \subseteq Ranks
  BY DEF Peers
<1>7. DOMAIN buf = 0 .. PartialSums(count)[Size] - 1
  BY <1>1
<1> HIDE DEF count, v, new
<1>8. ASSUME NEW s \in Ranks
      PROVE  /\ s \in Peers(r) => Holds(new, PartialSums(count)[s], v[s])
             /\ (s \notin Peers(r) /\ Holds(buf, PartialSums(count)[s], v[s])) =>
                   Holds(new, PartialSums(count)[s], v[s])
  BY <1>1, <1>3, <1>5, <1>6, <1>7, PastedHolds
<1>9. \A s \in Peers(r) : Holds(new, Slots(r, b)[s], Payload(s, b, r))
  BY <1>1, <1>5, <1>6, <1>8
<1>10. \A s \in Ranks \ Peers(r) : Holds(buf, Slots(r, b)[s], Payload(s, b, r)) =>
         Holds(new, Slots(r, b)[s], Payload(s, b, r))
  BY <1>1, <1>5, <1>8
<1> QED BY <1>4, <1>9, <1>10 DEF new

\* A round puts its messages into their places and leaves the rest alone.
LEMMA StopData ==
  ASSUME IInv, IInv', DataInv, NEW r \in Ranks, Stop(r)
  PROVE  DataInv'
<1> DEFINE c == cur[r]
<1>1. /\ c \in Buffers /\ TypeInv /\ ControlAt(r) /\ DataAt(r) /\ opts[r] = Made
      /\ pc[r] = "stop" /\ Arrived(r) /\ offsets \in [Ranks -> Offsets]
  BY DEF IInv, TypeInv, DataInv, ControlAt, Stop
<1>2. /\ OnlyMoves(r) /\ Static
      /\ ExchangesDone(r)' = ExchangesDone(r) /\ Stopped(r)' = c
  BY <1>1, StopStep DEF OnlyMoves
<1> HIDE DEF c
<1>3. /\ recvOff' = recvOff /\ compOff' = compOff /\ strOut' = strOut
      /\ DOMAIN recvBuf = Ranks /\ DOMAIN compBuf = Ranks /\ DOMAIN strOut = Ranks
  BY DEF Stop, DataInv
<1>4. pc'[r] \in {"compress", "launch", "postprocess"}
  <2>1. pc'[r] = AfterBuffer(r, cur[r])
    BY <1>1 DEF Stop, TypeInv
  <2> QED BY <2>1 DEF AfterBuffer, AtBuffer
<1>5. /\ \A b : (Compressed(b)' <=> Compressed(b)) /\ Count(b)' = Count(b)
      /\ \A s, b, d : Parcel(s, b, d)' = Parcel(s, b, d) /\ Payload(s, b, d)' = Payload(s, b, d)
      /\ Peers(r)' = Peers(r)
  BY <1>2, Frozen
<1>6. \A b \in Buffers : IsCompressed(r, b) <=> Compressed(b)
  BY <1>1, SameCompression
<1>7. /\ recvBuf' = [recvBuf EXCEPT ![r] = [b \in Buffers |->
           IF b \in InRound(r) /\ ~IsCompressed(r, b) THEN Filled(r, b, recvBuf[r][b]) ELSE recvBuf[r][b]]]
      /\ compBuf' = [compBuf EXCEPT ![r] = [b \in Buffers |->
           IF b \in InRound(r) /\ IsCompressed(r, b) THEN Filled(r, b, compBuf[r][b]) ELSE compBuf[r][b]]]
  BY DEF Stop
<1>8. /\ DOMAIN recvBuf' = Ranks /\ DOMAIN compBuf' = Ranks
      /\ DOMAIN recvBuf'[r] = Buffers /\ DOMAIN compBuf'[r] = Buffers
  BY <1>3, <1>7
<1>9. ASSUME NEW b \in Buffers
      PROVE  /\ recvBuf'[r][b] = IF b \in InRound(r) /\ ~Compressed(b)
                                 THEN Filled(r, b, recvBuf[r][b]) ELSE recvBuf[r][b]
             /\ compBuf'[r][b] = IF b \in InRound(r) /\ Compressed(b)
                                 THEN Filled(r, b, compBuf[r][b]) ELSE compBuf[r][b]
  BY <1>3, <1>6, <1>7
<1>10. \A q \in Ranks \ {r} : KeptBuffers(q)
  BY <1>3, <1>7 DEF KeptBuffers
<1>11. ASSUME NEW b \in Buffers
       PROVE  b \in InRound(r) <=> (Stopped(r) < b /\ b <= c)
  BY <1>1, RoundMembers DEF c
<1>12. ASSUME NEW b \in Buffers
       PROVE  /\ DOMAIN recvBuf[r][b] = 0 .. recvOff[r][b][Size] - 1
              /\ (Compressed(b) /\ ExchangesDone(r) >= 2 + Count(b)) =>
                   DOMAIN compBuf[r][b] = 0 .. compOff[r][b][Size] - 1
  BY <1>1 DEF DataAt, ShapeAt, Before
<1>13. ASSUME NEW b \in Buffers, b \in InRound(r)
       PROVE  DOMAIN Box(r, b) = 0 .. Slots(r, b)[Size] - 1
  <2>1. CASE ~ Compressed(b)
    BY <1>12, <2>1 DEF Box, Slots
  <2>2. CASE Compressed(b)
    <3>1. Stopped(r) < b /\ b <= cur[r]
      BY <1>11, <1>13 DEF c
    <3>2. ExchangesDone(r) >= 2 + Count(b)
      BY <1>1, <2>2, <3>1, SizesKnown DEF Before
    <3> QED BY <1>12, <2>2, <3>2 DEF Box, Slots
  <2> QED BY <2>1, <2>2
<1> DEFINE new(b) == Filled(r, b, Box(r, b))
<1>14. ASSUME NEW b \in Buffers, b \in InRound(r)
       PROVE  /\ DOMAIN new(b) = DOMAIN Box(r, b)
              /\ \A s \in Peers(r) : Holds(new(b), Slots(r, b)[s], Payload(s, b, r))
              /\ \A s \in Ranks \ Peers(r) : Holds(Box(r, b), Slots(r, b)[s], Payload(s, b, r)) =>
                    Holds(new(b), Slots(r, b)[s], Payload(s, b, r))
  BY <1>1, <1>13, <1>14, FilledHolds
<1>15. ASSUME NEW b \in Buffers
       PROVE  /\ Box(r, b)' = IF b \in InRound(r) THEN new(b) ELSE Box(r, b)
              /\ Slots(r, b)' = Slots(r, b)
              /\ Compressed(b) => recvBuf'[r][b] = recvBuf[r][b]
              /\ ~ Compressed(b) => compBuf'[r][b] = compBuf[r][b]
  <2>1. CASE Compressed(b)
    BY <1>3, <1>5, <1>9, <2>1 DEF Box, Slots
  <2>2. CASE ~ Compressed(b)
    BY <1>3, <1>5, <1>9, <2>2 DEF Box, Slots
  <2> QED BY <2>1, <2>2
<1> HIDE DEF new
<1>16. ASSUME NEW b \in Buffers
       PROVE  /\ DOMAIN recvBuf'[r][b] = DOMAIN recvBuf[r][b]
              /\ Compressed(b) => DOMAIN compBuf'[r][b] = DOMAIN compBuf[r][b]
  <2>1. DOMAIN Box(r, b)' = DOMAIN Box(r, b)
    BY <1>14, <1>15
  <2>2. CASE Compressed(b)
    BY <1>5, <1>15, <2>1, <2>2 DEF Box
  <2>3. CASE ~ Compressed(b)
    BY <1>5, <2>1, <2>3 DEF Box
  <2> QED BY <2>2, <2>3
<1>17. ShapeAt(r)'
  BY <1>2, <1>3, <1>5, <1>8, <1>12, <1>16 DEF ShapeAt
<1>18. LandedAt(r)'
  <2>1. ASSUME NEW b \in Buffers, b <= c, NEW s \in Peers(r)
        PROVE  Holds(Box(r, b)', Slots(r, b)'[s], Payload(s, b, r))
    <3>1. CASE b \in InRound(r)
      BY <1>14, <1>15, <2>1, <3>1
    <3>2. CASE b \notin InRound(r)
      <4>1. b <= Stopped(r)
        <5>1. b \in Int /\ Stopped(r) \in Int
          BY <1>1, CounterTypes, BufferNumbers
        <5> QED BY <1>11, <2>1, <3>2, <5>1
      <4> QED BY <1>1, <1>15, <2>1, <3>2, <4>1 DEF DataAt, LandedAt
    <3> QED BY <3>1, <3>2
  <2> QED BY <1>2, <1>5, <2>1 DEF LandedAt, Holds
<1>19. FinishedAt(r)' /\ RebuiltAt(r)'
  <2>1. ASSUME NEW b \in Buffers, NEW s \in Ranks, s \notin Peers(r)
        PROVE  Holds(recvBuf'[r][b], recvOff[r][b][s], Parcel(s, b, r))
    <3>1. Holds(recvBuf[r][b], recvOff[r][b][s], Parcel(s, b, r))
      BY <1>1, <2>1 DEF DataAt, FinishedAt, Before
    <3>2. CASE Compressed(b) \/ b \notin InRound(r)
      BY <1>9, <3>1, <3>2
    <3>3. CASE ~ Compressed(b) /\ b \in InRound(r)
      <4>1. Box(r, b) = recvBuf[r][b] /\ Slots(r, b) = recvOff[r][b] /\ Payload(s, b, r) = Parcel(s, b, r)
        BY <3>3 DEF Box, Slots, Payload
      <4>2. recvBuf'[r][b] = new(b)
        BY <1>9, <3>3, <4>1 DEF new
      <4> QED BY <1>14, <2>1, <3>1, <3>3, <4>1, <4>2
    <3> QED BY <3>2, <3>3
  <2>2. pc'[r] # "done"
    BY <1>4
  <2>3. FinishedAt(r)'
    BY <1>3, <1>5, <2>1, <2>2 DEF FinishedAt, Holds
  <2> QED BY <2>2, <2>3 DEF RebuiltAt
<1>20. \A q \in Ranks : DataAt(q)'
  BY <1>2, <1>10, <1>17, <1>18, <1>19, OthersData DEF DataInv, DataAt, OnlyMoves
<1> QED BY <1>3, <1>8, <1>20 DEF DataInv

\* What a sender sends, word by word.
LEMMA ParcelContents ==
  ASSUME offsets \in [Ranks -> Offsets], NEW s \in Ranks, NEW b \in Buffers, NEW d \in Ranks
  PROVE  /\ SendOff(s, b)[d] \in Nat /\ SendOff(s, b)[d + 1] \in Nat
         /\ Len(Parcel(s, b, d)) = SendOff(s, b)[d + 1] - SendOff(s, b)[d]
         /\ Len(Parcel(s, b, d)) \in Nat
         /\ Parcel(s, b, d) = [k \in 1 .. Len(Parcel(s, b, d)) |-> SendWord(s, b, SendOff(s, b)[d] + k - 1)]
         /\ b = Chars => /\ SendOff(s, b)[d] = StrOff[s][offsets[s][d]]
                         /\ SendOff(s, b)[d + 1] = StrOff[s][offsets[s][d + 1]]
         /\ b # Chars => SendOff(s, b) = offsets[s]
         /\ offsets[s][d] \in 0 .. NumRows /\ offsets[s][d + 1] \in 0 .. NumRows
         /\ offsets[s][d] <= offsets[s][d + 1]
         /\ Parcel(s, b, d) # <<>> => CompressedSize(Len(Parcel(s, b, d))) \in Nat \ {0}
<1> DEFINE i == offsets[s][d]
           j == offsets[s][d + 1]
           o == SendOff(s, b)
           n == o[d + 1] - o[d]
<1>1. d \in 0 .. Size /\ d + 1 \in 0 .. Size /\ d <= d + 1
  BY SizeAssumption DEF Ranks
<1>2. offsets[s] \in Offsets /\ offsets[s] \in [0 .. Size -> 0 .. NumRows]
  BY OffsetAssumption
<1>3. i \in 0 .. NumRows /\ j \in 0 .. NumRows /\ i <= j
  BY <1>1, <1>2, AscendingAssumption
<1> HIDE DEF i, j
<1>4. StrOff[s][i] \in Nat /\ StrOff[s][j] \in Nat /\ StrOff[s][i] <= StrOff[s][j]
  BY <1>3, StringAssumption, AscendingAssumption
<1>5. b = Chars => o[d] = StrOff[s][i] /\ o[d + 1] = StrOff[s][j]
  BY <1>1 DEF SendOff, i, j
<1>6. b # Chars => o = offsets[s] /\ o[d] = i /\ o[d + 1] = j
  BY DEF SendOff, i, j
<1>7. Parcel(s, b, d) = [k \in 1 .. n |-> SendWord(s, b, o[d] + k - 1)]
  BY Zenon DEF Parcel
<1> HIDE DEF o
<1>8. o[d] \in Nat /\ o[d + 1] \in Nat /\ n \in Nat
  <2>1. CASE b = Chars
    BY <1>4, <1>5, <2>1
  <2>2. CASE b # Chars
    BY <1>3, <1>6, <2>2
  <2> QED BY <2>1, <2>2
<1> HIDE DEF n
<1>9. Len(Parcel(s, b, d)) = n
  BY <1>7, <1>8
<1>10. Parcel(s, b, d) # <<>> => CompressedSize(n) \in Nat \ {0}
  <2>1. SUFFICES ASSUME Parcel(s, b, d) # <<>> PROVE CompressedSize(n) \in Nat \ {0}
    OBVIOUS
  <2>2. n \in {j - i, StrOff[s][j] - StrOff[s][i]}
    <3>1. CASE b = Chars
      BY <1>5, <3>1 DEF n
    <3>2. CASE b # Chars
      BY <1>6, <3>2 DEF n
    <3> QED BY <3>1, <3>2
  <2>3. n > 0
    <3>1. n = 0 => Parcel(s, b, d) = <<>>
      BY <1>7
    <3> QED BY <1>8, <2>1, <3>1
  <2> QED BY <1>3, <2>2, <2>3, CompressedAssumption
<1> QED BY <1>3, <1>5, <1>6, <1>7, <1>8, <1>9, <1>10 DEF o, n, i, j

\* Decompression is the inverse of compression.
LEMMA RoundTrip ==
  ASSUME offsets \in [Ranks -> Offsets], NEW s \in Ranks, NEW b \in Buffers, NEW d \in Ranks, d \in Peers(s),
         Len(Parcel(s, b, d)) > 0
  PROVE  Decompress(CompressedParcel(s, b, d), Len(Parcel(s, b, d))) = Parcel(s, b, d)
<1> DEFINE p == Parcel(s, b, d)
           n == CompressedSize(Len(p))
           c == CompressedParcel(s, b, d)
<1>1. n \in Nat /\ n > 0
  <2>1. p # <<>>
    OBVIOUS
  <2>2. n \in Nat \ {0}
    BY <2>1, ParcelContents
  <2> HIDE DEF n
  <2> QED BY <2>2
<1>2. p # <<>>
  OBVIOUS
<1>3. c = [k \in 1 .. n |-> [data |-> p, at |-> k, of |-> n]]
  <2>1. c = [k \in 1 .. (IF d \in Peers(s) /\ p # <<>> THEN n ELSE 0) |->
              [data |-> p, at |-> k, of |-> IF d \in Peers(s) /\ p # <<>> THEN n ELSE 0]]
    BY Zenon DEF CompressedParcel
  <2> HIDE DEF p, n
  <2> QED BY <1>2, <2>1
<1> HIDE DEF p, n, c
<1>4. Len(c) = n /\ DOMAIN c = 1 .. n /\ c # <<>> /\ c[1].data = p
  <2>1. Len(c) = n /\ DOMAIN c = 1 .. n
    BY <1>1, <1>3
  <2>2. 1 \in 1 .. n
    BY <1>1
  <2>3. c[1].data = p
    BY <1>3, <2>2
  <2>4. c # <<>>
    BY <1>1, <2>1
  <2> QED BY <2>1, <2>3, <2>4
<1>5. \A k \in DOMAIN c : c[k] = [data |-> c[1].data, at |-> k, of |-> Len(c)]
  BY <1>3, <1>4
<1>6. Decompress(c, Len(p)) = p
  BY <1>4, <1>5 DEF Decompress
<1> QED BY <1>6 DEF c, p

\* What the bytes of a landed compressed buffer are.
LEMMA BytesLanded ==
  ASSUME IInv, NEW r \in Ranks, pc[r] = "postprocess", NEW b \in Buffers, Compressed(b), NEW s \in Peers(r),
         DataAt(r)
  PROVE  Bytes(r, b, s) = CompressedParcel(s, b, r)
<1>1. TypeInv /\ ControlAt(r) /\ offsets \in [Ranks -> Offsets] /\ s \in Ranks /\ b <= Fixed
  <2>1. b <= Fixed
    BY BufferNumbers
  <2> QED BY <2>1 DEF IInv, TypeInv, Peers
<1> DEFINE c  == CompressedParcel(s, b, r)
           at == compOff[r][b]
           n  == Len(c)
           buf == compBuf[r][b]
<1>2. cur[r] = Fixed /\ Stopped(r) = Fixed
  BY <1>1 DEF ControlAt, Stopped, Before
<1>3. ExchangesDone(r) >= 2 + Count(b)
  <2>1. b <= cur[r] /\ pc[r] \notin Before
    BY <1>1, <1>2 DEF Before
  <2> QED BY <1>1, <2>1, SizesKnown
<1>4. at = PartialSums(ByteCounts(r, b)) /\ ByteCounts(r, b) \in [Ranks -> Nat]
  <2>1. OffsetsAt(r)
    BY DEF IInv
  <2> QED BY <1>1, <1>3, <2>1, CountsTyped DEF OffsetsAt
<1>5. n \in Nat /\ at[s + 1] - at[s] = n
  <2>1. ByteCounts(r, b)[s] = n /\ ByteCounts(r, b)[s] \in Nat
    BY <1>1, <1>4 DEF ByteCounts
  <2> QED BY <1>1, <1>4, <2>1, PartialSumsFacts
<1>6. Holds(buf, at[s], c)
  BY <1>1, <1>2 DEF DataAt, LandedAt, Box, Slots, Payload
<1>7. Bytes(r, b, s) = [j \in 1 .. at[s + 1] - at[s] |-> buf[at[s] + j - 1]]
  BY Zenon DEF Bytes
<1>8. c = [j \in 1 .. n |-> c[j]]
  <2> DEFINE m == IF r \in Peers(s) /\ Parcel(s, b, r) # <<>> THEN CompressedSize(Len(Parcel(s, b, r))) ELSE 0
  <2>1. c = [j \in 1 .. m |-> [data |-> Parcel(s, b, r), at |-> j, of |-> m]]
    BY Zenon DEF CompressedParcel
  <2>2. m \in Nat
    <3>1. CASE Parcel(s, b, r) = <<>>
      BY <3>1
    <3>2. CASE Parcel(s, b, r) # <<>>
      <4>1. CompressedSize(Len(Parcel(s, b, r))) \in Nat \ {0}
        BY <1>1, <3>2, ParcelContents
      <4> QED BY <3>2, <4>1
    <3> QED BY <3>1, <3>2
  <2> HIDE DEF m, c
  <2>3. Len(c) = m
    BY <2>1, <2>2
  <2> QED BY <2>1, <2>3
<1> HIDE DEF c, at, n, buf
<1>9. \A j \in 1 .. n : buf[at[s] + j - 1] = c[j]
  BY <1>6 DEF Holds, n
<1>10. Bytes(r, b, s) = c
  BY <1>5, <1>7, <1>8, <1>9
<1> QED BY <1>10 DEF c

LEMMA DecompressedPasted ==
  ASSUME IInv, NEW r \in Ranks, pc[r] = "postprocess", NEW b \in Buffers, Compressed(b), DataAt(r)
  PROVE  Pasted(Peers(r), recvOff[r][b], [s \in Ranks |-> Parcel(s, b, r)], recvBuf[r][b], Decompressed(r, b))
<1> DEFINE o == recvOff[r][b]
           v == [s \in Ranks |-> Parcel(s, b, r)]
           buf == recvBuf[r][b]
           new == Decompressed(r, b)
           from(i) == {s \in Peers(r) : i \in o[s] .. o[s + 1] - 1}
<1>1. offsets \in [Ranks -> Offsets] /\ Peers(r) \subseteq Ranks
  BY DEF IInv, TypeInv, Peers
<1>2. o = PartialSums(RowCounts(r, b)) /\ RowCounts(r, b) \in [Ranks -> Nat]
  BY <1>1, KnownOffsets, CountsTyped DEF Before
<1>3. ASSUME NEW s \in Ranks
      PROVE  o[s] \in Nat /\ o[s + 1] \in Nat /\ o[s + 1] - o[s] = Len(v[s])
  <2>1. s \in 0 .. Size /\ s + 1 \in 0 .. Size
    BY SizeAssumption DEF Ranks
  <2> QED BY <1>2, <2>1, PartialSumsFacts DEF RowCounts
<1>4. new = [i \in DOMAIN buf |->
               IF from(i) = {} THEN buf[i]
               ELSE Decompress(Bytes(r, b, CHOOSE s \in from(i) : TRUE),
                               o[(CHOOSE s \in from(i) : TRUE) + 1] - o[CHOOSE s \in from(i) : TRUE])
                      [i - o[CHOOSE s \in from(i) : TRUE] + 1]]
  BY Zenon DEF Decompressed
<1>5. ASSUME NEW s \in Peers(r), NEW i, i \in o[s] .. o[s + 1] - 1
      PROVE  Decompress(Bytes(r, b, s), o[s + 1] - o[s]) = v[s]
  <2>1. s \in Ranks /\ r \in Peers(s)
    BY <1>1, SymmetricPeers
  <2>2. Bytes(r, b, s) = CompressedParcel(s, b, r)
    BY BytesLanded
  <2>3. Len(Parcel(s, b, r)) > 0 /\ o[s + 1] - o[s] = Len(Parcel(s, b, r)) /\ v[s] = Parcel(s, b, r)
    <3>1. o[s] \in Nat /\ o[s + 1] \in Nat /\ o[s + 1] - o[s] = Len(v[s]) /\ v[s] = Parcel(s, b, r)
      BY <1>3, <2>1
    <3> HIDE DEF o, v
    <3> QED BY <1>5, <3>1
  <2>4. Decompress(CompressedParcel(s, b, r), Len(Parcel(s, b, r))) = Parcel(s, b, r)
    BY <1>1, <2>1, <2>3, RoundTrip
  <2> HIDE DEF o, v
  <2> QED BY <2>2, <2>3, <2>4
<1> HIDE DEF o, v, buf, new
<1>6. ASSUME NEW i \in DOMAIN buf
      PROVE  \/ new[i] = buf[i] /\ \A s \in Peers(r) : i \notin o[s] .. o[s + 1] - 1
             \/ \E s \in Peers(r) : i \in o[s] .. o[s + 1] - 1 /\ new[i] = v[s][i - o[s] + 1]
  <2>1. CASE from(i) = {}
    <3>1. new[i] = buf[i]
      BY <1>4, <1>6, <2>1, Zenon
    <3> QED BY <2>1, <3>1
  <2>2. CASE from(i) # {}
    <3> DEFINE s == CHOOSE s \in from(i) : TRUE
    <3>1. s \in from(i)
      BY <2>2
    <3>2. new[i] = Decompress(Bytes(r, b, s), o[s + 1] - o[s])[i - o[s] + 1]
      BY <1>4, <1>6, <2>2, Zenon
    <3> HIDE DEF s
    <3>3. s \in Peers(r) /\ i \in o[s] .. o[s + 1] - 1
      BY <3>1
    <3>4. Decompress(Bytes(r, b, s), o[s + 1] - o[s]) = v[s]
      BY <1>5, <3>3
    <3> QED BY <3>2, <3>3, <3>4
  <2> QED BY <2>1, <2>2
<1>7. DOMAIN new = DOMAIN buf
  BY <1>4
<1> HIDE DEF from
<1>8. Pasted(Peers(r), o, v, buf, new)
  BY <1>6, <1>7 DEF Pasted
<1> QED BY <1>8 DEF o, v, buf, new

\* In the end every part of every buffer is there, decompressed.
LEMMA PostprocessData ==
  ASSUME IInv, IInv', DataInv, NEW r \in Ranks, Postprocess(r)
  PROVE  DataInv'
<1>1. /\ TypeInv /\ ControlAt(r) /\ DataAt(r) /\ opts[r] = Made
      /\ pc[r] = "postprocess" /\ offsets \in [Ranks -> Offsets] /\ pc \in [Ranks -> PCs]
  BY DEF IInv, TypeInv, DataInv, ControlAt, Postprocess
<1>2. Static /\ cur' = cur /\ pc' = [pc EXCEPT ![r] = "done"]
  BY DEF Static, Postprocess, args, optVars
<1>3. /\ recvOff' = recvOff /\ compOff' = compOff /\ compBuf' = compBuf
      /\ DOMAIN recvBuf = Ranks /\ DOMAIN compBuf = Ranks /\ DOMAIN strOut = Ranks
  BY DEF Postprocess, DataInv
<1>4. pc'[r] = "done" /\ \A q \in Ranks \ {r} : pc'[q] = pc[q]
  BY <1>1, <1>2
<1>5. /\ \A b : (Compressed(b)' <=> Compressed(b)) /\ Count(b)' = Count(b)
      /\ \A s, b, d : Parcel(s, b, d)' = Parcel(s, b, d) /\ Payload(s, b, d)' = Payload(s, b, d)
      /\ Peers(r)' = Peers(r)
  BY <1>2, Frozen
<1>6. \A b \in Buffers : IsCompressed(r, b) <=> Compressed(b)
  BY <1>1, SameCompression
<1> DEFINE new(b) == IF Compressed(b) THEN Decompressed(r, b) ELSE recvBuf[r][b]
           bufs == [b \in Buffers |-> IF IsCompressed(r, b) THEN Decompressed(r, b) ELSE recvBuf[r][b]]
<1>7. /\ recvBuf' = [recvBuf EXCEPT ![r] = bufs]
      /\ strOut' = [strOut EXCEPT ![r] = StringOffsets(bufs[Sizes], recvOff[r][Sizes][Size])]
  BY Zenon DEF Postprocess
<1>8. \A b \in Buffers : bufs[b] = new(b)
  BY <1>6
<1> HIDE DEF bufs
<1>9. /\ DOMAIN recvBuf' = Ranks /\ DOMAIN strOut' = Ranks /\ recvBuf'[r] = bufs
      /\ strOut'[r] = StringOffsets(bufs[Sizes], recvOff[r][Sizes][Size])
  BY <1>3, <1>7
<1>10. \A b \in Buffers : recvBuf'[r][b] = new(b)
  BY <1>8, <1>9
<1>11. \A q \in Ranks \ {r} : KeptBuffers(q)
  BY <1>3, <1>7 DEF KeptBuffers
<1>12. cur[r] = Fixed /\ Stopped(r) = Fixed /\ Stopped(r)' = Fixed /\ ExchangesDone(r)' = ExchangesDone(r)
  <2>1. cur[r] = Fixed /\ cur'[r] = Fixed
    BY <1>1, <1>2 DEF ControlAt
  <2>2. Stopped(r) = Fixed /\ Stopped(r)' = Fixed
    BY <1>1, <1>4 DEF Stopped, Before
  <2>3. ExchangesDone(r)' = ExchangesDone(r)
    BY <1>1, <1>4, <1>5, <2>1 DEF ExchangesDone, Before
  <2> QED BY <2>1, <2>2, <2>3
<1>13. ASSUME NEW b \in Buffers
       PROVE  /\ DOMAIN recvBuf[r][b] = 0 .. recvOff[r][b][Size] - 1
              /\ recvOff[r][b] = PartialSums(RowCounts(r, b)) /\ RowCounts(r, b) \in [Ranks -> Nat]
  BY <1>1, KnownOffsets, CountsTyped DEF DataAt, ShapeAt, Before
<1>14. ASSUME NEW b \in Buffers
       PROVE  /\ DOMAIN new(b) = DOMAIN recvBuf[r][b]
              /\ \A s \in Ranks : Holds(new(b), recvOff[r][b][s], Parcel(s, b, r))
  <2>1. \A s \in Ranks : Len(Parcel(s, b, r)) = RowCounts(r, b)[s]
    BY DEF RowCounts
  <2>2. \A s \in Ranks \ Peers(r) : Holds(recvBuf[r][b], recvOff[r][b][s], Parcel(s, b, r))
    BY <1>1 DEF DataAt, FinishedAt, Before
  <2>3. CASE ~ Compressed(b)
    <3>1. b <= Stopped(r)
      BY <1>12, BufferNumbers
    <3>2. ASSUME NEW s \in Peers(r)
          PROVE  Holds(recvBuf[r][b], recvOff[r][b][s], Parcel(s, b, r))
      <4>1. Holds(Box(r, b), Slots(r, b)[s], Payload(s, b, r))
        BY <1>1, <3>1 DEF DataAt, LandedAt
      <4> QED BY <2>3, <4>1 DEF Box, Slots, Payload
    <3> QED BY <2>2, <2>3, <3>2
  <2>4. CASE Compressed(b)
    <3> DEFINE v == [s \in Ranks |-> Parcel(s, b, r)]
               d == Decompressed(r, b)
    <3>1. Pasted(Peers(r), PartialSums(RowCounts(r, b)), v, recvBuf[r][b], d)
      BY <1>1, <1>13, <2>4, DecompressedPasted
    <3>2. Peers(r) \subseteq Ranks /\ \A s \in Ranks : v[s] = Parcel(s, b, r) /\ Len(v[s]) = RowCounts(r, b)[s]
      BY <2>1 DEF Peers
    <3>3. new(b) = d /\ DOMAIN d = DOMAIN recvBuf[r][b]
      BY <2>4 DEF Decompressed
    <3>4. DOMAIN recvBuf[r][b] = 0 .. PartialSums(RowCounts(r, b))[Size] - 1
      BY <1>13
    <3> HIDE DEF v, d, new
    <3>5. ASSUME NEW s \in Ranks
          PROVE  /\ s \in Peers(r) => Holds(d, PartialSums(RowCounts(r, b))[s], v[s])
                 /\ (s \notin Peers(r) /\ Holds(recvBuf[r][b], PartialSums(RowCounts(r, b))[s], v[s])) =>
                       Holds(d, PartialSums(RowCounts(r, b))[s], v[s])
      BY <1>13, <3>1, <3>2, <3>4, PastedHolds
    <3> QED BY <1>13, <2>2, <3>2, <3>3, <3>5
  <2> QED BY <2>3, <2>4
<1>15. ShapeAt(r)'
  <2>1. DOMAIN recvBuf'[r] = Buffers
    BY <1>9 DEF bufs
  <2>2. \A b \in Buffers : DOMAIN recvBuf'[r][b] = 0 .. recvOff[r][b][Size] - 1
    BY <1>10, <1>13, <1>14
  <2>3. /\ DOMAIN compBuf[r] = Buffers
        /\ \A b \in Buffers : (Compressed(b) /\ ExchangesDone(r) >= 2 + Count(b)) =>
             DOMAIN compBuf[r][b] = 0 .. compOff[r][b][Size] - 1
    BY <1>1 DEF DataAt, ShapeAt
  <2> QED BY <1>3, <1>5, <1>12, <2>1, <2>2, <2>3 DEF ShapeAt
<1>16. LandedAt(r)'
  <2>1. ASSUME NEW b \in Buffers
        PROVE  Box(r, b)' = Box(r, b) /\ Slots(r, b)' = Slots(r, b)
    <3>1. CASE Compressed(b)
      BY <1>3, <1>5, <3>1 DEF Box, Slots
    <3>2. CASE ~ Compressed(b)
      BY <1>3, <1>5, <1>10, <3>2 DEF Box, Slots
    <3> QED BY <3>1, <3>2
  <2>2. \A b \in Buffers : b <= Stopped(r) =>
          \A s \in Peers(r) : Holds(Box(r, b), Slots(r, b)[s], Payload(s, b, r))
    BY <1>1 DEF DataAt, LandedAt
  <2> QED BY <1>5, <1>12, <2>1, <2>2 DEF LandedAt, Holds
<1>17. FinishedAt(r)'
  <2>1. \A b \in Buffers, s \in Ranks : Holds(recvBuf'[r][b], recvOff'[r][b][s], Parcel(s, b, r))
    BY <1>3, <1>10, <1>14
  <2> HIDE DEF new
  <2> QED BY <1>5, <2>1 DEF FinishedAt, Holds
<1>18. RebuiltAt(r)'
  BY <1>3, <1>9 DEF RebuiltAt
<1>19. ASSUME NEW q \in Ranks, q # r
       PROVE  DataAt(q)'
  BY <1>2, <1>4, <1>11, <1>19, OthersData DEF DataInv
<1>20. \A q \in Ranks : DataAt(q)'
  BY <1>15, <1>16, <1>17, <1>18, <1>19 DEF DataAt
<1> QED BY <1>3, <1>9, <1>20 DEF DataInv

LEMMA StutterData == IInv /\ DataInv /\ UNCHANGED vars => DataInv'
<1> SUFFICES ASSUME IInv, DataInv, UNCHANGED vars PROVE DataInv'
  OBVIOUS
<1>1. /\ Static /\ UNCHANGED <<pc, cur, recvOff, compOff, recvBuf, compBuf, strOut>>
  BY DEF vars, Static, optVars
<1>2. \A q \in Ranks : KeptBuffers(q)
  BY <1>1 DEF KeptBuffers
<1>3. \A q \in Ranks : DataAt(q)'
  BY <1>1, <1>2, OthersData DEF DataInv
<1> QED BY <1>1, <1>3 DEF DataInv

LEMMA NextData == IInv /\ IInv' /\ DataInv /\ [Next]_vars => DataInv'
<1> SUFFICES ASSUME IInv, IInv', DataInv, [Next]_vars PROVE DataInv'
  OBVIOUS
<1>1. ASSUME NEW r \in Ranks, RankStep(r)
      PROVE  DataInv'
  <2>1. CASE MakeOptions(r) \/ OptionsThrow(r) \/ PostSizes(r) \/ Launch(r)
    BY <2>1, SendingData
  <2>2. CASE TakeSizes(r)
    BY <2>2, TakeSizesData
  <2>3. CASE Allocate(r)
    BY <2>3, AllocateData
  <2>4. CASE Stop(r)
    BY <2>4, StopData
  <2>5. CASE Postprocess(r)
    BY <2>5, PostprocessData
  <2> QED BY <1>1, <2>1, <2>2, <2>3, <2>4, <2>5 DEF RankStep
<1>2. CASE UNCHANGED vars
  BY <1>2, StutterData
<1> QED BY <1>1, <1>2 DEF Next, Ended

LEMMA SpecData == Spec => [](IInv /\ DataInv)
<1> QED BY InitIInv, NextIInv, InitData, NextData, PTL DEF Spec

\* In the end the words every source sent are at its offset, in order.
LEMMA WordsThere ==
  ASSUME IInv, DataInv, NEW r \in Ranks, pc[r] = "done", NEW s \in Ranks, NEW b \in Buffers,
         NEW j \in 0 .. Len(Parcel(s, b, r)) - 1
  PROVE  recvBuf[r][b][recvOff[r][b][s] + j] = SendWord(s, b, SendOff(s, b)[r] + j)
<1> DEFINE p == Parcel(s, b, r)
           i == SendOff(s, b)[r]
           at == recvOff[r][b][s]
<1>1. i \in Nat /\ Len(p) \in Nat /\ p = [k \in 1 .. Len(p) |-> SendWord(s, b, i + k - 1)]
  <2>1. offsets \in [Ranks -> Offsets]
    BY DEF IInv, TypeInv
  <2> QED BY <2>1, ParcelContents
<1>2. Holds(recvBuf[r][b], at, p)
  BY DEF DataInv, DataAt, FinishedAt, Before
<1>3. at \in Nat
  <2>1. recvOff \in [Ranks -> [Buffers -> [0 .. Size -> Nat]]] /\ s \in 0 .. Size
    <3>1. s \in 0 .. Size
      BY SizeAssumption DEF Ranks
    <3> QED BY <3>1 DEF IInv, TypeInv
  <2>2. recvOff[r][b] \in [0 .. Size -> Nat]
    BY <2>1
  <2> QED BY <2>1, <2>2
<1> HIDE DEF p, i, at
<1>4. j \in Nat /\ j + 1 \in 1 .. Len(p) /\ at + (j + 1) - 1 = at + j /\ i + (j + 1) - 1 = i + j
  <2>1. j \in 0 .. Len(p) - 1
    BY DEF p
  <2> QED BY <1>1, <1>3, <2>1
<1>5. recvBuf[r][b][at + (j + 1) - 1] = p[j + 1]
  BY <1>2, <1>4 DEF Holds
<1>6. p[j + 1] = SendWord(s, b, i + (j + 1) - 1)
  BY <1>1, <1>4
<1>7. recvBuf[r][b][at + j] = SendWord(s, b, i + j)
  BY <1>4, <1>5, <1>6
<1> QED BY <1>7 DEF at, i

-----------------------------------------------------------------------------
(***************************************************************************)
(* Strings: the offsets rebuilt from the sizes cut the chars.              *)
(***************************************************************************)
LEMMA StringOffsetsUpTo ==
  ASSUME NEW sizes, NEW n \in Nat
  PROVE  SumsUpTo([i \in 0 .. n - 1 |-> sizes[i][3]], n, StringOffsets(sizes, n))
<1> DEFINE count == [i \in 0 .. n - 1 |-> sizes[i][3]]
           Step(f) == [i \in 0 .. n |-> IF i = 0 THEN 0 ELSE f[i - 1] + sizes[i - 1][3]]
           f == CHOOSE h : h = Step(h)
<1>1. StringOffsets(sizes, n) = f
  BY Zenon DEF StringOffsets
<1>2. PICK g : SumsUpTo(count, n, g)
  BY SumsExist
<1>3. \A i \in 1 .. n : count[i - 1] = sizes[i - 1][3]
  OBVIOUS
<1>4. g = Step(g)
  <2>1. ASSUME NEW i \in 0 .. n
        PROVE  g[i] = IF i = 0 THEN 0 ELSE g[i - 1] + sizes[i - 1][3]
    <3>1. CASE i = 0
      BY <1>2, <3>1 DEF SumsUpTo
    <3>2. CASE i # 0
      <4>1. i \in 1 .. n
        BY <3>2
      <4>2. g[i] = g[i - 1] + count[i - 1] /\ count[i - 1] = sizes[i - 1][3]
        BY <1>2, <1>3, <4>1 DEF SumsUpTo
      <4> QED BY <3>2, <4>2
    <3> QED BY <3>1, <3>2
  <2>2. g = [i \in 0 .. n |-> g[i]]
    BY <1>2 DEF SumsUpTo
  <2> QED BY <2>1, <2>2, Zenon
<1>5. f = Step(f)
  <2>1. \E h : h = Step(h)
    BY <1>4, Zenon
  <2> HIDE DEF Step
  <2> QED BY <2>1, Zenon
<1> HIDE DEF f, count
<1>6. \A i \in 0 .. n : f[i] = IF i = 0 THEN 0 ELSE f[i - 1] + sizes[i - 1][3]
  BY <1>5
<1>7. DOMAIN f = 0 .. n /\ f = [i \in 0 .. n |-> f[i]]
  BY <1>5
<1>8. f[0] = 0 /\ \A i \in 1 .. n : f[i] = f[i - 1] + count[i - 1]
  BY <1>3, <1>6
<1>9. SumsUpTo(count, n, f)
  BY <1>7, <1>8, Zenon DEF SumsUpTo
<1> QED BY <1>1, <1>9 DEF count

\* From at on, f sums up the differences of h.
SumsDifferences(c, n, f, at, m, h, base) ==
  /\ n \in Nat /\ at \in Nat /\ m \in Nat /\ at + m <= n
  /\ SumsUpTo(c, n, f) /\ h \in [0 .. m -> Int] /\ base \in Int /\ f[at] = base + h[0]
  /\ \A j \in 0 .. m - 1 : c[at + j] = h[j + 1] - h[j]

\* Sums of differences telescope.
LEMMA Telescope ==
  ASSUME NEW c, NEW n, NEW f, NEW at, NEW m, NEW h, NEW base, SumsDifferences(c, n, f, at, m, h, base)
  PROVE  \A j \in 0 .. m : f[at + j] = base + h[j]
<1> USE DEF SumsDifferences
<1> DEFINE Bad == {j \in Nat : j <= m /\ f[at + j] # base + h[j]}
<1>1. Bad = {}
  <2> SUFFICES ASSUME Bad # {} PROVE FALSE
    OBVIOUS
  <2>1. PICK j \in Bad : \A k \in Bad : j <= k
    BY SmallestExists
  <2>2. j # 0
    BY <2>1
  <2>3. j \in Nat /\ j - 1 \in 0 .. m - 1 /\ j <= m /\ j - 1 \notin Bad /\ f[at + j] # base + h[j]
    BY <2>1, <2>2
  <2>4. f[at + (j - 1)] = base + h[j - 1]
    BY <2>3
  <2>5. c[at + (j - 1)] = h[(j - 1) + 1] - h[j - 1]
    BY <2>3
  <2>6. /\ (at + j) - 1 = at + (j - 1) /\ (j - 1) + 1 = j /\ at + j \in 1 .. n
        /\ j \in 0 .. m /\ j - 1 \in 0 .. m
    BY <2>3
  <2>7. f[at + j] = f[(at + j) - 1] + c[(at + j) - 1]
    BY <2>6 DEF SumsUpTo
  <2>8. h[j] \in Int /\ h[j - 1] \in Int
    BY <2>6
  <2>9. f[at + j] = base + h[j - 1] + (h[j] - h[j - 1])
    BY <2>4, <2>5, <2>6, <2>7
  <2> QED BY <2>3, <2>8, <2>9
<1>2. ASSUME NEW j \in 0 .. m
      PROVE  f[at + j] = base + h[j]
  <2>1. j \in Nat /\ j <= m
    OBVIOUS
  <2>2. j \notin Bad
    BY <1>1, Zenon
  <2> QED BY <2>1, <2>2
<1> QED BY <1>2

AllStartAtZero == \A q \in Ranks : offsets[q][0] = 0

\* Where the strings of one source are in the rows and in the chars.
LEMMA StringPlaces ==
  ASSUME IInv, NEW r \in Ranks, pc[r] = "done", NEW s \in Ranks
  PROVE  /\ recvOff[r][Sizes] \in [0 .. Size -> Nat] /\ recvOff[r][Chars] \in [0 .. Size -> Nat]
         /\ recvOff[r][Sizes][0] = 0 /\ recvOff[r][Chars][0] = 0
         /\ recvOff[r][Sizes][s + 1] = recvOff[r][Sizes][s] + (offsets[s][r + 1] - offsets[s][r])
         /\ recvOff[r][Chars][s + 1] =
              recvOff[r][Chars][s] + (StrOff[s][offsets[s][r + 1]] - StrOff[s][offsets[s][r]])
         /\ recvOff[r][Sizes][s + 1] <= recvOff[r][Sizes][Size]
<1>1. offsets \in [Ranks -> Offsets] /\ Sizes \in Buffers /\ Chars \in Buffers /\ Sizes # Chars
  BY BufferNumbers DEF IInv, TypeInv
<1>2. ASSUME NEW b \in Buffers
      PROVE  /\ recvOff[r][b] \in [0 .. Size -> Nat] /\ recvOff[r][b][0] = 0
             /\ recvOff[r][b][s + 1] = recvOff[r][b][s] + Len(Parcel(s, b, r))
             /\ recvOff[r][b][s + 1] <= recvOff[r][b][Size]
  <2> DEFINE count == RowCounts(r, b)
             f == PartialSums(count)
  <2>1. recvOff[r][b] = f /\ count \in [Ranks -> Nat]
    BY <1>1, KnownOffsets, CountsTyped DEF Before
  <2>2. s \in 0 .. Size /\ s + 1 \in 0 .. Size /\ Size \in 0 .. Size /\ s + 1 <= Size
    BY SizeAssumption DEF Ranks
  <2>3. count[s] = Len(Parcel(s, b, r)) /\ count[s] \in Nat
    BY <2>1 DEF RowCounts
  <2> HIDE DEF count
  <2>4. f \in [0 .. Size -> Nat] /\ f[0] = 0 /\ f[s + 1] - f[s] = count[s]
    BY <2>1, PartialSumsFacts
  <2>5. f[s + 1] <= f[Size]
    BY <2>1, <2>2, PartialSumsOrder
  <2> HIDE DEF f
  <2>6. f[s] \in Nat /\ f[s + 1] \in Nat
    BY <2>2, <2>4
  <2> QED BY <2>1, <2>3, <2>4, <2>5, <2>6
<1>3. Len(Parcel(s, Sizes, r)) = offsets[s][r + 1] - offsets[s][r]
  <2>1. SendOff(s, Sizes) = offsets[s]
    BY <1>1 DEF SendOff
  <2>2. Len(Parcel(s, Sizes, r)) = SendOff(s, Sizes)[r + 1] - SendOff(s, Sizes)[r]
    BY <1>1, ParcelContents
  <2> QED BY <2>1, <2>2
<1>4. Len(Parcel(s, Chars, r)) = StrOff[s][offsets[s][r + 1]] - StrOff[s][offsets[s][r]]
  <2>1. /\ SendOff(s, Chars)[r] = StrOff[s][offsets[s][r]]
        /\ SendOff(s, Chars)[r + 1] = StrOff[s][offsets[s][r + 1]]
    BY <1>1, ParcelContents
  <2>2. Len(Parcel(s, Chars, r)) = SendOff(s, Chars)[r + 1] - SendOff(s, Chars)[r]
    BY <1>1, ParcelContents
  <2> QED BY <2>1, <2>2
<1> QED BY <1>1, <1>2, <1>3, <1>4

\* The rows of one source in the input.
LEMMA SourceRows ==
  ASSUME IInv, NEW r \in Ranks, NEW s \in Ranks
  PROVE  /\ offsets[s][r] \in Nat /\ offsets[s][r + 1] \in 0 .. NumRows
         /\ offsets[s][r] <= offsets[s][r + 1] /\ offsets[s][r + 1] <= offsets[s][Size]
         /\ offsets[s][Size] \in Nat
         /\ \A i \in 0 .. NumRows : StrOff[s][i] \in Nat
         /\ \A i, j \in 0 .. NumRows : i <= j => StrOff[s][i] <= StrOff[s][j]
<1>1. offsets[s] \in Offsets /\ offsets[s] \in [0 .. Size -> 0 .. NumRows]
  BY OffsetAssumption DEF IInv, TypeInv
<1>2. r \in 0 .. Size /\ r + 1 \in 0 .. Size /\ Size \in 0 .. Size /\ r <= r + 1 /\ r + 1 <= Size
  BY SizeAssumption DEF Ranks
<1>3. /\ offsets[s][r] \in 0 .. NumRows /\ offsets[s][r + 1] \in 0 .. NumRows
      /\ offsets[s][Size] \in 0 .. NumRows
  BY <1>1, <1>2
<1>4. offsets[s][r] <= offsets[s][r + 1] /\ offsets[s][r + 1] <= offsets[s][Size]
  BY <1>1, <1>2, AscendingAssumption
<1>5. \A i \in 0 .. NumRows : StrOff[s][i] \in Nat
  BY StringAssumption
<1>6. \A i, j \in 0 .. NumRows : i <= j => StrOff[s][i] <= StrOff[s][j]
  BY AscendingAssumption
<1> QED BY <1>3, <1>4, <1>5, <1>6, SizeAssumption

\* Over the rows of one source the rebuilt offsets advance as the source's do.
LEMMA SourceOffsets ==
  ASSUME IInv, DataInv, AllStartAtZero, NEW r \in Ranks, pc[r] = "done", NEW s \in Ranks,
         strOut[r][recvOff[r][Sizes][s]] = recvOff[r][Chars][s]
  PROVE  /\ \A j \in 0 .. offsets[s][r + 1] - offsets[s][r] :
              strOut[r][recvOff[r][Sizes][s] + j] =
                recvOff[r][Chars][s] - StrOff[s][offsets[s][r]] + StrOff[s][offsets[s][r] + j]
         /\ strOut[r][recvOff[r][Sizes][s + 1]] = recvOff[r][Chars][s + 1]
<1> DEFINE R    == recvOff[r][Sizes]
           C    == recvOff[r][Chars]
           o    == strOut[r]
           i    == offsets[s][r]
           k    == offsets[s][r + 1]
           m    == k - i
           at   == R[s]
           n    == R[Size]
           c    == [x \in 0 .. n - 1 |-> recvBuf[r][Sizes][x][3]]
           h    == [j \in 0 .. m |-> StrOff[s][i + j]]
           base == C[s] - StrOff[s][i]
<1>1. s \in 0 .. Size /\ s + 1 \in 0 .. Size /\ Size \in 0 .. Size
  BY SizeAssumption DEF Ranks
<1>2. /\ R \in [0 .. Size -> Nat] /\ C \in [0 .. Size -> Nat]
      /\ R[s + 1] = at + m /\ C[s + 1] = C[s] + (StrOff[s][k] - StrOff[s][i]) /\ R[s + 1] <= n
  BY StringPlaces
<1>3. /\ i \in Nat /\ k \in 0 .. NumRows /\ i <= k
      /\ \A x \in 0 .. NumRows : StrOff[s][x] \in Nat
  BY SourceRows
<1>4. o = StringOffsets(recvBuf[r][Sizes], n)
  BY DEF DataInv, DataAt, RebuiltAt
<1>5. n \in Nat /\ at \in Nat /\ C[s] \in Nat
  <2> HIDE DEF R, C
  <2> QED BY <1>1, <1>2
<1>6. SumsUpTo(c, n, o)
  <2> HIDE DEF n
  <2> QED BY <1>4, <1>5, StringOffsetsUpTo
<1>7. m \in Nat /\ at + m <= n /\ NumRows \in Nat
  <2> HIDE DEF i, k, at, n, R
  <2>1. k \in Nat
    BY <1>3, SizeAssumption
  <2> QED BY <1>2, <1>3, <1>5, <2>1, SizeAssumption
<1>8. \A j \in 0 .. m : StrOff[s][i + j] \in Nat
  <2>1. \A j \in 0 .. m : i + j \in 0 .. NumRows
    <3> HIDE DEF i, k
    <3> QED BY <1>3, <1>7
  <2> QED BY <1>3, <2>1
<1>9. h \in [0 .. m -> Int] /\ base \in Int /\ o[at] = base + h[0] /\ h[0] = StrOff[s][i]
  <2>1. 0 \in 0 .. m /\ i + 0 = i
    <3> HIDE DEF i, k
    <3> QED BY <1>3, <1>7
  <2>2. h[0] = StrOff[s][i] /\ h[0] \in Nat
    BY <1>8, <2>1
  <2>3. h \in [0 .. m -> Int]
    BY <1>8
  <2>4. o[at] = C[s]
    OBVIOUS
  <2> HIDE DEF h, C, o, at
  <2> QED BY <1>5, <2>2, <2>3, <2>4
<1>10. ASSUME NEW j \in 0 .. m - 1
       PROVE  c[at + j] = h[j + 1] - h[j]
  <2>1. /\ j \in Nat /\ j + 1 \in 0 .. m /\ j \in 0 .. m /\ at + j \in 0 .. n - 1
    <3> HIDE DEF m, at, n
    <3> QED BY <1>5, <1>7
  <2>2. recvBuf[r][Sizes][at + j] = SendWord(s, Sizes, i + j)
    <3>1. /\ Sizes \in Buffers /\ Sizes # Chars /\ offsets \in [Ranks -> Offsets]
      BY BufferNumbers DEF IInv, TypeInv
    <3>2. SendOff(s, Sizes) = offsets[s] /\ Len(Parcel(s, Sizes, r)) = m
      BY <3>1, ParcelContents
    <3>3. j \in 0 .. Len(Parcel(s, Sizes, r)) - 1
      BY <3>2
    <3>4. recvBuf[r][Sizes][recvOff[r][Sizes][s] + j] = SendWord(s, Sizes, SendOff(s, Sizes)[r] + j)
      BY <3>1, <3>3, WordsThere
    <3> QED BY <3>2, <3>4
  <2>3. SendWord(s, Sizes, i + j) = StringSize(s, i + j)
    BY DEF SendWord
  <2>4. offsets[s][0] = 0 /\ i + j \in Nat /\ i + j < offsets[s][Size]
    <3>1. offsets[s][0] = 0
      BY DEF AllStartAtZero
    <3>2. k <= offsets[s][Size] /\ offsets[s][Size] \in Nat
      BY SourceRows
    <3> DEFINE l == offsets[s][Size]
    <3>3. k <= l /\ l \in Nat /\ k \in Nat
      BY <1>3, <3>2, SizeAssumption
    <3> HIDE DEF l, i, k
    <3>4. i + j \in Nat /\ i + j < l
      BY <1>3, <3>3, <2>1
    <3> QED BY <3>1, <3>4 DEF l
  <2>5. StringSize(s, i + j)[3] = StrOff[s][(i + j) + 1] - StrOff[s][i + j]
    <3> HIDE DEF i
    <3>1. offsets[s][0] + (i + j) = i + j
      BY <2>4
    <3> QED BY <2>4, <3>1 DEF StringSize
  <2>6. (i + j) + 1 = i + (j + 1)
    <3> HIDE DEF i
    <3> QED BY <1>3, <2>1
  <2>7. h[j + 1] = StrOff[s][i + (j + 1)] /\ h[j] = StrOff[s][i + j]
    BY <2>1
  <2>8. c[at + j] = recvBuf[r][Sizes][at + j][3]
    BY <2>1
  <2> HIDE DEF c, at, h, i
  <2> QED BY <2>2, <2>3, <2>5, <2>6, <2>7, <2>8
<1> HIDE DEF c, h, base, o, m, at, n
<1>11. \A j \in 0 .. m : o[at + j] = base + h[j]
  <2>1. \A j \in 0 .. m - 1 : c[at + j] = h[j + 1] - h[j]
    BY <1>10
  <2>2. SumsDifferences(c, n, o, at, m, h, base)
    BY <1>5, <1>6, <1>7, <1>9, <2>1, Zenon DEF SumsDifferences
  <2> HIDE DEF R, C, i, k
  <2> QED BY <2>2, Telescope, SMT
<1>12. ASSUME NEW j \in 0 .. m
       PROVE  o[at + j] = C[s] - StrOff[s][i] + StrOff[s][i + j]
  <2>1. h[j] = StrOff[s][i + j]
    BY DEF h
  <2> QED BY <1>11, <2>1 DEF base
<1>13. o[R[s + 1]] = C[s + 1]
  <2>1. m \in 0 .. m /\ i + m = k
    <3> HIDE DEF i, k
    <3>1. i \in Int /\ k \in Int
      BY <1>3, <1>7
    <3> QED BY <1>7, <3>1 DEF m
  <2>2. o[at + m] = C[s] - StrOff[s][i] + StrOff[s][k]
    BY <1>12, <2>1
  <2>3. StrOff[s][i] \in Int /\ StrOff[s][k] \in Int
    <3>1. i \in 0 .. NumRows
      <4> HIDE DEF i, k
      <4> QED BY <1>3, <1>7
    <3> HIDE DEF i, k
    <3> QED BY <1>3, <3>1
  <2> HIDE DEF R, C, i, k
  <2> QED BY <1>2, <1>5, <2>2, <2>3
<1> QED BY <1>12, <1>13 DEF o, m, at

\* So a source's strings start where its chars do.
LEMMA SourceStarts ==
  ASSUME IInv, DataInv, AllStartAtZero, NEW r \in Ranks, pc[r] = "done"
  PROVE  \A s \in Ranks : strOut[r][recvOff[r][Sizes][s]] = recvOff[r][Chars][s]
<1> DEFINE Starts(s) == strOut[r][recvOff[r][Sizes][s]] = recvOff[r][Chars][s]
           Bad == {s \in Ranks : ~ Starts(s)}
<1>1. 0 \in Ranks /\ Ranks \subseteq Nat
  BY SizeAssumption DEF Ranks
<1>2. Starts(0)
  <2> DEFINE n == recvOff[r][Sizes][Size]
             sizes == recvBuf[r][Sizes]
  <2>1. recvOff[r][Sizes][0] = 0 /\ recvOff[r][Chars][0] = 0 /\ recvOff[r][Sizes] \in [0 .. Size -> Nat]
    BY <1>1, StringPlaces
  <2>2. n \in Nat
    BY <2>1, SizeAssumption
  <2>3. strOut[r] = StringOffsets(sizes, n)
    BY DEF DataInv, DataAt, RebuiltAt
  <2> HIDE DEF n, sizes
  <2>4. SumsUpTo([i \in 0 .. n - 1 |-> sizes[i][3]], n, StringOffsets(sizes, n))
    BY <2>2, StringOffsetsUpTo
  <2>5. strOut[r][0] = 0
    BY <2>3, <2>4 DEF SumsUpTo
  <2> QED BY <2>1, <2>5
<1>3. ASSUME NEW s \in Ranks, Starts(s)
      PROVE  strOut[r][recvOff[r][Sizes][s + 1]] = recvOff[r][Chars][s + 1]
  BY <1>3, SourceOffsets
<1> HIDE DEF Starts
<1>4. Bad = {}
  <2> SUFFICES ASSUME Bad # {} PROVE FALSE
    OBVIOUS
  <2>1. Bad \subseteq Nat
    BY <1>1
  <2>2. PICK s \in Bad : \A t \in Bad : s <= t
    BY <2>1, SmallestExists
  <2>3. s \in Ranks /\ ~ Starts(s)
    BY <2>2
  <2>4. s # 0
    BY <1>2, <2>3
  <2>5. s - 1 \in Ranks /\ (s - 1) + 1 = s /\ ~ (s <= s - 1)
    BY <2>3, <2>4, SizeAssumption DEF Ranks
  <2>6. s - 1 \notin Bad
    BY <2>2, <2>5
  <2>7. Starts(s - 1)
    BY <2>5, <2>6
  <2>8. strOut[r][recvOff[r][Sizes][(s - 1) + 1]] = recvOff[r][Chars][(s - 1) + 1]
    BY <1>3, <2>5, <2>7
  <2>9. Starts(s)
    BY <2>5, <2>8 DEF Starts
  <2> QED BY <2>3, <2>9
<1>5. ASSUME NEW s \in Ranks
      PROVE  Starts(s)
  BY <1>4
<1> QED BY <1>5 DEF Starts

-----------------------------------------------------------------------------
(***************************************************************************)
(* What follows from the invariant.                                        *)
(***************************************************************************)
\* generate_compression_options_distributed agrees: although its broadcasts name
\* no node and the ranks walk over their own columns at their own speed, no rank
\* files a word under another node, a walk that ends has made every node's
\* options, and a selector that throws leaves no rank with a part of them.
THEOREM OneTreeOfOptions == Spec => []SameOptions
<1>1. IInv => SameOptions
  BY OptInvImplies DEF IInv
<1> QED BY <1>1, SpecIInv, PTL

\* communicate_sizes of one buffer never takes the sizes of another, although
\* every exchange uses the same MPI tag.
THEOREM SizesTakenInOrder == Spec => []OwnSizes
<1>1. IInv => OwnSizes
  <2> SUFFICES ASSUME IInv, NEW r \in Ranks, Waiting(r), NEW s \in Ranks, sizeMsgs[s][r] # <<>>
               PROVE  Head(sizeMsgs[s][r]).of = Awaited(r)
    BY Zenon DEF OwnSizes, Awaited
  <2> QED BY HeadIsAwaited
<1> QED BY <1>1, SpecIInv, PTL

\* The k-th message of a round is for the k-th posted receive and as long as
\* the receiver expects from the sizes it was told earlier.
THEOREM ReceivesMatchSends == Spec => []CountsAgree
<1>1. IInv => CountsAgree
  <2> SUFFICES ASSUME IInv, NEW r \in Ranks, pc[r] = "stop", NEW s \in Ranks, s \in Peers(r),
                      NEW k \in DOMAIN posted[r], k <= Len(chan[s][r])
               PROVE  /\ chan[s][r][k].buf = posted[r][k]
                      /\ Len(chan[s][r][k].val) = Expected(r, posted[r][k], s)
    BY DEF CountsAgree, Peers
  <2>1. ControlAt(r) /\ OffsetsAt(r) /\ DataBetween(s, r) /\ TypeInv
    BY DEF IInv
  <2>2. posted[r] \in Seq(Buffers) /\ chan[s][r] \in Seq(Messages)
    BY <2>1 DEF TypeInv
  <2>3. k \in 1 .. Len(posted[r]) /\ k \in 1 .. Len(chan[s][r])
    BY <2>2
  <2> DEFINE b == posted[r][k]
  <2>4. b \in Buffers /\ b = Stopped(r) + k
    BY <2>1, <2>2, <2>3 DEF ControlAt
  <2>5. chan[s][r][k].buf = b /\ chan[s][r][k].val = Payload(s, b, r)
    BY <2>1, <2>3, <2>4 DEF DataBetween
  <2>6. opts[r] = Made /\ cur[r] \in Buffers
    BY <2>1 DEF ControlAt, TypeInv
  <2>7. b <= cur[r]
    <3>1. Len(posted[r]) = Launched(r) - Stopped(r) /\ Launched(r) = cur[r] /\ Stopped(r) \in Int
      BY <2>1, CounterTypes DEF ControlAt, Launched, Before
    <3> QED BY <2>3, <2>4, <2>6, <3>1, BufferNumbers
  <2>8. IsCompressed(r, b) <=> Compressed(b)
    BY <2>4, <2>6, SameCompression
  <2>9. ExchangesDone(r) = 2 + Count(cur[r]) /\ Count(cur[r]) \in 0 .. 3
    BY <2>6, CountFacts DEF ExchangesDone
  <2>10. CASE Compressed(b)
    <3>1. Count(b) <= Count(cur[r])
      <4>1. CASE b = cur[r]
        BY <2>9, <4>1
      <4>2. CASE b < cur[r]
        <5>1. Count(b) <= Count(cur[r] - 1) /\ Count(cur[r]) = Count(cur[r] - 1) + Bit(cur[r])
          BY <2>4, <2>6, <4>2, CountFacts
        <5>2. Bit(cur[r]) \in 0 .. 1 /\ Count(b) \in Int /\ Count(cur[r] - 1) \in Int
          BY <2>4, <2>6, CountFacts
        <5> QED BY <5>1, <5>2
      <4> QED BY <2>4, <2>6, <2>7, <4>1, <4>2, BufferNumbers
    <3>2. compOff[r][b] = PartialSums(ByteCounts(r, b))
      <4>1. ExchangesDone(r) >= 2 + Count(b)
        BY <2>4, <2>9, <3>1, CountFacts
      <4> QED BY <2>1, <2>4, <2>10, <4>1 DEF OffsetsAt
    <3>3. Expected(r, b, s) = compOff[r][b][s + 1] - compOff[r][b][s]
      BY <2>8, <2>10 DEF Expected, Place
    <3>4. ByteCounts(r, b) \in [Ranks -> Nat]
      BY <2>1, <2>4, ParcelFacts DEF ByteCounts, TypeInv
    <3>5. Expected(r, b, s) = Len(CompressedParcel(s, b, r))
      <4>1. Expected(r, b, s) = ByteCounts(r, b)[s]
        BY <3>2, <3>3, <3>4, PartialSumsFacts
      <4> QED BY <4>1 DEF ByteCounts
    <3> QED BY <2>5, <2>10, <3>5 DEF Payload
  <2>11. CASE ~ Compressed(b)
    <3>1. Expected(r, b, s) = recvOff[r][b][s + 1] - recvOff[r][b][s]
      BY <2>8, <2>11 DEF Expected, Place
    <3>2. \A c \in Buffers : RowCounts(r, c) \in [Ranks -> Nat]
      BY <2>1, ParcelFacts DEF RowCounts, TypeInv
    <3>3. RowCounts(r, Sizes) = RowCounts(r, Fixed)
      <4>1. \A q \in Ranks : Len(Parcel(q, Sizes, r)) = Len(Parcel(q, Fixed, r))
        BY <2>1, <2>4, ParcelFacts DEF TypeInv
      <4> QED BY <4>1 DEF RowCounts
    <3>4. recvOff[r][b] = PartialSums(RowCounts(r, b))
      BY <2>1, <2>4, <2>9, <3>3, BufferNumbers DEF OffsetsAt
    <3>5. Expected(r, b, s) = Len(Parcel(s, b, r))
      <4>1. Expected(r, b, s) = RowCounts(r, b)[s]
        BY <2>4, <3>1, <3>2, <3>4, PartialSumsFacts
      <4> QED BY <4>1 DEF RowCounts
    <3> QED BY <2>5, <2>11, <3>5 DEF Payload
  <2> QED BY <2>5, <2>10, <2>11
<1> QED BY <1>1, SpecIInv, PTL

\* Whatever is compressed, copied or grouped and however the ranks interleave,
\* the fixed-width rows of every source end up at its offset, in order.
THEOREM RowsIntact == Spec => []FixedIntact
<1>1. IInv /\ DataInv => FixedIntact
  <2> SUFFICES ASSUME IInv, DataInv, NEW r \in Ranks, pc[r] = "done", NEW s \in Ranks,
                      NEW j \in 0 .. offsets[s][r + 1] - offsets[s][r] - 1
               PROVE  recvBuf[r][Fixed][recvOff[r][Fixed][s] + j] = <<s, offsets[s][r] + j, 0>>
    BY DEF FixedIntact
  <2>1. Fixed \in Buffers /\ Fixed # Chars /\ Fixed # Sizes /\ offsets \in [Ranks -> Offsets]
    BY BufferNumbers DEF IInv, TypeInv
  <2>2. SendOff(s, Fixed) = offsets[s] /\ Len(Parcel(s, Fixed, r)) = offsets[s][r + 1] - offsets[s][r]
    BY <2>1, ParcelContents
  <2>3. recvBuf[r][Fixed][recvOff[r][Fixed][s] + j] = SendWord(s, Fixed, offsets[s][r] + j)
    BY <2>1, <2>2, WordsThere
  <2> QED BY <2>1, <2>3 DEF SendWord
<1> QED BY <1>1, SpecData, PTL

\* Sizes and chars travel in different buffers, each compressed or not; cut by the
\* rebuilt offsets the chars of a batch that starts at row 0 are the strings sent.
THEOREM StringsRebuilt == Spec => []FirstBatchStrings
<1>1. IInv /\ DataInv => FirstBatchStrings
  <2> SUFFICES ASSUME IInv, DataInv, AllStartAtZero, NEW r \in Ranks, pc[r] = "done", NEW s \in Ranks,
                      NEW j \in 0 .. offsets[s][r + 1] - offsets[s][r] - 1
               PROVE  StringAt(r, recvOff[r][Sizes][s] + j) = StringSent(s, offsets[s][r] + j)
    BY DEF FirstBatchStrings, StringsIntact, AllStartAtZero
  <2> DEFINE at  == recvOff[r][Sizes][s]
             C   == recvOff[r][Chars][s]
             o   == strOut[r]
             i   == offsets[s][r]
             k   == offsets[s][r + 1]
             buf == recvBuf[r][Chars]
             row == i + j
             x   == StrOff[s][i]
             y   == StrOff[s][row]
             z   == StrOff[s][row + 1]
             e   == StrOff[s][k]
  <2>1. /\ at \in Nat /\ C \in Nat
    <3>1. recvOff[r][Sizes] \in [0 .. Size -> Nat] /\ recvOff[r][Chars] \in [0 .. Size -> Nat]
      BY StringPlaces
    <3>2. s \in 0 .. Size
      BY SizeAssumption DEF Ranks
    <3> QED BY <3>1, <3>2
  <2>2. /\ i \in Nat /\ k \in 0 .. NumRows /\ i <= k
        /\ \A l \in 0 .. NumRows : StrOff[s][l] \in Nat
        /\ \A l, m \in 0 .. NumRows : l <= m => StrOff[s][l] <= StrOff[s][m]
    BY SourceRows
  <2>3. strOut[r][recvOff[r][Sizes][s]] = recvOff[r][Chars][s]
    BY SourceStarts
  <2>4. \A l \in 0 .. k - i : o[at + l] = C - StrOff[s][i] + StrOff[s][i + l]
    BY <2>3, SourceOffsets
  <2> HIDE DEF i, k, at, C, o
  <2>5. j \in 0 .. k - i - 1 /\ NumRows \in Nat
    BY SizeAssumption DEF i, k
  <2>6. /\ j \in Nat /\ j \in 0 .. k - i /\ j + 1 \in 0 .. k - i /\ i + (j + 1) = row + 1 /\ row \in Nat
        /\ at + (j + 1) = (at + j) + 1
        /\ i \in 0 .. NumRows /\ row \in 0 .. NumRows /\ row + 1 \in 0 .. NumRows
        /\ i <= row /\ row <= row + 1 /\ row + 1 <= k
    BY <2>1, <2>2, <2>5
  <2> HIDE DEF row
  <2>7. x \in Nat /\ y \in Nat /\ z \in Nat /\ e \in Nat /\ x <= y /\ y <= z /\ z <= e
    BY <2>2, <2>6
  <2>8. o[at + j] = C - x + y /\ o[(at + j) + 1] = C - x + z
    <3>1. o[at + j] = C - StrOff[s][i] + StrOff[s][i + j]
      BY <2>4, <2>6
    <3>2. o[at + (j + 1)] = C - StrOff[s][i] + StrOff[s][i + (j + 1)]
      BY <2>4, <2>6
    <3>3. i + j = row
      BY DEF row
    <3> QED BY <2>6, <3>1, <3>2, <3>3
  <2>9. \A l \in 0 .. e - x - 1 : buf[C + l] = <<s, x + l, 0>>
    <3>1. Chars \in Buffers /\ Chars # Sizes /\ offsets \in [Ranks -> Offsets]
      BY BufferNumbers DEF IInv, TypeInv
    <3>2. SendOff(s, Chars)[r] = x /\ Len(Parcel(s, Chars, r)) = e - x
      BY <3>1, ParcelContents DEF i, k
    <3>3. ASSUME NEW l \in 0 .. Len(Parcel(s, Chars, r)) - 1
          PROVE  buf[C + l] = SendWord(s, Chars, SendOff(s, Chars)[r] + l)
      BY <3>1, WordsThere DEF C
    <3>4. \A l : SendWord(s, Chars, l) = <<s, l, 0>>
      BY <3>1 DEF SendWord
    <3> HIDE DEF x, e
    <3> QED BY <3>2, <3>3, <3>4
  <2> HIDE DEF x, y, z, e, buf
  <2>10. o[(at + j) + 1] - o[at + j] = z - y
    BY <2>1, <2>7, <2>8
  <2>11. ASSUME NEW c \in 1 .. z - y
         PROVE  buf[o[at + j] + c - 1] = <<s, y + c - 1, 0>>
    <3> DEFINE l == (y - x) + (c - 1)
    <3>1. l \in 0 .. e - x - 1 /\ C + l = (C - x + y) + (c - 1) /\ x + l = y + (c - 1)
      BY <2>1, <2>7
    <3>2. buf[C + l] = <<s, x + l, 0>>
      BY <2>9, <3>1
    <3> HIDE DEF l
    <3>3. o[at + j] + c - 1 = C + l /\ y + c - 1 = x + l
      BY <2>1, <2>7, <2>8, <3>1
    <3> QED BY <3>2, <3>3
  <2>12. StringAt(r, at + j) = [c \in 1 .. o[(at + j) + 1] - o[at + j] |-> buf[o[at + j] + c - 1]]
    BY Zenon DEF StringAt, o, buf
  <2>13. StringSent(s, row) = [c \in 1 .. z - y |-> <<s, y + c - 1, 0>>]
    BY Zenon DEF StringSent, z, y
  <2>14. StringAt(r, at + j) = StringSent(s, row)
    BY <2>10, <2>11, <2>12, <2>13
  <2> QED BY <2>14 DEF at, row, i
<1> QED BY <1>1, SpecData, PTL
=============================================================================
