-------------------------- MODULE GenerateTableProofs --------------------------
(***************************************************************************)
(* Proofs about GenerateTable, for every number of threads, rows and keys: *)
(* the lottery that the threads of init_build_tbl share loses no key and   *)
(* gives none out twice, and what the kernels make is what the comment on  *)
(* generate_input_tables says, unless a random number was exactly 1; and   *)
(* for every number of ranks: the exchange of generate_tables_distributed  *)
(* loses and doubles no row, and makes the keys what the arguments ask for *)
(* up to the common ends of the ranks' ranges.                             *)
(***************************************************************************)
EXTENDS GenerateTable, FiniteSetTheorems, SequenceTheorems, TLAPS

(***************************************************************************)
(* The inductive invariant.                                                *)
(***************************************************************************)
States == [pc : {"draw", "read", "cas"}, row : Nat, idx : 0 .. LotterySize, val : Cells]

\* The rows of a thread are its index plus multiples of the stride, and it
\* has drawn exactly those below its current one: no row has two writers.
RowsOf(t) ==
  /\ th[t].row % Stride = Thread(t)
  /\ \A i \in Rows(BuildRows) :
       i % Stride = Thread(t) => (build[i] # Undrawn <=> i < th[t].row)

\* With unique keys: a cell holds its key until a row has it, a thread
\* between its read and its atomicCAS remembers the key of the cell it
\* looked at, and no two rows have one key.
LotteryInv ==
  /\ \A k \in Drawable : lottery[k] \in {k, Used}
  /\ \A i \in Rows(BuildRows) : build[i] \in Drawable \cup {Undrawn}
  /\ \A k \in Drawable : lottery[k] = Used <=> \E i \in Rows(BuildRows) : build[i] = k
  /\ \A i, j \in Rows(BuildRows) : (build[i] = build[j] /\ build[i] # Undrawn) => i = j
  /\ \A t \in DOMAIN th : th[t].idx \in Drawable /\ (th[t].pc = "cas" => th[t].val = th[t].idx)

\* While the build kernel runs and no random number was exactly 1.
BuildInv ==
  (stage[Gpu] = "generate" /\ ~edge) =>
    /\ \A i \in Rows(BuildRows) : build[i] \in Keys \cup {Undrawn}
    /\ uniq => LotteryInv

LocalInv ==
  /\ local = [r \in Ranks |-> local[r]]
  /\ local[Gpu] # NoTable => stage[Gpu] # "generate"

IInv ==
  /\ TypeOK
  /\ ~uniq => \A t \in DOMAIN th : th[t].pc = "draw"
  /\ \A t \in DOMAIN th : RowsOf(t)
  /\ BuildInv
  /\ LocalInv
  /\ KernelOutcome

(***************************************************************************)
(* Numbers and finite sets.                                                *)
(***************************************************************************)
\* Division with remainder.
LEMMA Division ==
  ASSUME NEW a \in Nat, NEW n \in Nat \ {0}
  PROVE  /\ a = (a \div n) * n + (a % n)
         /\ a % n \in 0 .. n - 1
         /\ a \div n \in Nat
         /\ (a + n) % n = a % n
         /\ a < n => a % n = a
<1>1. a = (a \div n) * n + (a % n) /\ a % n \in 0 .. n - 1 /\ a \div n \in Nat
  BY SMT
<1>2. (a + n) % n = a % n
  <2>1. \A q \in Nat, m \in 0 .. n - 1 : (m + q * n) % n = m
    BY SMT
  <2>2. a + n = (a % n) + ((a \div n) + 1) * n
    BY <1>1, SMT
  <2>3. (a \div n) + 1 \in Nat
    BY <1>1
  <2>4. QED
    BY <1>1, <2>1, <2>2, <2>3
<1>3. a < n => a % n = a
  BY SMT
<1>4. QED
  BY <1>1, <1>2, <1>3

\* Two rows of one thread differ by a stride at least.
LEMMA Apart ==
  ASSUME NEW a \in Nat, NEW b \in Nat, NEW n \in Nat \ {0}, a % n = b % n, a < b
  PROVE  a + n <= b
<1>1. a = (a \div n) * n + (a % n) /\ b = (b \div n) * n + (b % n)
      /\ a % n \in 0 .. n - 1 /\ a \div n \in Nat /\ b \div n \in Nat
  BY Division
<1> DEFINE p == a \div n
           q == b \div n
           m == a % n
<1>2. a = p * n + m /\ b = q * n + m /\ p \in Nat /\ q \in Nat /\ m \in 0 .. n - 1
  BY <1>1
<1> HIDE DEF p, q, m
<1>3. p * n \in Nat /\ q * n \in Nat
  BY <1>2, SMT
<1>4. CASE q <= p
  <2>1. (p - q) * n \in Nat
    <3>1. p - q \in Nat
      BY <1>2, <1>4
    <3>2. QED
      BY <3>1, SMT
  <2>2. p * n = q * n + (p - q) * n
    BY <1>2, SMT
  <2>3. QED
    BY <1>2, <1>3, <2>1, <2>2
<1>5. CASE p + 1 <= q
  <2>1. (q - p - 1) * n \in Nat
    <3>1. q - p - 1 \in Nat
      BY <1>2, <1>5
    <3>2. QED
      BY <3>1, SMT
  <2>2. q * n = p * n + n + (q - p - 1) * n
    BY <1>2, SMT
  <2>3. QED
    BY <1>2, <1>3, <2>1, <2>2
<1>6. QED
  BY <1>2, <1>4, <1>5

\* A nonempty set of numbers has a smallest one.
LEMMA SmallestExists ==
  ASSUME NEW S, S \subseteq Nat, S # {}
  PROVE  \E x \in S : \A y \in S : x <= y
<1>1. PICK x \in S : \A y \in S : ~ (<<y, x>> \in OpToRel(<, Nat))
  BY NatLessThanWellFounded, WFMin
<1>2. ASSUME NEW y \in S PROVE x <= y
  <2>1. x \in Nat /\ y \in Nat
    OBVIOUS
  <2>2. ~ (y < x)
    BY <1>1, <2>1, Zenon DEF OpToRel
  <2>3. QED
    BY <2>1, <2>2
<1>3. QED
  BY <1>2

\* A finite set of numbers has an element with i smaller ones, for every i
\* below its size: the i-th in ascending order.
LEMMA IthExists ==
  ASSUME NEW S, S \subseteq Nat, IsFiniteSet(S), NEW i \in Nat, i < Cardinality(S)
  PROVE  \E k \in S : Cardinality({j \in S : j < k}) = i
<1> DEFINE Below(k) == {j \in S : j < k}
           Missing == {n \in Nat : n < Cardinality(S) /\ \A k \in S : Cardinality(Below(k)) # n}
<1> SUFFICES ASSUME Missing # {} PROVE FALSE
  OBVIOUS
<1>1. PICK n \in Missing : \A m \in Missing : n <= m
  BY SmallestExists
<1>2. n \in Nat /\ n < Cardinality(S) /\ Cardinality(S) \in Nat /\ \A k \in S : Cardinality(Below(k)) # n
  BY FS_CardinalityType
<1>3. CASE n = 0
  <2>1. S # {}
    BY <1>2, <1>3, FS_EmptySet
  <2>2. PICK k \in S : \A y \in S : k <= y
    BY <2>1, SmallestExists
  <2>3. Below(k) = {}
    <3>1. \A y \in S : ~(y < k)
      BY <2>2
    <3>2. QED
      BY <3>1
  <2>4. Cardinality(Below(k)) = 0
    BY <2>3, FS_EmptySet
  <2>5. QED
    BY <1>2, <1>3, <2>4
<1>4. CASE n # 0
  <2>1. n - 1 \in Nat /\ n - 1 < n /\ n - 1 \notin Missing
    BY <1>1, <1>2, <1>4
  <2>2. PICK k \in S : Cardinality(Below(k)) = n - 1
    BY <1>2, <2>1
  <2> DEFINE Upto == Below(k) \cup {k}
             Above == {j \in S : k < j}
  <2>3. IsFiniteSet(Below(k)) /\ k \notin Below(k)
    <3>1. Below(k) \in SUBSET S /\ k \notin Below(k)
      OBVIOUS
    <3>2. QED
      BY <3>1, FS_Subset
  <2>4. Cardinality(Upto) = n
    <3> HIDE DEF Below
    <3>1. Cardinality(Upto) = Cardinality(Below(k)) + 1
      BY <2>3, FS_AddElement
    <3>2. QED
      BY <1>2, <2>2, <3>1
  <2>5. Above # {}
    <3>1. SUFFICES ASSUME Above = {} PROVE FALSE
      OBVIOUS
    <3>2. \A x : x \in S <=> x \in Upto
      <4>1. \A x \in S : ~(k < x)
        BY <3>1
      <4>2. \A x \in S : x < k \/ x = k
        BY <4>1
      <4>3. QED
        BY <4>2
    <3>3. S = Upto
      BY <3>2, Zenon
    <3>4. QED
      BY <1>2, <2>4, <3>3
  <2>6. PICK l \in Above : \A y \in Above : l <= y
    BY <2>5, SmallestExists
  <2>7. l \in S /\ Below(l) = Upto
    <3>1. l \in S /\ l \in Nat /\ k \in Nat /\ k < l /\ \A y \in S : k < y => l <= y
      BY <2>6
    <3>2. \A x \in S : x < l <=> (x < k \/ x = k)
      BY <3>1
    <3>3. QED
      BY <3>1, <3>2
  <2>8. QED
    BY <1>2, <2>4, <2>7
<1>5. QED
  BY <1>3, <1>4

(***************************************************************************)
(* The constants, the threads, the lottery.                                *)
(***************************************************************************)
\* Keys are numbers and no key is one of the marks.
LEMMA Marks ==
  /\ Gpu \in Ranks /\ RandMax \in Nat /\ BuildRows \in Nat /\ LotterySize \in Nat \ {0}
  /\ Keys \subseteq Nat /\ Drawable \subseteq Keys /\ Keys \subseteq Cells
  /\ \A i \in 0 .. LotterySize : i # LotterySize => i \in Drawable
  /\ \A i \in Drawable : i \in 0 .. LotterySize /\ i # LotterySize
  /\ \A i \in 0 .. LotterySize : NextIdx(i) \in Drawable
  /\ Used \notin Keys /\ Undrawn \notin Keys /\ Undrawn \notin Cells /\ Undrawn # Used
  /\ Used \in Cells
<1>1. /\ Gpu \in Ranks /\ RandMax \in Nat /\ BuildRows \in Nat /\ LotterySize \in Nat \ {0}
      /\ LotterySize - 1 <= RandMax
  BY NAssumption, RowsAssumption, KeyAssumption DEF Gpu, Ranks, LotterySize
<1>2. \A i \in 0 .. LotterySize : NextIdx(i) \in Drawable
  <2>1. \A i \in 0 .. LotterySize : (i + 1) % LotterySize \in 0 .. LotterySize - 1
    BY <1>1, Division
  <2>2. QED
    BY <2>1 DEF NextIdx, Drawable
<1>3. QED
  BY <1>1, <1>2 DEF Keys, Drawable, Cells, Used, Behind, Undrawn

\* The threads are numbered from 1 to the stride, and every row is some
\* thread's.
LEMMA Threads ==
  ASSUME TypeOK
  PROVE  /\ Stride \in Nat \ {0} /\ DOMAIN th = 1 .. Stride
         /\ \A t \in DOMAIN th : th[t] \in States /\ th[t].row \in Nat /\ Thread(t) \in 0 .. Stride - 1
         /\ \A t, u \in DOMAIN th : Thread(t) = Thread(u) => t = u
         /\ \A i \in Nat : \E t \in DOMAIN th : i % Stride = Thread(t)
<1>1. PICK n \in Grids : DOMAIN th = 1 .. n
  BY DEF TypeOK
<1>2. n \in Nat \ {0} /\ Cardinality(1 .. n) = n
  BY GridsAssumption, FS_Interval
<1>3. Stride = n
  BY <1>1, <1>2 DEF Stride
<1>4. \A t \in DOMAIN th : th[t] \in States
  BY DEF TypeOK, States
<1>5. \A t \in DOMAIN th : th[t].row \in Nat
  BY <1>4 DEF States
<1>6. \A t \in DOMAIN th : Thread(t) \in 0 .. Stride - 1
  BY <1>1, <1>2, <1>3 DEF Thread
<1>7. \A t, u \in DOMAIN th : Thread(t) = Thread(u) => t = u
  BY <1>1, <1>2 DEF Thread
<1>8. ASSUME NEW i \in Nat PROVE \E t \in DOMAIN th : i % Stride = Thread(t)
  <2>1. i % n \in 0 .. n - 1
    BY <1>2, Division
  <2>2. (i % n) + 1 \in DOMAIN th /\ i % n = Thread((i % n) + 1)
    BY <1>1, <1>2, <2>1 DEF Thread
  <2>3. QED
    BY <1>3, <2>2
<1>9. QED
  BY <1>1, <1>2, <1>3, <1>4, <1>5, <1>6, <1>7, <1>8

\* set_difference leaves keys that no row has, in front of the lottery.
LEMMA AfterDifference ==
  ASSUME TypeOK
  PROVE  /\ Cardinality(Difference) \in Nat /\ Cardinality(Difference) <= LotterySize
         /\ LotteryAfter \in [0 .. LotterySize -> Cells]
         /\ \A i \in Nat : i < Cardinality(Difference) =>
              /\ LotteryAfter[i] \in Keys
              /\ \A j \in Rows(BuildRows) : LotteryAfter[i] # build[j]
<1> DEFINE D == Difference
           Ith(i) == CHOOSE k \in D : Cardinality({j \in D : j < k}) = i
<1>1. IsFiniteSet(Drawable) /\ Cardinality(Drawable) = LotterySize
  <2>1. /\ IsFiniteSet(0 .. LotterySize - 1)
        /\ Cardinality(0 .. LotterySize - 1) = LotterySize - 1 - 0 + 1
    BY Marks, FS_Interval
  <2>2. QED
    BY <2>1, Marks DEF Drawable
<1>2. D \in SUBSET Drawable /\ \A k \in D : \A j \in Rows(BuildRows) : k # build[j]
  BY DEF Difference
<1>3. IsFiniteSet(D) /\ Cardinality(D) <= LotterySize /\ Cardinality(D) \in Nat
  BY <1>1, <1>2, FS_Subset, FS_CardinalityType
<1>4. D \subseteq Nat
  BY <1>2, Marks
<1> HIDE DEF D
<1>5. ASSUME NEW i \in Nat, i < Cardinality(D) PROVE Ith(i) \in D
  <2>1. \E k \in D : Cardinality({j \in D : j < k}) = i
    BY <1>3, <1>4, <1>5, IthExists
  <2>2. QED
    BY <2>1
<1>6. lottery \in [0 .. LotterySize -> Cells]
  BY DEF TypeOK
<1>7. LotteryAfter = [i \in 0 .. LotterySize |-> IF i < Cardinality(D) THEN Ith(i) ELSE lottery[i]]
  BY <1>6 DEF LotteryAfter, D
<1> HIDE DEF Ith
<1>8. \A i \in Nat : i < Cardinality(D) => LotteryAfter[i] \in D
  <2>1. \A i \in Nat : i < Cardinality(D) => i \in 0 .. LotterySize
    BY <1>3, Marks
  <2>2. QED
    BY <1>5, <1>7, <2>1
<1>9. LotteryAfter \in [0 .. LotterySize -> Cells]
  <2>1. \A i \in 0 .. LotterySize : i < Cardinality(D) => Ith(i) \in Cells
    BY <1>2, <1>5, Marks
  <2>2. QED
    BY <1>6, <1>7, <2>1
<1>10. \A i \in Nat : i < Cardinality(D) =>
         LotteryAfter[i] \in Keys /\ \A j \in Rows(BuildRows) : LotteryAfter[i] # build[j]
  BY <1>2, <1>8, Marks
<1>11. QED
  BY <1>3, <1>9, <1>10 DEF D

(***************************************************************************)
(* Steps of the build kernel.                                              *)
(***************************************************************************)
\* The row a thread is about to write is one of the table.
LEMMA RowIn ==
  /\ \A w \in Nat : w < BuildRows => w \in Rows(BuildRows)
  /\ \A i \in Rows(BuildRows) : i \in Nat
  /\ 0 \in Drawable /\ 0 \in Keys /\ 0 \in 0 .. LotterySize
<1>1. LotterySize \in Nat /\ LotterySize > 0
  BY Marks
<1>2. QED
  BY <1>1, RowsAssumption DEF Rows, Keys, Drawable

\* Only th is changed, and only where a thread stands: its row stays.
LEMMA RowsKept ==
  ASSUME build' = build, DOMAIN th' = DOMAIN th,
         NEW t \in DOMAIN th, th'[t].row = th[t].row, RowsOf(t)
  PROVE  RowsOf(t)'
<1>1. Stride' = Stride
  BY DEF Stride
<1>2. QED
  BY <1>1 DEF RowsOf

\* A thread writes its row and goes on by a stride.
LEMMA RowWritten ==
  ASSUME TypeOK, \A t \in DOMAIN th : RowsOf(t), DOMAIN th' = DOMAIN th,
         NEW t \in DOMAIN th, th[t].row < BuildRows, th'[t].row = th[t].row + Stride,
         \A u \in DOMAIN th \ {t} : th'[u].row = th[u].row,
         NEW v, v # Undrawn, build' = [build EXCEPT ![th[t].row] = v]
  PROVE  /\ th[t].row \in Rows(BuildRows) /\ build[th[t].row] = Undrawn
         /\ \A u \in DOMAIN th : RowsOf(u)'
<1> DEFINE w == th[t].row
<1>1. /\ w \in Nat /\ w \in Rows(BuildRows) /\ Stride \in Nat \ {0}
      /\ \A i \in Rows(BuildRows) : i \in Nat
  BY Threads, RowIn
<1>2. w % Stride = Thread(t)
  BY DEF RowsOf
<1>3. build[w] = Undrawn
  BY <1>1, <1>2 DEF RowsOf
<1>4. Stride' = Stride
  BY DEF Stride
<1>5. build'[w] = v /\ \A i \in Rows(BuildRows) : i # w => build'[i] = build[i]
  BY <1>1 DEF TypeOK
<1>6. RowsOf(t)'
  <2>1. (w + Stride) % Stride = Thread(t)
    BY <1>1, <1>2, Division
  <2>2. ASSUME NEW i \in Rows(BuildRows), i % Stride = Thread(t)
        PROVE  build'[i] # Undrawn <=> i < w + Stride
    <3>1. i = w \/ i < w \/ w + Stride <= i
      <4>1. i \in Nat /\ i % Stride = w % Stride
        BY <1>1, <1>2, <2>2
      <4>2. w < i => w + Stride <= i
        BY <1>1, <4>1, Apart
      <4>3. QED
        BY <1>1, <4>1, <4>2
    <3>2. build[i] # Undrawn <=> i < w
      BY <2>2 DEF RowsOf
    <3>3. QED
      BY <1>1, <1>5, <3>1, <3>2
  <2>3. QED
    BY <1>4, <2>1, <2>2 DEF RowsOf
<1>7. ASSUME NEW u \in DOMAIN th \ {t} PROVE RowsOf(u)'
  <2>1. \A i \in Rows(BuildRows) : i % Stride = Thread(u) => i # w
    BY <1>2, <1>7, Threads
  <2>2. QED
    BY <1>4, <1>5, <2>1 DEF RowsOf
<1>8. QED
  BY <1>1, <1>3, <1>6, <1>7

\* While the kernel runs there are no tables yet.
LEMMA NoLocal ==
  ASSUME IInv, stage[Gpu] = "generate", UNCHANGED rest
  PROVE  LocalInv' /\ KernelOutcome'
<1>1. local[Gpu] = NoTable /\ local' = local /\ stage' = stage
  BY DEF IInv, LocalInv, rest
<1>2. QED
  BY <1>1 DEF IInv, LocalInv, KernelOutcome

\* x * lottery_size: the index is the cell behind the lottery only if x is 1.
LEMMA DrawStep ==
  ASSUME IInv, NEW t \in DOMAIN th, Draw(t)
  PROVE  IInv'
<1>1. PICK i \in 0 .. LotterySize :
        /\ uniq /\ Running(t, "draw")
        /\ th' = [th EXCEPT ![t].pc = "read", ![t].idx = i]
        /\ edge' = (edge \/ i = LotterySize)
        /\ UNCHANGED <<lottery, build, rest>>
  BY DEF Draw
<1>2. TypeOK /\ th[t] \in States /\ uniq' = uniq /\ stage' = stage /\ stage[Gpu] = "generate"
  BY <1>1, Threads DEF IInv, Running, rest
<1>3. /\ DOMAIN th' = DOMAIN th
      /\ th'[t] \in States /\ th'[t].row = th[t].row /\ th'[t].pc = "read" /\ th'[t].idx = i
      /\ \A u \in DOMAIN th \ {t} : th'[u] = th[u]
  BY <1>1, <1>2 DEF States
<1>4. TypeOK'
  <2>1. \A u \in DOMAIN th : th'[u] \in States
    BY <1>2, <1>3, Threads
  <2>2. th' \in [DOMAIN th' -> States]
    BY <1>1, <1>3, <2>1
  <2>3. \A u \in DOMAIN th' : th'[u].idx = LotterySize => edge'
    BY <1>1, <1>2, <1>3 DEF TypeOK
  <2>4. QED
    BY <1>1, <1>2, <1>3, <2>2, <2>3 DEF TypeOK, States
<1>5. \A u \in DOMAIN th' : RowsOf(u)'
  BY <1>1, <1>3, RowsKept DEF IInv
<1>6. BuildInv'
  <2> SUFFICES ASSUME ~edge' PROVE (\A k \in Rows(BuildRows) : build[k] \in Keys \cup {Undrawn}) /\ LotteryInv'
    BY <1>1, <1>2 DEF BuildInv
  <2>1. ~edge /\ i \in Drawable
    BY <1>1, Marks DEF IInv, TypeOK
  <2>2. LotteryInv /\ \A k \in Rows(BuildRows) : build[k] \in Keys \cup {Undrawn}
    BY <1>1, <1>2, <2>1 DEF IInv, BuildInv
  <2>3. QED
    BY <1>1, <1>3, <2>1, <2>2 DEF LotteryInv
<1>7. LocalInv' /\ KernelOutcome'
  BY <1>1, <1>2, NoLocal
<1>8. QED
  BY <1>1, <1>2, <1>4, <1>5, <1>6, <1>7 DEF IInv

\* The cell is read; nothing tells yet whether the key is still there when
\* it is swapped.
LEMMA LookStep ==
  ASSUME IInv, NEW t \in DOMAIN th, Look(t)
  PROVE  IInv'
<1> DEFINE i == th[t].idx
           v == lottery[i]
<1>1. /\ Running(t, "read")
      /\ \/ v = Used /\ th' = [th EXCEPT ![t].idx = NextIdx(@)]
         \/ v # Used /\ th' = [th EXCEPT ![t].pc = "cas", ![t].val = v]
      /\ UNCHANGED <<lottery, build, edge, rest>>
  BY DEF Look
<1>2. /\ TypeOK /\ th[t] \in States /\ uniq' = uniq /\ stage' = stage /\ stage[Gpu] = "generate"
      /\ th[t].pc = "read"
  BY <1>1, Threads DEF IInv, Running, rest
<1>3. i \in 0 .. LotterySize /\ v \in Cells /\ NextIdx(i) \in Drawable /\ NextIdx(i) \in 0 .. LotterySize
  BY <1>2, Marks DEF States, TypeOK
<1>4. /\ DOMAIN th' = DOMAIN th
      /\ th'[t] \in States /\ th'[t].row = th[t].row
      /\ \/ th'[t].pc = "read" /\ th'[t].idx = NextIdx(i)
         \/ v # Used /\ th'[t].pc = "cas" /\ th'[t].idx = i /\ th'[t].val = v
      /\ \A u \in DOMAIN th \ {t} : th'[u] = th[u]
  <2>1. th \in [DOMAIN th -> States]
    BY <1>2 DEF TypeOK, States
  <2>2. CASE v = Used
    <3>1. th' = [th EXCEPT ![t] = [th[t] EXCEPT !.idx = NextIdx(i)]]
      BY <1>1, <2>2
    <3>2. QED
      BY <1>2, <1>3, <2>1, <3>1 DEF States
  <2>3. CASE v # Used
    <3>1. th' = [th EXCEPT ![t] = [th[t] EXCEPT !.pc = "cas", !.val = v]]
      BY <1>1, <2>3
    <3>2. QED
      BY <1>2, <1>3, <2>1, <2>3, <3>1 DEF States
  <2>4. QED
    BY <2>2, <2>3
<1>5. TypeOK'
  <2>1. \A u \in DOMAIN th : th'[u] \in States
    BY <1>2, <1>4, Threads
  <2>2. th' \in [DOMAIN th' -> States]
    BY <1>1, <1>4, <2>1
  <2>3. \A u \in DOMAIN th' : th'[u].idx = LotterySize => edge'
    BY <1>1, <1>2, <1>3, <1>4, Marks DEF TypeOK
  <2>4. QED
    BY <1>1, <1>2, <1>4, <2>2, <2>3 DEF TypeOK, States
<1>6. \A u \in DOMAIN th' : RowsOf(u)'
  BY <1>1, <1>4, RowsKept DEF IInv
<1>7. uniq
  BY <1>2 DEF IInv
<1>8. BuildInv'
  <2> SUFFICES ASSUME ~edge PROVE (\A k \in Rows(BuildRows) : build[k] \in Keys \cup {Undrawn}) /\ LotteryInv'
    BY <1>1, <1>2 DEF BuildInv
  <2>1. LotteryInv /\ \A k \in Rows(BuildRows) : build[k] \in Keys \cup {Undrawn}
    BY <1>2, <1>7 DEF IInv, BuildInv
  <2>2. i \in Drawable /\ (v # Used => v = i)
    BY <2>1 DEF LotteryInv
  <2>3. th'[t].idx \in Drawable /\ (th'[t].pc = "cas" => th'[t].val = th'[t].idx)
    BY <1>3, <1>4, <2>2
  <2>4. QED
    BY <1>1, <1>4, <2>1, <2>3 DEF LotteryInv
<1>9. LocalInv' /\ KernelOutcome'
  BY <1>1, <1>2, NoLocal
<1>10. QED
  BY <1>2, <1>5, <1>6, <1>7, <1>8, <1>9 DEF IInv

\* atomicCAS: the thread that finds the key still in its cell has it alone;
\* the others go on.
LEMMA CasStep ==
  ASSUME IInv, NEW t \in DOMAIN th, Cas(t)
  PROVE  IInv'
<1> DEFINE i == th[t].idx
           v == lottery[i]
           w == th[t].row
<1>1. /\ Running(t, "cas")
      /\ lottery' = [lottery EXCEPT ![i] = IF @ = th[t].val THEN Used ELSE @]
      /\ \/ /\ v = Used /\ build' = build
            /\ th' = [th EXCEPT ![t].pc = "read", ![t].idx = NextIdx(@), ![t].val = Used]
         \/ /\ v # Used /\ build' = [build EXCEPT ![w] = v]
            /\ th' = [th EXCEPT ![t] = [pc |-> "draw", row |-> @.row + Stride, idx |-> 0, val |-> Used]]
      /\ UNCHANGED <<edge, rest>>
  BY DEF Cas, Old
<1>2. /\ TypeOK /\ th[t] \in States /\ uniq' = uniq /\ stage' = stage /\ stage[Gpu] = "generate"
      /\ th[t].pc = "cas" /\ w \in Nat /\ w < BuildRows
  BY <1>1, Threads DEF IInv, Running, rest
<1>3. /\ i \in 0 .. LotterySize /\ v \in Cells /\ NextIdx(i) \in Drawable /\ NextIdx(i) \in 0 .. LotterySize
      /\ 0 \in 0 .. LotterySize /\ 0 \in Drawable /\ w \in Rows(BuildRows) /\ Stride \in Nat \ {0}
      /\ lottery \in [0 .. LotterySize -> Cells] /\ Used \in Cells /\ v # Undrawn
  <2>1. i \in 0 .. LotterySize
    BY <1>2 DEF States
  <2>2. lottery \in [0 .. LotterySize -> Cells] /\ v \in Cells
    BY <1>2, <2>1 DEF TypeOK
  <2>3. NextIdx(i) \in Drawable /\ NextIdx(i) \in 0 .. LotterySize /\ Used \in Cells /\ v # Undrawn
    BY <2>1, <2>2, Marks
  <2>4. 0 \in 0 .. LotterySize /\ 0 \in Drawable /\ w \in Rows(BuildRows) /\ Stride \in Nat \ {0}
    BY <1>2, RowIn, Threads
  <2>5. QED
    BY <2>1, <2>2, <2>3, <2>4
<1>4. /\ DOMAIN th' = DOMAIN th
      /\ th'[t] \in States /\ th'[t].idx \in Drawable /\ th'[t].pc # "cas"
      /\ th'[t].row = IF v = Used THEN w ELSE w + Stride
      /\ \A u \in DOMAIN th \ {t} : th'[u] = th[u]
  <2>1. th \in [DOMAIN th -> States]
    BY <1>2 DEF TypeOK, States
  <2>2. CASE v = Used
    <3>1. th' = [th EXCEPT ![t] = [th[t] EXCEPT !.pc = "read", !.idx = NextIdx(i), !.val = Used]]
      BY <1>1, <1>2, <2>1, <2>2 DEF States
    <3>2. QED
      BY <1>2, <1>3, <2>1, <2>2, <3>1 DEF States
  <2>3. CASE v # Used
    <3>1. th' = [th EXCEPT ![t] = [pc |-> "draw", row |-> w + Stride, idx |-> 0, val |-> Used]]
      BY <1>1, <2>3
    <3>2. w + Stride \in Nat
      BY <1>2, <1>3
    <3>3. QED
      BY <1>2, <1>3, <2>1, <2>3, <3>1, <3>2 DEF States
  <2>4. QED
    BY <2>2, <2>3
<1>5. TypeOK'
  <2>1. \A u \in DOMAIN th : th'[u] \in States
    BY <1>2, <1>4, Threads
  <2>2. th' \in [DOMAIN th' -> States]
    BY <1>1, <1>4, <2>1
  <2>3. lottery' \in [0 .. LotterySize -> Cells]
    BY <1>1, <1>3
  <2>4. build' \in [Rows(BuildRows) -> Cells \cup {Undrawn}]
    BY <1>1, <1>2, <1>3 DEF TypeOK
  <2>5. \A u \in DOMAIN th' : th'[u].idx = LotterySize => edge'
    BY <1>1, <1>2, <1>4, Marks DEF TypeOK
  <2>6. QED
    BY <1>1, <1>2, <1>4, <2>2, <2>3, <2>4, <2>5 DEF TypeOK, States
<1>6. \A u \in DOMAIN th' : RowsOf(u)'
  <2>1. CASE v = Used
    BY <1>1, <1>4, <2>1, RowsKept DEF IInv
  <2>2. CASE v # Used
    BY <1>1, <1>2, <1>3, <1>4, <2>2, RowWritten DEF IInv
  <2>3. QED
    BY <2>1, <2>2
<1>7. uniq
  BY <1>2 DEF IInv
<1>8. BuildInv'
  <2> SUFFICES ASSUME ~edge PROVE (\A k \in Rows(BuildRows) : build'[k] \in Keys \cup {Undrawn}) /\ LotteryInv'
    BY <1>1, <1>2 DEF BuildInv
  <2>1. LotteryInv /\ \A k \in Rows(BuildRows) : build[k] \in Keys \cup {Undrawn}
    BY <1>2, <1>7 DEF IInv, BuildInv
  <2>2. i \in Drawable /\ th[t].val = i /\ v \in {i, Used}
    BY <1>2, <2>1 DEF LotteryInv
  <2>3. \A u \in DOMAIN th' : th'[u].idx \in Drawable /\ (th'[u].pc = "cas" => th'[u].val = th'[u].idx)
    BY <1>4, <2>1 DEF LotteryInv
  <2>4. CASE v = Used
    <3>1. lottery' = lottery /\ build' = build
      BY <1>1, <1>3, <2>2, <2>4, Marks
    <3>2. QED
      BY <2>1, <2>3, <3>1 DEF LotteryInv
  <2>5. CASE v # Used
    <3>1. v = i /\ i # Used
      BY <2>2, <2>5
    <3>2. lottery'[i] = Used /\ \A k \in Drawable : k # i => lottery'[k] = lottery[k]
      BY <1>1, <1>3, <2>2, <3>1, Marks
    <3>3. build[w] = Undrawn
      BY <1>1, <1>2, <1>3, <1>4, <2>5, RowWritten DEF IInv
    <3>4. build'[w] = i /\ \A j \in Rows(BuildRows) : j # w => build'[j] = build[j]
      BY <1>1, <1>2, <1>3, <2>5, <3>1 DEF TypeOK
    <3>5. \A j \in Rows(BuildRows) : build[j] # i
      BY <2>1, <2>2, <2>5 DEF LotteryInv
    <3>6. /\ \A k \in Rows(BuildRows) : build'[k] \in Keys \cup {Undrawn}
          /\ \A k \in Rows(BuildRows) : build'[k] \in Drawable \cup {Undrawn}
      BY <2>1, <2>2, <3>4, Marks DEF LotteryInv
    <3>7. \A k \in Drawable : lottery'[k] \in {k, Used}
      BY <2>1, <3>2 DEF LotteryInv
    <3>8. \A k \in Drawable : lottery'[k] = Used <=> \E j \in Rows(BuildRows) : build'[j] = k
      BY <1>3, <2>1, <3>2, <3>3, <3>4, Marks DEF LotteryInv
    <3>9. \A j, k \in Rows(BuildRows) : (build'[j] = build'[k] /\ build'[j] # Undrawn) => j = k
      BY <2>1, <3>4, <3>5 DEF LotteryInv
    <3>10. QED
      BY <2>3, <3>6, <3>7, <3>8, <3>9 DEF LotteryInv
  <2>6. QED
    BY <2>4, <2>5
<1>9. LocalInv' /\ KernelOutcome'
  BY <1>1, <1>2, NoLocal
<1>10. QED
  BY <1>2, <1>5, <1>6, <1>7, <1>8, <1>9 DEF IInv

\* Without unique keys a row takes any key.
LEMMA PickStep ==
  ASSUME IInv, NEW t \in DOMAIN th, Pick(t)
  PROVE  IInv'
<1> DEFINE w == th[t].row
<1>1. PICK k \in Keys :
        /\ ~uniq /\ Running(t, "draw")
        /\ build' = [build EXCEPT ![w] = k]
        /\ th' = [th EXCEPT ![t].row = @ + Stride]
        /\ UNCHANGED <<lottery, edge, rest>>
  BY DEF Pick
<1>2. /\ TypeOK /\ th[t] \in States /\ uniq' = uniq /\ stage' = stage /\ stage[Gpu] = "generate"
      /\ w \in Nat /\ w < BuildRows
  BY <1>1, Threads DEF IInv, Running, rest
<1>3. k \in Cells /\ k # Undrawn /\ w \in Rows(BuildRows) /\ Stride \in Nat \ {0}
  BY <1>2, Marks, RowIn, Threads
<1>4. /\ DOMAIN th' = DOMAIN th
      /\ th'[t] \in States /\ th'[t].row = w + Stride /\ th'[t].pc = th[t].pc /\ th'[t].idx = th[t].idx
      /\ \A u \in DOMAIN th \ {t} : th'[u] = th[u]
  BY <1>1, <1>2, <1>3 DEF States
<1>5. TypeOK'
  <2>1. \A u \in DOMAIN th : th'[u] \in States
    BY <1>2, <1>4, Threads
  <2>2. th' \in [DOMAIN th' -> States]
    BY <1>1, <1>4, <2>1
  <2>3. build' \in [Rows(BuildRows) -> Cells \cup {Undrawn}]
    BY <1>1, <1>2, <1>3 DEF TypeOK
  <2>4. \A u \in DOMAIN th' : th'[u].idx = LotterySize => edge'
    BY <1>1, <1>2, <1>4 DEF TypeOK
  <2>5. QED
    BY <1>1, <1>2, <1>4, <2>2, <2>3, <2>4 DEF TypeOK, States
<1>6. \A u \in DOMAIN th' : RowsOf(u)'
  BY <1>1, <1>2, <1>3, <1>4, RowWritten DEF IInv
<1>7. BuildInv'
  BY <1>1, <1>2, <1>3 DEF IInv, BuildInv, TypeOK
<1>8. LocalInv' /\ KernelOutcome'
  BY <1>1, <1>2, NoLocal
<1>9. \A u \in DOMAIN th' : th'[u].pc = "draw"
  BY <1>1, <1>4 DEF IInv
<1>10. QED
  BY <1>5, <1>6, <1>7, <1>8, <1>9 DEF IInv

(***************************************************************************)
(* Steps of the host.                                                      *)
(***************************************************************************)
\* Steps that do not touch the kernels' variables or Gpu's tables.
LEMMA Elsewheres ==
  ASSUME IInv, UNCHANGED <<uniq, lottery, th, build, edge>>,
         stage' \in [Ranks -> {"generate", "send", "recv", "done"}],
         stage[Gpu] = "generate" <=> stage'[Gpu] = "generate",
         local' = [r \in Ranks |-> local'[r]], local'[Gpu] = local[Gpu]
  PROVE  IInv'
<1>1. TypeOK'
  BY DEF IInv, TypeOK
<1>2. \A t \in DOMAIN th' : RowsOf(t)'
  BY DEF IInv, RowsOf, Stride
<1>3. BuildInv'
  BY DEF IInv, BuildInv, LotteryInv
<1>4. LocalInv'
  BY DEF IInv, LocalInv
<1>5. KernelOutcome'
  BY DEF IInv, KernelOutcome
<1>6. QED
  BY <1>1, <1>2, <1>3, <1>4, <1>5 DEF IInv

\* When the build kernel is done every row has its key.
LEMMA AllDrawn ==
  ASSUME IInv, BuildDone
  PROVE  \A i \in Rows(BuildRows) : build[i] # Undrawn
<1>1. TAKE i \in Rows(BuildRows)
<1>2. i \in Nat /\ i < BuildRows
  BY RowsAssumption DEF Rows
<1>3. PICK t \in DOMAIN th : i % Stride = Thread(t)
  BY <1>2, Threads DEF IInv
<1>4. i < th[t].row
  <2>1. th[t].row \in Nat /\ th[t].row >= BuildRows
    BY Threads DEF IInv, BuildDone
  <2>2. QED
    BY <1>2, <2>1, RowsAssumption
<1>5. QED
  BY <1>3, <1>4 DEF IInv, RowsOf

\* A probe key is a build key, or, unless its random number was exactly 1,
\* one that set_difference has left.
LEMMA ProbeKeys ==
  ASSUME IInv, stage[Gpu] = "generate", BuildDone, ~edge,
         NEW x \in Hits \cup Misses, ~x.edge
  PROVE  /\ x.key \in Keys /\ x.hit \in BOOLEAN
         /\ x.hit <=> \E j \in Rows(BuildRows) : x.key = build[j]
<1>1. \A i \in Rows(BuildRows) : build[i] \in Keys
  BY AllDrawn DEF IInv, BuildInv
<1>2. CASE x \in Hits
  <2>1. PICK i \in Rows(BuildRows) : x = [key |-> build[i], hit |-> TRUE, edge |-> FALSE]
    BY <1>2 DEF Hits
  <2>2. x.key = build[i] /\ x.hit = TRUE
    BY <2>1
  <2>3. QED
    BY <1>1, <2>2
<1>3. CASE x \in Misses
  <2>1. PICK i \in 0 .. Cardinality(Difference) :
          x = [key |-> LotteryAfter[i], hit |-> FALSE, edge |-> i = Cardinality(Difference)]
    BY <1>3 DEF Misses
  <2>2. i \in Nat /\ i < Cardinality(Difference)
    <3>1. x.edge = (i = Cardinality(Difference))
      BY <2>1, Zenon
    <3>2. i # Cardinality(Difference)
      BY <3>1
    <3>3. Cardinality(Difference) \in Nat
      BY AfterDifference DEF IInv
    <3>4. QED
      BY <3>2, <3>3
  <2>3. x.key = LotteryAfter[i] /\ x.hit = FALSE
    BY <2>1
  <2>4. LotteryAfter[i] \in Keys /\ \A j \in Rows(BuildRows) : LotteryAfter[i] # build[j]
    BY <2>2, AfterDifference DEF IInv
  <2>5. QED
    BY <2>3, <2>4
<1>4. QED
  BY <1>2, <1>3

\* generate_build_probe_tables returns.
LEMMA GenerateHereStep ==
  ASSUME IInv, GenerateHere
  PROVE  IInv'
<1>1. PICK p \in [Rows(ProbeRows) -> Hits \cup Misses] :
        /\ stage[Gpu] = "generate" /\ BuildDone
        /\ local' = [local EXCEPT ![Gpu] =
                       [build |-> build,
                        probe |-> [i \in Rows(ProbeRows) |-> [key |-> p[i].key, hit |-> p[i].hit]]]]
        /\ edge' = (edge \/ \E i \in Rows(ProbeRows) : p[i].edge)
        /\ lottery' = LotteryAfter
        /\ stage' = [stage EXCEPT ![Gpu] = "send"]
        /\ UNCHANGED <<uniq, th, build, chan, out>>
  BY DEF GenerateHere
<1> DEFINE P == [i \in Rows(ProbeRows) |-> [key |-> p[i].key, hit |-> p[i].hit]]
           T == [build |-> build, probe |-> P]
<1>2. TypeOK /\ LocalInv /\ Gpu \in Ranks
  BY Marks DEF IInv
<1>3. local' = [r \in Ranks |-> local'[r]] /\ local'[Gpu] = T
  BY <1>1, <1>2 DEF LocalInv
<1>4. stage' \in [Ranks -> {"generate", "send", "recv", "done"}] /\ stage'[Gpu] = "send"
  BY <1>1, <1>2 DEF TypeOK
<1>5. TypeOK'
  <2>1. lottery' \in [0 .. LotterySize -> Cells]
    BY <1>1, <1>2, AfterDifference
  <2>2. edge' \in BOOLEAN
    BY <1>1
  <2>3. QED
    BY <1>1, <1>2, <1>4, <2>1, <2>2 DEF TypeOK
<1>6. \A t \in DOMAIN th' : RowsOf(t)'
  BY <1>1 DEF IInv, RowsOf, Stride
<1>7. KernelOutcome'
  <2> SUFFICES ASSUME ~edge' PROVE IsLocal(T, uniq)
    BY <1>1, <1>3 DEF KernelOutcome
  <2>1. ~edge /\ \A i \in Rows(ProbeRows) : ~p[i].edge
    BY <1>1
  <2>2. build \in [Rows(BuildRows) -> Keys]
    <3>1. \A i \in Rows(BuildRows) : build[i] \in Keys
      BY <1>1, <2>1, AllDrawn DEF IInv, BuildInv
    <3>2. QED
      BY <1>2, <3>1 DEF TypeOK
  <2>3. \A i \in Rows(ProbeRows) :
          /\ p[i].key \in Keys /\ p[i].hit \in BOOLEAN
          /\ p[i].hit <=> \E j \in Rows(BuildRows) : p[i].key = build[j]
    BY <1>1, <2>1, ProbeKeys
  <2>4. uniq => \A i, j \in Rows(BuildRows) : build[i] = build[j] => i = j
    BY <1>1, <2>1, AllDrawn DEF IInv, BuildInv, LotteryInv
  <2>5. P \in [Rows(ProbeRows) -> [key : Keys, hit : BOOLEAN]]
        /\ \A i \in Rows(ProbeRows) : P[i].key = p[i].key /\ P[i].hit = p[i].hit
    BY <2>3
  <2> HIDE DEF P
  <2>6. T \in TablePairs
    BY <2>2, <2>5 DEF TablePairs
  <2>7. QED
    BY <2>3, <2>4, <2>5, <2>6 DEF IsLocal
<1>8. BuildInv' /\ LocalInv'
  BY <1>3, <1>4 DEF BuildInv, LocalInv
<1>9. QED
  BY <1>1, <1>5, <1>6, <1>7, <1>8 DEF IInv

\* The other ranks' tables, and the exchange.
LEMMA OtherSteps ==
  ASSUME IInv, NEW r \in Ranks, GenerateThere(r) \/ SendChunks(r) \/ TakeChunks(r)
  PROVE  IInv'
<1>1. TypeOK /\ LocalInv /\ Gpu \in Ranks
  BY Marks DEF IInv
<1>2. UNCHANGED <<uniq, lottery, th, build, edge>>
  BY DEF GenerateThere, SendChunks, TakeChunks
<1>3. local' = [s \in Ranks |-> local'[s]] /\ local'[Gpu] = local[Gpu]
  BY <1>1 DEF GenerateThere, SendChunks, TakeChunks, LocalInv
<1>4. /\ stage' \in [Ranks -> {"generate", "send", "recv", "done"}]
      /\ stage[Gpu] = "generate" <=> stage'[Gpu] = "generate"
  BY <1>1 DEF GenerateThere, SendChunks, TakeChunks, TypeOK
<1>5. QED
  BY <1>2, <1>3, <1>4, Elsewheres

(***************************************************************************)
(* The invariant, and what follows from it.                                *)
(***************************************************************************)
\* The kernel starts with every key in its cell and no row drawn.
LEMMA InitIInv == Init => IInv
<1> SUFFICES ASSUME Init PROVE IInv
  OBVIOUS
<1>1. PICK n \in Grids : th = [t \in 1 .. n |-> [pc |-> "draw", row |-> Thread(t), idx |-> 0, val |-> Used]]
  BY DEF Init
<1>2. n \in Nat \ {0} /\ DOMAIN th = 1 .. n
  BY <1>1, GridsAssumption
<1>3. \A t \in DOMAIN th : th[t] = [pc |-> "draw", row |-> Thread(t), idx |-> 0, val |-> Used]
                           /\ Thread(t) \in Nat
  BY <1>1, <1>2 DEF Thread
<1>4. PICK b \in {Used, Behind} :
        lottery = [i \in 0 .. LotterySize |-> IF i = LotterySize THEN b ELSE IF uniq THEN i ELSE 0]
  BY DEF Init
<1>5. /\ build = [i \in Rows(BuildRows) |-> Undrawn] /\ edge = FALSE /\ uniq \in UniqueKeys
      /\ stage = [r \in Ranks |-> "generate"] /\ local = [r \in Ranks |-> NoTable]
  BY DEF Init
<1>6. TypeOK
  <2>1. \A i \in 0 .. LotterySize : i # LotterySize => i \in Cells /\ 0 \in Cells
    BY Marks, RowIn
  <2>2. b \in Cells
    BY DEF Cells
  <2>3. lottery \in [0 .. LotterySize -> Cells]
    BY <1>4, <2>1, <2>2
  <2>4. \A t \in DOMAIN th : th[t] \in States
    BY <1>3, RowIn, Marks DEF States
  <2>5. th \in [DOMAIN th -> States]
    BY <1>1, <2>4
  <2>6. \A t \in DOMAIN th : th[t].idx # LotterySize
    BY <1>3, Marks
  <2>7. QED
    BY <1>2, <1>5, <2>3, <2>5, <2>6 DEF TypeOK, States
<1>7. ASSUME NEW t \in DOMAIN th PROVE RowsOf(t)
  <2>1. Stride \in Nat \ {0} /\ Thread(t) \in 0 .. Stride - 1
    BY <1>6, Threads
  <2>2. Thread(t) % Stride = Thread(t)
    <3>1. Thread(t) \in Nat /\ Thread(t) < Stride
      BY <2>1
    <3>2. QED
      BY <2>1, <3>1, Division
  <2>3. ASSUME NEW i \in Rows(BuildRows), i % Stride = Thread(t) PROVE ~(i < Thread(t))
    <3>1. i \in Nat
      BY RowIn
    <3>2. i < Stride => i % Stride = i
      BY <2>1, <3>1, Division
    <3>3. QED
      BY <2>1, <2>3, <3>1, <3>2
  <2>4. QED
    BY <1>3, <1>5, <2>2, <2>3 DEF RowsOf
<1>8. BuildInv
  <2>1. ASSUME uniq PROVE LotteryInv
    <3>1. \A k \in Drawable : k \in 0 .. LotterySize /\ k # LotterySize /\ k # Undrawn /\ k # Used
      BY Marks
    <3>2. \A k \in Drawable : lottery[k] = k
      BY <1>4, <2>1, <3>1
    <3>3. QED
      BY <1>3, <1>5, <3>1, <3>2, RowIn DEF LotteryInv
  <2>2. QED
    BY <1>5, <2>1 DEF BuildInv
<1>9. local[Gpu] = NoTable
  BY <1>5, Marks
<1>10. LocalInv /\ KernelOutcome
  BY <1>5, <1>9 DEF LocalInv, KernelOutcome
<1>11. QED
  BY <1>3, <1>6, <1>7, <1>8, <1>10 DEF IInv

\* Every step of a thread or of a host keeps it.
LEMMA NextIInv == IInv /\ [Next]_vars => IInv'
<1> SUFFICES ASSUME IInv, [Next]_vars PROVE IInv'
  OBVIOUS
<1>1. CASE UNCHANGED vars
  BY <1>1, Elsewheres DEF vars, IInv, TypeOK, LocalInv
<1>2. ASSUME NEW t \in DOMAIN th, ThreadStep(t) PROVE IInv'
  BY <1>2, DrawStep, LookStep, CasStep, PickStep DEF ThreadStep
<1>3. ASSUME NEW r \in Ranks, HostStep(r) PROVE IInv'
  BY <1>3, GenerateHereStep, OtherSteps DEF HostStep
<1>4. QED
  BY <1>1, <1>2, <1>3 DEF Next, Ended

\* The invariant holds in every reachable state.
LEMMA SpecIInv == Spec => []IInv
<1>1. QED
  BY InitIInv, NextIInv, PTL DEF Spec

\* Types, and where a thread of init_build_tbl may read and swap: in the
\* lottery array, whatever the number of threads and the size of the lottery,
\* but for the one cell behind it after a random number of exactly 1.
THEOREM TypeInvariant == Spec => []TypeOK
<1>1. IInv => TypeOK
  BY DEF IInv
<1>2. QED
  BY <1>1, SpecIInv, PTL

\* The atomicCAS of init_build_tbl: for every number of threads and every
\* interleaving of their reads and swaps, each key is in its cell or in
\* exactly one row of the build table.
THEOREM KeysConserved == Spec => []LotteryConserved
<1>1. ASSUME IInv, uniq, ~edge, stage[Gpu] = "generate", NEW k \in Drawable
      PROVE  (IF lottery[k] = k THEN 1 ELSE 0)
             + Cardinality({i \in Rows(BuildRows) : build[i] = k}) = 1
  <2> DEFINE S == {i \in Rows(BuildRows) : build[i] = k}
  <2>1. LotteryInv /\ k # Used /\ k # Undrawn
    BY <1>1, Marks DEF IInv, BuildInv
  <2>2. CASE \E i \in Rows(BuildRows) : build[i] = k
    <3>1. PICK i \in Rows(BuildRows) : build[i] = k
      BY <2>2
    <3>2. S = {i}
      BY <2>1, <3>1 DEF LotteryInv
    <3>3. Cardinality(S) = 1
      BY <3>2, FS_Singleton
    <3>4. lottery[k] # k
      BY <2>1, <2>2 DEF LotteryInv
    <3>5. QED
      BY <3>3, <3>4
  <2>3. CASE ~ \E i \in Rows(BuildRows) : build[i] = k
    <3>1. S = {}
      BY <2>3
    <3>2. Cardinality(S) = 0
      BY <3>1, FS_EmptySet
    <3>3. lottery[k] = k
      BY <2>1, <2>3 DEF LotteryInv
    <3>4. QED
      BY <3>2, <3>3
  <2>4. QED
    BY <2>2, <2>3
<1>2. IInv => LotteryConserved
  BY <1>1 DEF LotteryConserved
<1>3. QED
  BY <1>2, SpecIInv, PTL

\* What the comment on generate_input_tables promises of the build and probe
\* keys holds of what the kernels make, unless a random number was exactly 1.
THEOREM KernelsCorrect == Spec => []KernelOutcome
<1>1. IInv => KernelOutcome
  BY DEF IInv
<1>2. QED
  BY <1>1, SpecIInv, PTL
\* Induction from 1 up to n.
LEMMA Climb ==
  ASSUME NEW n \in Nat, NEW S, 1 \in S, \A i \in 1 .. n - 1 : i \in S => i + 1 \in S
  PROVE  \A i \in 1 .. n : i \in S
<1>1. SUFFICES ASSUME NEW k \in 1 .. n, k \notin S
               PROVE  FALSE
  OBVIOUS
<1> DEFINE Bad == {i \in 1 .. n : i \notin S}
<1>2. Bad \subseteq Nat /\ Bad # {}
  BY <1>1
<1> HIDE DEF Bad
<1>3. PICK x \in Bad : \A y \in Bad : x <= y
  BY <1>2, SmallestExists
<1>4. x \in 1 .. n /\ x \notin S /\ x # 1
  BY DEF Bad
<1>5. x - 1 \in 1 .. n - 1 /\ ~(x <= x - 1) /\ (x - 1) + 1 = x
  BY <1>4
<1>6. x - 1 \in 1 .. n /\ x - 1 \notin Bad
  BY <1>3, <1>4, <1>5
<1>7. QED
  BY <1>4, <1>5, <1>6 DEF Bad

\* The recursion of FlattenSeq, up to the k-th sequence.
FlatTo(k, q, f) == f = [i \in 1 .. k |-> IF i = 1 THEN q[i] ELSE f[i - 1] \o q[i]]

LEMMA FlatSteps ==
  ASSUME NEW q, Len(q) \in Nat \ {0}
  PROVE  \E f : /\ FlattenSeq(q) = f[Len(q)]
                /\ f[1] = q[1]
                /\ \A i \in 1 .. Len(q) - 1 : f[i + 1] = f[i] \o q[i + 1]
<1> DEFINE n == Len(q)
           S == {k \in 1 .. n : \E f : FlatTo(k, q, f)}
<1>1. n \in Nat \ {0}
  OBVIOUS
<1>2. 1 \in S
  <2> DEFINE g == [i \in 1 .. 1 |-> q[1]]
  <2>1. FlatTo(1, q, g)
    BY DEF FlatTo
  <2>2. QED
    BY <1>1, <2>1
<1>3. ASSUME NEW k \in 1 .. n - 1, k \in S
      PROVE  k + 1 \in S
  <2>1. PICK f : FlatTo(k, q, f)
    BY <1>3
  <2> DEFINE g == [i \in 1 .. k + 1 |-> IF i = k + 1 THEN f[k] \o q[k + 1] ELSE f[i]]
  <2>2. f = [i \in 1 .. k |-> IF i = 1 THEN q[i] ELSE f[i - 1] \o q[i]]
    BY <2>1 DEF FlatTo
  <2>3. ASSUME NEW i \in 1 .. k + 1
        PROVE  g[i] = IF i = 1 THEN q[i] ELSE g[i - 1] \o q[i]
    <3>1. CASE i = k + 1
      <4>1. k \in 1 .. k + 1 /\ k + 1 \in 1 .. k + 1 /\ k # k + 1 /\ k + 1 # 1 /\ (k + 1) - 1 = k
        OBVIOUS
      <4>2. g[k] = f[k] /\ g[k + 1] = f[k] \o q[k + 1]
        BY <4>1
      <4> HIDE DEF g
      <4>3. QED
        BY <3>1, <4>1, <4>2, Zenon
    <3>2. CASE i # k + 1
      <4>1. i \in 1 .. k /\ i - 1 # k + 1 /\ (i # 1 => i - 1 \in 1 .. k)
        BY <3>2
      <4>2. f[i] = IF i = 1 THEN q[i] ELSE f[i - 1] \o q[i]
        BY <2>2, <4>1
      <4>3. QED
        BY <3>2, <4>1, <4>2
    <3>3. QED
      BY <3>1, <3>2
  <2>4. g = [i \in 1 .. k + 1 |-> g[i]]
    OBVIOUS
  <2> HIDE DEF g
  <2>5. FlatTo(k + 1, q, g)
    BY <2>3, <2>4 DEF FlatTo
  <2>6. QED
    BY <1>1, <2>5
<1> HIDE DEF S, n
<1>4. n \in S
  <2>1. n \in Nat /\ n \in 1 .. n
    BY <1>1
  <2>2. \A i \in 1 .. n : i \in S
    BY <1>2, <1>3, <2>1, Climb, Zenon
  <2>3. QED
    BY <2>1, <2>2
<1>5. \E f : FlatTo(n, q, f)
  BY <1>4 DEF S
<1> DEFINE F == CHOOSE f : FlatTo(n, q, f)
<1>6. n # 0
  BY <1>1
<1>7. FlattenSeq(q) = F[n]
  BY <1>6, Zenon DEF FlattenSeq, FlatTo, n
<1>8. FlatTo(n, q, F)
  BY <1>5, Zenon
<1> HIDE DEF F
<1>9. \A i \in 1 .. n : F[i] = IF i = 1 THEN q[i] ELSE F[i - 1] \o q[i]
  BY <1>8, Zenon DEF FlatTo
<1>10. F[1] = q[1]
  BY <1>1, <1>9
<1>11. ASSUME NEW i \in 1 .. n - 1
       PROVE  F[i + 1] = F[i] \o q[i + 1]
  <2>1. i + 1 \in 1 .. n /\ i + 1 # 1 /\ (i + 1) - 1 = i
    BY <1>1
  <2>2. QED
    BY <1>9, <2>1, Zenon
<1>12. QED
  BY <1>7, <1>10, <1>11 DEF n
\* Sequences of one length one after the other: the x-th element comes from
\* sequence x \div c, and there from place x % c, both counted from 0.
LEMMA Sliced ==
  ASSUME NEW c \in Nat, NEW b \in Nat, NEW m \in 0 .. c - 1
  PROVE  (b * c + m) \div c = b /\ (b * c + m) % c = m /\ b * c + m \in Nat
<1> DEFINE x == b * c + m
           d == x \div c
           e == x % c
<1>1. c \in Nat \ {0} /\ m \in Nat
  OBVIOUS
<1>2. b * c \in Nat
  BY <1>1, SMT
<1>3. x \in Nat
  BY <1>1, <1>2
<1>4. x = d * c + e /\ e \in 0 .. c - 1 /\ d \in Nat
  BY <1>1, <1>3, Division
<1>5. b * c + m = d * c + e
  BY <1>4
<1>6. d * c \in Nat
  BY <1>1, <1>4, SMT
<1> HIDE DEF d, e, x
<1>7. ~(b < d)
  <2>1. SUFFICES ASSUME b < d PROVE FALSE
    OBVIOUS
  <2>2. (b + 1) * c <= d * c
    BY <1>1, <1>4, <2>1, SMT
  <2>3. (b + 1) * c = b * c + c
    BY <1>1, SMT
  <2>4. QED
    BY <1>1, <1>2, <1>4, <1>5, <1>6, <2>2, <2>3
<1>8. ~(d < b)
  <2>1. SUFFICES ASSUME d < b PROVE FALSE
    OBVIOUS
  <2>2. (d + 1) * c <= b * c
    BY <1>1, <1>4, <2>1, SMT
  <2>3. (d + 1) * c = d * c + c
    BY <1>1, <1>4, SMT
  <2>4. QED
    BY <1>1, <1>2, <1>4, <1>5, <1>6, <2>2, <2>3
<1>9. b = d
  BY <1>4, <1>7, <1>8
<1>10. m = e
  BY <1>1, <1>2, <1>4, <1>5, <1>9
<1>11. QED
  BY <1>3, <1>9, <1>10 DEF d, e, x

InOrder(q, n, c) ==
  \A b \in 0 .. n - 1, m \in 1 .. c : FlattenSeq(q)[b * c + m] = q[b + 1][m]

LEMMA FlatIs ==
  ASSUME NEW n \in Nat \ {0}, NEW c \in Nat, NEW V, NEW q \in [1 .. n -> [1 .. c -> V]]
  PROVE  /\ FlattenSeq(q) \in Seq(V)
         /\ Len(FlattenSeq(q)) = n * c
         /\ InOrder(q, n, c)
<1>1. Len(q) = n /\ \A i \in 1 .. n : q[i] \in Seq(V) /\ Len(q[i]) = c
  OBVIOUS
<1>2. PICK f : /\ FlattenSeq(q) = f[n]
               /\ f[1] = q[1]
               /\ \A i \in 1 .. n - 1 : f[i + 1] = f[i] \o q[i + 1]
  <2>1. Len(q) \in Nat \ {0}
    BY <1>1
  <2>2. QED
    BY <1>1, <2>1, FlatSteps
<1> DEFINE Good(k) == /\ f[k] \in Seq(V) /\ Len(f[k]) = k * c
                      /\ \A b \in 0 .. k - 1, m \in 1 .. c : f[k][b * c + m] = q[b + 1][m]
           S == {k \in 1 .. n : Good(k)}
<1>3. 1 \in S
  <2>1. f[1] \in Seq(V) /\ Len(f[1]) = 1 * c
    BY <1>1, <1>2
  <2>2. ASSUME NEW b \in 0 .. 1 - 1, NEW m \in 1 .. c PROVE f[1][b * c + m] = q[b + 1][m]
    <3>1. b = 0 /\ b * c + m = m /\ b + 1 = 1
      BY SMT
    <3>2. QED
      BY <1>2, <3>1
  <2>3. QED
    BY <2>1, <2>2
<1>4. ASSUME NEW k \in 1 .. n - 1, k \in S PROVE k + 1 \in S
  <2>1. f[k] \in Seq(V) /\ Len(f[k]) = k * c /\ f[k + 1] = f[k] \o q[k + 1]
    BY <1>2, <1>4
  <2>2. \A b \in 0 .. k - 1, m \in 1 .. c : f[k][b * c + m] = q[b + 1][m]
    BY <1>4
  <2>3. k + 1 \in 1 .. n /\ k \in Nat
    OBVIOUS
  <2>4. q[k + 1] \in Seq(V) /\ Len(q[k + 1]) = c
    BY <1>1, <2>3
  <2>5. k * c \in Nat /\ (k + 1) * c = k * c + c
    BY <2>3, SMT
  <2> DEFINE h == f[k]
             g == q[k + 1]
             w == k * c
  <2>6. h \in Seq(V) /\ g \in Seq(V) /\ Len(h) = w /\ Len(g) = c /\ w \in Nat
    BY <2>1, <2>4, <2>5
  <2> HIDE DEF h, g, w
  <2>7. /\ h \o g \in Seq(V) /\ Len(h \o g) = w + c
        /\ \A i \in 1 .. w + c : (h \o g)[i] = IF i <= w THEN h[i] ELSE g[i - w]
    BY <2>6, ConcatProperties
  <2>8. f[k + 1] = h \o g
    BY <2>1 DEF h, g
  <2>9. f[k + 1] \in Seq(V) /\ Len(f[k + 1]) = (k + 1) * c
    BY <2>5, <2>7, <2>8 DEF w
  <2>10. ASSUME NEW b \in 0 .. (k + 1) - 1, NEW m \in 1 .. c
         PROVE  f[k + 1][b * c + m] = q[b + 1][m]
    <3>1. CASE b = k
      <4>1. w + m \in 1 .. w + c /\ ~(w + m <= w) /\ (w + m) - w = m
        BY <2>6
      <4>2. (h \o g)[w + m] = g[m]
        BY <2>7, <4>1
      <4>3. QED
        BY <2>8, <3>1, <4>2, Zenon DEF g, w
    <3>2. CASE b # k
      <4>1. b \in 0 .. k - 1 /\ b \in Nat /\ b + 1 <= k
        BY <2>3, <3>2
      <4>2. (b + 1) * c <= k * c /\ (b + 1) * c = b * c + c /\ b * c \in Nat
        BY <2>3, <4>1, SMT
      <4>3. b * c + m \in 1 .. w + c /\ b * c + m <= w
        <5> DEFINE v == b * c
        <5>1. v \in Nat /\ v + c <= w
          BY <4>2 DEF w
        <5> HIDE DEF v
        <5>2. v + m \in 1 .. w + c /\ v + m <= w
          BY <2>6, <5>1
        <5>3. QED
          BY <5>2 DEF v
      <4>4. (h \o g)[b * c + m] = h[b * c + m]
        BY <2>7, <4>3
      <4>5. QED
        BY <2>2, <2>8, <4>1, <4>4, Zenon DEF h
    <3>3. QED
      BY <3>1, <3>2
  <2>11. QED
    BY <2>3, <2>9, <2>10
<1> HIDE DEF S
<1>5. n \in S
  <2>1. n \in Nat /\ n \in 1 .. n
    OBVIOUS
  <2>2. \A i \in 1 .. n : i \in S
    BY <1>3, <1>4, <2>1, Climb, Zenon
  <2>3. QED
    BY <2>1, <2>2
<1>6. Good(n)
  BY <1>5 DEF S
<1>7. QED
  BY <1>2, <1>6 DEF InOrder
(***************************************************************************)
(* The exchange of generate_tables_distributed.                            *)
(***************************************************************************)
\* What rank s sends to rank d.
Sent(s, d) == [build |-> Chunk(Shifted(s).build, BuildRows, d),
               probe |-> Chunk(Shifted(s).probe, ProbeRows, d)]

\* What rank r must return.
Gathered(r) == [build |-> FlattenSeq([i \in 1 .. N |-> Sent(i - 1, r).build]),
                probe |-> FlattenSeq([i \in 1 .. N |-> Sent(i - 1, r).probe])]

Gone(s) == stage[s] \in {"recv", "done"}

\* A chunk is on its way from its sender's first half of all_to_all_comm to
\* its receiver's second half, which needs those of all ranks.
ExchangeInv ==
  /\ chan = [s \in Ranks |-> [d \in Ranks |->
               IF Gone(s) /\ stage[d] # "done" THEN <<Sent(s, d)>> ELSE <<>>]]
  /\ out = [r \in Ranks |-> out[r]]
  /\ \A r \in Ranks : stage[r] = "done" => (out[r] = Gathered(r) /\ \A s \in Ranks : Gone(s))

\* A rank that has left the kernels has a table as it should be.
GeneratedInv ==
  /\ \A r \in Ranks \ {Gpu} : stage[r] # "generate" => IsLocal(local[r], uniq)
  /\ stage[Gpu] # "generate" => local[Gpu] # NoTable

FInv == IInv /\ ExchangeInv /\ GeneratedInv
\* Sent and Gathered are made of the senders' tables alone.
LEMMA SentKept ==
  ASSUME NEW s \in Ranks, NEW d, local'[s] = local[s]
  PROVE  Sent(s, d)' = Sent(s, d)
<1>1. Shifted(s)' = Shifted(s)
  BY DEF Shifted
<1>2. QED
  BY <1>1 DEF Sent, Chunk

LEMMA GatheredKept ==
  ASSUME NEW r, \A s \in Ranks : local'[s] = local[s]
  PROVE  Gathered(r)' = Gathered(r)
<1>1. \A i \in 1 .. N : i - 1 \in Ranks
  BY NAssumption DEF Ranks
<1>2. \A i \in 1 .. N : Sent(i - 1, r)' = Sent(i - 1, r)
  BY <1>1, SentKept
<1>3. [i \in 1 .. N |-> Sent(i - 1, r).build]' = [i \in 1 .. N |-> Sent(i - 1, r).build]
  BY <1>2
<1>4. [i \in 1 .. N |-> Sent(i - 1, r).probe]' = [i \in 1 .. N |-> Sent(i - 1, r).probe]
  BY <1>2
<1>5. QED
  BY <1>3, <1>4 DEF Gathered

\* Nothing of the exchange changes while a kernel runs.
LEMMA RestKept ==
  ASSUME ExchangeInv, GeneratedInv, UNCHANGED rest
  PROVE  ExchangeInv' /\ GeneratedInv'
<1>1. UNCHANGED <<uniq, stage, local, chan, out>>
  BY DEF rest
<1>2. \A r : Gathered(r)' = Gathered(r)
  BY <1>1 DEF Gathered, Sent, Chunk, Shifted
<1>3. \A s, d : Sent(s, d)' = Sent(s, d)
  BY <1>1 DEF Sent, Chunk, Shifted
<1>4. \A s : Gone(s)' = Gone(s)
  BY <1>1 DEF Gone
<1>5. \A t : IsLocal(t, uniq)' = IsLocal(t, uniq)
  BY <1>1 DEF IsLocal
<1>6. ExchangeInv'
  BY <1>1, <1>2, <1>3, <1>4 DEF ExchangeInv
<1>7. GeneratedInv'
  BY <1>1, <1>5 DEF GeneratedInv
<1>8. QED
  BY <1>6, <1>7

\* A rank leaves the kernels: nobody has returned, as its chunks are missing.
LEMMA GeneratedStep ==
  ASSUME FInv, NEW r \in Ranks, stage[r] = "generate", NEW t,
         local' = [local EXCEPT ![r] = t], stage' = [stage EXCEPT ![r] = "send"],
         UNCHANGED <<uniq, chan, out>>, t # NoTable, r # Gpu => IsLocal(t, uniq)
  PROVE  ExchangeInv' /\ GeneratedInv'
<1>1. /\ local = [s \in Ranks |-> local[s]] /\ DOMAIN stage = Ranks
      /\ ExchangeInv /\ GeneratedInv /\ Gpu \in Ranks
  BY Marks DEF FInv, IInv, LocalInv, TypeOK
<1>2. \A s \in Ranks : s # r => local'[s] = local[s] /\ stage'[s] = stage[s]
  BY <1>1
<1>3. local'[r] = t /\ stage'[r] = "send"
  BY <1>1
<1>4. \A s \in Ranks : stage[s] # "done" /\ stage'[s] # "done"
  <2>1. ~Gone(r)
    BY DEF Gone
  <2>2. \A s \in Ranks : stage[s] # "done"
    BY <1>1, <2>1 DEF ExchangeInv
  <2>3. QED
    BY <1>2, <1>3, <2>2
<1>5. \A s \in Ranks : Gone(s)' = Gone(s) /\ (Gone(s) => s # r)
  <2>1. ~Gone(r) /\ ~Gone(r)'
    BY <1>3 DEF Gone
  <2>2. \A s \in Ranks : s # r => Gone(s)' = Gone(s)
    BY <1>2 DEF Gone
  <2>3. Gone(r)' = Gone(r)
    BY <2>1 DEF Gone
  <2>4. QED
    BY <2>1, <2>2, <2>3
<1>6. ASSUME NEW s \in Ranks, NEW d \in Ranks
      PROVE  (IF Gone(s) /\ stage[d] # "done" THEN <<Sent(s, d)>> ELSE <<>>)'
               = IF Gone(s) /\ stage[d] # "done" THEN <<Sent(s, d)>> ELSE <<>>
  <2>1. CASE Gone(s)
    <3>1. Sent(s, d)' = Sent(s, d)
      BY <1>2, <1>5, <2>1, SentKept
    <3>2. QED
      BY <1>4, <1>5, <2>1, <3>1
  <2>2. CASE ~Gone(s)
    BY <1>5, <2>2
  <2>3. QED
    BY <2>1, <2>2
<1>7. chan' = [s \in Ranks |-> [d \in Ranks |->
                 (IF Gone(s) /\ stage[d] # "done" THEN <<Sent(s, d)>> ELSE <<>>)']]
  BY <1>1, <1>6 DEF ExchangeInv
<1>8. ExchangeInv'
  BY <1>1, <1>4, <1>7 DEF ExchangeInv
<1>9. GeneratedInv'
  <2>1. \A x : IsLocal(x, uniq)' = IsLocal(x, uniq)
    BY DEF IsLocal
  <2>2. ASSUME NEW s \in Ranks \ {Gpu}, stage'[s] # "generate" PROVE IsLocal(local'[s], uniq)
    <3>1. CASE s = r
      BY <1>3, <3>1
    <3>2. CASE s # r
      BY <1>1, <1>2, <2>2, <3>2 DEF GeneratedInv
    <3>3. QED
      BY <3>1, <3>2
  <2>3. stage'[Gpu] # "generate" => local'[Gpu] # NoTable
    BY <1>1, <1>2, <1>3 DEF GeneratedInv, NoTable
  <2>4. QED
    BY <2>1, <2>2, <2>3 DEF GeneratedInv
<1>10. QED
  BY <1>8, <1>9
LEMMA GenerateSteps ==
  ASSUME FInv, NEW r \in Ranks, (r = Gpu /\ GenerateHere) \/ GenerateThere(r)
  PROVE  ExchangeInv' /\ GeneratedInv'
<1>1. CASE r = Gpu /\ GenerateHere
  <2>1. PICK p \in [Rows(ProbeRows) -> Hits \cup Misses] :
          /\ stage[Gpu] = "generate"
          /\ local' = [local EXCEPT ![Gpu] =
                   [build |-> build,
                    probe |-> [i \in Rows(ProbeRows) |-> [key |-> p[i].key, hit |-> p[i].hit]]]]
          /\ stage' = [stage EXCEPT ![Gpu] = "send"]
          /\ UNCHANGED <<uniq, chan, out>>
    BY <1>1 DEF GenerateHere
  <2> DEFINE T == [build |-> build,
                   probe |-> [i \in Rows(ProbeRows) |-> [key |-> p[i].key, hit |-> p[i].hit]]]
  <2>2. T # NoTable
    <3>1. "build" \in DOMAIN T /\ DOMAIN NoTable = {}
      BY DEF NoTable
    <3> HIDE DEF T
    <3>2. QED
      BY <3>1
  <2>3. local' = [local EXCEPT ![Gpu] = T]
    BY <2>1
  <2> HIDE DEF T
  <2>4. stage[r] = "generate" /\ local' = [local EXCEPT ![r] = T] /\ stage' = [stage EXCEPT ![r] = "send"]
    BY <1>1, <2>1, <2>3
  <2>5. r # Gpu => IsLocal(T, uniq)
    BY <1>1
  <2>6. QED
    BY <2>1, <2>2, <2>4, <2>5, GeneratedStep
<1>2. CASE GenerateThere(r)
  <2>1. PICK t \in Elsewhere(uniq) :
          /\ r # Gpu /\ stage[r] = "generate"
          /\ local' = [local EXCEPT ![r] = t]
          /\ stage' = [stage EXCEPT ![r] = "send"]
          /\ UNCHANGED <<uniq, chan, out>>
    BY <1>2 DEF GenerateThere
  <2>2. uniq \in UniqueKeys
    BY DEF FInv, IInv, TypeOK
  <2>3. IsLocal(t, uniq)
    BY <2>1, <2>2, ElsewhereAssumption
  <2>4. t # NoTable
    <3>1. t \in TablePairs
      BY <2>3 DEF IsLocal
    <3>2. "build" \in DOMAIN t /\ DOMAIN NoTable = {}
      BY <3>1 DEF NoTable, TablePairs
    <3>3. QED
      BY <3>2
  <2>5. QED
    BY <2>1, <2>3, <2>4, GeneratedStep
<1>3. QED
  BY <1>1, <1>2

LEMMA Alone ==
  ASSUME NEW x
  PROVE  Append(<<>>, x) = <<x>> /\ Head(<<x>>) = x /\ Tail(<<x>>) = <<>> /\ <<x>> # <<>>
OBVIOUS

\* The first half of all_to_all_comm.
LEMMA SendStep ==
  ASSUME FInv, NEW r \in Ranks, SendChunks(r)
  PROVE  ExchangeInv' /\ GeneratedInv'
<1>1. /\ stage[r] = "send"
      /\ chan' = [chan EXCEPT ![r] = [d \in Ranks |-> Append(@[d], Sent(r, d))]]
      /\ stage' = [stage EXCEPT ![r] = "recv"]
      /\ UNCHANGED <<uniq, local, out>>
  BY DEF SendChunks, Sent
<1>2. DOMAIN stage = Ranks /\ ExchangeInv /\ GeneratedInv /\ Gpu \in Ranks
  BY Marks DEF FInv, IInv, TypeOK
<1>3. stage'[r] = "recv" /\ \A s \in Ranks : s # r => stage'[s] = stage[s]
  BY <1>1, <1>2
<1>4. ~Gone(r) /\ Gone(r)' /\ \A s \in Ranks : s # r => Gone(s)' = Gone(s)
  BY <1>1, <1>3 DEF Gone
<1>5. \A s \in Ranks : stage[s] # "done" /\ stage'[s] # "done"
  <2>1. \A s \in Ranks : stage[s] # "done"
    BY <1>2, <1>4 DEF ExchangeInv
  <2>2. QED
    BY <1>3, <2>1
<1>6. \A s, d \in Ranks : Sent(s, d)' = Sent(s, d)
  BY <1>1, SentKept
<1>7. \A s, d \in Ranks : chan[s][d] = IF Gone(s) THEN <<Sent(s, d)>> ELSE <<>>
  BY <1>2, <1>5 DEF ExchangeInv
<1>8. chan = [s \in Ranks |-> chan[s]]
  BY <1>2 DEF ExchangeInv
<1>9. \A s \in Ranks : chan[s] = [d \in Ranks |-> chan[s][d]]
  BY <1>2 DEF ExchangeInv
<1>10. ASSUME NEW s \in Ranks
       PROVE  chan'[s] = [d \in Ranks |-> (IF Gone(s) /\ stage[d] # "done" THEN <<Sent(s, d)>> ELSE <<>>)']
  <2>1. CASE s = r
    <3>1. chan'[s] = [d \in Ranks |-> Append(chan[r][d], Sent(r, d))]
      BY <1>1, <1>8, <2>1
    <3>2. \A d \in Ranks : Append(chan[r][d], Sent(r, d)) = <<Sent(r, d)>>
      <4>1. \A d \in Ranks : chan[r][d] = <<>>
        BY <1>4, <1>7
      <4>2. \A d \in Ranks : Append(<<>>, Sent(r, d)) = <<Sent(r, d)>>
        BY Alone
      <4>3. QED
        BY <4>1, <4>2, Zenon
    <3>3. \A d \in Ranks : (IF Gone(s) /\ stage[d] # "done" THEN <<Sent(s, d)>> ELSE <<>>)' = <<Sent(r, d)>>
      BY <1>4, <1>5, <1>6, <2>1
    <3>4. QED
      BY <3>1, <3>2, <3>3
  <2>2. CASE s # r
    <3>1. chan'[s] = chan[s]
      BY <1>1, <1>8, <2>2
    <3>2. \A d \in Ranks : (IF Gone(s) /\ stage[d] # "done" THEN <<Sent(s, d)>> ELSE <<>>)' = chan[s][d]
      BY <1>4, <1>5, <1>6, <1>7, <2>2
    <3>3. QED
      BY <1>9, <3>1, <3>2
  <2>3. QED
    BY <2>1, <2>2
<1>11. chan' = [s \in Ranks |-> chan'[s]]
  BY <1>1, <1>8
<1>12. out' = [s \in Ranks |-> out'[s]]
  BY <1>1, <1>2 DEF ExchangeInv
<1>13. ExchangeInv'
  BY <1>5, <1>10, <1>11, <1>12 DEF ExchangeInv
<1>14. GeneratedInv'
  <2>1. \A x : IsLocal(x, uniq)' = IsLocal(x, uniq)
    BY <1>1 DEF IsLocal
  <2>2. \A s \in Ranks : stage'[s] # "generate" => stage[s] # "generate"
    BY <1>1, <1>3
  <2>3. QED
    BY <1>1, <1>2, <2>1, <2>2 DEF GeneratedInv
<1>15. QED
  BY <1>13, <1>14
\* The second half: the chunks of all ranks are there.
LEMMA TakeStep ==
  ASSUME FInv, NEW r \in Ranks, TakeChunks(r)
  PROVE  ExchangeInv' /\ GeneratedInv'
<1>1. /\ stage[r] = "recv" /\ \A s \in Ranks : chan[s][r] # <<>>
      /\ chan' = [s \in Ranks |-> [chan[s] EXCEPT ![r] = Tail(@)]]
      /\ stage' = [stage EXCEPT ![r] = "done"]
      /\ UNCHANGED <<uniq, local>>
  BY DEF TakeChunks
<1>2. out' = [out EXCEPT ![r] =
               [build |-> FlattenSeq([i \in 1 .. N |-> Head(chan[i - 1][r]).build]),
                probe |-> FlattenSeq([i \in 1 .. N |-> Head(chan[i - 1][r]).probe])]]
  BY DEF TakeChunks
<1>3. DOMAIN stage = Ranks /\ ExchangeInv /\ GeneratedInv /\ Gpu \in Ranks
  BY Marks DEF FInv, IInv, TypeOK
<1>4. stage'[r] = "done" /\ \A s \in Ranks : s # r => stage'[s] = stage[s]
  BY <1>1, <1>3
<1>5. \A s, d \in Ranks : chan[s][d] = IF Gone(s) /\ stage[d] # "done" THEN <<Sent(s, d)>> ELSE <<>>
  BY <1>3 DEF ExchangeInv
<1>6. \A s \in Ranks : Gone(s) /\ Gone(s)' /\ chan[s][r] = <<Sent(s, r)>>
  <2>1. \A s \in Ranks : Gone(s) /\ chan[s][r] = <<Sent(s, r)>>
    BY <1>1, <1>5
  <2>2. \A s \in Ranks : Gone(s)'
    BY <1>4, <2>1 DEF Gone
  <2>3. QED
    BY <2>1, <2>2
<1>7. \A s, d \in Ranks : Sent(s, d)' = Sent(s, d)
  BY <1>1, SentKept
<1>8. \A d \in Ranks : Gathered(d)' = Gathered(d)
  BY <1>1, GatheredKept
<1>9. \A s \in Ranks : chan[s] = [d \in Ranks |-> chan[s][d]]
  BY <1>3 DEF ExchangeInv
<1>10. ASSUME NEW s \in Ranks, NEW d \in Ranks
       PROVE  chan'[s][d] = (IF Gone(s) /\ stage[d] # "done" THEN <<Sent(s, d)>> ELSE <<>>)'
  <2>1. chan'[s] = [chan[s] EXCEPT ![r] = Tail(@)]
    BY <1>1
  <2>2. CASE d = r
    <3>1. chan'[s][d] = Tail(<<Sent(s, r)>>)
      BY <1>6, <1>9, <2>1, <2>2
    <3>2. Tail(<<Sent(s, r)>>) = <<>>
      BY Alone
    <3>3. QED
      BY <1>4, <2>2, <3>1, <3>2
  <2>3. CASE d # r
    <3>1. chan'[s][d] = chan[s][d]
      BY <1>9, <2>1, <2>3
    <3>2. QED
      BY <1>4, <1>5, <1>6, <1>7, <2>3, <3>1
  <2>4. QED
    BY <2>2, <2>3
<1>11. chan' = [s \in Ranks |-> [d \in Ranks |-> chan'[s][d]]]
  BY <1>1, <1>9
<1>12. chan' = [s \in Ranks |-> [d \in Ranks |->
                 (IF Gone(s) /\ stage[d] # "done" THEN <<Sent(s, d)>> ELSE <<>>)']]
  BY <1>10, <1>11
<1>13. out = [s \in Ranks |-> out[s]]
  BY <1>3 DEF ExchangeInv
<1>14. out'[r] = Gathered(r)
  <2>1. \A i \in 1 .. N : i - 1 \in Ranks
    BY NAssumption DEF Ranks
  <2>2. \A i \in 1 .. N : Head(chan[i - 1][r]) = Sent(i - 1, r)
    <3>1. \A i \in 1 .. N : chan[i - 1][r] = <<Sent(i - 1, r)>>
      BY <1>6, <2>1
    <3>2. \A i \in 1 .. N : Head(<<Sent(i - 1, r)>>) = Sent(i - 1, r)
      BY Alone
    <3>3. QED
      BY <3>1, <3>2, Zenon
  <2>3. [i \in 1 .. N |-> Head(chan[i - 1][r]).build] = [i \in 1 .. N |-> Sent(i - 1, r).build]
    BY <2>2
  <2>4. [i \in 1 .. N |-> Head(chan[i - 1][r]).probe] = [i \in 1 .. N |-> Sent(i - 1, r).probe]
    BY <2>2
  <2>5. out'[r] = [build |-> FlattenSeq([i \in 1 .. N |-> Head(chan[i - 1][r]).build]),
                   probe |-> FlattenSeq([i \in 1 .. N |-> Head(chan[i - 1][r]).probe])]
    BY <1>2, <1>13
  <2>6. QED
    BY <2>3, <2>4, <2>5, Zenon DEF Gathered
<1>15. \A s \in Ranks : s # r => out'[s] = out[s]
  BY <1>2, <1>13
<1>16. out' = [s \in Ranks |-> out'[s]]
  BY <1>2, <1>13
<1>17. ASSUME NEW d \in Ranks, stage'[d] = "done" PROVE out'[d] = Gathered(d)'
  <2>1. CASE d = r
    BY <1>8, <1>14, <2>1
  <2>2. CASE d # r
    <3>1. out[d] = Gathered(d)
      BY <1>3, <1>4, <1>17, <2>2 DEF ExchangeInv
    <3>2. QED
      BY <1>8, <1>15, <2>2, <3>1
  <2>3. QED
    BY <2>1, <2>2
<1>18. ExchangeInv'
  BY <1>6, <1>12, <1>16, <1>17 DEF ExchangeInv
<1>19. GeneratedInv'
  <2>1. \A x : IsLocal(x, uniq)' = IsLocal(x, uniq)
    BY <1>1 DEF IsLocal
  <2>2. \A s \in Ranks : stage'[s] # "generate" => stage[s] # "generate"
    BY <1>1, <1>4
  <2>3. QED
    BY <1>1, <1>3, <2>1, <2>2 DEF GeneratedInv
<1>20. QED
  BY <1>18, <1>19

LEMMA InitFInv == Init => FInv
<1> SUFFICES ASSUME Init PROVE FInv
  OBVIOUS
<1>1. /\ stage = [r \in Ranks |-> "generate"] /\ local = [r \in Ranks |-> NoTable]
      /\ chan = [s \in Ranks |-> [d \in Ranks |-> <<>>]] /\ out = [r \in Ranks |-> NoTable]
  BY DEF Init
<1>2. Gpu \in Ranks
  BY Marks
<1>3. \A r \in Ranks : stage[r] = "generate" /\ ~Gone(r)
  BY <1>1 DEF Gone
<1>4. ExchangeInv
  BY <1>1, <1>3 DEF ExchangeInv
<1>5. GeneratedInv
  BY <1>2, <1>3 DEF GeneratedInv
<1>6. QED
  BY <1>4, <1>5, InitIInv DEF FInv

LEMMA NextFInv == FInv /\ [Next]_vars => FInv'
<1> SUFFICES ASSUME FInv, [Next]_vars PROVE FInv'
  OBVIOUS
<1>1. IInv' /\ ExchangeInv /\ GeneratedInv
  BY NextIInv DEF FInv
<1>2. CASE UNCHANGED vars
  BY <1>1, <1>2, RestKept DEF vars, rest, FInv
<1>3. ASSUME NEW t \in DOMAIN th, ThreadStep(t) PROVE FInv'
  <2>1. UNCHANGED rest
    BY <1>3 DEF ThreadStep, Draw, Look, Cas, Pick
  <2>2. QED
    BY <1>1, <2>1, RestKept DEF FInv
<1>4. ASSUME NEW r \in Ranks, HostStep(r) PROVE FInv'
  <2>1. ExchangeInv' /\ GeneratedInv'
    BY <1>4, GenerateSteps, SendStep, TakeStep DEF HostStep
  <2>2. QED
    BY <1>1, <2>1 DEF FInv
<1>5. QED
  BY <1>2, <1>3, <1>4 DEF Next, Ended

LEMMA SpecFInv == Spec => []FInv
<1>1. QED
  BY InitFInv, NextFInv, PTL DEF Spec
(***************************************************************************)
(* Where each row goes: row k of rank s to rank k \div c, behind the       *)
(* chunks of the ranks before s, c being the rows of a chunk.              *)
(***************************************************************************)
Tables == {"build", "probe"}
RowCount(tbl) == IF tbl = "build" THEN BuildRows ELSE ProbeRows
ChunkRows(tbl) == RowCount(tbl) \div N

LEMMA Counts ==
  ASSUME NEW tbl \in Tables
  PROVE  /\ N \in Nat \ {0} /\ RowCount(tbl) \in Nat /\ ChunkRows(tbl) \in Nat
         /\ RowCount(tbl) = N * ChunkRows(tbl)
         /\ \A r \in Ranks : r \in Nat /\ r < N
         /\ \A r \in Nat : r < N => r \in Ranks
<1>1. N \in Nat \ {0} /\ RowCount(tbl) \in Nat /\ RowCount(tbl) % N = 0
  BY NAssumption, RowsAssumption DEF RowCount
<1> DEFINE c == ChunkRows(tbl)
<1>2. c \in Nat /\ RowCount(tbl) = c * N + 0
  BY <1>1, Division DEF ChunkRows
<1> HIDE DEF c
<1>3. c * N + 0 = N * c
  BY <1>1, <1>2, SMT
<1>4. RowCount(tbl) = N * c
  BY <1>2, <1>3
<1>5. /\ \A r \in Ranks : r \in Nat /\ r < N
      /\ \A r \in Nat : r < N => r \in Ranks
  BY <1>1 DEF Ranks
<1>6. QED
  BY <1>1, <1>2, <1>4, <1>5 DEF c

LEMMA ChunkIs ==
  ASSUME NEW tbl \in Tables, NEW s \in Ranks, NEW r \in Ranks
  PROVE  Sent(s, r)[tbl] = [m \in 1 .. ChunkRows(tbl) |-> Shifted(s)[tbl][ChunkRows(tbl) * r + m - 1]]
<1>1. Sent(s, r)[tbl] = Chunk(Shifted(s)[tbl], RowCount(tbl), r)
  BY DEF Sent, Tables, RowCount
<1> DEFINE c == ChunkRows(tbl)
<1>2. c \in Nat /\ r \in Nat
  BY Counts
<1>3. Offset(RowCount(tbl), r) = c * r /\ Offset(RowCount(tbl), r + 1) = c * (r + 1)
  BY DEF Offset, ChunkRows
<1> HIDE DEF c
<1>4. c * (r + 1) - c * r = c
  BY <1>2, SMT
<1>5. Chunk(Shifted(s)[tbl], RowCount(tbl), r)
        = [m \in 1 .. c * (r + 1) - c * r |-> Shifted(s)[tbl][c * r + m - 1]]
  BY <1>3, Zenon DEF Chunk
<1>6. QED
  BY <1>1, <1>4, <1>5, Zenon DEF c

LEMMA GatheredIs ==
  ASSUME NEW tbl \in Tables, NEW r \in Ranks
  PROVE  /\ DOMAIN Gathered(r)[tbl] = 1 .. N * ChunkRows(tbl)
         /\ \A s \in Ranks, m \in 1 .. ChunkRows(tbl) :
              Gathered(r)[tbl][s * ChunkRows(tbl) + m] = Shifted(s)[tbl][ChunkRows(tbl) * r + m - 1]
<1> DEFINE c == ChunkRows(tbl)
           q == [i \in 1 .. N |-> Sent(i - 1, r)[tbl]]
           E(i, m) == Sent(i - 1, r)[tbl][m]
           V == {E(p[1], p[2]) : p \in (1 .. N) \X (1 .. c)}
<1>1. N \in Nat \ {0} /\ c \in Nat /\ \A i \in 1 .. N : i - 1 \in Ranks
  BY Counts DEF Ranks
<1>2. Gathered(r)[tbl] = FlattenSeq(q)
  <2>1. CASE tbl = "build"
    <3>1. Gathered(r).build = FlattenSeq([i \in 1 .. N |-> Sent(i - 1, r).build])
      BY DEF Gathered
    <3>2. QED
      BY <2>1, <3>1, Zenon
  <2>2. CASE tbl = "probe"
    <3>1. Gathered(r).probe = FlattenSeq([i \in 1 .. N |-> Sent(i - 1, r).probe])
      BY DEF Gathered
    <3>2. QED
      BY <2>2, <3>1, Zenon
  <2>3. QED
    BY <2>1, <2>2 DEF Tables
<1>3. \A i \in 1 .. N : Sent(i - 1, r)[tbl] = [m \in 1 .. c |-> Shifted(i - 1)[tbl][c * r + m - 1]]
  BY <1>1, ChunkIs
<1>4. q \in [1 .. N -> [1 .. c -> V]]
  <2>1. ASSUME NEW i \in 1 .. N PROVE Sent(i - 1, r)[tbl] \in [1 .. c -> V]
    <3>1. \A m \in 1 .. c : Sent(i - 1, r)[tbl][m] \in V
      <4>1. \A m \in 1 .. c : E(i, m) = Sent(i - 1, r)[tbl][m]
        OBVIOUS
      <4> HIDE DEF E, c
      <4>2. \A m \in 1 .. c : E(i, m) \in V
        <5>1. ASSUME NEW m \in 1 .. c PROVE E(i, m) \in V
          <6>1. <<i, m>> \in (1 .. N) \X (1 .. c) /\ <<i, m>>[1] = i /\ <<i, m>>[2] = m
            OBVIOUS
          <6>2. QED
            BY <6>1, Zenon
        <5>2. QED
          BY <5>1
      <4>3. QED
        BY <4>1, <4>2, Zenon
    <3>2. Sent(i - 1, r)[tbl] = [m \in 1 .. c |-> Sent(i - 1, r)[tbl][m]]
      BY <1>3
    <3> HIDE DEF V, c
    <3>3. QED
      BY <3>1, <3>2
  <2> HIDE DEF V
  <2>2. QED
    BY <2>1
<1>5. \A s \in Ranks : s \in 0 .. N - 1 /\ s + 1 \in 1 .. N /\ (s + 1) - 1 = s
  BY <1>1 DEF Ranks
<1>6. \A s \in Ranks : q[s + 1] = [m \in 1 .. c |-> Shifted(s)[tbl][c * r + m - 1]]
  BY <1>3, <1>5
<1> HIDE DEF V, q, c
<1>7. /\ FlattenSeq(q) \in Seq(V) /\ Len(FlattenSeq(q)) = N * c
      /\ \A b \in 0 .. N - 1, m \in 1 .. c : FlattenSeq(q)[b * c + m] = q[b + 1][m]
  <2>1. N \in Nat \ {0}
    BY <1>1
  <2>2. c \in Nat
    BY <1>1
  <2>3. FlattenSeq(q) \in Seq(V)
    BY <1>4, <2>1, <2>2, FlatIs, Zenon
  <2>4. Len(FlattenSeq(q)) = N * c
    BY <1>4, <2>1, <2>2, FlatIs, Zenon
  <2>5. InOrder(q, N, c)
    BY <1>4, <2>1, <2>2, FlatIs, Zenon
  <2>6. QED
    BY <2>3, <2>4, <2>5 DEF InOrder
<1>8. DOMAIN FlattenSeq(q) = 1 .. N * c
  BY <1>7
<1>9. ASSUME NEW s \in Ranks, NEW m \in 1 .. c
      PROVE  FlattenSeq(q)[s * c + m] = Shifted(s)[tbl][c * r + m - 1]
  <2>1. FlattenSeq(q)[s * c + m] = q[s + 1][m]
    BY <1>5, <1>7
  <2>2. QED
    BY <1>6, <2>1
<1>10. QED
  BY <1>2, <1>8, <1>9 DEF c

\* The place of row k of rank s in the returned tables.
Place(tbl, s, k) == <<k \div ChunkRows(tbl), s * ChunkRows(tbl) + (k % ChunkRows(tbl)) + 1>>

AllDone == \A r \in Ranks : stage[r] = "done"

LEMMA Placed ==
  ASSUME FInv, AllDone, NEW tbl \in Tables, NEW s \in Ranks, NEW k \in Rows(RowCount(tbl))
  PROVE  LET p == Place(tbl, s, k)
         IN  p \in Returned(tbl) /\ out[p[1]][tbl][p[2]] = Shifted(s)[tbl][k]
<1> DEFINE c == ChunkRows(tbl)
           r == k \div c
           e == k % c
<1>1. /\ N \in Nat \ {0} /\ c \in Nat /\ k \in Nat /\ k < N * c
      /\ s \in Nat /\ s < N /\ \A x \in Nat : x < N => x \in Ranks
  BY Counts DEF Rows
<1>2. c # 0
  BY <1>1, SMT
<1>3. k = r * c + e /\ e \in 0 .. c - 1 /\ r \in Nat
  BY <1>1, <1>2, Division
<1> HIDE DEF c, r, e
<1>4. r < N
  <2>1. SUFFICES ASSUME N <= r PROVE FALSE
    BY <1>1, <1>3
  <2>2. N * c <= r * c
    BY <1>1, <1>3, <2>1, SMT
  <2>3. r * c \in Nat /\ N * c \in Nat
    BY <1>1, <1>3, SMT
  <2>4. QED
    BY <1>1, <1>3, <2>2, <2>3
<1>5. r \in Ranks
  BY <1>1, <1>3, <1>4
<1>6. out[r] = Gathered(r)
  BY <1>5 DEF FInv, ExchangeInv, AllDone
<1>7. e + 1 \in 1 .. c
  BY <1>1, <1>3
<1>8. out[r][tbl][s * c + (e + 1)] = Shifted(s)[tbl][c * r + (e + 1) - 1]
  BY <1>5, <1>6, <1>7, GatheredIs DEF c
<1>9. c * r + (e + 1) - 1 = k
  BY <1>1, <1>3, SMT
<1>10. s * c + (e + 1) \in 1 .. N * c
  <2>1. (s + 1) * c <= N * c /\ (s + 1) * c = s * c + c /\ s * c \in Nat
    BY <1>1, SMT
  <2> DEFINE v == s * c
             w == N * c
  <2>2. v \in Nat /\ v + c <= w /\ w \in Nat
    BY <1>1, <2>1, SMT
  <2> HIDE DEF v, w
  <2>3. v + (e + 1) \in 1 .. w
    BY <1>1, <1>3, <2>2
  <2>4. QED
    BY <2>3 DEF v, w
<1>11. s * c + (e + 1) = s * c + e + 1
  <2>1. s * c \in Nat
    BY <1>1, SMT
  <2>2. QED
    BY <1>3, <2>1
<1>12. <<r, s * c + e + 1>> \in Returned(tbl)
  <2>1. s * c + e + 1 \in DOMAIN out[r][tbl]
    BY <1>5, <1>6, <1>10, <1>11, GatheredIs DEF c
  <2> DEFINE i == s * c + e + 1
  <2>2. i \in DOMAIN out[r][tbl]
    BY <2>1
  <2> HIDE DEF i
  <2>3. <<r, i>> \in Returned(tbl)
    BY <1>5, <2>2 DEF Returned
  <2>4. QED
    BY <2>3 DEF i
<1>13. Place(tbl, s, k) = <<r, s * c + e + 1>>
  BY DEF Place, r, e, c
<1>14. out[r][tbl][s * c + e + 1] = Shifted(s)[tbl][k]
  BY <1>8, <1>9, <1>11, Zenon
<1> DEFINE i == s * c + e + 1
<1>15. <<r, i>> \in Returned(tbl) /\ out[r][tbl][i] = Shifted(s)[tbl][k] /\ Place(tbl, s, k) = <<r, i>>
  BY <1>12, <1>13, <1>14, Zenon
<1> HIDE DEF i
<1>16. <<r, i>>[1] = r /\ <<r, i>>[2] = i
  OBVIOUS
<1>17. QED
  BY <1>15, <1>16, Zenon

LEMMA Came ==
  ASSUME FInv, AllDone, NEW tbl \in Tables, NEW p \in Returned(tbl)
  PROVE  \E s \in Ranks, k \in Rows(RowCount(tbl)) : p = Place(tbl, s, k)
<1> DEFINE c == ChunkRows(tbl)
<1>0. PICK r \in Ranks : p \in {<<r, j>> : j \in DOMAIN out[r][tbl]}
  BY DEF Returned
<1>1. PICK i \in DOMAIN out[r][tbl] : p = <<r, i>>
  BY <1>0
<1>2. i \in 1 .. N * c
  BY GatheredIs DEF FInv, ExchangeInv, AllDone
<1>3. N \in Nat \ {0} /\ c \in Nat /\ r \in Nat /\ r < N /\ RowCount(tbl) = N * c
      /\ \A x \in Nat : x < N => x \in Ranks
  BY Counts
<1>4. N * c \in Nat
  BY <1>3, SMT
<1> HIDE DEF c
<1>5. c # 0
  BY <1>2, <1>3, SMT
<1>6. i - 1 \in Nat /\ i - 1 < N * c
  BY <1>2, <1>4
<1> DEFINE s == (i - 1) \div c
           e == (i - 1) % c
<1>7. i - 1 = s * c + e /\ e \in 0 .. c - 1 /\ s \in Nat
  BY <1>3, <1>5, <1>6, Division
<1> HIDE DEF s, e
<1>8. s \in Ranks
  <2>1. SUFFICES ASSUME N <= s PROVE FALSE
    BY <1>3, <1>7
  <2>2. N * c <= s * c
    BY <1>3, <1>7, <2>1, SMT
  <2>3. s * c \in Nat
    BY <1>3, <1>7, SMT
  <2>4. QED
    BY <1>4, <1>6, <1>7, <2>2, <2>3
<1> DEFINE k == r * c + e
<1>9. k \div c = r /\ k % c = e /\ k \in Nat
  BY <1>3, <1>7, Sliced
<1>10. k < N * c
  <2>1. (r + 1) * c <= N * c /\ (r + 1) * c = r * c + c /\ r * c \in Nat
    BY <1>3, SMT
  <2> DEFINE v == r * c
             w == N * c
  <2>2. v \in Nat /\ v + c <= w /\ w \in Nat
    BY <1>4, <2>1
  <2> HIDE DEF v, w
  <2>3. v + e < w
    BY <1>3, <1>7, <2>2
  <2>4. QED
    BY <2>3 DEF v, w
<1>11. k \in Rows(RowCount(tbl))
  BY <1>3, <1>4, <1>9, <1>10 DEF Rows
<1>12. i = s * c + e + 1
  <2>1. s * c \in Nat
    BY <1>3, <1>7, SMT
  <2>2. QED
    BY <1>2, <1>4, <1>7, <2>1
<1>13. Place(tbl, s, k) = <<r, i>>
  BY <1>9, <1>12, Zenon DEF Place, c
<1>14. QED
  BY <1>1, <1>8, <1>11, <1>13
\* What a row tells about its origin.
LEMMA RowIs ==
  ASSUME NEW tbl \in Tables, NEW s \in Ranks, NEW k \in Rows(RowCount(tbl))
  PROVE  /\ k \in DOMAIN Shifted(s)[tbl]
         /\ Shifted(s)[tbl][k].payload = k + RowCount(tbl) * s
         /\ Shifted(s)[tbl][k].from = s
<1>1. CASE tbl = "build"
  <2>1. RowCount(tbl) = BuildRows
    BY <1>1 DEF RowCount
  <2>2. Shifted(s)[tbl] = [i \in Rows(BuildRows) |->
                Row(local[s].build[i] + KeyShift(s), i + PayloadShift(BuildRows, s), s, TRUE)]
    BY <1>1 DEF Shifted
  <2>3. QED
    BY <2>1, <2>2 DEF Row, PayloadShift
<1>2. CASE tbl = "probe"
  <2>1. RowCount(tbl) = ProbeRows
    BY <1>2 DEF RowCount
  <2>2. Shifted(s)[tbl] = [i \in Rows(ProbeRows) |->
                Row(local[s].probe[i].key + KeyShift(s), i + PayloadShift(ProbeRows, s), s,
                    local[s].probe[i].hit)]
    BY <1>2 DEF Shifted
  <2>3. QED
    BY <2>1, <2>2 DEF Row, PayloadShift
<1>3. QED
  BY <1>1, <1>2 DEF Tables

LEMMA ShiftedRows ==
  ASSUME NEW tbl \in Tables, NEW s \in Ranks
  PROVE  DOMAIN Shifted(s)[tbl] = Rows(RowCount(tbl))
BY DEF Shifted, RowCount, Tables

\* A payload is found on one rank, in one row.
LEMMA PayloadTells ==
  ASSUME NEW tbl \in Tables, NEW s \in Ranks, NEW t \in Ranks,
         NEW k \in Rows(RowCount(tbl)), NEW l \in Rows(RowCount(tbl)),
         Shifted(s)[tbl][k].payload = Shifted(t)[tbl][l].payload
  PROVE  s = t /\ k = l
<1> DEFINE n == RowCount(tbl)
<1>1. n \in Nat /\ s \in Nat /\ t \in Nat /\ k \in 0 .. n - 1 /\ l \in 0 .. n - 1
  BY Counts DEF Rows
<1>2. k + n * s = l + n * t
  BY RowIs
<1> HIDE DEF n
<1>3. k + n * s = s * n + k /\ l + n * t = t * n + l
  BY <1>1, SMT
<1>4. (s * n + k) \div n = s /\ (s * n + k) % n = k
  BY <1>1, Sliced
<1>5. (t * n + l) \div n = t /\ (t * n + l) % n = l
  BY <1>1, Sliced
<1>6. QED
  BY <1>2, <1>3, <1>4, <1>5, Zenon

\* The returned tables hold every row once.
LEMMA AllRowsReturned ==
  ASSUME FInv, AllDone, NEW tbl \in Tables
  PROVE  {out[p[1]][tbl][p[2]] : p \in Returned(tbl)} = AllRows(tbl)
<1>1. ASSUME NEW p \in Returned(tbl) PROVE out[p[1]][tbl][p[2]] \in AllRows(tbl)
  <2>1. PICK s \in Ranks, k \in Rows(RowCount(tbl)) : p = Place(tbl, s, k)
    BY Came
  <2>2. out[p[1]][tbl][p[2]] = Shifted(s)[tbl][k]
    BY <2>1, Placed
  <2>3. Shifted(s)[tbl][k] \in {Shifted(s)[tbl][i] : i \in DOMAIN Shifted(s)[tbl]}
    BY ShiftedRows
  <2>4. QED
    BY <2>2, <2>3 DEF AllRows
<1>2. ASSUME NEW x \in AllRows(tbl) PROVE \E p \in Returned(tbl) : x = out[p[1]][tbl][p[2]]
  <2>1. PICK s \in Ranks : x \in {Shifted(s)[tbl][i] : i \in DOMAIN Shifted(s)[tbl]}
    BY DEF AllRows
  <2>2. PICK k \in Rows(RowCount(tbl)) : x = Shifted(s)[tbl][k]
    BY <2>1, ShiftedRows
  <2>3. Place(tbl, s, k) \in Returned(tbl)
        /\ out[Place(tbl, s, k)[1]][tbl][Place(tbl, s, k)[2]] = Shifted(s)[tbl][k]
    BY Placed
  <2>4. QED
    BY <2>2, <2>3
<1>3. QED
  BY <1>1, <1>2

LEMMA RowsCounted ==
  ASSUME FInv, AllDone, NEW tbl \in Tables
  PROVE  Cardinality(Returned(tbl)) = Cardinality({x.payload : x \in AllRows(tbl)})
<1> DEFINE R == Returned(tbl)
           T == {x.payload : x \in AllRows(tbl)}
           f == [p \in R |-> out[p[1]][tbl][p[2]].payload]
           n == RowCount(tbl)
<1>1. ASSUME NEW p \in R
      PROVE  \E s \in Ranks, k \in Rows(n) :
               p = Place(tbl, s, k) /\ f[p] = Shifted(s)[tbl][k].payload
  <2>1. PICK s \in Ranks, k \in Rows(n) : p = Place(tbl, s, k)
    BY Came
  <2>2. out[p[1]][tbl][p[2]] = Shifted(s)[tbl][k]
    BY <2>1, Placed
  <2>3. QED
    BY <2>1, <2>2
<1>2. {out[p[1]][tbl][p[2]] : p \in R} = AllRows(tbl)
  BY AllRowsReturned
<1>3. T = {f[p] : p \in R}
  BY <1>2
<1>4. f \in Surjection(R, T)
  <2>1. f \in [R -> T]
    BY <1>3
  <2>2. \A x \in T : \E p \in R : f[p] = x
    BY <1>3
  <2> HIDE DEF f, T, R
  <2>3. QED
    BY <2>1, <2>2 DEF Surjection
<1>5. ASSUME NEW p \in R, NEW q \in R, f[p] = f[q] PROVE p = q
  <2>1. PICK s \in Ranks, k \in Rows(n) :
          p = Place(tbl, s, k) /\ f[p] = Shifted(s)[tbl][k].payload
    BY <1>1
  <2>2. PICK t \in Ranks, l \in Rows(n) :
          q = Place(tbl, t, l) /\ f[q] = Shifted(t)[tbl][l].payload
    BY <1>1
  <2>3. s = t /\ k = l
    BY <1>5, <2>1, <2>2, PayloadTells
  <2>4. QED
    BY <2>1, <2>2, <2>3
<1>6. f \in Injection(R, T)
  <2>1. f \in [R -> T]
    BY <1>3
  <2>2. \A p, q \in R : f[p] = f[q] => p = q
    <3> HIDE DEF f, T, R
    <3>1. QED
      BY <1>5, Zenon
  <2> HIDE DEF f, T, R
  <2>3. QED
    BY <2>1, <2>2 DEF Injection, IsInjective
<1>7. IsFiniteSet(T)
  <2>1. n \in Nat /\ N \in Nat
    BY Counts
  <2>2. n * N \in Nat
    BY <2>1, SMT
  <2>3. ASSUME NEW x \in T PROVE x \in 0 .. n * N
    <3>1. PICK p \in R : x = f[p]
      BY <1>3
    <3>2. PICK s \in Ranks, k \in Rows(n) : f[p] = Shifted(s)[tbl][k].payload
      BY <1>1
    <3>3. f[p] = k + n * s
      BY <3>2, RowIs
    <3>4. s \in Nat /\ s < N /\ k \in Nat /\ k < n
      BY Counts DEF Rows
    <3> HIDE DEF f, n
    <3>5. n * s \in Nat /\ n * (s + 1) = n * s + n /\ n * (s + 1) <= n * N
      BY <2>1, <3>4, SMT
    <3> DEFINE v == n * s
               w == n * N
    <3>6. v \in Nat /\ v + n <= w /\ w \in Nat
      BY <2>2, <3>5
    <3> HIDE DEF v, w
    <3>7. k + v \in 0 .. w
      BY <2>1, <3>4, <3>6
    <3>8. QED
      BY <3>1, <3>3, <3>7 DEF v, w
  <2>4. T \subseteq 0 .. n * N
    BY <2>3
  <2>5. IsFiniteSet(0 .. n * N)
    BY <2>2, FS_Interval
  <2>6. QED
    BY <2>4, <2>5, FS_Subset
<1>8. IsFiniteSet(R)
  BY <1>6, <1>7, FS_Injection
<1>9. QED
  <2> HIDE DEF f, T, R
  <2>1. Cardinality(R) = Cardinality(T)
    BY <1>4, <1>6, <1>8, FS_Surjection
  <2>2. QED
    BY <2>1 DEF R, T

\* For every number of ranks and of rows: after generate_tables_distributed
\* the tables together hold each row the ranks have made once, told apart by
\* the payloads that were shifted by rank.
THEOREM RowsReturned == Spec => []RowsConserved
<1>1. FInv => RowsConserved
  <2>1. SUFFICES ASSUME FInv, \A r \in Ranks : stage[r] = "done"
                 PROVE  \A tbl \in {"build", "probe"} :
                          /\ {out[p[1]][tbl][p[2]] : p \in Returned(tbl)} = AllRows(tbl)
                          /\ Cardinality(Returned(tbl)) = Cardinality({x.payload : x \in AllRows(tbl)})
    BY DEF RowsConserved
  <2>2. AllDone
    BY <2>1 DEF AllDone
  <2>3. QED
    BY <2>1, <2>2, AllRowsReturned, RowsCounted DEF Tables
<1>2. QED
  BY <1>1, SpecFInv, PTL

(***************************************************************************)
(* How far keys repeat over the ranks.                                     *)
(***************************************************************************)
\* Rank r's keys lie in [r * rand_max, (r + 1) * rand_max]: the ranges of two
\* neighbours share their common end.
SharedEnd(k, r, s) == (s = r + 1 /\ k = RandMax * s) \/ (r = s + 1 /\ k = RandMax * r)

\* After the exchange keys asked to be unique repeat, and probe keys meet build
\* rows of another rank, at those ends only; within a rank a probe row matches
\* as drawn.
GlobalKeys ==
  ((\A r \in Ranks : stage[r] = "done") /\ ~edge) =>
    /\ uniq => \A p, q \in Returned("build") :
         LET x == out[p[1]].build[p[2]]
             y == out[q[1]].build[q[2]]
         IN  (x.key = y.key /\ p # q) => SharedEnd(x.key, x.from, y.from)
    /\ \A p \in Returned("probe"), q \in Returned("build") :
         LET x == out[p[1]].probe[p[2]]
             y == out[q[1]].build[q[2]]
         IN  x.key = y.key => SharedEnd(x.key, x.from, y.from) \/ (x.from = y.from /\ x.hit)

\* Keys of two ranks meet only where the ranges of neighbours do.
LEMMA Ends ==
  ASSUME NEW s \in Ranks, NEW t \in Ranks, s < t, NEW a \in Keys, NEW b \in Keys,
         a + KeyShift(s) = b + KeyShift(t)
  PROVE  t = s + 1 /\ a + KeyShift(s) = RandMax * t
<1>1. /\ RandMax \in Nat /\ RandMax > 0 /\ s \in Nat /\ t \in Nat
      /\ a \in 0 .. RandMax /\ b \in 0 .. RandMax
  BY NAssumption, RowsAssumption DEF Keys, Ranks
<1> DEFINE R == RandMax
           u == R * s
           v == R * t
<1>2. a + u = b + v
  BY DEF KeyShift
<1>3. u \in Nat /\ v \in Nat /\ R * (s + 1) = u + R /\ R * (s + 2) = u + R + R
  BY <1>1, SMT
<1>4. R * (s + 1) <= v
  BY <1>1, SMT
<1>5. t >= s + 2 => R * (s + 2) <= v
  BY <1>1, SMT
<1> HIDE DEF u, v
<1>6. u + R <= v
  BY <1>3, <1>4
<1>7. b = 0 /\ v = u + R
  BY <1>1, <1>2, <1>3, <1>6
<1>8. ~(t >= s + 2)
  BY <1>1, <1>3, <1>5, <1>7
<1>9. t = s + 1
  BY <1>1, <1>8
<1>10. a + u = v
  BY <1>1, <1>2, <1>3, <1>7
<1>11. QED
  BY <1>9, <1>10 DEF KeyShift, u, v

LEMMA Meet ==
  ASSUME NEW s \in Ranks, NEW t \in Ranks, NEW a \in Keys, NEW b \in Keys,
         a + KeyShift(s) = b + KeyShift(t), s # t
  PROVE  SharedEnd(a + KeyShift(s), s, t)
<1>1. s < t \/ t < s
  BY NAssumption DEF Ranks
<1>2. CASE s < t
  BY <1>2, Ends DEF SharedEnd
<1>3. CASE t < s
  <2>1. s = t + 1 /\ b + KeyShift(t) = RandMax * s
    BY <1>3, Ends
  <2>2. QED
    BY <2>1 DEF SharedEnd
<1>4. QED
  BY <1>1, <1>2, <1>3

\* Every rank's tables are as generate_input_tables promises.
LEMMA AllLocal ==
  ASSUME FInv, AllDone, ~edge, NEW s \in Ranks
  PROVE  IsLocal(local[s], uniq)
<1>1. stage[s] # "generate"
  BY DEF AllDone
<1>2. CASE s = Gpu
  BY <1>1, <1>2 DEF FInv, IInv, GeneratedInv, KernelOutcome
<1>3. CASE s # Gpu
  BY <1>1, <1>3 DEF FInv, GeneratedInv
<1>4. QED
  BY <1>2, <1>3

\* A returned row of the build table, and one of the probe table.
LEMMA BuildRow ==
  ASSUME FInv, AllDone, ~edge, NEW p \in Returned("build")
  PROVE  \E s \in Ranks, k \in Rows(BuildRows) :
           /\ p = Place("build", s, k) /\ local[s].build[k] \in Keys
           /\ out[p[1]].build[p[2]].key = local[s].build[k] + KeyShift(s)
           /\ out[p[1]].build[p[2]].from = s
<1>1. "build" \in Tables /\ RowCount("build") = BuildRows
  BY DEF Tables, RowCount
<1>2. PICK s \in Ranks, k \in Rows(BuildRows) : p = Place("build", s, k)
  BY <1>1, Came
<1>3. out[p[1]]["build"][p[2]] = Shifted(s)["build"][k]
  BY <1>1, <1>2, Placed
<1>4. Shifted(s).build[k] = Row(local[s].build[k] + KeyShift(s), k + PayloadShift(BuildRows, s), s, TRUE)
  BY DEF Shifted
<1>5. local[s].build[k] \in Keys
  BY AllLocal DEF IsLocal, TablePairs
<1>6. out[p[1]].build[p[2]].key = local[s].build[k] + KeyShift(s) /\ out[p[1]].build[p[2]].from = s
  BY <1>3, <1>4 DEF Row
<1>7. QED
  BY <1>2, <1>5, <1>6

LEMMA ProbeRow ==
  ASSUME FInv, AllDone, ~edge, NEW p \in Returned("probe")
  PROVE  \E s \in Ranks, k \in Rows(ProbeRows) :
           /\ local[s].probe[k].key \in Keys
           /\ out[p[1]].probe[p[2]].key = local[s].probe[k].key + KeyShift(s)
           /\ out[p[1]].probe[p[2]].from = s
           /\ out[p[1]].probe[p[2]].hit = local[s].probe[k].hit
<1>1. "probe" \in Tables /\ RowCount("probe") = ProbeRows
  BY DEF Tables, RowCount
<1>2. PICK s \in Ranks, k \in Rows(ProbeRows) : p = Place("probe", s, k)
  BY <1>1, Came
<1>3. out[p[1]]["probe"][p[2]] = Shifted(s)["probe"][k]
  BY <1>1, <1>2, Placed
<1>4. Shifted(s).probe[k] = Row(local[s].probe[k].key + KeyShift(s), k + PayloadShift(ProbeRows, s), s,
                                local[s].probe[k].hit)
  BY DEF Shifted
<1>5. local[s].probe[k].key \in Keys
  BY AllLocal DEF IsLocal, TablePairs
<1>6. /\ out[p[1]].probe[p[2]].key = local[s].probe[k].key + KeyShift(s)
      /\ out[p[1]].probe[p[2]].from = s /\ out[p[1]].probe[p[2]].hit = local[s].probe[k].hit
  BY <1>3, <1>4 DEF Row
<1>7. QED
  BY <1>5, <1>6

LEMMA SameShift ==
  ASSUME NEW s \in Ranks, NEW a \in Keys, NEW b \in Keys, a + KeyShift(s) = b + KeyShift(s)
  PROVE  a = b
<1> DEFINE v == KeyShift(s)
<1>1. a \in Nat /\ b \in Nat /\ RandMax \in Nat /\ s \in Nat
  BY NAssumption, RowsAssumption DEF Keys, Ranks
<1>2. v \in Nat
  BY <1>1, SMT DEF KeyShift
<1>3. a + v = b + v
  OBVIOUS
<1> HIDE DEF v
<1>4. QED
  BY <1>1, <1>2, <1>3

\* The global tables, for every number of ranks: build keys asked to be
\* unique repeat, and a probe key meets build rows of another rank than its
\* own, only at the common end of two neighbours' ranges of keys.
THEOREM KeysGlobal == Spec => []GlobalKeys
<1>1. FInv => GlobalKeys
  <2>1. SUFFICES ASSUME FInv, AllDone, ~edge
                 PROVE  /\ uniq => \A p, q \in Returned("build") :
                             (out[p[1]].build[p[2]].key = out[q[1]].build[q[2]].key /\ p # q)
                               => SharedEnd(out[p[1]].build[p[2]].key, out[p[1]].build[p[2]].from,
                                            out[q[1]].build[q[2]].from)
                        /\ \A p \in Returned("probe"), q \in Returned("build") :
                             out[p[1]].probe[p[2]].key = out[q[1]].build[q[2]].key
                               => \/ SharedEnd(out[p[1]].probe[p[2]].key, out[p[1]].probe[p[2]].from,
                                               out[q[1]].build[q[2]].from)
                                  \/ /\ out[p[1]].probe[p[2]].from = out[q[1]].build[q[2]].from
                                     /\ out[p[1]].probe[p[2]].hit
    BY Zenon DEF GlobalKeys, AllDone
  <2>2. ASSUME uniq, NEW p \in Returned("build"), NEW q \in Returned("build"),
               out[p[1]].build[p[2]].key = out[q[1]].build[q[2]].key, p # q
        PROVE  SharedEnd(out[p[1]].build[p[2]].key, out[p[1]].build[p[2]].from, out[q[1]].build[q[2]].from)
    <3>1. PICK s \in Ranks, k \in Rows(BuildRows) :
            /\ p = Place("build", s, k) /\ local[s].build[k] \in Keys
            /\ out[p[1]].build[p[2]].key = local[s].build[k] + KeyShift(s)
            /\ out[p[1]].build[p[2]].from = s
      BY <2>1, BuildRow
    <3>2. PICK t \in Ranks, l \in Rows(BuildRows) :
            /\ q = Place("build", t, l) /\ local[t].build[l] \in Keys
            /\ out[q[1]].build[q[2]].key = local[t].build[l] + KeyShift(t)
            /\ out[q[1]].build[q[2]].from = t
      BY <2>1, BuildRow
    <3>3. local[s].build[k] + KeyShift(s) = local[t].build[l] + KeyShift(t)
      BY <2>2, <3>1, <3>2
    <3>4. s # t
      <4>1. SUFFICES ASSUME s = t PROVE FALSE
        OBVIOUS
      <4>2. local[s].build[k] = local[s].build[l]
        BY <3>1, <3>2, <3>3, <4>1, SameShift
      <4>3. \A i, j \in Rows(BuildRows) : local[s].build[i] = local[s].build[j] => i = j
        BY <2>1, <2>2, AllLocal DEF IsLocal
      <4>4. k = l
        BY <4>2, <4>3
      <4>5. QED
        BY <2>2, <3>1, <3>2, <4>1, <4>4
    <3>5. SharedEnd(local[s].build[k] + KeyShift(s), s, t)
      BY <3>1, <3>2, <3>3, <3>4, Meet
    <3>6. QED
      BY <3>1, <3>2, <3>5
  <2>3. ASSUME NEW p \in Returned("probe"), NEW q \in Returned("build"),
               out[p[1]].probe[p[2]].key = out[q[1]].build[q[2]].key
        PROVE  \/ SharedEnd(out[p[1]].probe[p[2]].key, out[p[1]].probe[p[2]].from,
                            out[q[1]].build[q[2]].from)
               \/ /\ out[p[1]].probe[p[2]].from = out[q[1]].build[q[2]].from
                  /\ out[p[1]].probe[p[2]].hit
    <3>1. PICK s \in Ranks, k \in Rows(ProbeRows) :
            /\ local[s].probe[k].key \in Keys
            /\ out[p[1]].probe[p[2]].key = local[s].probe[k].key + KeyShift(s)
            /\ out[p[1]].probe[p[2]].from = s
            /\ out[p[1]].probe[p[2]].hit = local[s].probe[k].hit
      BY <2>1, ProbeRow
    <3>2. PICK t \in Ranks, l \in Rows(BuildRows) :
            /\ q = Place("build", t, l) /\ local[t].build[l] \in Keys
            /\ out[q[1]].build[q[2]].key = local[t].build[l] + KeyShift(t)
            /\ out[q[1]].build[q[2]].from = t
      BY <2>1, BuildRow
    <3>3. local[s].probe[k].key + KeyShift(s) = local[t].build[l] + KeyShift(t)
      BY <2>3, <3>1, <3>2
    <3>4. CASE s # t
      <4>1. SharedEnd(local[s].probe[k].key + KeyShift(s), s, t)
        BY <3>1, <3>2, <3>3, <3>4, Meet
      <4>2. QED
        BY <3>1, <3>2, <4>1
    <3>5. CASE s = t
      <4>1. local[s].probe[k].key = local[s].build[l]
        BY <3>1, <3>2, <3>3, <3>5, SameShift
      <4>2. local[s].probe[k].hit <=> \E j \in Rows(BuildRows) : local[s].probe[k].key = local[s].build[j]
        BY <2>1, AllLocal DEF IsLocal
      <4>3. local[s].probe[k].hit
        BY <4>1, <4>2
      <4>4. QED
        BY <3>1, <3>2, <3>5, <4>3
    <3>6. QED
      BY <3>4, <3>5
  <2>4. QED
    BY <2>2, <2>3
<1>2. QED
  BY <1>1, SpecFInv, PTL
=============================================================================
