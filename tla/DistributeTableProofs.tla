----------------------- MODULE DistributeTableProofs -----------------------
(***************************************************************************)
(* The slices distribute_table cuts are a tiling of the table, and         *)
(* collect_tables makes one table of the ranks' tables in rank order, for  *)
(* every number of rows, of columns and of ranks.                          *)
(***************************************************************************)
EXTENDS DistributeTable, SequenceTheorems, WellFoundedInduction, TLAPS

\* Division by the number of ranks.
LEMMA Division ==
  ASSUME NEW size \in Nat
  PROVE  /\ size \div N \in Nat /\ size % N \in 0 .. N - 1
         /\ size = (size \div N) * N + (size % N)
BY NAssumption, SMT

\* start_idx and get_local_table_size of distribute_cols: the first slice
\* starts with row 0, each starts where the one before ends, the last one
\* ends with the table, and a slice is at most one row longer than another.
THEOREM SlicesTile ==
  ASSUME NEW size \in Nat, NEW r \in Ranks
  PROVE  /\ StartIdx(size, 0) = 0
         /\ StartIdx(size, r + 1) = StartIdx(size, r) + LocalTableSize(size, r)
         /\ StartIdx(size, N) = size
         /\ \A s \in Ranks : LocalTableSize(size, s) <= LocalTableSize(size, r) + 1
<1> DEFINE q == size \div N
           m == size % N
<1>1. q \in Nat /\ m \in 0 .. N - 1 /\ size = q * N + m
  BY Division
<1>2. r \in Nat /\ N \in Nat /\ r < N
  BY NAssumption DEF Ranks
<1>3. StartIdx(size, 0) = 0
  <2>1. q * 0 = 0
    BY <1>1, SMT
  <2>2. QED
    BY <1>1, <2>1 DEF StartIdx
<1>4. StartIdx(size, r + 1) = StartIdx(size, r) + LocalTableSize(size, r)
  <2>1. q * (r + 1) = q * r + q /\ q * r \in Nat
    BY <1>1, <1>2, SMT
  <2>2. QED
    BY <1>1, <1>2, <2>1 DEF StartIdx, LocalTableSize
<1>5. StartIdx(size, N) = size
  <2>1. q * N \in Nat
    BY <1>1, <1>2, SMT
  <2>2. QED
    BY <1>1, <1>2, <2>1 DEF StartIdx
<1>6. \A s \in Ranks : LocalTableSize(size, s) <= LocalTableSize(size, r) + 1
  BY <1>1 DEF LocalTableSize
<1>7. QED
  BY <1>3, <1>4, <1>5, <1>6

-----------------------------------------------------------------------------
(***************************************************************************)
(* Sums and concatenations over the ranks.                                 *)
(***************************************************************************)
\* Induction over 0 .. n for a set: the set of the numbers that have a property.
LEMMA Climb ==
  ASSUME NEW n \in Nat, NEW S, 0 \in S, \A i \in 0 .. n - 1 : i \in S => i + 1 \in S
  PROVE  \A i \in 0 .. n : i \in S
<1> SUFFICES ASSUME NEW k \in 0 .. n, k \notin S
             PROVE  FALSE
  OBVIOUS
<1> DEFINE T == {i \in 0 .. n : i \notin S}
<1>1. T \subseteq Nat /\ T # {}
  OBVIOUS
<1> HIDE DEF T
<1>2. PICK x \in T : \A y \in T : ~ (<<y, x>> \in OpToRel(<, Nat))
  BY <1>1, NatLessThanWellFounded, WFMin
<1>3. \A y \in T : ~ (y < x)
  BY <1>1, <1>2 DEF OpToRel
<1>4. x \in 0 .. n /\ x \notin S /\ x # 0
  BY DEF T
<1>5. x - 1 \in 0 .. n - 1 /\ x - 1 < x /\ x - 1 + 1 = x
  BY <1>4
<1>6. x - 1 \notin T
  BY <1>3, <1>5
<1> QED BY <1>4, <1>5, <1>6 DEF T

\* s[r] is where the part of rank r starts, when rank r has n[r] elements.
IsScan(n, s) == s[0] = 0 /\ \A r \in Ranks : s[r + 1] = s[r] + n[r]

\* The recursion of table_nrows_scan, up to the k-th rank.
ScanTo(k, n, f) == f = [i \in 0 .. k |-> IF i = 0 THEN 0 ELSE f[i - 1] + n[i - 1]]

LEMMA ScanValues ==
  ASSUME NEW n
  PROVE  IsScan(n, Scan(n))
<1>1. N \in Nat \ {0}
  BY NAssumption
<1> DEFINE S == {k \in 0 .. N : \E f : ScanTo(k, n, f)}
<1>2. 0 \in S
  <2> DEFINE g == [i \in 0 .. 0 |-> 0]
  <2>1. ScanTo(0, n, g)
    BY DEF ScanTo
  <2> QED BY <1>1, <2>1
<1>3. ASSUME NEW k \in 0 .. N - 1, k \in S
      PROVE  k + 1 \in S
  <2>1. PICK f : ScanTo(k, n, f)
    BY <1>3
  <2> DEFINE g == [i \in 0 .. k + 1 |-> IF i = k + 1 THEN f[k] + n[k] ELSE f[i]]
  <2>2. f = [i \in 0 .. k |-> IF i = 0 THEN 0 ELSE f[i - 1] + n[i - 1]]
    BY <2>1 DEF ScanTo
  <2>3. ASSUME NEW i \in 0 .. k + 1
        PROVE  g[i] = IF i = 0 THEN 0 ELSE g[i - 1] + n[i - 1]
    <3>1. CASE i = k + 1
      BY <1>1, <3>1
    <3>2. CASE i # k + 1
      <4>1. i \in 0 .. k /\ i - 1 # k + 1 /\ i - 1 \in -1 .. k
        BY <3>2
      <4>2. f[i] = IF i = 0 THEN 0 ELSE f[i - 1] + n[i - 1]
        BY <2>2, <4>1
      <4> QED BY <3>2, <4>1, <4>2
    <3> QED BY <3>1, <3>2
  <2>4. g = [i \in 0 .. k + 1 |-> g[i]]
    OBVIOUS
  <2> HIDE DEF g
  <2>5. ScanTo(k + 1, n, g)
    BY <2>3, <2>4 DEF ScanTo
  <2> QED BY <1>1, <2>5
<1> HIDE DEF S
<1>4. N \in S
  BY <1>1, <1>2, <1>3, Climb
<1>5. \E f : ScanTo(N, n, f)
  BY <1>4 DEF S
<1>6. Scan(n) = CHOOSE f : ScanTo(N, n, f)
  BY Zenon DEF Scan, ScanTo
<1>7. ScanTo(N, n, Scan(n))
  BY <1>5, <1>6, Zenon
<1> DEFINE F == Scan(n)
<1> HIDE DEF F
<1>8. F = [i \in 0 .. N |-> IF i = 0 THEN 0 ELSE F[i - 1] + n[i - 1]]
  BY <1>7 DEF ScanTo, F
<1>9. \A i \in 0 .. N : F[i] = IF i = 0 THEN 0 ELSE F[i - 1] + n[i - 1]
  BY <1>8, Zenon
<1>10. F[0] = 0
  BY <1>1, <1>9
<1>11. ASSUME NEW r \in Ranks
       PROVE  F[r + 1] = F[r] + n[r]
  <2>1. PICK i \in 0 .. N : i = r + 1 /\ i # 0 /\ i - 1 = r
    BY <1>1 DEF Ranks
  <2>2. F[i] = IF i = 0 THEN 0 ELSE F[i - 1] + n[i - 1]
    BY <1>9, Zenon
  <2>3. F[i] = F[r] + n[r]
    BY <2>1, <2>2, Zenon
  <2> QED BY <2>1, <2>3, Zenon
<1> QED BY <1>10, <1>11 DEF F, IsScan

LEMMA ScanIsNat ==
  ASSUME NEW n, NEW s, IsScan(n, s), \A r \in Ranks : n[r] \in Nat
  PROVE  \A i \in 0 .. N : s[i] \in Nat
<1>1. N \in Nat \ {0}
  BY NAssumption
<1> DEFINE T == {i \in 0 .. N : s[i] \in Nat}
<1>2. 0 \in T
  BY <1>1 DEF IsScan
<1>3. ASSUME NEW i \in 0 .. N - 1, i \in T
      PROVE  i + 1 \in T
  <2>1. i \in Ranks
    BY DEF Ranks
  <2> QED BY <1>1, <1>3, <2>1 DEF IsScan
<1> HIDE DEF T
<1>4. \A i \in 0 .. N : i \in T
  BY <1>1, <1>2, <1>3, Climb
<1> QED BY <1>4 DEF T

\* The parts of two ranks do not overlap, and none exceeds the whole.
LEMMA ScanOrder ==
  ASSUME NEW n, NEW s, IsScan(n, s), \A r \in Ranks : n[r] \in Nat,
         NEW r \in Ranks, NEW t \in 0 .. N, r < t
  PROVE  s[r] + n[r] <= s[t]
<1>1. N \in Nat \ {0} /\ r \in 0 .. N - 1
  BY NAssumption DEF Ranks
<1>2. \A i \in 0 .. N : s[i] \in Nat
  BY ScanIsNat
<1> DEFINE T == {i \in 0 .. N : r < i => s[r] + n[r] <= s[i]}
<1>3. 0 \in T
  BY <1>1
<1>4. ASSUME NEW i \in 0 .. N - 1, i \in T
      PROVE  i + 1 \in T
  <2>1. i \in Ranks /\ i + 1 \in 0 .. N /\ i \in 0 .. N
    BY <1>1 DEF Ranks
  <2>2. s[i + 1] = s[i] + n[i] /\ n[i] \in Nat /\ n[r] \in Nat
    BY <2>1 DEF IsScan
  <2>3. s[i] \in Nat /\ s[i + 1] \in Nat /\ s[r] \in Nat
    BY <1>1, <1>2, <2>1
  <2>4. CASE r < i
    BY <1>4, <2>1, <2>2, <2>3, <2>4
  <2>5. CASE r = i
    BY <2>1, <2>2, <2>3, <2>5
  <2>6. CASE i < r
    BY <1>1, <2>1, <2>6
  <2> QED BY <1>1, <2>1, <2>4, <2>5, <2>6
<1> HIDE DEF T
<1>5. \A i \in 0 .. N : i \in T
  BY <1>1, <1>3, <1>4, Climb
<1> QED BY <1>5 DEF T

\* The recursion of Joined, up to the k-th rank.
JoinedTo(k, part, f) == f = [i \in 0 .. k |-> IF i = 0 THEN <<>> ELSE f[i - 1] \o part[i - 1]]

\* The concatenation of the parts, built rank by rank.
LEMMA JoinedSteps ==
  ASSUME NEW part
  PROVE  \E f : /\ Joined(part) = f[N]
                /\ f[0] = <<>>
                /\ \A r \in Ranks : f[r + 1] = f[r] \o part[r]
<1>1. N \in Nat \ {0}
  BY NAssumption
<1> DEFINE S == {k \in 0 .. N : \E f : JoinedTo(k, part, f)}
<1>2. 0 \in S
  <2> DEFINE g == [i \in 0 .. 0 |-> <<>>]
  <2>1. JoinedTo(0, part, g)
    BY DEF JoinedTo
  <2> QED BY <1>1, <2>1
<1>3. ASSUME NEW k \in 0 .. N - 1, k \in S
      PROVE  k + 1 \in S
  <2>1. PICK f : JoinedTo(k, part, f)
    BY <1>3
  <2> DEFINE g == [i \in 0 .. k + 1 |-> IF i = k + 1 THEN f[k] \o part[k] ELSE f[i]]
  <2>2. f = [i \in 0 .. k |-> IF i = 0 THEN <<>> ELSE f[i - 1] \o part[i - 1]]
    BY <2>1 DEF JoinedTo
  <2>3. ASSUME NEW i \in 0 .. k + 1
        PROVE  g[i] = IF i = 0 THEN <<>> ELSE g[i - 1] \o part[i - 1]
    <3>1. CASE i = k + 1
      BY <1>1, <3>1
    <3>2. CASE i # k + 1
      <4>1. i \in 0 .. k /\ i - 1 # k + 1 /\ i - 1 \in -1 .. k
        BY <3>2
      <4>2. f[i] = IF i = 0 THEN <<>> ELSE f[i - 1] \o part[i - 1]
        BY <2>2, <4>1
      <4> QED BY <3>2, <4>1, <4>2
    <3> QED BY <3>1, <3>2
  <2>4. g = [i \in 0 .. k + 1 |-> g[i]]
    OBVIOUS
  <2> HIDE DEF g
  <2>5. JoinedTo(k + 1, part, g)
    BY <2>3, <2>4 DEF JoinedTo
  <2> QED BY <1>1, <2>5
<1> HIDE DEF S
<1>4. N \in S
  BY <1>1, <1>2, <1>3, Climb
<1>5. \E f : JoinedTo(N, part, f)
  BY <1>4 DEF S
<1> DEFINE F == CHOOSE f : JoinedTo(N, part, f)
<1>6. Joined(part) = F[N]
  BY Zenon DEF Joined, JoinedTo
<1>7. JoinedTo(N, part, F)
  BY <1>5, Zenon
<1> HIDE DEF F
<1>8. \A i \in 0 .. N : F[i] = IF i = 0 THEN <<>> ELSE F[i - 1] \o part[i - 1]
  BY <1>7, Zenon DEF JoinedTo
<1>9. F[0] = <<>>
  BY <1>1, <1>8
<1>10. ASSUME NEW r \in Ranks
       PROVE  F[r + 1] = F[r] \o part[r]
  <2>1. PICK i \in 0 .. N : i = r + 1 /\ i # 0 /\ i - 1 = r
    BY <1>1 DEF Ranks
  <2>2. F[i] = IF i = 0 THEN <<>> ELSE F[i - 1] \o part[i - 1]
    BY <1>8, Zenon
  <2>3. F[i] = F[r] \o part[r]
    BY <2>1, <2>2, Zenon
  <2> QED BY <2>1, <2>3, Zenon
<1> QED BY <1>6, <1>9, <1>10

LEMMA Glue ==
  ASSUME NEW V, NEW a \in Seq(V), NEW b \in Seq(V)
  PROVE  /\ a \o b \in Seq(V)
         /\ Len(a \o b) = Len(a) + Len(b)
         /\ \A m \in 1 .. Len(a) : (a \o b)[m] = a[m]
         /\ \A m \in 1 .. Len(b) : (a \o b)[Len(a) + m] = b[m]
<1>1. Len(a) \in Nat /\ Len(b) \in Nat
  OBVIOUS
<1>2. a \o b \in Seq(V) /\ Len(a \o b) = Len(a) + Len(b)
  BY ConcatProperties
<1>3. \A m \in 1 .. Len(a) + Len(b) : (a \o b)[m] = IF m <= Len(a) THEN a[m] ELSE b[m - Len(a)]
  BY ConcatProperties
<1>4. \A m \in 1 .. Len(a) : (a \o b)[m] = a[m]
  BY <1>1, <1>3
<1>5. ASSUME NEW m \in 1 .. Len(b)
      PROVE  (a \o b)[Len(a) + m] = b[m]
  <2>1. Len(a) + m \in 1 .. Len(a) + Len(b) /\ ~ (Len(a) + m <= Len(a)) /\ Len(a) + m - Len(a) = m
    BY <1>1
  <2> QED BY <1>3, <2>1
<1> QED BY <1>2, <1>4, <1>5

\* The parts, of n[r] elements each, at the places the scan s gives them in x.
LaidOut(V, part, n, s, x) ==
  /\ \A r \in Ranks : part[r] \in Seq(V)
  /\ \A r \in Ranks : n[r] = Len(part[r])
  /\ IsScan(n, s) /\ x \in Seq(V) /\ Len(x) = s[N]
  /\ \A r \in Ranks : \A j \in 1 .. n[r] : x[s[r] + j] = part[r][j]

\* A sequence that has each part where the scan puts it, and no more, is the
\* concatenation of the parts.
LEMMA JoinedIs ==
  ASSUME NEW V, NEW part, NEW n, NEW s, NEW x, LaidOut(V, part, n, s, x)
  PROVE  Joined(part) = x
<1>1. /\ \A r \in Ranks : part[r] \in Seq(V)
      /\ \A r \in Ranks : n[r] = Len(part[r])
      /\ IsScan(n, s) /\ x \in Seq(V) /\ Len(x) = s[N]
      /\ \A r \in Ranks : \A j \in 1 .. n[r] : x[s[r] + j] = part[r][j]
  BY Zenon DEF LaidOut
<1>2. N \in Nat \ {0}
  BY NAssumption
<1>3. PICK f : /\ Joined(part) = f[N]
               /\ f[0] = <<>>
               /\ \A r \in Ranks : f[r + 1] = f[r] \o part[r]
  BY JoinedSteps
<1>4. \A i \in 0 .. N : s[i] \in Nat
  BY <1>1, ScanIsNat
<1> DEFINE Same(i) == /\ f[i] \in Seq(V) /\ Len(f[i]) = s[i]
                      /\ \A m \in 1 .. s[i] : f[i][m] = x[m]
           T       == {i \in 0 .. N : Same(i)}
<1>5. 0 \in T
  <2>1. s[0] = 0
    BY <1>1 DEF IsScan
  <2>2. f[0] \in Seq(V) /\ Len(f[0]) = 0
    BY <1>3
  <2>3. Same(0)
    BY <2>1, <2>2
  <2> QED BY <1>2, <2>3
<1>6. ASSUME NEW i \in 0 .. N - 1, i \in T
      PROVE  i + 1 \in T
  <2>1. i \in Ranks /\ i + 1 \in 0 .. N /\ i \in 0 .. N
    BY <1>2 DEF Ranks
  <2>2. f[i + 1] = f[i] \o part[i] /\ part[i] \in Seq(V)
    BY <1>3, <1>1, <2>1
  <2>3. s[i + 1] = s[i] + Len(part[i])
    BY <1>1, <2>1 DEF IsScan
  <2>4. f[i] \in Seq(V) /\ Len(f[i]) = s[i] /\ \A m \in 1 .. s[i] : f[i][m] = x[m]
    BY <1>6
  <2> DEFINE a == f[i]
             b == part[i]
             g == f[i + 1]
  <2>5. a \in Seq(V) /\ b \in Seq(V) /\ g = a \o b /\ Len(a) = s[i]
    BY <2>2, <2>4
  <2> HIDE DEF a, b, g
  <2>6. /\ a \o b \in Seq(V)
        /\ Len(a \o b) = Len(a) + Len(b)
        /\ \A m \in 1 .. Len(a) : (a \o b)[m] = a[m]
        /\ \A m \in 1 .. Len(b) : (a \o b)[Len(a) + m] = b[m]
    <3>1. a \in Seq(V) /\ b \in Seq(V)
      BY <2>5
    <3>2. a \o b \in Seq(V)
      BY <3>1, Glue
    <3>3. Len(a \o b) = Len(a) + Len(b)
      BY <3>1, Glue
    <3>4. \A m \in 1 .. Len(a) : (a \o b)[m] = a[m]
      BY <3>1, Glue
    <3>5. \A m \in 1 .. Len(b) : (a \o b)[Len(a) + m] = b[m]
      BY <3>1, Glue
    <3> QED BY <3>2, <3>3, <3>4, <3>5
  <2>7. /\ g \in Seq(V)
        /\ Len(g) = s[i] + Len(part[i])
        /\ \A m \in 1 .. s[i] : g[m] = f[i][m]
        /\ \A m \in 1 .. Len(part[i]) : g[s[i] + m] = part[i][m]
    BY <2>5, <2>6, Zenon DEF a, b
  <2>8. s[i] \in Nat /\ Len(part[i]) \in Nat /\ n[i] = Len(part[i]) /\ s[i + 1] = s[i] + n[i]
    BY <1>4, <1>1, <2>1, <2>2, <2>3
  <2>9. ASSUME NEW m \in 1 .. s[i + 1]
        PROVE  g[m] = x[m]
    <3>1. CASE m <= s[i]
      <4>1. m \in 1 .. s[i]
        BY <2>8, <3>1
      <4> QED BY <2>4, <2>7, <4>1
    <3>2. CASE ~ (m <= s[i])
      <4>1. PICK j \in 1 .. n[i] : s[i] + j = m
        <5>1. m - s[i] \in 1 .. n[i] /\ s[i] + (m - s[i]) = m
          BY <2>8, <3>2
        <5> QED BY <5>1
      <4>2. x[s[i] + j] = part[i][j]
        BY <1>1, <2>1
      <4>3. g[s[i] + j] = part[i][j]
        BY <2>7, <2>8
      <4> QED BY <4>1, <4>2, <4>3
    <3> QED BY <3>1, <3>2
  <2>10. Same(i + 1)
    BY <2>7, <2>8, <2>9 DEF g
  <2> QED BY <2>1, <2>10
<1> HIDE DEF T
<1>7. \A i \in 0 .. N : i \in T
  BY <1>2, <1>5, <1>6, Climb
<1>8. N \in T
  BY <1>2, <1>7
<1>9. f[N] \in Seq(V) /\ Len(f[N]) = Len(x) /\ \A m \in 1 .. Len(x) : f[N][m] = x[m]
  BY <1>8, <1>1 DEF T
<1> QED BY <1>3, <1>9, <1>1

-----------------------------------------------------------------------------
(***************************************************************************)
(* What the operators on columns do.                                       *)
(***************************************************************************)
Cell == Int \X Int

\* The slice of column c that rank r is to receive.
Slice(size, r, c) == Cells(c, StartIdx(size, r), LocalTableSize(size, r))

LEMMA BlankIs ==
  ASSUME NEW n \in Nat
  PROVE  /\ Blank(n) \in Seq(Cell) /\ Len(Blank(n)) = n
         /\ DOMAIN Blank(n) = 1 .. n /\ \A i \in 1 .. n : Blank(n)[i] = Garbage
<1>1. Garbage \in Cell
  BY DEF Garbage, Cell
<1> QED BY <1>1 DEF Blank

LEMMA CellsAre ==
  ASSUME NEW c \in Int, NEW from \in Int, NEW n \in Nat
  PROVE  /\ Cells(c, from, n) \in Seq(Cell) /\ Len(Cells(c, from, n)) = n
         /\ \A i \in 1 .. n : Cells(c, from, n)[i] = <<c, from + i>>
<1>1. \A i \in 1 .. n : <<c, from + i>> \in Cell
  BY DEF Cell
<1> QED BY <1>1 DEF Cells

LEMMA SizesAreNat ==
  ASSUME NEW size \in Nat, NEW r \in Nat
  PROVE  StartIdx(size, r) \in Nat /\ LocalTableSize(size, r) \in Nat
<1> DEFINE q == size \div N
           m == size % N
<1>1. q \in Nat /\ m \in Nat
  BY Division, NAssumption
<1>2. q * r \in Nat
  BY <1>1, SMT
<1> QED BY <1>1, <1>2 DEF StartIdx, LocalTableSize

LEMMA SliceIs ==
  ASSUME NEW size \in Nat, NEW r \in Ranks, NEW c \in Columns
  PROVE  /\ Slice(size, r, c) \in Seq(Cell)
         /\ Len(Slice(size, r, c)) = LocalTableSize(size, r)
         /\ \A j \in 1 .. LocalTableSize(size, r) :
              Slice(size, r, c)[j] = <<c, StartIdx(size, r) + j>>
<1>1. c \in Int /\ r \in Nat
  BY NAssumption DEF Columns, Ranks
<1>2. StartIdx(size, r) \in Nat /\ LocalTableSize(size, r) \in Nat
  BY <1>1, SizesAreNat, Zenon
<1>3. StartIdx(size, r) \in Int
  BY <1>2
<1> QED BY <1>1, <1>2, <1>3, CellsAre, Zenon DEF Slice

\* A message as long as the receive lands whole.
LEMMA LandsWhole ==
  ASSUME NEW V, NEW msg \in Seq(V), NEW buf \in Seq(V), Len(msg) = Len(buf)
  PROVE  Landing(msg, buf) = msg
<1>1. DOMAIN buf = 1 .. Len(buf) /\ DOMAIN msg = 1 .. Len(buf) /\ Len(buf) \in Nat
  OBVIOUS
<1>2. \A i \in 1 .. Len(buf) : i <= Len(msg)
  BY <1>1
<1>3. Landing(msg, buf) = [i \in 1 .. Len(buf) |-> msg[i]]
  BY <1>1, <1>2 DEF Landing
<1>4. msg = [i \in 1 .. Len(buf) |-> msg[i]]
  BY <1>1
<1> QED BY <1>3, <1>4

\* The slices in rank order are the column they were cut from.
LEMMA SlicesJoin ==
  ASSUME NEW size \in Nat, NEW c \in Columns
  PROVE  Joined([r \in Ranks |-> Slice(size, r, c)]) = Cells(c, 0, size)
<1> DEFINE part == [r \in Ranks |-> Slice(size, r, c)]
           n    == [r \in Ranks |-> LocalTableSize(size, r)]
           s    == [i \in 0 .. N |-> StartIdx(size, i)]
           x    == Cells(c, 0, size)
<1>1. N \in Nat \ {0} /\ c \in Int
  BY NAssumption DEF Columns
<1>2. \A r \in Ranks : part[r] \in Seq(Cell) /\ n[r] = Len(part[r])
  BY SliceIs
<1>3. \A r \in Ranks : s[r + 1] = s[r] + n[r]
  <2>1. \A r \in Ranks : r \in 0 .. N /\ r + 1 \in 0 .. N
    BY <1>1 DEF Ranks
  <2> QED BY <2>1, SlicesTile
<1>4. 0 \in Ranks /\ 0 \in 0 .. N /\ N \in 0 .. N
  BY <1>1 DEF Ranks
<1>5. StartIdx(size, 0) = 0 /\ StartIdx(size, N) = size
  BY <1>4, SlicesTile
<1>6. s[0] = 0 /\ s[N] = size
  BY <1>4, <1>5
<1>7. IsScan(n, s)
  BY <1>3, <1>6 DEF IsScan
<1>8. x \in Seq(Cell) /\ Len(x) = size /\ \A i \in 1 .. size : x[i] = <<c, 0 + i>>
  <2>1. 0 \in Int
    OBVIOUS
  <2> QED BY <1>1, <2>1, CellsAre, Zenon
<1>9. ASSUME NEW r \in Ranks, NEW j \in 1 .. n[r]
      PROVE  x[s[r] + j] = part[r][j]
  <2>1. r \in 0 .. N /\ r < N
    BY <1>1 DEF Ranks
  <2>2. \A t \in Ranks : n[t] \in Nat
    BY <1>2
  <2>3. s[r] \in Nat
    BY <1>7, <2>1, <2>2, ScanIsNat
  <2>4. s[r] + n[r] <= s[N]
    BY <1>4, <1>7, <2>1, <2>2, ScanOrder
  <2>5. s[r] + j \in 1 .. size /\ 0 + (s[r] + j) = s[r] + j
    BY <1>6, <2>2, <2>3, <2>4
  <2>6. x[s[r] + j] = <<c, s[r] + j>>
    BY <1>8, <2>5
  <2>7. part[r][j] = <<c, StartIdx(size, r) + j>> /\ s[r] = StartIdx(size, r)
    BY <2>1, SliceIs
  <2> QED BY <2>6, <2>7
<1> HIDE DEF part, n, s, x
<1>10. \A r \in Ranks : part[r] \in Seq(Cell)
  BY <1>2
<1>11. \A r \in Ranks : n[r] = Len(part[r])
  BY <1>2
<1>12. x \in Seq(Cell) /\ Len(x) = s[N]
  BY <1>6, <1>8
<1>13. \A r \in Ranks : \A j \in 1 .. n[r] : x[s[r] + j] = part[r][j]
  BY <1>9
<1>14. Joined(part) = x
  <2>1. LaidOut(Cell, part, n, s, x)
    BY <1>7, <1>10, <1>11, <1>12, <1>13, Zenon DEF LaidOut
  <2> QED BY <2>1, JoinedIs, Zenon
<1> QED BY <1>14 DEF part, x

\* The root's copies into an empty column make the concatenation of the parts.
LEMMA MergeJoins ==
  ASSUME \A r \in Ranks : Part(r) \in Seq(Cell),
         \A r \in Ranks : nrows[r] = Len(Part(r)),
         NEW old, old = Blank(Scan(nrows)[N])
  PROVE  Merge(old) = Joined([r \in Ranks |-> Part(r)])
<1> DEFINE s     == Scan(nrows)
           of(i) == {r \in Ranks : i \in s[r] + 1 .. s[r] + nrows[r] /\ Len(Part(r)) <= nrows[r]}
           x     == Merge(old)
           part  == [r \in Ranks |-> Part(r)]
<1>1. N \in Nat \ {0}
  BY NAssumption
<1>2. IsScan(nrows, s)
  BY ScanValues
<1>3. \A r \in Ranks : nrows[r] \in Nat
  BY Zenon, LenProperties
<1>4. \A i \in 0 .. N : s[i] \in Nat
  <2> HIDE DEF s
  <2> QED BY <1>2, <1>3, ScanIsNat
<1>5. s[N] \in Nat
  BY <1>1, <1>4
<1>6. DOMAIN old = 1 .. s[N] /\ \A i \in 1 .. s[N] : old[i] = Garbage
  <2> HIDE DEF s
  <2>1. old = Blank(s[N])
    BY Zenon DEF s
  <2> QED BY <1>5, <2>1, BlankIs
<1> DEFINE at(i) == IF of(i) = {} THEN old[i]
                    ELSE LET r == CHOOSE r \in of(i) : TRUE IN
                         IF i - s[r] \in DOMAIN Part(r) THEN Part(r)[i - s[r]] ELSE old[i]
<1>7. x = [i \in 1 .. s[N] |-> at(i)]
  BY <1>6, Zenon DEF Merge
<1>8. \A i \in 1 .. s[N] : x[i] = at(i)
  BY <1>7, Zenon
<1> HIDE DEF s, x
<1>9. ASSUME NEW i \in 1 .. s[N]
      PROVE  x[i] \in Cell
  <2>1. Garbage \in Cell
    BY DEF Garbage, Cell
  <2>2. old[i] \in Cell
    BY <1>6, <2>1, Zenon
  <2>3. CASE of(i) = {}
    BY <1>8, <2>2, <2>3, Zenon
  <2>4. CASE of(i) # {}
    <3> DEFINE r == CHOOSE r \in of(i) : TRUE
    <3>1. r \in of(i)
      BY <2>4
    <3>2. r \in Ranks
      BY <3>1
    <3> HIDE DEF r, of
    <3>3. x[i] = IF i - s[r] \in DOMAIN Part(r) THEN Part(r)[i - s[r]] ELSE old[i]
      BY <1>8, <2>4, Zenon DEF r
    <3>4. \A j \in DOMAIN Part(r) : Part(r)[j] \in Cell
      BY <3>2, ElementOfSeq
    <3> QED BY <2>2, <3>3, <3>4, Zenon
  <2> QED BY <2>3, <2>4
<1>10. x \in Seq(Cell) /\ Len(x) = s[N]
  <2> HIDE DEF at
  <2>1. x = [i \in 1 .. s[N] |-> x[i]]
    BY <1>7
  <2> DEFINE K == s[N]
  <2> HIDE DEF K
  <2>2. x = [i \in 1 .. K |-> x[i]] /\ K \in Nat /\ \A i \in 1 .. K : x[i] \in Cell
    BY <1>5, <1>9, <2>1, Zenon DEF K
  <2>3. x \in Seq(Cell) /\ Len(x) = K
    BY <2>2
  <2> QED BY <2>3 DEF K
<1>11. ASSUME NEW r \in Ranks, NEW j \in 1 .. nrows[r]
       PROVE  x[s[r] + j] = part[r][j]
  <2> DEFINE i == s[r] + j
  <2>1. r \in 0 .. N /\ N \in 0 .. N /\ r < N
    BY <1>1 DEF Ranks
  <2>2. s[r] \in Nat /\ nrows[r] \in Nat /\ nrows[r] = Len(Part(r))
    BY <1>3, <1>4, <2>1
  <2>3. s[r] + nrows[r] <= s[N]
    BY <1>2, <1>3, <2>1, ScanOrder
  <2>4. i \in 1 .. s[N] /\ i \in s[r] + 1 .. s[r] + nrows[r] /\ i - s[r] = j
    BY <1>5, <2>2, <2>3
  <2>5. r \in of(i)
    BY <2>2, <2>4
  <2>6. ASSUME NEW t \in of(i)
        PROVE  t = r
    <3>1. t \in Ranks /\ i \in s[t] + 1 .. s[t] + nrows[t]
      BY <2>6
    <3>2. t \in 0 .. N /\ s[t] \in Nat /\ nrows[t] \in Nat
      BY <1>1, <1>3, <1>4, <3>1 DEF Ranks
    <3>3. ~ (t < r)
      <4> SUFFICES ASSUME t < r PROVE FALSE
        OBVIOUS
      <4>1. s[t] + nrows[t] <= s[r]
        BY <1>2, <1>3, <2>1, <3>1, ScanOrder
      <4> QED BY <2>2, <2>4, <3>1, <3>2, <4>1
    <3>4. ~ (r < t)
      <4> SUFFICES ASSUME r < t PROVE FALSE
        OBVIOUS
      <4>1. s[r] + nrows[r] <= s[t]
        BY <1>2, <1>3, <3>2, ScanOrder
      <4> QED BY <2>2, <2>4, <3>1, <3>2, <4>1
    <3> QED BY <2>1, <3>2, <3>3, <3>4
  <2> DEFINE t == CHOOSE t \in of(i) : TRUE
  <2>7. t = r /\ of(i) # {}
    <3>1. t \in of(i)
      BY <2>5, Zenon
    <3> HIDE DEF t, of
    <3> QED BY <2>5, <2>6, <3>1
  <2> HIDE DEF i, of
  <2>8. x[i] = IF i - s[t] \in DOMAIN Part(t) THEN Part(t)[i - s[t]] ELSE old[i]
    BY <1>8, <2>4, <2>7, Zenon DEF t
  <2> HIDE DEF t
  <2>9. Part(r) \in Seq(Cell)
    OBVIOUS
  <2>10. j \in DOMAIN Part(r)
    BY <2>2, <2>9
  <2>11. x[i] = Part(r)[j]
    BY <2>4, <2>7, <2>8, <2>10, Zenon
  <2> QED BY <2>11, Zenon DEF i
<1> HIDE DEF part, of
<1>12. \A r \in Ranks : part[r] \in Seq(Cell)
  BY Zenon DEF part
<1>13. \A r \in Ranks : nrows[r] = Len(part[r])
  BY Zenon DEF part
<1>14. \A r \in Ranks : \A j \in 1 .. nrows[r] : x[s[r] + j] = part[r][j]
  BY <1>11
<1>15. Joined(part) = x
  <2>1. LaidOut(Cell, part, nrows, s, x)
    BY <1>2, <1>10, <1>12, <1>13, <1>14, Zenon DEF LaidOut
  <2> QED BY <2>1, JoinedIs, Zenon
<1> QED BY <1>15 DEF part, x

-----------------------------------------------------------------------------
(***************************************************************************)
(* The invariant: how far every rank is, and what lies on the way.         *)
(***************************************************************************)
Calls == {"bcast", "distribute", "work", "gather", "collect", "done"}

Gathered(r) == pc[r] \in {"collect", "done"}

\* The rounds of distribute_cols and of collect_cols that rank r has ended.
Dealt(r)     == IF pc[r] = "bcast" THEN 0 ELSE IF pc[r] = "distribute" THEN col[r] - 1 ELSE Cols
Returned(r)  == IF pc[r] = "collect" THEN col[r] - 1 ELSE IF pc[r] = "done" THEN Cols ELSE 0

TypeInv ==
  /\ global \in Nat
  /\ pc \in [Ranks -> Calls]
  /\ col \in [Ranks -> Columns]
  /\ local \in [Ranks -> [Columns -> Seq(Cell)]]
  /\ bcast \in [Ranks -> Seq(Nat)]
  /\ gather \in [Ranks -> Seq(Nat)]
  /\ down \in [Ranks -> Seq(Seq(Cell))]
  /\ up \in [Ranks -> Seq(Seq(Cell))]
  /\ merged = [c \in Columns |-> merged[c]]

ColInv == \A r \in Ranks : pc[r] \notin {"distribute", "collect"} => col[r] = 1

\* A worker takes the size once, after the root has sent it.
BcastInv ==
  \A r \in Workers :
    /\ pc[0] = "bcast" => pc[r] = "bcast"
    /\ bcast[r] = IF pc[0] # "bcast" /\ pc[r] = "bcast" THEN <<global>> ELSE <<>>

\* On the way to a worker are the slices of the columns it has yet to take, in
\* the order of the columns.
DownInv ==
  \A r \in Workers :
    /\ Len(down[r]) = Dealt(0) - Dealt(r)
    /\ \A j \in 1 .. Len(down[r]) : down[r][j] = Slice(global, r, Dealt(r) + j)

LocalOf(r) ==
  /\ pc[r] \in {"distribute", "work"} =>
       \A c \in Columns : local[r][c] = IF c <= Dealt(r) THEN Slice(global, r, c)
                                        ELSE Blank(LocalTableSize(global, r))
  /\ pc[r] \in {"gather", "collect", "done"} =>
       \A c \in Columns : Len(local[r][c]) = Len(local[r][1])

LocalInv == \A r \in Ranks : LocalOf(r)

GatherInv ==
  \A r \in Workers :
    /\ Gathered(0) => Gathered(r)
    /\ gather[r] = IF Gathered(r) /\ ~ Gathered(0) THEN <<Len(local[r][1])>> ELSE <<>>

NrowsInv == Gathered(0) => \A r \in Ranks : nrows[r] = Len(local[r][1])

\* On the way from a worker are the columns the root has yet to merge.
UpInv ==
  \A r \in Workers :
    /\ Len(up[r]) = Returned(r) - Returned(0)
    /\ \A j \in 1 .. Len(up[r]) : up[r][j] = local[r][Returned(0) + j]

MergedInv ==
  Gathered(0) =>
    \A c \in Columns : merged[c] = IF c <= Returned(0) THEN Joined([r \in Ranks |-> local[r][c]])
                                   ELSE Blank(Scan(nrows)[N])

IInv == /\ TypeInv /\ ColInv /\ BcastInv /\ DownInv /\ LocalInv
        /\ GatherInv /\ NrowsInv /\ UpInv /\ MergedInv

LEMMA Bounds ==
  /\ N \in Nat \ {0} /\ Cols \in Nat \ {0}
  /\ 0 \in Ranks /\ 1 \in Columns /\ Cols \in Columns /\ Ranks \subseteq Nat
  /\ Columns \subseteq Nat \ {0}
  /\ \A r \in Workers : r \in Ranks /\ r # 0
  /\ \A r \in Ranks : r = 0 \/ r \in Workers
BY NAssumption, ColsAssumption DEF Ranks, Workers, Columns

LEMMA Progress ==
  ASSUME TypeInv, NEW r \in Ranks
  PROVE  /\ Dealt(r) \in 0 .. Cols /\ Returned(r) \in 0 .. Cols
         /\ Returned(r) # 0 => Gathered(r)
         /\ col[r] \in 1 .. Cols
<1>1. col[r] \in 1 .. Cols /\ Cols \in Nat
  BY Bounds DEF TypeInv, Columns
<1>2. Dealt(r) \in 0 .. Cols
  BY <1>1 DEF Dealt
<1>3. Returned(r) \in 0 .. Cols
  BY <1>1 DEF Returned
<1>4. Returned(r) # 0 => Gathered(r)
  BY DEF Returned, Gathered
<1> QED BY <1>1, <1>2, <1>3, <1>4

LEMMA InitIInv == Init => IInv
<1> SUFFICES ASSUME Init PROVE IInv
  OBVIOUS
<1>1. TypeInv
  <2>1. global \in Nat
    BY SizesAssumption DEF Init
  <2>2. pc \in [Ranks -> Calls] /\ col \in [Ranks -> Columns]
    BY Bounds DEF Init, Calls
  <2>3. local \in [Ranks -> [Columns -> Seq(Cell)]]
    BY DEF Init
  <2>4. bcast \in [Ranks -> Seq(Nat)] /\ gather \in [Ranks -> Seq(Nat)]
    BY DEF Init
  <2>5. down \in [Ranks -> Seq(Seq(Cell))] /\ up \in [Ranks -> Seq(Seq(Cell))]
    BY DEF Init
  <2>6. merged = [c \in Columns |-> merged[c]]
    BY DEF Init
  <2> QED BY <2>1, <2>2, <2>3, <2>4, <2>5, <2>6 DEF TypeInv
<1>2. \A r \in Ranks : /\ pc[r] = "bcast" /\ col[r] = 1 /\ bcast[r] = <<>> /\ gather[r] = <<>>
                       /\ down[r] = <<>> /\ up[r] = <<>>
  BY DEF Init
<1>3. ColInv /\ BcastInv
  BY <1>2, Bounds DEF ColInv, BcastInv
<1>4. \A r \in Ranks : Dealt(r) = 0 /\ Returned(r) = 0 /\ ~ Gathered(r)
  BY <1>2 DEF Dealt, Returned, Gathered
<1>5. \A r \in Workers : /\ Len(down[r]) = 0 /\ Len(up[r]) = 0
                         /\ Dealt(r) = 0 /\ Dealt(0) = 0 /\ Returned(r) = 0 /\ Returned(0) = 0
  BY <1>2, <1>4, Bounds
<1>6. DownInv /\ UpInv
  BY <1>5 DEF DownInv, UpInv
<1>7. LocalInv
  BY <1>2 DEF LocalInv, LocalOf
<1>8. GatherInv /\ NrowsInv /\ MergedInv
  BY <1>2, <1>4, Bounds DEF GatherInv, NrowsInv, MergedInv
<1> QED BY <1>1, <1>3, <1>7, <1>8, <1>6 DEF IInv

-----------------------------------------------------------------------------
(***************************************************************************)
(* What a step leaves alone: the steps up to Work do not touch what the    *)
(* collection is about, the steps from Work on not what the distribution   *)
(* is about, and no step another rank's table.                             *)
(***************************************************************************)
LEMMA CollectionLeftAlone ==
  ASSUME IInv, UNCHANGED <<gather, up, nrows, merged>>,
         \A s \in Ranks : /\ Gathered(s)' = Gathered(s)
                          /\ Returned(s)' = Returned(s)
                          /\ Gathered(s) => local'[s] = local[s]
  PROVE  GatherInv' /\ NrowsInv' /\ UpInv' /\ MergedInv'
<1>1. gather' = gather /\ up' = up /\ nrows' = nrows /\ merged' = merged
  OBVIOUS
<1>2. GatherInv'
  BY <1>1, Bounds DEF IInv, GatherInv
<1>3. Gathered(0) => \A s \in Ranks : Gathered(s) /\ local'[s] = local[s]
  BY Bounds DEF IInv, GatherInv
<1>4. NrowsInv'
  BY <1>1, <1>3, Bounds DEF IInv, NrowsInv
<1>5. UpInv'
  <2> SUFFICES ASSUME NEW r \in Workers
               PROVE  /\ Len(up'[r]) = Returned(r)' - Returned(0)'
                      /\ \A j \in 1 .. Len(up'[r]) : up'[r][j] = local'[r][Returned(0)' + j]
    BY DEF UpInv
  <2>1. r \in Ranks /\ 0 \in Ranks
    BY Bounds
  <2>2. Len(up'[r]) = Returned(r)' - Returned(0)'
    BY <1>1, <2>1 DEF IInv, UpInv
  <2>3. ASSUME NEW j \in 1 .. Len(up'[r])
        PROVE  up'[r][j] = local'[r][Returned(0)' + j]
    <3>1. Returned(0) \in 0 .. Cols /\ Returned(r) \in 0 .. Cols
      BY <2>1, Progress DEF IInv
    <3>2. Returned(r)' = Returned(r) /\ Returned(0)' = Returned(0)
      BY <2>1
    <3>3. Returned(r) # 0
      BY <2>2, <2>3, <3>1, <3>2, Bounds
    <3>4. Gathered(r)
      BY <2>1, <3>3, Progress DEF IInv
    <3>5. up[r][j] = local[r][Returned(0) + j]
      BY <1>1 DEF IInv, UpInv
    <3> QED BY <1>1, <2>1, <3>4, <3>5
  <2> QED BY <2>2, <2>3
<1>6. MergedInv'
  <2> SUFFICES ASSUME Gathered(0)', NEW c \in Columns
               PROVE  merged'[c] = IF c <= Returned(0)' THEN Joined([r \in Ranks |-> local'[r][c]])
                                   ELSE Blank(Scan(nrows')[N])
    BY DEF MergedInv
  <2>1. Gathered(0) /\ Returned(0)' = Returned(0)
    BY Bounds
  <2>2. [r \in Ranks |-> local'[r][c]] = [r \in Ranks |-> local[r][c]]
    BY <1>3, <2>1
  <2>3. merged[c] = IF c <= Returned(0) THEN Joined([r \in Ranks |-> local[r][c]])
                    ELSE Blank(Scan(nrows)[N])
    BY <2>1 DEF IInv, MergedInv
  <2> QED BY <1>1, <2>1, <2>2, <2>3, Zenon
<1> QED BY <1>2, <1>4, <1>5, <1>6

LEMMA DistributionLeftAlone ==
  ASSUME IInv, UNCHANGED <<global, bcast, down>>,
         \A s \in Ranks : (pc'[s] = "bcast") = (pc[s] = "bcast") /\ Dealt(s)' = Dealt(s)
  PROVE  BcastInv' /\ DownInv'
<1>1. global' = global /\ bcast' = bcast /\ down' = down
  OBVIOUS
<1>2. BcastInv'
  BY <1>1, Bounds DEF IInv, BcastInv
<1>3. DownInv'
  BY <1>1, Bounds DEF IInv, DownInv
<1> QED BY <1>2, <1>3

LEMMA OthersLeftAlone ==
  ASSUME IInv, NEW r \in Ranks, global' = global,
         \A s \in Ranks \ {r} : pc'[s] = pc[s] /\ col'[s] = col[s] /\ local'[s] = local[s],
         LocalOf(r)'
  PROVE  LocalInv'
<1> SUFFICES ASSUME NEW s \in Ranks \ {r}
             PROVE  LocalOf(s)'
  BY DEF LocalInv
<1>1. pc'[s] = pc[s] /\ col'[s] = col[s] /\ local'[s] = local[s]
  OBVIOUS
<1>2. LocalOf(s)
  BY DEF IInv, LocalInv
<1> QED BY <1>1, <1>2 DEF LocalOf, Dealt

\* The loops over the columns count every round once.
LEMMA ColumnStep ==
  ASSUME TypeInv, ColInv, NEW r \in Ranks,
         NEW this \in {"distribute", "collect"}, NEW next \in Calls,
         pc[r] = this, NextColumn(r, this, next), next \notin {"distribute", "collect"}
  PROVE  /\ pc' \in [Ranks -> Calls] /\ col' \in [Ranks -> Columns]
         /\ \A s \in Ranks \ {r} : pc'[s] = pc[s] /\ col'[s] = col[s]
         /\ \/ col[r] < Cols /\ pc'[r] = this /\ col'[r] = col[r] + 1
            \/ col[r] = Cols /\ pc'[r] = next /\ col'[r] = 1
         /\ ColInv'
<1>1. /\ pc' = [pc EXCEPT ![r] = IF col[r] < Cols THEN this ELSE next]
      /\ col' = [col EXCEPT ![r] = IF col[r] < Cols THEN col[r] + 1 ELSE 1]
  BY DEF NextColumn
<1>2. col[r] \in 1 .. Cols /\ Cols \in Nat \ {0} /\ pc \in [Ranks -> Calls] /\ col \in [Ranks -> Columns]
  BY Progress, Bounds DEF TypeInv
<1>3. pc' \in [Ranks -> Calls] /\ \A s \in Ranks \ {r} : pc'[s] = pc[s]
  BY <1>1, <1>2 DEF Calls
<1>4. (IF col[r] < Cols THEN col[r] + 1 ELSE 1) \in Columns
  BY <1>2 DEF Columns
<1>5. col' \in [Ranks -> Columns] /\ \A s \in Ranks \ {r} : col'[s] = col[s]
  BY <1>1, <1>2, <1>4
<1>6. \/ col[r] < Cols /\ pc'[r] = this /\ col'[r] = col[r] + 1
      \/ col[r] = Cols /\ pc'[r] = next /\ col'[r] = 1
  BY <1>1, <1>2
<1>7. ColInv'
  BY <1>3, <1>5, <1>6 DEF ColInv
<1> QED BY <1>3, <1>5, <1>6, <1>7

LEMMA AllocatedIs ==
  ASSUME NEW size \in Nat, NEW r \in Ranks
  PROVE  /\ Allocated(size, r) \in [Columns -> Seq(Cell)]
         /\ \A c \in Columns : Allocated(size, r)[c] = Blank(LocalTableSize(size, r))
<1>1. r \in Nat
  BY Bounds
<1>2. LocalTableSize(size, r) \in Nat
  BY <1>1, SizesAreNat
<1>3. Blank(LocalTableSize(size, r)) \in Seq(Cell)
  BY <1>2, BlankIs
<1> QED BY <1>3 DEF Allocated

-----------------------------------------------------------------------------
(***************************************************************************)
(* The steps of the distribution.                                          *)
(***************************************************************************)
LEMMA BcastRootKeeps ==
  ASSUME IInv, BcastRoot
  PROVE  IInv'
<1>1. TypeInv /\ ColInv /\ BcastInv /\ DownInv /\ global \in Nat
  BY DEF IInv, TypeInv
<1>2. /\ pc[0] = "bcast" /\ pc' = [pc EXCEPT ![0] = "distribute"]
      /\ local' = [local EXCEPT ![0] = Allocated(global, 0)]
      /\ bcast' = [r \in Ranks |-> IF r \in Workers THEN Append(bcast[r], global) ELSE bcast[r]]
  BY DEF BcastRoot
<1>3. /\ global' = global /\ col' = col /\ gather' = gather /\ down' = down
      /\ up' = up /\ nrows' = nrows /\ merged' = merged
  BY DEF BcastRoot
<1>4. /\ pc' \in [Ranks -> Calls] /\ pc'[0] = "distribute"
      /\ \A s \in Ranks \ {0} : pc'[s] = pc[s]
  BY <1>1, <1>2, Bounds DEF TypeInv, Calls
<1>5. /\ local' \in [Ranks -> [Columns -> Seq(Cell)]]
      /\ \A s \in Ranks \ {0} : local'[s] = local[s]
      /\ \A c \in Columns : local'[0][c] = Blank(LocalTableSize(global, 0))
  <2>1. /\ Allocated(global, 0) \in [Columns -> Seq(Cell)]
        /\ \A c \in Columns : Allocated(global, 0)[c] = Blank(LocalTableSize(global, 0))
    BY <1>1, Bounds, AllocatedIs
  <2> QED BY <1>1, <1>2, <2>1, Bounds DEF TypeInv
<1>6. bcast' \in [Ranks -> Seq(Nat)] /\ \A r \in Workers : bcast'[r] = Append(bcast[r], global)
  <2>1. \A r \in Ranks : bcast[r] \in Seq(Nat)
    BY <1>1 DEF TypeInv
  <2>2. \A r \in Ranks : Append(bcast[r], global) \in Seq(Nat)
    BY <1>1, <2>1
  <2>3. bcast' \in [Ranks -> Seq(Nat)]
    BY <1>2, <2>1, <2>2
  <2>4. \A r \in Workers : bcast'[r] = Append(bcast[r], global)
    BY <1>2, Bounds
  <2> QED BY <2>3, <2>4
<1>7. TypeInv'
  BY <1>1, <1>3, <1>4, <1>5, <1>6 DEF TypeInv
<1>8. col[0] = 1 /\ ColInv'
  BY <1>1, <1>2, <1>3, <1>4, Bounds DEF ColInv
<1>9. BcastInv'
  <2> SUFFICES ASSUME NEW r \in Workers
               PROVE  /\ pc'[0] = "bcast" => pc'[r] = "bcast"
                      /\ bcast'[r] = IF pc'[0] # "bcast" /\ pc'[r] = "bcast"
                                     THEN <<global'>> ELSE <<>>
    BY DEF BcastInv
  <2>1. pc[r] = "bcast" /\ bcast[r] = <<>>
    BY <1>1, <1>2 DEF BcastInv
  <2>2. pc'[r] = "bcast"
    BY <1>4, <2>1, Bounds
  <2>3. bcast'[r] = <<global>>
    BY <1>6, <2>1
  <2> QED BY <1>3, <1>4, <2>2, <2>3
<1>10. \A s \in Ranks : /\ Dealt(s)' = Dealt(s) /\ Returned(s)' = Returned(s)
                        /\ Gathered(s)' = Gathered(s)
  <2>1. \A s \in Ranks : col'[s] = col[s]
    BY <1>3
  <2>2. \A s \in Ranks \ {0} : /\ Dealt(s)' = Dealt(s) /\ Returned(s)' = Returned(s)
                               /\ Gathered(s)' = Gathered(s)
    BY <1>4, <2>1 DEF Dealt, Returned, Gathered
  <2>3. Dealt(0)' = Dealt(0) /\ Returned(0)' = Returned(0) /\ Gathered(0)' = Gathered(0)
    BY <1>2, <1>3, <1>4, <1>8 DEF Dealt, Returned, Gathered
  <2> QED BY <2>2, <2>3
<1>11. DownInv'
  BY <1>1, <1>3, <1>10, Bounds DEF DownInv
<1>12. LocalInv'
  <2>1. Dealt(0)' = 0
    BY <1>3, <1>4, <1>8 DEF Dealt
  <2>2. \A c \in Columns : ~ (c <= 0)
    BY DEF Columns
  <2>3. LocalOf(0)'
    BY <1>3, <1>4, <1>5, <2>1, <2>2 DEF LocalOf
  <2> QED BY <1>3, <1>4, <1>5, <2>3, Bounds, OthersLeftAlone
<1>13. \A s \in Ranks : Gathered(s) => local'[s] = local[s]
  BY <1>2, <1>5 DEF Gathered
<1>14. GatherInv' /\ NrowsInv' /\ UpInv' /\ MergedInv'
  BY <1>3, <1>10, <1>13, CollectionLeftAlone
<1> QED BY <1>7, <1>8, <1>9, <1>11, <1>12, <1>14 DEF IInv

LEMMA BcastWorkerKeeps ==
  ASSUME IInv, NEW r \in Workers, BcastWorker(r)
  PROVE  IInv'
<1>1. TypeInv /\ ColInv /\ BcastInv /\ DownInv /\ global \in Nat /\ r \in Ranks /\ r # 0
  BY Bounds DEF IInv, TypeInv
<1>2. /\ pc[r] = "bcast" /\ bcast[r] # <<>> /\ pc' = [pc EXCEPT ![r] = "distribute"]
      /\ local' = [local EXCEPT ![r] = Allocated(Head(bcast[r]), r)]
      /\ bcast' = [bcast EXCEPT ![r] = Tail(bcast[r])]
  BY DEF BcastWorker
<1>3. /\ global' = global /\ col' = col /\ gather' = gather /\ down' = down
      /\ up' = up /\ nrows' = nrows /\ merged' = merged
  BY DEF BcastWorker
<1>4. /\ pc' \in [Ranks -> Calls] /\ pc'[r] = "distribute"
      /\ \A s \in Ranks \ {r} : pc'[s] = pc[s]
  BY <1>1, <1>2 DEF TypeInv, Calls
<1>5. bcast[r] = <<global>> /\ pc[0] # "bcast"
  BY <1>1, <1>2 DEF BcastInv
<1>6. Head(bcast[r]) = global /\ Tail(bcast[r]) = <<>>
  BY <1>1, <1>5
<1>7. /\ local' \in [Ranks -> [Columns -> Seq(Cell)]]
      /\ \A s \in Ranks \ {r} : local'[s] = local[s]
      /\ \A c \in Columns : local'[r][c] = Blank(LocalTableSize(global, r))
  <2>1. /\ Allocated(global, r) \in [Columns -> Seq(Cell)]
        /\ \A c \in Columns : Allocated(global, r)[c] = Blank(LocalTableSize(global, r))
    BY <1>1, AllocatedIs
  <2>2. local' = [local EXCEPT ![r] = Allocated(global, r)]
    BY <1>2, <1>6
  <2> QED BY <1>1, <2>1, <2>2 DEF TypeInv
<1>8. /\ bcast' \in [Ranks -> Seq(Nat)] /\ bcast'[r] = <<>>
      /\ \A s \in Ranks \ {r} : bcast'[s] = bcast[s]
  BY <1>1, <1>2, <1>6 DEF TypeInv
<1>9. TypeInv'
  BY <1>1, <1>3, <1>4, <1>7, <1>8 DEF TypeInv
<1>10. col[r] = 1 /\ ColInv'
  BY <1>1, <1>2, <1>3, <1>4 DEF ColInv
<1>11. BcastInv'
  <2>1. pc'[0] = pc[0]
    BY <1>1, <1>4, Bounds
  <2> QED BY <1>1, <1>3, <1>4, <1>5, <1>8, <2>1, Bounds DEF BcastInv
<1>12. \A s \in Ranks : /\ Dealt(s)' = Dealt(s) /\ Returned(s)' = Returned(s)
                        /\ Gathered(s)' = Gathered(s)
  <2>1. \A s \in Ranks : col'[s] = col[s]
    BY <1>3
  <2>2. \A s \in Ranks \ {r} : /\ Dealt(s)' = Dealt(s) /\ Returned(s)' = Returned(s)
                               /\ Gathered(s)' = Gathered(s)
    BY <1>4, <2>1 DEF Dealt, Returned, Gathered
  <2>3. Dealt(r)' = Dealt(r) /\ Returned(r)' = Returned(r) /\ Gathered(r)' = Gathered(r)
    BY <1>2, <1>3, <1>4, <1>10 DEF Dealt, Returned, Gathered
  <2> QED BY <2>2, <2>3
<1>13. DownInv'
  BY <1>1, <1>3, <1>12, Bounds DEF DownInv
<1>14. LocalInv'
  <2>1. Dealt(r)' = 0
    BY <1>3, <1>4, <1>10 DEF Dealt
  <2>2. \A c \in Columns : ~ (c <= 0)
    BY DEF Columns
  <2>3. LocalOf(r)'
    BY <1>3, <1>4, <1>7, <2>1, <2>2 DEF LocalOf
  <2> QED BY <1>1, <1>3, <1>4, <1>7, <2>3, OthersLeftAlone
<1>15. \A s \in Ranks : Gathered(s) => local'[s] = local[s]
  BY <1>2, <1>7 DEF Gathered
<1>16. GatherInv' /\ NrowsInv' /\ UpInv' /\ MergedInv'
  BY <1>3, <1>12, <1>15, CollectionLeftAlone
<1> QED BY <1>9, <1>10, <1>11, <1>13, <1>14, <1>16 DEF IInv

\* Another column lands on a rank that distributes.
LEMMA ColumnLands ==
  ASSUME IInv, NEW r \in Ranks, pc[r] = "distribute",
         global' = global, NextColumn(r, "distribute", "work"),
         local' = [local EXCEPT ![r][col[r]] = Landing(Slice(global, r, col[r]), @)]
  PROVE  /\ local' \in [Ranks -> [Columns -> Seq(Cell)]]
         /\ \A s \in Ranks \ {r} : local'[s] = local[s]
         /\ Dealt(r) = col[r] - 1 /\ Dealt(r)' = col[r]
         /\ LocalInv'
<1> DEFINE k == col[r]
           x == Slice(global, r, k)
<1>1. TypeInv /\ ColInv /\ global \in Nat /\ LocalOf(r)
  BY DEF IInv, TypeInv, LocalInv
<1>2. k \in Columns /\ k \in 1 .. Cols /\ Cols \in Nat
  BY <1>1, Bounds DEF TypeInv, Columns
<1>3. x \in Seq(Cell) /\ Len(x) = LocalTableSize(global, r)
  BY <1>1, <1>2, SliceIs
<1>4. Dealt(r) = k - 1
  BY DEF Dealt
<1>5. local[r][k] = Blank(LocalTableSize(global, r))
  <2>1. ~ (k <= Dealt(r))
    BY <1>2, <1>4
  <2> QED BY <1>1, <1>2, <2>1, Zenon DEF LocalOf
<1>6. LocalTableSize(global, r) \in Nat
  BY <1>1, Bounds, SizesAreNat
<1>7. local[r][k] \in Seq(Cell) /\ Len(local[r][k]) = LocalTableSize(global, r)
  BY <1>5, <1>6, BlankIs
<1>8. Landing(x, local[r][k]) = x
  <2> DEFINE buf == local[r][k]
  <2>1. buf \in Seq(Cell) /\ x \in Seq(Cell) /\ Len(x) = Len(buf)
    BY <1>3, <1>7
  <2> HIDE DEF buf, x
  <2>2. Landing(x, buf) = x
    BY <2>1, LandsWhole
  <2> QED BY <2>2 DEF buf
<1> HIDE DEF x, k
<1>9. local' = [local EXCEPT ![r] = [local[r] EXCEPT ![k] = x]]
  <2>1. local' = [local EXCEPT ![r] = [local[r] EXCEPT ![k] = Landing(x, local[r][k])]]
    BY DEF x, k
  <2> QED BY <1>8, <2>1
<1>10. local \in [Ranks -> [Columns -> Seq(Cell)]]
  BY <1>1 DEF TypeInv
<1>11. [local[r] EXCEPT ![k] = x] \in [Columns -> Seq(Cell)]
  BY <1>2, <1>3, <1>10
<1>12. local' \in [Ranks -> [Columns -> Seq(Cell)]] /\ \A s \in Ranks \ {r} : local'[s] = local[s]
  BY <1>9, <1>10, <1>11
<1>13. local'[r] = [local[r] EXCEPT ![k] = x]
  BY <1>9, <1>10
<1>14. local'[r][k] = x /\ \A c \in Columns \ {k} : local'[r][c] = local[r][c]
  BY <1>2, <1>10, <1>13
<1>15. /\ \A s \in Ranks \ {r} : pc'[s] = pc[s] /\ col'[s] = col[s]
       /\ \/ k < Cols /\ pc'[r] = "distribute" /\ col'[r] = k + 1
          \/ k = Cols /\ pc'[r] = "work" /\ col'[r] = 1
  BY <1>1, ColumnStep DEF Calls, k
<1>16. Dealt(r)' = k
  BY <1>2, <1>15 DEF Dealt
<1>17. LocalOf(r)'
  <2>1. \A c \in Columns : local[r][c] = IF c <= k - 1 THEN Slice(global, r, c)
                                         ELSE Blank(LocalTableSize(global, r))
    BY <1>1, <1>4 DEF LocalOf
  <2>2. \A c \in Columns : c # k => (c <= k <=> c <= k - 1)
    BY <1>2 DEF Columns
  <2>3. \A c \in Columns : local'[r][c] = IF c <= k THEN Slice(global, r, c)
                                          ELSE Blank(LocalTableSize(global, r))
    BY <1>2, <1>14, <2>1, <2>2 DEF x
  <2> QED BY <1>15, <1>16, <2>3 DEF LocalOf
<1>18. LocalInv'
  BY <1>12, <1>15, <1>17, OthersLeftAlone
<1> QED BY <1>4, <1>12, <1>16, <1>18 DEF k

LEMMA DistributeRootKeeps ==
  ASSUME IInv, DistributeRoot
  PROVE  IInv'
<1> DEFINE k == col[0]
<1>1. TypeInv /\ ColInv /\ BcastInv /\ DownInv /\ global \in Nat
  BY DEF IInv, TypeInv
<1>2. pc[0] = "distribute" /\ NextColumn(0, "distribute", "work")
  BY DEF DistributeRoot
<1>3. /\ global' = global /\ bcast' = bcast /\ gather' = gather
      /\ up' = up /\ nrows' = nrows /\ merged' = merged
  BY DEF DistributeRoot
<1>4. down' = [r \in Ranks |-> IF r \in Workers THEN Append(down[r], Slice(global, r, k)) ELSE down[r]]
  BY Zenon DEF DistributeRoot, Slice
<1>5. local' = [local EXCEPT ![0][col[0]] = Landing(Slice(global, 0, col[0]), @)]
  <2>1. StartIdx(global, 0) = 0
    BY <1>1, Bounds, SlicesTile
  <2>2. Cells(col[0], 0, LocalTableSize(global, 0)) = Slice(global, 0, col[0])
    BY <2>1, Zenon DEF Slice
  <2> QED BY <2>2, Zenon DEF DistributeRoot
<1>6. /\ local' \in [Ranks -> [Columns -> Seq(Cell)]]
      /\ \A s \in Ranks \ {0} : local'[s] = local[s]
      /\ Dealt(0) = k - 1 /\ Dealt(0)' = k
      /\ LocalInv'
  BY <1>1, <1>2, <1>3, <1>5, Bounds, ColumnLands
<1>7. k \in Columns /\ k \in 1 .. Cols
  BY <1>1, Bounds, Progress DEF Columns
<1>8. /\ pc' \in [Ranks -> Calls] /\ col' \in [Ranks -> Columns]
      /\ \A s \in Ranks \ {0} : pc'[s] = pc[s] /\ col'[s] = col[s]
      /\ \/ k < Cols /\ pc'[0] = "distribute" /\ col'[0] = k + 1
         \/ k = Cols /\ pc'[0] = "work" /\ col'[0] = 1
      /\ ColInv'
  BY <1>1, <1>2, Bounds, ColumnStep DEF Calls
<1> HIDE DEF k
<1>9. down' \in [Ranks -> Seq(Seq(Cell))]
  <2>1. \A r \in Ranks : down[r] \in Seq(Seq(Cell)) /\ Slice(global, r, k) \in Seq(Cell)
    BY <1>1, <1>7, SliceIs DEF TypeInv
  <2>2. \A r \in Ranks : Append(down[r], Slice(global, r, k)) \in Seq(Seq(Cell))
    BY <2>1
  <2> QED BY <1>4, <2>1, <2>2
<1>10. TypeInv'
  BY <1>1, <1>3, <1>6, <1>8, <1>9 DEF TypeInv
<1>11. BcastInv'
  <2>1. \A s \in Ranks : (pc'[s] = "bcast") = (pc[s] = "bcast")
    BY <1>2, <1>8
  <2> QED BY <1>1, <1>3, <2>1, Bounds DEF BcastInv
<1>12. \A s \in Ranks \ {0} : Dealt(s)' = Dealt(s)
  BY <1>8 DEF Dealt
<1>13. \A s \in Ranks : Returned(s)' = Returned(s) /\ Gathered(s)' = Gathered(s)
  BY <1>2, <1>8 DEF Returned, Gathered
<1>14. DownInv'
  <2> SUFFICES ASSUME NEW r \in Workers
               PROVE  /\ Len(down'[r]) = Dealt(0)' - Dealt(r)'
                      /\ \A j \in 1 .. Len(down'[r]) : down'[r][j] = Slice(global', r, Dealt(r)' + j)
    BY DEF DownInv
  <2> DEFINE d == down[r]
             y == Slice(global, r, k)
  <2>1. r \in Ranks /\ r # 0 /\ Dealt(r)' = Dealt(r) /\ Dealt(r) \in 0 .. Cols
    BY <1>1, <1>12, Bounds, Progress
  <2>2. down'[r] = Append(d, y) /\ d \in Seq(Seq(Cell))
    BY <1>1, <1>4, <2>1 DEF TypeInv
  <2>3. Len(d) = k - 1 - Dealt(r) /\ \A j \in 1 .. Len(d) : d[j] = Slice(global, r, Dealt(r) + j)
    BY <1>1, <1>6 DEF DownInv
  <2> HIDE DEF d, y
  <2>4. /\ Len(Append(d, y)) = Len(d) + 1 /\ Len(d) \in Nat
        /\ Append(d, y)[Len(d) + 1] = y /\ \A j \in 1 .. Len(d) : Append(d, y)[j] = d[j]
    BY <2>2
  <2>5. Len(down'[r]) = Dealt(0)' - Dealt(r)'
    BY <1>6, <1>7, <2>1, <2>2, <2>3, <2>4
  <2>6. ASSUME NEW j \in 1 .. Len(d) + 1
        PROVE  Append(d, y)[j] = Slice(global, r, Dealt(r) + j)
    <3>1. CASE j = Len(d) + 1
      <4>1. Dealt(r) + j = k
        BY <1>7, <2>1, <2>3, <3>1
      <4> QED BY <2>4, <3>1, <4>1 DEF y
    <3>2. CASE j # Len(d) + 1
      <4>1. j \in 1 .. Len(d)
        BY <2>4, <3>2
      <4> QED BY <2>3, <2>4, <4>1
    <3> QED BY <3>1, <3>2
  <2> QED BY <1>3, <2>1, <2>2, <2>4, <2>5, <2>6
<1>15. \A s \in Ranks : Gathered(s) => local'[s] = local[s]
  BY <1>2, <1>6 DEF Gathered
<1>16. GatherInv' /\ NrowsInv' /\ UpInv' /\ MergedInv'
  BY <1>3, <1>13, <1>15, CollectionLeftAlone
<1> QED BY <1>6, <1>8, <1>10, <1>11, <1>14, <1>16 DEF IInv

LEMMA DistributeWorkerKeeps ==
  ASSUME IInv, NEW r \in Workers, DistributeWorker(r)
  PROVE  IInv'
<1> DEFINE k == col[r]
           d == down[r]
<1>1. TypeInv /\ ColInv /\ BcastInv /\ DownInv /\ global \in Nat /\ r \in Ranks /\ r # 0
  BY Bounds DEF IInv, TypeInv
<1>2. pc[r] = "distribute" /\ d # <<>> /\ NextColumn(r, "distribute", "work")
  BY DEF DistributeWorker
<1>3. /\ global' = global /\ bcast' = bcast /\ gather' = gather
      /\ up' = up /\ nrows' = nrows /\ merged' = merged
  BY DEF DistributeWorker
<1>4. /\ down' = [down EXCEPT ![r] = Tail(d)]
      /\ local' = [local EXCEPT ![r][k] = Landing(Head(d), @)]
  BY DEF DistributeWorker
<1>5. k \in Columns /\ k \in 1 .. Cols /\ Dealt(r) = k - 1
  BY <1>1, <1>2, Bounds, Progress DEF Columns, Dealt
<1>6. /\ d \in Seq(Seq(Cell)) /\ Len(d) = Dealt(0) - Dealt(r)
      /\ \A j \in 1 .. Len(d) : d[j] = Slice(global, r, Dealt(r) + j)
  BY <1>1 DEF DownInv, TypeInv
<1> HIDE DEF d
<1>7. /\ Len(d) \in Nat \ {0} /\ Head(d) = d[1] /\ Tail(d) \in Seq(Seq(Cell))
      /\ Len(Tail(d)) = Len(d) - 1 /\ \A j \in 1 .. Len(d) - 1 : Tail(d)[j] = d[j + 1]
  BY <1>2, <1>6
<1>8. Head(d) = Slice(global, r, k)
  <2>1. Dealt(r) + 1 = k /\ 1 \in 1 .. Len(d)
    BY <1>5, <1>7
  <2>2. d[1] = Slice(global, r, Dealt(r) + 1)
    BY <1>6, <2>1
  <2> QED BY <1>7, <2>1, <2>2
<1>9. /\ local' \in [Ranks -> [Columns -> Seq(Cell)]]
      /\ \A s \in Ranks \ {r} : local'[s] = local[s]
      /\ Dealt(r)' = k
      /\ LocalInv'
  <2>1. local' = [local EXCEPT ![r][col[r]] = Landing(Slice(global, r, col[r]), @)]
    BY <1>4, <1>8, Zenon
  <2> QED BY <1>1, <1>2, <1>3, <2>1, ColumnLands
<1>10. /\ pc' \in [Ranks -> Calls] /\ col' \in [Ranks -> Columns]
       /\ \A s \in Ranks \ {r} : pc'[s] = pc[s] /\ col'[s] = col[s]
       /\ \/ k < Cols /\ pc'[r] = "distribute" /\ col'[r] = k + 1
          \/ k = Cols /\ pc'[r] = "work" /\ col'[r] = 1
       /\ ColInv'
  BY <1>1, <1>2, ColumnStep DEF Calls
<1> HIDE DEF k
<1>11. /\ down' \in [Ranks -> Seq(Seq(Cell))] /\ down'[r] = Tail(d)
       /\ \A s \in Ranks \ {r} : down'[s] = down[s]
  BY <1>1, <1>4, <1>7 DEF TypeInv
<1>12. TypeInv'
  BY <1>1, <1>3, <1>9, <1>10, <1>11 DEF TypeInv
<1>13. BcastInv'
  <2>1. \A s \in Ranks : (pc'[s] = "bcast") = (pc[s] = "bcast")
    BY <1>2, <1>10
  <2> QED BY <1>1, <1>3, <2>1, Bounds DEF BcastInv
<1>14. \A s \in Ranks \ {r} : Dealt(s)' = Dealt(s)
  BY <1>10 DEF Dealt
<1>15. \A s \in Ranks : Returned(s)' = Returned(s) /\ Gathered(s)' = Gathered(s)
  BY <1>2, <1>10 DEF Returned, Gathered
<1>16. DownInv'
  <2>1. Dealt(0)' = Dealt(0) /\ Dealt(0) \in 0 .. Cols
    BY <1>1, <1>14, Bounds, Progress
  <2>2. ASSUME NEW s \in Workers \ {r}
        PROVE  /\ Len(down'[s]) = Dealt(0)' - Dealt(s)'
               /\ \A j \in 1 .. Len(down'[s]) : down'[s][j] = Slice(global', s, Dealt(s)' + j)
    <3>1. s \in Ranks \ {r}
      BY Bounds
    <3>2. down'[s] = down[s] /\ Dealt(s)' = Dealt(s)
      BY <1>11, <1>14, <3>1
    <3> QED BY <1>1, <1>3, <2>1, <3>2 DEF DownInv
  <2>3. Len(down'[r]) = Dealt(0)' - Dealt(r)'
    BY <1>5, <1>6, <1>7, <1>9, <1>11, <2>1
  <2>4. ASSUME NEW j \in 1 .. Len(down'[r])
        PROVE  down'[r][j] = Slice(global', r, Dealt(r)' + j)
    <3>1. j \in 1 .. Len(d) - 1 /\ j + 1 \in 1 .. Len(d) /\ Dealt(r) + (j + 1) = k + j
      BY <1>5, <1>7, <1>11
    <3>2. Tail(d)[j] = Slice(global, r, Dealt(r) + (j + 1))
      BY <1>6, <1>7, <3>1
    <3> QED BY <1>3, <1>9, <1>11, <3>1, <3>2
  <2> QED BY <2>2, <2>3, <2>4 DEF DownInv
<1>17. \A s \in Ranks : Gathered(s) => local'[s] = local[s]
  BY <1>2, <1>9 DEF Gathered
<1>18. GatherInv' /\ NrowsInv' /\ UpInv' /\ MergedInv'
  BY <1>3, <1>15, <1>17, CollectionLeftAlone
<1> QED BY <1>9, <1>10, <1>12, <1>13, <1>16, <1>18 DEF IInv

-----------------------------------------------------------------------------
(***************************************************************************)
(* The caller's step and the steps of the collection.                      *)
(***************************************************************************)
LEMMA WorkKeeps ==
  ASSUME IInv, NEW r \in Ranks, Work(r)
  PROVE  IInv'
<1>1. TypeInv /\ ColInv /\ BcastInv /\ DownInv /\ LocalOf(r)
  BY DEF IInv, LocalInv
<1>2. pc[r] = "work" /\ pc' = [pc EXCEPT ![r] = "gather"]
  BY DEF Work
<1>3. /\ global' = global /\ col' = col /\ bcast' = bcast /\ gather' = gather /\ down' = down
      /\ up' = up /\ nrows' = nrows /\ merged' = merged
  BY DEF Work
<1>4. PICK k \in 0 .. Len(local[r][1]) :
        local' = [local EXCEPT ![r] = [c \in Columns |-> SubSeq(local[r][c], 1, k)]]
  BY DEF Work
<1>5. /\ pc' \in [Ranks -> Calls] /\ pc'[r] = "gather"
      /\ \A s \in Ranks \ {r} : pc'[s] = pc[s]
  BY <1>1, <1>2 DEF TypeInv, Calls
<1>6. local \in [Ranks -> [Columns -> Seq(Cell)]]
  BY <1>1 DEF TypeInv
<1>7. \A c \in Columns : local[r][c] \in Seq(Cell) /\ Len(local[r][c]) = LocalTableSize(global, r)
  <2>1. global \in Nat /\ Dealt(r) = Cols
    BY <1>1, <1>2 DEF TypeInv, Dealt
  <2>2. \A c \in Columns : c <= Cols
    BY Bounds DEF Columns
  <2>3. \A c \in Columns : local[r][c] = Slice(global, r, c)
    BY <1>1, <1>2, <2>1, <2>2 DEF LocalOf
  <2> QED BY <2>1, <2>3, SliceIs
<1>8. k \in Nat /\ k <= LocalTableSize(global, r)
  <2>1. Len(local[r][1]) = LocalTableSize(global, r) /\ Len(local[r][1]) \in Nat
    BY <1>7, Bounds
  <2> QED BY <2>1
<1>9. \A c \in Columns : /\ SubSeq(local[r][c], 1, k) \in Seq(Cell)
                         /\ Len(SubSeq(local[r][c], 1, k)) = k
  <2> SUFFICES ASSUME NEW c \in Columns
               PROVE  /\ SubSeq(local[r][c], 1, k) \in Seq(Cell)
                      /\ Len(SubSeq(local[r][c], 1, k)) = k
    OBVIOUS
  <2> DEFINE x == local[r][c]
  <2>1. x \in Seq(Cell) /\ k \in Nat /\ k <= Len(x)
    BY <1>7, <1>8
  <2> HIDE DEF x
  <2>2. SubSeq(x, 1, k) \in Seq(Cell) /\ Len(SubSeq(x, 1, k)) = k
    BY <2>1
  <2> QED BY <2>2 DEF x
<1>10. /\ local' \in [Ranks -> [Columns -> Seq(Cell)]]
       /\ \A s \in Ranks \ {r} : local'[s] = local[s]
       /\ \A c \in Columns : Len(local'[r][c]) = k
  <2>1. [c \in Columns |-> SubSeq(local[r][c], 1, k)] \in [Columns -> Seq(Cell)]
    BY <1>9
  <2>2. local'[r] = [c \in Columns |-> SubSeq(local[r][c], 1, k)]
    BY <1>4, <1>6
  <2>3. local' \in [Ranks -> [Columns -> Seq(Cell)]] /\ \A s \in Ranks \ {r} : local'[s] = local[s]
    BY <1>4, <1>6, <2>1
  <2>4. \A c \in Columns : Len(local'[r][c]) = k
    BY <1>9, <2>2
  <2> QED BY <2>3, <2>4
<1>11. TypeInv'
  BY <1>1, <1>3, <1>5, <1>10 DEF TypeInv
<1>12. col[r] = 1 /\ ColInv'
  BY <1>1, <1>2, <1>3, <1>5 DEF ColInv
<1>13. LocalInv'
  <2>1. LocalOf(r)'
    BY <1>5, <1>10, Bounds DEF LocalOf
  <2> QED BY <1>3, <1>5, <1>10, <2>1, OthersLeftAlone
<1>14. \A s \in Ranks : /\ (pc'[s] = "bcast") = (pc[s] = "bcast")
                        /\ Dealt(s)' = Dealt(s) /\ Returned(s)' = Returned(s)
                        /\ Gathered(s)' = Gathered(s)
  <2>1. \A s \in Ranks : col'[s] = col[s]
    BY <1>3
  <2>2. \A s \in Ranks \ {r} : /\ (pc'[s] = "bcast") = (pc[s] = "bcast")
                               /\ Dealt(s)' = Dealt(s) /\ Returned(s)' = Returned(s)
                               /\ Gathered(s)' = Gathered(s)
    BY <1>5, <2>1 DEF Dealt, Returned, Gathered
  <2>3. /\ (pc'[r] = "bcast") = (pc[r] = "bcast")
        /\ Dealt(r)' = Dealt(r) /\ Returned(r)' = Returned(r) /\ Gathered(r)' = Gathered(r)
    BY <1>2, <1>5 DEF Dealt, Returned, Gathered
  <2> QED BY <2>2, <2>3
<1>15. BcastInv' /\ DownInv'
  BY <1>3, <1>14, DistributionLeftAlone
<1>16. \A s \in Ranks : Gathered(s) => local'[s] = local[s]
  BY <1>2, <1>10 DEF Gathered
<1>17. GatherInv' /\ NrowsInv' /\ UpInv' /\ MergedInv'
  BY <1>3, <1>14, <1>16, CollectionLeftAlone
<1> QED BY <1>11, <1>12, <1>13, <1>15, <1>17 DEF IInv

LEMMA TablesStay ==
  ASSUME IInv, UNCHANGED <<global, bcast, down, local>>, NEW r \in Ranks,
         pc[r] \in {"gather", "collect"}, pc'[r] \in {"collect", "done"},
         \A s \in Ranks \ {r} : pc'[s] = pc[s] /\ col'[s] = col[s]
  PROVE  BcastInv' /\ DownInv' /\ LocalInv'
<1>1. global' = global /\ bcast' = bcast /\ down' = down /\ local' = local
  OBVIOUS
<1>2. \A s \in Ranks \ {r} : (pc'[s] = "bcast") = (pc[s] = "bcast") /\ Dealt(s)' = Dealt(s)
  BY DEF Dealt
<1>3. (pc'[r] = "bcast") = (pc[r] = "bcast") /\ Dealt(r)' = Dealt(r)
  BY DEF Dealt
<1>4. BcastInv' /\ DownInv'
  BY <1>1, <1>2, <1>3, DistributionLeftAlone
<1>5. LocalOf(r)'
  <2>1. LocalOf(r)
    BY DEF IInv, LocalInv
  <2> QED BY <1>1, <2>1 DEF LocalOf
<1>6. LocalInv'
  BY <1>1, <1>5, OthersLeftAlone
<1> QED BY <1>4, <1>6

LEMMA GatherWorkerKeeps ==
  ASSUME IInv, NEW r \in Workers, GatherWorker(r)
  PROVE  IInv'
<1>1. /\ TypeInv /\ ColInv /\ GatherInv /\ NrowsInv /\ UpInv /\ MergedInv
      /\ r \in Ranks /\ r # 0
  BY Bounds DEF IInv
<1>2. /\ pc[r] = "gather" /\ pc' = [pc EXCEPT ![r] = "collect"]
      /\ gather' = [gather EXCEPT ![r] = Append(gather[r], Len(local[r][1]))]
  BY DEF GatherWorker
<1>3. /\ global' = global /\ col' = col /\ local' = local /\ bcast' = bcast /\ down' = down
      /\ up' = up /\ nrows' = nrows /\ merged' = merged
  BY DEF GatherWorker
<1>4. /\ pc' \in [Ranks -> Calls] /\ pc'[r] = "collect"
      /\ \A s \in Ranks \ {r} : pc'[s] = pc[s]
  BY <1>1, <1>2 DEF TypeInv, Calls
<1>5. ~ Gathered(r) /\ ~ Gathered(0) /\ gather[r] = <<>>
  BY <1>1, <1>2 DEF GatherInv, Gathered
<1>6. Len(local[r][1]) \in Nat
  <2>1. local[r][1] \in Seq(Cell)
    BY <1>1, Bounds DEF TypeInv
  <2> QED BY <2>1
<1>7. /\ gather' \in [Ranks -> Seq(Nat)] /\ gather'[r] = <<Len(local[r][1])>>
      /\ \A s \in Ranks \ {r} : gather'[s] = gather[s]
  <2>1. Append(gather[r], Len(local[r][1])) = <<Len(local[r][1])>>
    BY <1>5
  <2>2. <<Len(local[r][1])>> \in Seq(Nat)
    BY <1>6
  <2> QED BY <1>1, <1>2, <2>1, <2>2 DEF TypeInv
<1>8. TypeInv'
  BY <1>1, <1>3, <1>4, <1>7 DEF TypeInv
<1>9. col[r] = 1 /\ ColInv'
  BY <1>1, <1>2, <1>3, <1>4 DEF ColInv
<1>10. BcastInv' /\ DownInv' /\ LocalInv'
  BY <1>1, <1>2, <1>3, <1>4, TablesStay
<1>11. ~ Gathered(0)' /\ Gathered(r)' /\ \A s \in Ranks \ {r} : Gathered(s)' = Gathered(s)
  BY <1>1, <1>4, <1>5, Bounds DEF Gathered
<1>12. GatherInv'
  <2>1. \A s \in Workers \ {r} : gather'[s] = gather[s] /\ Gathered(s)' = Gathered(s)
    BY <1>7, <1>11, Bounds
  <2> QED BY <1>1, <1>3, <1>5, <1>7, <1>11, <2>1 DEF GatherInv
<1>13. NrowsInv' /\ MergedInv'
  BY <1>11 DEF NrowsInv, MergedInv
<1>14. \A s \in Ranks : Returned(s)' = Returned(s)
  BY <1>2, <1>3, <1>4, <1>9 DEF Returned
<1>15. UpInv'
  BY <1>1, <1>3, <1>14, Bounds DEF UpInv
<1> QED BY <1>8, <1>9, <1>10, <1>12, <1>13, <1>15 DEF IInv

LEMMA GatherRootKeeps ==
  ASSUME IInv, GatherRoot
  PROVE  IInv'
<1>1. TypeInv /\ ColInv /\ GatherInv /\ NrowsInv /\ UpInv /\ MergedInv
  BY DEF IInv
<1>2. /\ pc[0] = "gather" /\ pc' = [pc EXCEPT ![0] = "collect"]
      /\ gather' = [r \in Ranks |-> IF r \in Workers THEN Tail(gather[r]) ELSE gather[r]]
      /\ nrows' = [r \in Ranks |-> IF r = 0 THEN Len(local[0][1]) ELSE Head(gather[r])]
      /\ \A r \in Workers : gather[r] # <<>>
  BY DEF GatherRoot
<1>3. merged' = [c \in Columns |-> Blank(Scan(nrows')[N])]
  BY Zenon DEF GatherRoot
<1>4. /\ global' = global /\ col' = col /\ local' = local /\ bcast' = bcast /\ down' = down
      /\ up' = up
  BY DEF GatherRoot
<1>5. /\ pc' \in [Ranks -> Calls] /\ pc'[0] = "collect"
      /\ \A s \in Ranks \ {0} : pc'[s] = pc[s]
  BY <1>1, <1>2, Bounds DEF TypeInv, Calls
<1>6. \A r \in Workers : Gathered(r) /\ gather[r] = <<Len(local[r][1])>>
  BY <1>1, <1>2 DEF GatherInv
<1>7. \A r \in Workers : Head(gather[r]) = Len(local[r][1]) /\ Tail(gather[r]) = <<>>
  <2> SUFFICES ASSUME NEW r \in Workers
               PROVE  Head(gather[r]) = Len(local[r][1]) /\ Tail(gather[r]) = <<>>
    OBVIOUS
  <2> DEFINE x == Len(local[r][1])
  <2>1. gather[r] = <<x>>
    BY <1>6
  <2> HIDE DEF x
  <2>2. Head(<<x>>) = x /\ Tail(<<x>>) = <<>>
    OBVIOUS
  <2>3. Head(gather[r]) = x /\ Tail(gather[r]) = <<>>
    BY <2>1, <2>2, Zenon
  <2> QED BY <2>3 DEF x
<1>8. gather' \in [Ranks -> Seq(Nat)] /\ \A r \in Workers : gather'[r] = <<>>
  <2>1. \A r \in Workers : gather'[r] = <<>>
    BY <1>2, <1>7, Bounds
  <2>2. \A r \in Ranks : gather[r] \in Seq(Nat)
    BY <1>1 DEF TypeInv
  <2>3. \A r \in Ranks : (IF r \in Workers THEN Tail(gather[r]) ELSE gather[r]) \in Seq(Nat)
    <3>1. <<>> \in Seq(Nat)
      OBVIOUS
    <3> QED BY <1>7, <2>2, <3>1, Zenon
  <2>4. gather' \in [Ranks -> Seq(Nat)]
    BY <1>2, <2>3
  <2> QED BY <2>1, <2>4
<1>9. merged' = [c \in Columns |-> merged'[c]]
  BY <1>3
<1>10. TypeInv'
  BY <1>1, <1>4, <1>5, <1>8, <1>9 DEF TypeInv
<1>11. col[0] = 1 /\ ColInv'
  BY <1>1, <1>2, <1>4, <1>5, Bounds DEF ColInv
<1>12. BcastInv' /\ DownInv' /\ LocalInv'
  BY <1>2, <1>4, <1>5, Bounds, TablesStay
<1>13. Gathered(0)' /\ \A s \in Workers : Gathered(s)'
  BY <1>5, <1>6, Bounds DEF Gathered
<1>14. GatherInv'
  BY <1>8, <1>13 DEF GatherInv
<1>15. NrowsInv'
  <2>1. \A r \in Ranks : nrows'[r] = Len(local'[r][1])
    BY <1>2, <1>4, <1>7, Bounds
  <2> QED BY <2>1 DEF NrowsInv
<1>16. \A s \in Ranks : Returned(s)' = Returned(s)
  BY <1>2, <1>4, <1>5, <1>11 DEF Returned
<1>17. UpInv'
  BY <1>1, <1>4, <1>16, Bounds DEF UpInv
<1>18. MergedInv'
  <2>1. Returned(0)' = 0
    BY <1>4, <1>5, <1>11 DEF Returned
  <2>2. \A c \in Columns : ~ (c <= 0)
    BY DEF Columns
  <2>3. \A c \in Columns : merged'[c] = Blank(Scan(nrows')[N])
    BY <1>3, Zenon
  <2> QED BY <2>1, <2>2, <2>3, Zenon DEF MergedInv
<1> QED BY <1>10, <1>11, <1>12, <1>14, <1>15, <1>17, <1>18 DEF IInv

LEMMA CollectWorkerKeeps ==
  ASSUME IInv, NEW r \in Workers, CollectWorker(r)
  PROVE  IInv'
<1> DEFINE k == col[r]
           u == up[r]
           x == local[r][k]
<1>1. /\ TypeInv /\ ColInv /\ GatherInv /\ NrowsInv /\ UpInv /\ MergedInv
      /\ r \in Ranks /\ r # 0
  BY Bounds DEF IInv
<1>2. pc[r] = "collect" /\ NextColumn(r, "collect", "done") /\ up' = [up EXCEPT ![r] = Append(u, x)]
  BY DEF CollectWorker
<1>3. /\ global' = global /\ local' = local /\ bcast' = bcast /\ gather' = gather
      /\ down' = down /\ nrows' = nrows /\ merged' = merged
  BY DEF CollectWorker
<1>4. /\ pc' \in [Ranks -> Calls] /\ col' \in [Ranks -> Columns]
      /\ \A s \in Ranks \ {r} : pc'[s] = pc[s] /\ col'[s] = col[s]
      /\ \/ k < Cols /\ pc'[r] = "collect" /\ col'[r] = k + 1
         \/ k = Cols /\ pc'[r] = "done" /\ col'[r] = 1
      /\ ColInv'
  BY <1>1, <1>2, ColumnStep DEF Calls
<1>5. k \in Columns /\ k \in 1 .. Cols /\ Cols \in Nat
  BY <1>1, Bounds, Progress DEF Columns
<1>6. u \in Seq(Seq(Cell)) /\ x \in Seq(Cell)
  BY <1>1, <1>5 DEF TypeInv
<1>7. Returned(r) = k - 1 /\ Returned(r)' = k /\ Gathered(r)
  BY <1>2, <1>4, <1>5 DEF Returned, Gathered
<1>8. /\ Len(u) = k - 1 - Returned(0)
      /\ \A j \in 1 .. Len(u) : u[j] = local[r][Returned(0) + j]
  BY <1>1, <1>7 DEF UpInv
<1>9. \A s \in Ranks \ {r} : Returned(s)' = Returned(s) /\ Gathered(s)' = Gathered(s)
  BY <1>4 DEF Returned, Gathered
<1>10. Gathered(r)'
  BY <1>4 DEF Gathered
<1>11. Returned(0)' = Returned(0) /\ Gathered(0)' = Gathered(0) /\ Returned(0) \in 0 .. Cols
  BY <1>1, <1>9, Bounds, Progress
<1>12. BcastInv' /\ DownInv' /\ LocalInv'
  BY <1>1, <1>2, <1>3, <1>4, TablesStay
<1> HIDE DEF u, x, k
<1>13. /\ Append(u, x) \in Seq(Seq(Cell)) /\ Len(Append(u, x)) = Len(u) + 1 /\ Len(u) \in Nat
       /\ Append(u, x)[Len(u) + 1] = x /\ \A j \in 1 .. Len(u) : Append(u, x)[j] = u[j]
  BY <1>6
<1>14. /\ up' \in [Ranks -> Seq(Seq(Cell))] /\ up'[r] = Append(u, x)
       /\ \A s \in Ranks \ {r} : up'[s] = up[s]
  BY <1>1, <1>2, <1>13 DEF TypeInv
<1>15. TypeInv'
  BY <1>1, <1>3, <1>4, <1>14 DEF TypeInv
<1>16. GatherInv'
  <2>1. \A s \in Ranks : Gathered(s)' = Gathered(s)
    <3>1. Gathered(r)' = Gathered(r)
      BY <1>2, <1>4 DEF Gathered
    <3> QED BY <1>9, <3>1
  <2> QED BY <1>1, <1>3, <2>1, Bounds DEF GatherInv
<1>17. NrowsInv'
  BY <1>1, <1>3, <1>11 DEF NrowsInv
<1>18. MergedInv'
  BY <1>1, <1>3, <1>11, Zenon DEF MergedInv
<1>19. UpInv'
  <2>1. ASSUME NEW s \in Workers \ {r}
        PROVE  /\ Len(up'[s]) = Returned(s)' - Returned(0)'
               /\ \A j \in 1 .. Len(up'[s]) : up'[s][j] = local'[s][Returned(0)' + j]
    <3>1. s \in Ranks \ {r}
      BY Bounds
    <3>2. up'[s] = up[s] /\ Returned(s)' = Returned(s)
      BY <1>9, <1>14, <3>1
    <3> QED BY <1>1, <1>3, <1>11, <3>2 DEF UpInv
  <2>2. Len(up'[r]) = Returned(r)' - Returned(0)'
    BY <1>5, <1>7, <1>8, <1>11, <1>13, <1>14
  <2>3. ASSUME NEW j \in 1 .. Len(u) + 1
        PROVE  Append(u, x)[j] = local[r][Returned(0) + j]
    <3>1. CASE j = Len(u) + 1
      <4>1. Returned(0) + j = k
        BY <1>5, <1>8, <1>11, <3>1
      <4> QED BY <1>13, <3>1, <4>1 DEF x
    <3>2. CASE j # Len(u) + 1
      <4>1. j \in 1 .. Len(u)
        BY <1>13, <3>2
      <4> QED BY <1>8, <1>13, <4>1
    <3> QED BY <3>1, <3>2
  <2>4. \A j \in 1 .. Len(up'[r]) : up'[r][j] = local'[r][Returned(0)' + j]
    BY <1>3, <1>11, <1>13, <1>14, <2>3
  <2> QED BY <2>1, <2>2, <2>4 DEF UpInv
<1> QED BY <1>4, <1>12, <1>15, <1>16, <1>17, <1>18, <1>19 DEF IInv

LEMMA CollectRootKeeps ==
  ASSUME IInv, CollectRoot
  PROVE  IInv'
<1> DEFINE k == col[0]
<1>1. TypeInv /\ ColInv /\ LocalInv /\ GatherInv /\ NrowsInv /\ UpInv /\ MergedInv
  BY DEF IInv
<1>2. /\ pc[0] = "collect" /\ NextColumn(0, "collect", "done")
      /\ \A r \in Workers : up[r] # <<>>
      /\ merged' = [merged EXCEPT ![k] = Merge(merged[k])]
      /\ up' = [r \in Ranks |-> IF r \in Workers THEN Tail(up[r]) ELSE up[r]]
  BY DEF CollectRoot, Arrived
<1>3. /\ global' = global /\ local' = local /\ bcast' = bcast /\ gather' = gather
      /\ down' = down /\ nrows' = nrows
  BY DEF CollectRoot
<1>4. /\ pc' \in [Ranks -> Calls] /\ col' \in [Ranks -> Columns]
      /\ \A s \in Ranks \ {0} : pc'[s] = pc[s] /\ col'[s] = col[s]
      /\ \/ k < Cols /\ pc'[0] = "collect" /\ col'[0] = k + 1
         \/ k = Cols /\ pc'[0] = "done" /\ col'[0] = 1
      /\ ColInv'
  BY <1>1, <1>2, Bounds, ColumnStep DEF Calls
<1>5. k \in Columns /\ k \in 1 .. Cols /\ Cols \in Nat
  BY <1>1, Bounds, Progress DEF Columns
<1>6. Returned(0) = k - 1 /\ Returned(0)' = k /\ Gathered(0) /\ Gathered(0)'
  BY <1>2, <1>4, <1>5 DEF Returned, Gathered
<1>7. \A s \in Ranks \ {0} : Returned(s)' = Returned(s) /\ Gathered(s)' = Gathered(s)
  BY <1>4 DEF Returned, Gathered
<1>8. \A s \in Ranks : Gathered(s)
  BY <1>1, <1>6, Bounds DEF GatherInv
<1>9. BcastInv' /\ DownInv' /\ LocalInv'
  BY <1>2, <1>3, <1>4, Bounds, TablesStay
<1> HIDE DEF k
<1>10. \A r \in Workers :
         /\ up[r] \in Seq(Seq(Cell)) /\ Len(up[r]) \in Nat \ {0}
         /\ Len(up[r]) = Returned(r) - (k - 1)
         /\ \A j \in 1 .. Len(up[r]) : up[r][j] = local[r][k - 1 + j]
  <2> SUFFICES ASSUME NEW r \in Workers
               PROVE  /\ up[r] \in Seq(Seq(Cell)) /\ Len(up[r]) \in Nat \ {0}
                      /\ Len(up[r]) = Returned(r) - (k - 1)
                      /\ \A j \in 1 .. Len(up[r]) : up[r][j] = local[r][k - 1 + j]
    OBVIOUS
  <2>1. up[r] \in Seq(Seq(Cell)) /\ up[r] # <<>>
    BY <1>1, <1>2, Bounds DEF TypeInv
  <2>2. Len(up[r]) \in Nat \ {0}
    BY <2>1
  <2>3. /\ Len(up[r]) = Returned(r) - Returned(0)
        /\ \A j \in 1 .. Len(up[r]) : up[r][j] = local[r][Returned(0) + j]
    BY <1>1 DEF UpInv
  <2> QED BY <1>6, <2>1, <2>2, <2>3
<1>11. \A r \in Workers : /\ Tail(up[r]) \in Seq(Seq(Cell)) /\ Len(Tail(up[r])) = Len(up[r]) - 1
                          /\ \A j \in 1 .. Len(up[r]) - 1 : Tail(up[r])[j] = up[r][j + 1]
                          /\ Head(up[r]) = up[r][1]
  <2> SUFFICES ASSUME NEW r \in Workers
               PROVE  /\ Tail(up[r]) \in Seq(Seq(Cell)) /\ Len(Tail(up[r])) = Len(up[r]) - 1
                      /\ \A j \in 1 .. Len(up[r]) - 1 : Tail(up[r])[j] = up[r][j + 1]
                      /\ Head(up[r]) = up[r][1]
    OBVIOUS
  <2> DEFINE u == up[r]
  <2>1. u \in Seq(Seq(Cell)) /\ u # <<>>
    BY <1>2, <1>10
  <2> HIDE DEF u
  <2>2. /\ Tail(u) \in Seq(Seq(Cell)) /\ Len(Tail(u)) = Len(u) - 1
        /\ \A j \in 1 .. Len(u) - 1 : Tail(u)[j] = u[j + 1]
        /\ Head(u) = u[1]
    BY <2>1
  <2> QED BY <2>2 DEF u
<1>12. up' \in [Ranks -> Seq(Seq(Cell))] /\ \A r \in Workers : up'[r] = Tail(up[r])
  <2>1. \A r \in Ranks : up[r] \in Seq(Seq(Cell))
    BY <1>1 DEF TypeInv
  <2> QED BY <1>2, <1>11, <2>1, Bounds
<1>13. /\ merged' = [c \in Columns |-> merged'[c]] /\ merged'[k] = Merge(merged[k])
       /\ \A c \in Columns \ {k} : merged'[c] = merged[c]
  <2> DEFINE m == Merge(merged[k])
  <2>1. merged' = [merged EXCEPT ![k] = m] /\ merged = [c \in Columns |-> merged[c]]
    BY <1>1, <1>2 DEF TypeInv
  <2> HIDE DEF m
  <2>2. /\ merged' = [c \in Columns |-> merged'[c]] /\ merged'[k] = m
        /\ \A c \in Columns \ {k} : merged'[c] = merged[c]
    BY <1>5, <2>1
  <2> QED BY <2>2 DEF m
<1>14. TypeInv'
  BY <1>1, <1>3, <1>4, <1>12, <1>13 DEF TypeInv
<1>15. GatherInv'
  <2>1. \A s \in Ranks : Gathered(s)' = Gathered(s)
    <3>1. Gathered(0)' = Gathered(0)
      BY <1>2, <1>4 DEF Gathered
    <3> QED BY <1>7, <3>1
  <2> QED BY <1>1, <1>3, <2>1, Bounds DEF GatherInv
<1>16. NrowsInv'
  BY <1>1, <1>3, <1>6 DEF NrowsInv
<1>17. UpInv'
  <2> SUFFICES ASSUME NEW r \in Workers
               PROVE  /\ Len(up'[r]) = Returned(r)' - Returned(0)'
                      /\ \A j \in 1 .. Len(up'[r]) : up'[r][j] = local'[r][Returned(0)' + j]
    BY DEF UpInv
  <2>1. r \in Ranks \ {0} /\ Returned(r)' = Returned(r) /\ Returned(r) \in 0 .. Cols
    BY <1>1, <1>7, Bounds, Progress
  <2>2. up'[r] = Tail(up[r]) /\ Len(Tail(up[r])) = Len(up[r]) - 1
    BY <1>11, <1>12
  <2>3. Len(up[r]) \in Nat \ {0} /\ Len(up[r]) = Returned(r) - (k - 1)
    BY <1>10
  <2>4. Len(up'[r]) = Len(up[r]) - 1
    BY <2>2
  <2>5. Len(up'[r]) = Returned(r)' - Returned(0)'
    BY <1>5, <1>6, <2>1, <2>3, <2>4
  <2>6. ASSUME NEW j \in 1 .. Len(up'[r])
        PROVE  up'[r][j] = local'[r][Returned(0)' + j]
    <3>1. /\ j \in 1 .. Len(up[r]) - 1 /\ j + 1 \in 1 .. Len(up[r])
          /\ k - 1 + (j + 1) = k + j
      BY <1>5, <2>3, <2>4
    <3>2. up'[r][j] = up[r][j + 1]
      BY <1>11, <1>12, <3>1
    <3>3. up[r][j + 1] = local[r][k - 1 + (j + 1)]
      BY <1>10, <3>1
    <3> QED BY <1>3, <1>6, <3>1, <3>2, <3>3
  <2> QED BY <2>5, <2>6
<1>18. \A r \in Ranks : Part(r) = local[r][k]
  <2>1. Part(0) = local[0][k]
    BY DEF Part, k
  <2>2. ASSUME NEW r \in Workers
        PROVE  Part(r) = local[r][k]
    <3>1. 1 \in 1 .. Len(up[r]) /\ k - 1 + 1 = k
      BY <1>5, <1>10
    <3>2. up[r][1] = local[r][k - 1 + 1]
      BY <1>10, <3>1
    <3>3. Part(r) = up[r][1]
      BY <1>11, Bounds DEF Part
    <3> QED BY <3>1, <3>2, <3>3
  <2> QED BY <2>1, <2>2, Bounds
<1>19. Merge(merged[k]) = Joined([r \in Ranks |-> local[r][k]])
  <2>1. \A r \in Ranks : Part(r) \in Seq(Cell)
    BY <1>1, <1>5, <1>18 DEF TypeInv
  <2>2. \A r \in Ranks : nrows[r] = Len(Part(r))
    <3>1. \A r \in Ranks : nrows[r] = Len(local[r][1])
      BY <1>1, <1>6 DEF NrowsInv
    <3>2. \A r \in Ranks : Len(local[r][k]) = Len(local[r][1])
      BY <1>1, <1>5, <1>8 DEF LocalInv, LocalOf, Gathered
    <3> QED BY <1>18, <3>1, <3>2
  <2>3. merged[k] = Blank(Scan(nrows)[N])
    <3>1. ~ (k <= Returned(0))
      BY <1>5, <1>6
    <3> QED BY <1>1, <1>5, <1>6, <3>1, Zenon DEF MergedInv
  <2>4. Merge(merged[k]) = Joined([r \in Ranks |-> Part(r)])
    BY <2>1, <2>2, <2>3, MergeJoins
  <2>5. [r \in Ranks |-> Part(r)] = [r \in Ranks |-> local[r][k]]
    BY <1>18
  <2> QED BY <2>4, <2>5, Zenon
<1>20. MergedInv'
  <2> SUFFICES ASSUME NEW c \in Columns
               PROVE  merged'[c] = IF c <= Returned(0)' THEN Joined([r \in Ranks |-> local'[r][c]])
                                   ELSE Blank(Scan(nrows')[N])
    BY Zenon DEF MergedInv
  <2>1. CASE c = k
    <3>1. c <= Returned(0)'
      BY <1>5, <1>6, <2>1
    <3> QED BY <1>3, <1>13, <1>19, <2>1, <3>1, Zenon
  <2>2. CASE c # k
    <3>1. c <= Returned(0)' <=> c <= Returned(0)
      BY <1>5, <1>6, <2>2 DEF Columns
    <3>2. merged[c] = IF c <= Returned(0) THEN Joined([r \in Ranks |-> local[r][c]])
                      ELSE Blank(Scan(nrows)[N])
      BY <1>1, <1>6, Zenon DEF MergedInv
    <3>3. merged'[c] = merged[c]
      BY <1>13, <2>2
    <3> QED BY <1>3, <3>1, <3>2, <3>3, Zenon
  <2> QED BY <2>1, <2>2
<1> QED BY <1>4, <1>9, <1>14, <1>15, <1>16, <1>17, <1>20 DEF IInv

-----------------------------------------------------------------------------
(***************************************************************************)
(* The invariant holds, and what follows from it.                          *)
(***************************************************************************)
LEMMA StutterKeeps ==
  ASSUME IInv, UNCHANGED vars
  PROVE  IInv'
<1>1. /\ global' = global /\ pc' = pc /\ col' = col /\ local' = local /\ bcast' = bcast
      /\ gather' = gather /\ down' = down /\ up' = up /\ nrows' = nrows /\ merged' = merged
  BY DEF vars
<1>2. TypeInv' /\ ColInv'
  BY <1>1 DEF IInv, TypeInv, ColInv
<1>3. \A s \in Ranks : /\ (pc'[s] = "bcast") = (pc[s] = "bcast") /\ Dealt(s)' = Dealt(s)
                       /\ Returned(s)' = Returned(s) /\ Gathered(s)' = Gathered(s)
  BY <1>1 DEF Dealt, Returned, Gathered
<1>4. BcastInv' /\ DownInv'
  BY <1>1, <1>3, DistributionLeftAlone
<1>5. GatherInv' /\ NrowsInv' /\ UpInv' /\ MergedInv'
  BY <1>1, <1>3, CollectionLeftAlone
<1>6. LocalInv'
  BY <1>1 DEF IInv, LocalInv, LocalOf, Dealt
<1> QED BY <1>2, <1>4, <1>5, <1>6 DEF IInv

LEMMA NextIInv == IInv /\ [Next]_vars => IInv'
<1> SUFFICES ASSUME IInv, [Next]_vars PROVE IInv'
  OBVIOUS
<1>1. CASE Root
  <2>1. CASE BcastRoot
    BY <2>1, BcastRootKeeps
  <2>2. CASE DistributeRoot
    BY <2>2, DistributeRootKeeps
  <2>3. CASE Work(0)
    BY <2>3, Bounds, WorkKeeps
  <2>4. CASE GatherRoot
    BY <2>4, GatherRootKeeps
  <2>5. CASE CollectRoot
    BY <2>5, CollectRootKeeps
  <2> QED BY <1>1, <2>1, <2>2, <2>3, <2>4, <2>5 DEF Root
<1>2. ASSUME NEW r \in Workers, Worker(r)
      PROVE  IInv'
  <2>1. CASE BcastWorker(r)
    BY <2>1, BcastWorkerKeeps
  <2>2. CASE DistributeWorker(r)
    BY <2>2, DistributeWorkerKeeps
  <2>3. CASE Work(r)
    BY <2>3, Bounds, WorkKeeps
  <2>4. CASE GatherWorker(r)
    BY <2>4, GatherWorkerKeeps
  <2>5. CASE CollectWorker(r)
    BY <2>5, CollectWorkerKeeps
  <2> QED BY <1>2, <2>1, <2>2, <2>3, <2>4, <2>5 DEF Worker
<1>3. CASE UNCHANGED vars
  BY <1>3, StutterKeeps
<1> QED BY <1>1, <1>2, <1>3 DEF Next, Ended

LEMMA SpecIInv == Spec => []IInv
<1>1. Init => IInv
  BY InitIInv
<1>2. IInv /\ [Next]_vars => IInv'
  BY NextIInv
<1> QED BY <1>1, <1>2, PTL DEF Spec

\* distribute_table: whatever the order in which the ranks took their
\* columns, the slices they hold are the columns of the table cut in rank
\* order, all columns at the same rows, the rest spread over the first ranks.
THEOREM SlicesTiled == Spec => []Tiled
<1>1. IInv => Tiled
  <2> SUFFICES ASSUME IInv, \A r \in Ranks : pc[r] = "work"
               PROVE  /\ \A c \in Columns : Joined([r \in Ranks |-> local[r][c]]) = Cells(c, 0, global)
                      /\ \A r, s \in Ranks : Len(local[r][1]) <= Len(local[s][1]) + 1
    BY DEF Tiled
  <2>1. global \in Nat
    BY DEF IInv, TypeInv
  <2>2. ASSUME NEW r \in Ranks, NEW c \in Columns
        PROVE  local[r][c] = Slice(global, r, c)
    <3>1. Dealt(r) = Cols
      BY DEF Dealt
    <3>2. c <= Dealt(r)
      BY <3>1, Bounds DEF Columns
    <3> QED BY <3>2 DEF IInv, LocalInv, LocalOf
  <2>3. ASSUME NEW c \in Columns
        PROVE  Joined([r \in Ranks |-> local[r][c]]) = Cells(c, 0, global)
    <3>1. [r \in Ranks |-> local[r][c]] = [r \in Ranks |-> Slice(global, r, c)]
      BY <2>2
    <3> QED BY <2>1, <3>1, SlicesJoin, Zenon
  <2>4. ASSUME NEW r \in Ranks, NEW s \in Ranks
        PROVE  Len(local[r][1]) <= Len(local[s][1]) + 1
    <3>1. LocalTableSize(global, r) <= LocalTableSize(global, s) + 1
      BY <2>1, SlicesTile
    <3>2. /\ Len(local[r][1]) = LocalTableSize(global, r)
          /\ Len(local[s][1]) = LocalTableSize(global, s)
      <4>1. local[r][1] = Slice(global, r, 1) /\ local[s][1] = Slice(global, s, 1)
        BY <2>2, Bounds
      <4>2. Len(Slice(global, r, 1)) = LocalTableSize(global, r)
        BY <2>1, Bounds, SliceIs
      <4>3. Len(Slice(global, s, 1)) = LocalTableSize(global, s)
        BY <2>1, Bounds, SliceIs
      <4> QED BY <4>1, <4>2, <4>3
    <3> QED BY <3>1, <3>2
  <2> QED BY <2>3, <2>4
<1> QED BY <1>1, SpecIInv, PTL

\* collect_tables: the columns a fast worker has sent ahead wait in their
\* order, so that every round of the root joins the parts of one column.
THEOREM TablesCollected == Spec => []Collected
<1>1. IInv => Collected
  <2> SUFFICES ASSUME IInv, \A r \in Ranks : pc[r] = "done", NEW c \in Columns
               PROVE  merged[c] = Joined([r \in Ranks |-> local[r][c]])
    BY DEF Collected
  <2>1. Gathered(0) /\ Returned(0) = Cols
    BY Bounds DEF Gathered, Returned
  <2>2. c <= Returned(0)
    BY <2>1, Bounds DEF Columns
  <2> QED BY <2>1, <2>2, Zenon DEF IInv, MergedInv
<1> QED BY <1>1, SpecIInv, PTL
=============================================================================
