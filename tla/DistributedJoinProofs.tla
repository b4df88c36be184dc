------------------------ MODULE DistributedJoinProofs ------------------------
(***************************************************************************)
(* Proofs about Placement, for every number of ranks, every NVLink domain  *)
(* size, over-decomposition factor and hash: the groups of both stages are *)
(* consistent, and two rows with one key always meet.  And proofs about    *)
(* DistributedJoin, for every cluster, over-decomposition factor, pair of  *)
(* hash functions and pair of input tables: however the ranks and their    *)
(* join threads interleave, messages are taken by the communication they   *)
(* belong to, and the returned tables together are the inner join.         *)
(***************************************************************************)
EXTENDS Placement, DistributedJoin, WellFoundedInduction, TLAPS

(***************************************************************************)
(* Division                                                                *)
(***************************************************************************)
\* Division with remainder: a is its remainder plus its quotient blocks of n.
LEMMA DivMod ==
  ASSUME NEW a \in Nat, NEW n \in Nat \ {0}
  PROVE  /\ a = (a \div n) * n + (a % n)
         /\ a % n \in 0 .. n - 1
         /\ a \div n \in Nat
BY SMT

\* Quotient and remainder are the only such pair.
LEMMA DivUnique ==
  ASSUME NEW q \in Nat, NEW n \in Nat \ {0}, NEW b \in 0 .. n - 1
  PROVE  (b + q * n) \div n = q /\ (b + q * n) % n = b
BY SMT

\* A number below n is its own remainder.
LEMMA SmallQuotient ==
  ASSUME NEW n \in Nat \ {0}, NEW a \in 0 .. n - 1
  PROVE  a \div n = 0 /\ a % n = a
BY SMT

\* a below g * n lies in one of g blocks of n.
LEMMA BlockBound ==
  ASSUME NEW n \in Nat \ {0}, NEW g \in Nat, NEW i \in 0 .. g - 1, NEW b \in 0 .. n - 1
  PROVE  b + i * n \in 0 .. g * n - 1
<1>1. g - 1 - i \in Nat /\ b + i * n \in Nat
  BY SMT
<1>2. (g - 1 - i) * n \in Nat
  BY <1>1, SMT
<1>3. g * n = (i + 1) * n + (g - 1 - i) * n
  BY SMT
<1>4. (i + 1) * n = i * n + n /\ i * n \in Nat /\ g * n \in Nat
  BY SMT
<1>5. QED
  BY <1>1, <1>2, <1>3, <1>4

\* A number below g * n has a quotient by n below g.
LEMMA QuotientBound ==
  ASSUME NEW n \in Nat \ {0}, NEW g \in Nat, NEW a \in 0 .. g * n - 1
  PROVE  a \div n \in 0 .. g - 1
<1>1. a \in Nat
  OBVIOUS
<1>2. a = (a \div n) * n + (a % n) /\ a % n \in 0 .. n - 1 /\ a \div n \in Nat
  BY <1>1, DivMod
<1>3. ASSUME a \div n >= g PROVE FALSE
  <2>1. (a \div n) - g \in Nat
    BY <1>2, <1>3
  <2>2. ((a \div n) - g) * n \in Nat
    BY <2>1, SMT
  <2>3. (a \div n) * n = g * n + ((a \div n) - g) * n
    BY <1>2, SMT
  <2>4. g * n \in Nat /\ (a \div n) * n \in Nat
    BY <1>2, SMT
  <2>5. QED
    BY <1>2, <2>2, <2>3, <2>4
<1>4. QED
  BY <1>2, <1>3

(***************************************************************************)
(* The size of the NVLink stage divides the number of ranks.               *)
(***************************************************************************)
\* A nonempty bounded set of numbers has a largest one.
LEMMA LargestExists ==
  ASSUME NEW n \in Nat, NEW S, S \subseteq 0 .. n, S # {}
  PROVE  \E d \in S : \A e \in S : e <= d
<1> DEFINE T == {n - d : d \in S}
<1>1. T \subseteq Nat /\ T # {}
  <2>1. \A d \in S : n - d \in Nat
    OBVIOUS
  <2>2. PICK d \in S : TRUE
    OBVIOUS
  <2>3. n - d \in T
    BY <2>2
  <2>4. QED
    BY <2>1, <2>3
<1>2. PICK x \in T : \A y \in T : ~ (<<y, x>> \in OpToRel(<, Nat))
  BY <1>1, NatLessThanWellFounded, WFMin
<1>3. ASSUME NEW y \in T PROVE x <= y
  <2>1. x \in Nat /\ y \in Nat
    BY <1>1
  <2>2. ~ (y < x)
    BY <1>2, <2>1, Zenon DEF OpToRel
  <2>3. QED
    BY <2>1, <2>2
<1>4. PICK d \in S : x = n - d
  OBVIOUS
<1>5. ASSUME NEW e \in S PROVE n - d <= n - e
  <2>1. n - e \in T
    OBVIOUS
  <2>2. QED
    BY <1>3, <1>4, <2>1
<1>6. QED
  BY <1>5

\* What get_nvl_partition_size returns divides mpi_size and is positive.
LEMMA NvlDivides ==
  ASSUME NEW m \in Nat \ {0}, NEW dom \in Nat
  PROVE  /\ GetNvlPartitionSize(m, dom) \in 1 .. m
         /\ Divides(GetNvlPartitionSize(m, dom), m)
<1> DEFINE fits == {d \in 1 .. m : d <= CeilSqrt(m) /\ Divides(d, m) /\ d <= dom}
<1>1. CASE dom >= m
  <2>1. GetNvlPartitionSize(m, dom) = m
    BY <1>1 DEF GetNvlPartitionSize
  <2>2. m % m = 0
    BY SMT
  <2>3. QED
    BY <2>1, <2>2 DEF Divides
<1>2. CASE ~(dom >= m) /\ fits = {}
  <2>1. GetNvlPartitionSize(m, dom) = 1
    BY <1>2 DEF GetNvlPartitionSize
  <2>2. m % 1 = 0
    BY SMT
  <2>3. QED
    BY <2>1, <2>2 DEF Divides
<1>3. CASE ~(dom >= m) /\ fits # {}
  <2>1. GetNvlPartitionSize(m, dom) = CHOOSE d \in fits : \A e \in fits : e <= d
    BY <1>3 DEF GetNvlPartitionSize
  <2>2. \E d \in fits : \A e \in fits : e <= d
    <3>1. fits \subseteq 0 .. m
      OBVIOUS
    <3> HIDE DEF fits
    <3>2. QED
      BY <3>1, <1>3, LargestExists
  <2>3. GetNvlPartitionSize(m, dom) \in fits
    <3> HIDE DEF fits
    <3>1. QED
      BY <2>1, <2>2
  <2>4. QED
    BY <2>3
<1>4. QED
  BY <1>1, <1>2, <1>3

\* mpi_size is made of mpi_size / nvl blocks.
LEMMA Blocks ==
  ASSUME NEW m \in Nat \ {0}, NEW n \in 1 .. m, Divides(n, m)
  PROVE  m = (m \div n) * n /\ m \div n \in Nat \ {0}
<1>1. m = (m \div n) * n + (m % n) /\ m \div n \in Nat
  BY DivMod
<1>2. m % n = 0
  BY DEF Divides
<1>3. QED
  BY <1>1, <1>2, SMT

(***************************************************************************)
(* Groups.  With stride n, groups of k ranks and g grids, a rank is the    *)
(* triple (grid q, index i in its group, position b below the stride).     *)
(***************************************************************************)
\* n: stride, k: ranks of a group, g: grids.
Gridded(n, k, g, grid) ==
  n \in Nat \ {0} /\ k \in Nat \ {0} /\ g \in Nat \ {0} /\ grid \in Nat \ {0} /\ grid = k * n

Lives(r, n, k, g, grid, q, i, b) ==
  q \in 0 .. g - 1 /\ i \in 0 .. k - 1 /\ b \in 0 .. n - 1 /\ r = (b + i * n) + q * grid

\* CommunicationGroup's arithmetic on a rank given by its address: where its
\* group starts, its index in it, and the global rank of each index.
LEMMA Address ==
  ASSUME NEW n, NEW k, NEW g, NEW grid, NEW q, NEW i, NEW b, NEW r,
         Gridded(n, k, g, grid), Lives(r, n, k, g, grid, q, i, b)
  PROVE  /\ r \in 0 .. g * grid - 1
         /\ r \div grid = q
         /\ GroupStart(r, grid, n) = q * grid + b
         /\ GetLocalIdx(r, grid, n) = i
         /\ \A j \in 0 .. k - 1 : GetGlobalRank(r, grid, n, j) = (b + j * n) + q * grid
<1> USE DEF Gridded, Lives
<1>1. b + i * n \in 0 .. grid - 1
  BY BlockBound
<1>2. r \in 0 .. g * grid - 1
  BY <1>1, BlockBound
<1>3. r \div grid = q /\ q \in Nat
  BY <1>1, DivUnique
<1>4. r % n = b
  <2>1. q * k + i \in Nat
    BY SMT
  <2>2. r = b + (q * k + i) * n
    <3>1. q * grid = (q * k) * n
      BY SMT
    <3>2. (q * k + i) * n = (q * k) * n + i * n
      BY SMT
    <3>3. q * grid \in Int /\ (q * k) * n \in Int /\ i * n \in Int /\ (q * k + i) * n \in Int
      BY SMT
    <3>4. QED
      BY <3>1, <3>2, <3>3
  <2>3. (b + (q * k + i) * n) % n = b
    BY <2>1, DivUnique, Zenon
  <2>4. QED
    BY <2>2, <2>3
<1>5. GroupStart(r, grid, n) = q * grid + b
  BY <1>3, <1>4 DEF GroupStart
<1>6. q * grid \in Int /\ i * n \in Int /\ (0 + i * n) \div n = i
  <2>1. 0 \in 0 .. n - 1 /\ i \in Nat
    OBVIOUS
  <2>2. (0 + i * n) \div n = i
    BY <2>1, DivUnique
  <2>3. QED
    BY <2>2, SMT
<1>7. r - GroupStart(r, grid, n) = 0 + i * n
  BY <1>5, <1>6
<1>8. GetLocalIdx(r, grid, n) = i
  BY <1>6, <1>7 DEF GetLocalIdx
<1>9. ASSUME NEW j \in 0 .. k - 1
      PROVE  GetGlobalRank(r, grid, n, j) = (b + j * n) + q * grid
  <2>1. j * n \in Int
    BY SMT
  <2>2. QED
    BY <1>5, <1>6, <2>1 DEF GetGlobalRank
<1>10. QED
  BY <1>2, <1>3, <1>5, <1>8, <1>9

\* Every rank has an address.
LEMMA Addressed ==
  ASSUME NEW n, NEW k, NEW g, NEW grid, Gridded(n, k, g, grid),
         NEW r \in 0 .. g * grid - 1
  PROVE  \E q, i, b : Lives(r, n, k, g, grid, q, i, b) /\ q = r \div grid
<1> USE DEF Gridded
<1> DEFINE rem == r % grid
<1>1. r \in Nat
  BY SMT
<1>2. r = (r \div grid) * grid + rem /\ rem \in 0 .. grid - 1
  BY <1>1, DivMod, Zenon
<1>3. r \div grid \in 0 .. g - 1
  BY QuotientBound
<1>4. rem \in Nat /\ rem = (rem \div n) * n + (rem % n) /\ rem % n \in 0 .. n - 1
  <2>1. rem \in Nat
    BY <1>2
  <2>2. QED
    BY <2>1, DivMod
<1>5. rem \div n \in 0 .. k - 1
  BY <1>2, QuotientBound
<1>6. (rem \div n) * n \in Int /\ (r \div grid) * grid \in Int
  BY <1>3, <1>5, SMT
<1>7. r = ((rem % n) + (rem \div n) * n) + (r \div grid) * grid
  BY <1>2, <1>4, <1>6
<1>8. Lives(r, n, k, g, grid, r \div grid, rem \div n, rem % n)
  BY <1>3, <1>4, <1>5, <1>7 DEF Lives
<1>9. QED
  BY <1>8, Zenon

\* The first stage keeps a rank's position in its domain and moves it to the
\* domain the hash names.
LEMMA MoveIb ==
  ASSUME NEW m \in Nat \ {0}, NEW n \in 1 .. m, Divides(n, m),
         NEW r \in 0 .. m - 1, NEW j \in 0 .. m \div n - 1
  PROVE  /\ GetGlobalRank(r, m, n, j) \in 0 .. m - 1
         /\ GetGlobalRank(r, m, n, j) \div n = j
<1> DEFINE k == m \div n
<1>1. m = k * n /\ k \in Nat \ {0} /\ n \in Nat \ {0}
  BY Blocks
<1>2. j \in 0 .. k - 1
  OBVIOUS
<1> HIDE DEF k
<1>3. Gridded(n, k, 1, m) /\ r \in 0 .. 1 * m - 1
  BY <1>1 DEF Gridded
<1>4. PICK q, i, b : Lives(r, n, k, 1, m, q, i, b)
  BY <1>3, Addressed, Zenon
<1>5. GetGlobalRank(r, m, n, j) = (b + j * n) + q * m
  BY <1>2, <1>3, <1>4, Address
<1>6. q = 0 /\ b \in 0 .. n - 1
  BY <1>4 DEF Lives
<1>7. GetGlobalRank(r, m, n, j) = b + j * n
  <2>1. q * m = 0 /\ j * n \in Int
    BY <1>1, <1>2, <1>6, SMT
  <2>2. QED
    BY <1>5, <1>6, <2>1
<1>8. b + j * n \in 0 .. k * n - 1
  BY <1>1, <1>2, <1>6, BlockBound
<1>9. (b + j * n) \div n = j
  <2>1. j \in Nat
    BY <1>1, <1>2
  <2>2. QED
    BY <1>1, <1>6, <2>1, DivUnique
<1>10. QED
  BY <1>1, <1>7, <1>8, <1>9

\* The second stage moves a rank inside its domain.
LEMMA MoveNvl ==
  ASSUME NEW m \in Nat \ {0}, NEW n \in 1 .. m, Divides(n, m),
         NEW r \in 0 .. m - 1, NEW j \in 0 .. n - 1
  PROVE  /\ GetGlobalRank(r, n, 1, j) \in 0 .. m - 1
         /\ GetGlobalRank(r, n, 1, j) = j + (r \div n) * n
<1> DEFINE k == m \div n
<1>1. m = k * n /\ k \in Nat \ {0} /\ n \in Nat \ {0}
  BY Blocks
<1> HIDE DEF k
<1>2. Gridded(1, n, k, n) /\ r \in 0 .. k * n - 1
  BY <1>1 DEF Gridded
<1>3. PICK q, i, b : Lives(r, 1, n, k, n, q, i, b) /\ q = r \div n
  BY <1>2, Addressed, Zenon
<1>4. GetGlobalRank(r, n, 1, j) = (b + j * 1) + q * n
  BY <1>2, <1>3, Address
<1>5. q \in 0 .. k - 1 /\ b = 0
  BY <1>3 DEF Lives
<1>6. GetGlobalRank(r, n, 1, j) = j + q * n
  <2>1. q * n \in Int
    BY <1>1, <1>5, SMT
  <2>2. QED
    BY <1>4, <1>5, <2>1
<1>7. j + q * n \in 0 .. k * n - 1
  BY <1>1, <1>5, BlockBound
<1>8. QED
  BY <1>1, <1>3, <1>6, <1>7

(***************************************************************************)
(* Groups.                                                                 *)
(***************************************************************************)
\* The groups of one stage are consistent: members agree on start and size,
\* and get_global_rank and get_local_idx are inverse.
LEMMA GroupConsistent ==
  ASSUME NEW n, NEW k, NEW g, NEW grid, Gridded(n, k, g, grid), mpi_size = g * grid
  PROVE  Consistent(grid, n)
<1>1. GroupSize(grid, n) = k
  <2>1. 0 \in 0 .. n - 1 /\ k \in Nat
    BY DEF Gridded
  <2>2. (0 + k * n) \div n = k
    BY <2>1, DivUnique DEF Gridded
  <2>3. 0 + k * n = grid
    BY DEF Gridded
  <2>4. QED
    BY <2>2, <2>3 DEF GroupSize
<1>2. SUFFICES ASSUME NEW r \in 0 .. g * grid - 1
               PROVE  /\ GetLocalIdx(r, grid, n) \in 0 .. k - 1
                      /\ GetGlobalRank(r, grid, n, GetLocalIdx(r, grid, n)) = r
                      /\ \A j \in 0 .. k - 1 :
                           /\ GetGlobalRank(r, grid, n, j) \in 0 .. g * grid - 1
                           /\ GroupStart(GetGlobalRank(r, grid, n, j), grid, n)
                                = GroupStart(r, grid, n)
                           /\ GetLocalIdx(GetGlobalRank(r, grid, n, j), grid, n) = j
  BY <1>1 DEF Consistent
<1>3. PICK q, i, b : Lives(r, n, k, g, grid, q, i, b)
  BY Addressed, Zenon
<1>4. /\ GroupStart(r, grid, n) = q * grid + b
      /\ GetLocalIdx(r, grid, n) = i
      /\ \A j \in 0 .. k - 1 : GetGlobalRank(r, grid, n, j) = (b + j * n) + q * grid
  BY <1>3, Address
<1>5. GetLocalIdx(r, grid, n) \in 0 .. k - 1
      /\ GetGlobalRank(r, grid, n, GetLocalIdx(r, grid, n)) = r
  BY <1>3, <1>4, Zenon DEF Lives
<1>6. ASSUME NEW j \in 0 .. k - 1
      PROVE  /\ GetGlobalRank(r, grid, n, j) \in 0 .. g * grid - 1
             /\ GroupStart(GetGlobalRank(r, grid, n, j), grid, n) = GroupStart(r, grid, n)
             /\ GetLocalIdx(GetGlobalRank(r, grid, n, j), grid, n) = j
  <2>1. Lives(GetGlobalRank(r, grid, n, j), n, k, g, grid, q, j, b)
    BY <1>3, <1>4, Zenon DEF Lives
  <2>2. QED
    BY <1>4, <2>1, Address
<1>7. QED
  BY <1>5, <1>6, Zenon

\* Both stages have consistent groups when nvl divides the number of ranks.
LEMMA BothConsistent ==
  ASSUME mpi_size \in Nat \ {0}, nvl_size \in 1 .. mpi_size, Divides(nvl_size, mpi_size)
  PROVE  Consistent(mpi_size, nvl_size) /\ Consistent(nvl_size, 1)
<1> DEFINE k == mpi_size \div nvl_size
<1>1. mpi_size = k * nvl_size /\ k \in Nat \ {0} /\ nvl_size \in Nat \ {0}
  BY Blocks
<1> HIDE DEF k
<1>2. Gridded(nvl_size, k, 1, mpi_size) /\ mpi_size = 1 * mpi_size
  BY <1>1 DEF Gridded
<1>3. Gridded(1, nvl_size, k, nvl_size) /\ mpi_size = k * nvl_size
  BY <1>1 DEF Gridded
<1>4. QED
  BY <1>2, <1>3, GroupConsistent

(***************************************************************************)
(* The inductive invariant: where a row is depends only on the hashes of   *)
(* its key once a stage is over, never on the rank it started from.        *)
(***************************************************************************)
Begun ==
  IF nvl_size = 0 THEN \A s \in Rows : stage[s] = "start"
  ELSE /\ nvl_size \in 1 .. mpi_size /\ Divides(nvl_size, mpi_size)
       /\ hash.ib \in 0 .. mpi_size \div nvl_size - 1
       /\ hash.nvl \in 0 .. nvl_size * factor - 1

Placed ==
  \A s \in Rows :
    /\ stage[s] = "ib" => at[s] \div nvl_size = hash.ib
    /\ stage[s] = "done" =>
         /\ at[s] = (hash.nvl % nvl_size) + hash.ib * nvl_size
         /\ batch[s] = IF nvl_size = 1 THEN 0 ELSE hash.nvl \div nvl_size

RowsInv == TypeOK /\ Begun /\ Placed

\* The inductive invariant holds before distributed_inner_join is called.
LEMMA PlacementInitInv == PlacementInit => RowsInv
BY SizeAssumption, DomainAssumption, BatchesAssumption
   DEF PlacementInit, RowsInv, TypeOK, Begun, Placed

\* What a row's step needs to know.
LEMMA Facts ==
  ASSUME RowsInv, nvl_size # 0
  PROVE  /\ mpi_size \in Nat \ {0} /\ factor \in Nat \ {0}
         /\ nvl_size \in 1 .. mpi_size /\ nvl_size \in Nat \ {0} /\ Divides(nvl_size, mpi_size)
         /\ hash.ib \in 0 .. mpi_size \div nvl_size - 1
         /\ hash.nvl \in Nat /\ hash.nvl \in 0 .. factor * nvl_size - 1
         /\ \A s \in Rows : at[s] \in 0 .. mpi_size - 1
<1>1. mpi_size \in Nat \ {0} /\ factor \in Nat \ {0} /\ \A s \in Rows : at[s] \in 0 .. mpi_size - 1
  BY SizeAssumption, BatchesAssumption DEF RowsInv, TypeOK
<1>2. /\ nvl_size \in 1 .. mpi_size /\ Divides(nvl_size, mpi_size)
      /\ hash.ib \in 0 .. mpi_size \div nvl_size - 1
      /\ hash.nvl \in 0 .. nvl_size * factor - 1
  BY DEF RowsInv, Begun
<1>3. nvl_size \in Nat \ {0}
  BY <1>1, <1>2
<1>4. nvl_size * factor = factor * nvl_size /\ nvl_size * factor \in Nat
  BY <1>1, <1>3, SMT
<1>5. QED
  BY <1>1, <1>2, <1>3, <1>4

\* Beginning the call chooses nvl and the hashes; no row has moved yet.
LEMMA BeginIInv ==
  ASSUME RowsInv, Begin
  PROVE  RowsInv'
<1>1. mpi_size \in Nat \ {0} /\ domain \in Nat /\ factor \in Nat \ {0}
  BY SizeAssumption, DomainAssumption, BatchesAssumption DEF RowsInv, TypeOK
<1>2. nvl_size' \in 1 .. mpi_size /\ Divides(nvl_size', mpi_size)
  BY <1>1, NvlDivides DEF Begin
<1>3. PICK i \in 0 .. mpi_size \div nvl_size' - 1, j \in 0 .. nvl_size' * factor - 1 :
        hash' = [ib |-> i, nvl |-> j]
  BY DEF Begin
<1>4. i \in Nat /\ j \in Nat
  <2>1. mpi_size \div nvl_size' \in Nat
    BY <1>1, <1>2, Blocks
  <2>2. nvl_size' * factor \in Nat
    <3>1. \A x, y \in Nat : x * y \in Nat
      BY SMT
    <3>2. nvl_size' \in Nat
      BY <1>1, <1>2
    <3>3. QED
      BY <1>1, <3>1, <3>2
  <2>3. QED
    BY <2>1, <2>2
<1>5. UNCHANGED <<mpi_size, domain, factor, at, batch, stage>> /\ nvl_size = 0
  BY DEF Begin
<1>6. TypeOK'
  BY <1>1, <1>2, <1>3, <1>4, <1>5 DEF RowsInv, TypeOK
<1>7. Begun'
  <2>1. nvl_size' # 0 /\ hash'.ib = i /\ hash'.nvl = j /\ mpi_size' = mpi_size /\ factor' = factor
    BY <1>1, <1>2, <1>3, <1>5
  <2>2. /\ nvl_size' \in 1 .. mpi_size' /\ Divides(nvl_size', mpi_size')
        /\ hash'.ib \in 0 .. mpi_size' \div nvl_size' - 1
        /\ hash'.nvl \in 0 .. nvl_size' * factor' - 1
    BY <1>2, <2>1, Zenon
  <2>3. QED
    BY <2>1, <2>2, Zenon DEF Begun
<1>8. Placed'
  BY <1>5 DEF RowsInv, Begun, Placed
<1>9. QED
  BY <1>6, <1>7, <1>8 DEF RowsInv

\* A step of one row that leaves the arguments and the hashes alone.
LEMMA RowStep ==
  ASSUME RowsInv, nvl_size # 0, NEW s \in Rows,
         UNCHANGED <<mpi_size, domain, factor, nvl_size, hash>>,
         NEW a \in 0 .. mpi_size - 1, NEW b \in -1 .. factor - 1,
         NEW g \in {"ib", "done"},
         at' = [at EXCEPT ![s] = a], batch' = [batch EXCEPT ![s] = b],
         stage' = [stage EXCEPT ![s] = g],
         g = "ib" => a \div nvl_size = hash.ib,
         g = "done" => /\ a = (hash.nvl % nvl_size) + hash.ib * nvl_size
                       /\ b = IF nvl_size = 1 THEN 0 ELSE hash.nvl \div nvl_size
  PROVE  RowsInv'
<1>1. TypeOK'
  BY DEF RowsInv, TypeOK
<1>2. Begun'
  BY DEF RowsInv, Begun
<1>3. ASSUME NEW t \in Rows
      PROVE  /\ stage'[t] = "ib" => at'[t] \div nvl_size = hash.ib
             /\ stage'[t] = "done" =>
                  /\ at'[t] = (hash.nvl % nvl_size) + hash.ib * nvl_size
                  /\ batch'[t] = IF nvl_size = 1 THEN 0 ELSE hash.nvl \div nvl_size
  <2>1. CASE t = s
    BY <2>1 DEF RowsInv, TypeOK
  <2>2. CASE t # s
    <3>1. stage'[t] = stage[t] /\ at'[t] = at[t] /\ batch'[t] = batch[t]
      BY <2>2 DEF RowsInv, TypeOK
    <3>2. QED
      BY <3>1 DEF RowsInv, Placed
  <2>3. QED
    BY <2>1, <2>2
<1>4. Placed'
  BY <1>3 DEF Placed
<1>5. QED
  BY <1>1, <1>2, <1>4 DEF RowsInv

\* Every step of the join's shuffles preserves the inductive invariant.
LEMMA PlacementNextInv == RowsInv /\ [PlacementNext]_journey => RowsInv'
<1> SUFFICES ASSUME RowsInv, [PlacementNext]_journey PROVE RowsInv'
  OBVIOUS
<1>1. CASE Begin
  BY <1>1, BeginIInv
<1>2. ASSUME NEW s \in Rows, ShuffleIb(s) PROVE RowsInv'
  <2> DEFINE a == GetGlobalRank(at[s], mpi_size, nvl_size, hash.ib)
  <2>1. a \in 0 .. mpi_size - 1 /\ a \div nvl_size = hash.ib
    BY <1>2, Facts, MoveIb DEF ShuffleIb
  <2>2. batch[s] \in -1 .. factor - 1 /\ batch' = [batch EXCEPT ![s] = batch[s]]
    BY <1>2 DEF RowsInv, TypeOK, ShuffleIb
  <2>3. /\ nvl_size # 0 /\ UNCHANGED <<mpi_size, domain, factor, nvl_size, hash>>
        /\ at' = [at EXCEPT ![s] = a] /\ stage' = [stage EXCEPT ![s] = "ib"]
    BY <1>2 DEF ShuffleIb
  <2> HIDE DEF a
  <2>4. QED
    BY <2>1, <2>2, <2>3, RowStep
<1>3. ASSUME NEW s \in Rows, SkipIb(s) PROVE RowsInv'
  <2>1. at[s] \div nvl_size = hash.ib
    <3>1. nvl_size = mpi_size /\ nvl_size # 0
      BY <1>3 DEF SkipIb
    <3>2. nvl_size \in Nat \ {0} /\ at[s] \in 0 .. nvl_size - 1 /\ hash.ib \in 0 .. nvl_size \div nvl_size - 1
      BY <3>1, Facts
    <3>3. nvl_size \div nvl_size = 1
      BY <3>2, SMT
    <3>4. at[s] \div nvl_size = 0
      BY <3>2, SmallQuotient
    <3>5. QED
      BY <3>2, <3>3, <3>4
  <2>2. /\ at[s] \in 0 .. mpi_size - 1 /\ at' = [at EXCEPT ![s] = at[s]]
        /\ batch[s] \in -1 .. factor - 1 /\ batch' = [batch EXCEPT ![s] = batch[s]]
    BY <1>3 DEF RowsInv, TypeOK, SkipIb
  <2>3. /\ nvl_size # 0 /\ UNCHANGED <<mpi_size, domain, factor, nvl_size, hash>>
        /\ stage' = [stage EXCEPT ![s] = "ib"]
    BY <1>3 DEF SkipIb
  <2>4. QED
    BY <2>1, <2>2, <2>3, RowStep
<1>4. ASSUME NEW s \in Rows, JoinHere(s) PROVE RowsInv'
  <2>1. nvl_size = 1 /\ stage[s] = "ib"
    BY <1>4 DEF JoinHere
  <2>2. at[s] \div 1 = hash.ib
    BY <2>1 DEF RowsInv, Placed
  <2>3. at[s] = (hash.nvl % nvl_size) + hash.ib * nvl_size
    <3>1. at[s] \in Nat /\ hash.nvl \in Nat
      BY <2>1, Facts
    <3>2. hash.nvl % 1 = 0 /\ at[s] \div 1 = at[s]
      BY <3>1, SMT
    <3>3. QED
      BY <2>1, <2>2, <3>1, <3>2
  <2>4. at[s] \in 0 .. mpi_size - 1 /\ at' = [at EXCEPT ![s] = at[s]]
    BY <1>4 DEF RowsInv, TypeOK, JoinHere
  <2>5. 0 \in -1 .. factor - 1
    BY <2>1, Facts
  <2>6. /\ nvl_size # 0 /\ UNCHANGED <<mpi_size, domain, factor, nvl_size, hash>>
        /\ batch' = [batch EXCEPT ![s] = 0] /\ stage' = [stage EXCEPT ![s] = "done"]
    BY <1>4 DEF JoinHere
  <2>7. QED
    BY <2>1, <2>3, <2>4, <2>5, <2>6, RowStep
<1>5. ASSUME NEW s \in Rows, ShuffleNvl(s) PROVE RowsInv'
  <2> DEFINE a == GetGlobalRank(at[s], nvl_size, 1, hash.nvl % nvl_size)
             b == hash.nvl \div nvl_size
  <2>1. /\ nvl_size # 0 /\ nvl_size # 1 /\ UNCHANGED <<mpi_size, domain, factor, nvl_size, hash>>
        /\ at' = [at EXCEPT ![s] = a] /\ batch' = [batch EXCEPT ![s] = b]
        /\ stage' = [stage EXCEPT ![s] = "done"]
    BY <1>5 DEF ShuffleNvl, RowsInv, TypeOK
  <2>2. at[s] \div nvl_size = hash.ib
    BY <1>5 DEF RowsInv, Placed, ShuffleNvl
  <2>3. hash.nvl % nvl_size \in 0 .. nvl_size - 1
    BY <2>1, Facts, DivMod
  <2>4. a \in 0 .. mpi_size - 1 /\ a = (hash.nvl % nvl_size) + (at[s] \div nvl_size) * nvl_size
    BY <2>1, <2>3, Facts, MoveNvl
  <2>5. b \in 0 .. factor - 1
    BY <2>1, Facts, QuotientBound
  <2>6. b \in -1 .. factor - 1
    BY <2>1, <2>5, Facts
  <2> HIDE DEF a
  <2>7. a = (hash.nvl % nvl_size) + hash.ib * nvl_size
    BY <2>2, <2>4
  <2>8. QED
    BY <2>1, <2>4, <2>6, <2>7, RowStep
<1>6. CASE Settled \/ UNCHANGED journey
  BY <1>6 DEF Settled, journey, RowsInv, TypeOK, Begun, Placed
<1>7. QED
  BY <1>1, <1>2, <1>3, <1>4, <1>5, <1>6 DEF PlacementNext

\* The inductive invariant holds in every reachable state.
LEMMA PlacementInv == PlacementSpec => []RowsInv
<1>1. RowsInv /\ [PlacementNext]_journey => RowsInv'
  BY PlacementNextInv
<1>2. QED
  BY PlacementInitInv, <1>1, PTL DEF PlacementSpec

\* Rows stay on ranks that exist, batches below over_decom_factor: for every
\* mpi_size, nvlink_domain_size and over_decom_factor.
THEOREM TypeInvariant == PlacementSpec => []TypeOK
<1>1. RowsInv => TypeOK
  BY DEF RowsInv
<1>2. QED
  BY PlacementInv, <1>1, PTL

\* Rows with equal keys meet on one rank and in one batch of
\* distributed_inner_join, whatever its arguments and the hash functions.
THEOREM ColocatedInvariant == PlacementSpec => []Colocated
<1>1. RowsInv => Colocated
  BY DEF RowsInv, Placed, Colocated, Rows
<1>2. QED
  BY PlacementInv, <1>1, PTL

\* The CommunicationGroups of both stages are consistent for every size.
THEOREM GroupsInvariant == PlacementSpec => []GroupsConsistent
<1>1. ASSUME RowsInv PROVE GroupsConsistent
  <2>1. CASE nvl_size # 0
    BY <1>1, <2>1, Facts, BothConsistent DEF GroupsConsistent
  <2>2. QED
    BY <2>1 DEF GroupsConsistent
<1>2. QED
  BY PlacementInv, <1>1, PTL

(***************************************************************************)
(* The groups of the two stages of the join, on m ranks in domains of n.   *)
(***************************************************************************)
\* A rank is its domain and its position in it.
LEMMA Position ==
  ASSUME NEW n \in Nat \ {0}, NEW r \in Nat
  PROVE  /\ r \div n \in Nat /\ r % n \in 0 .. n - 1
         /\ (r \div n) * n \in Nat
         /\ r = (r % n) + (r \div n) * n
         /\ \A q \in Nat, b \in 0 .. n - 1 :
              r = b + q * n <=> (r \div n = q /\ r % n = b)
<1>1. r = (r \div n) * n + (r % n) /\ r % n \in 0 .. n - 1 /\ r \div n \in Nat
  BY DivMod
<1>2. \A x, y \in Nat : x * y \in Nat
  BY SMT
<1>3. (r \div n) * n \in Nat
  BY <1>1, <1>2
<1>4. r = (r % n) + (r \div n) * n
  BY <1>1, <1>3
<1>5. ASSUME NEW q \in Nat, NEW b \in 0 .. n - 1
      PROVE  r = b + q * n <=> (r \div n = q /\ r % n = b)
  <2>1. (b + q * n) \div n = q /\ (b + q * n) % n = b
    BY DivUnique
  <2>2. QED
    BY <1>4, <2>1, Zenon
<1>6. QED
  BY <1>1, <1>3, <1>4, <1>5

\* Adding blocks of n to a position stays below m.
LEMMA InBlocks ==
  ASSUME NEW m \in Nat \ {0}, NEW n \in 1 .. m, Divides(n, m)
  PROVE  /\ n \in Nat \ {0} /\ m \div n \in Nat \ {0}
         /\ \A r \in 0 .. m - 1 : r \in Nat /\ r \div n \in 0 .. m \div n - 1
         /\ \A i \in 0 .. m \div n - 1, b \in 0 .. n - 1 : b + i * n \in 0 .. m - 1
<1> DEFINE k == m \div n
<1>1. m = k * n /\ k \in Nat \ {0} /\ n \in Nat \ {0}
  BY Blocks
<1> HIDE DEF k
<1>2. ASSUME NEW r \in 0 .. m - 1 PROVE r \in Nat /\ r \div n \in 0 .. k - 1
  <2>1. r \in 0 .. k * n - 1
    BY <1>1, Zenon
  <2>2. r \div n \in 0 .. k - 1
    BY <1>1, <2>1, QuotientBound
  <2>3. QED
    BY <2>2
<1>3. ASSUME NEW i \in 0 .. k - 1, NEW b \in 0 .. n - 1
      PROVE  b + i * n \in 0 .. m - 1
  <2>1. b + i * n \in 0 .. k * n - 1
    BY <1>1, BlockBound
  <2>2. QED
    BY <1>1, <2>1, Zenon
<1>4. QED
  BY <1>1, <1>2, <1>3 DEF k

\* First stage: the ranks with the same position in their domain, by domain.
LEMMA MembersIb ==
  ASSUME NEW m \in Nat \ {0}, NEW n \in 1 .. m, Divides(n, m), NEW r \in 0 .. m - 1
  PROVE  /\ Members(r, m, n) = {s \in 0 .. m - 1 : s % n = r % n}
         /\ GetLocalIdx(r, m, n) = r \div n
<1>1. n \in Nat \ {0} /\ r \in Nat /\ m \div n \in Nat \ {0}
  BY InBlocks
<1>2. r \div n \in Nat /\ r % n \in 0 .. n - 1 /\ (r \div n) * n \in Nat
      /\ r = (r % n) + (r \div n) * n
  BY <1>1, Position
<1>3. GroupStart(r, m, n) = r % n
  <2>1. r \div m = 0
    BY SmallQuotient
  <2>2. 0 * m = 0
    BY SMT
  <2>3. QED
    BY <1>2, <2>1, <2>2 DEF GroupStart
<1>4. GetLocalIdx(r, m, n) = r \div n
  <2>1. r - (r % n) = 0 + (r \div n) * n
    BY <1>2
  <2>2. (0 + (r \div n) * n) \div n = r \div n
    <3>1. 0 \in 0 .. n - 1
      BY <1>1
    <3>2. QED
      BY <1>1, <1>2, <3>1, DivUnique
  <2>3. QED
    BY <1>3, <2>1, <2>2 DEF GetLocalIdx
<1>5. ASSUME NEW i \in 0 .. m \div n - 1
      PROVE  /\ GetGlobalRank(r, m, n, i) \in 0 .. m - 1
             /\ GetGlobalRank(r, m, n, i) % n = r % n
  <2>1. GetGlobalRank(r, m, n, i) = (r % n) + i * n
    BY <1>3 DEF GetGlobalRank
  <2>2. (r % n) + i * n \in 0 .. m - 1
    BY <1>2, InBlocks
  <2>3. i \in Nat
    BY <1>1
  <2>4. ((r % n) + i * n) % n = r % n
    BY <1>1, <1>2, <2>3, DivUnique
  <2>5. QED
    BY <2>1, <2>2, <2>4
<1>6. ASSUME NEW s \in 0 .. m - 1, s % n = r % n
      PROVE  \E i \in 0 .. m \div n - 1 : s = GetGlobalRank(r, m, n, i)
  <2>1. s \in Nat /\ s \div n \in 0 .. m \div n - 1
    BY InBlocks
  <2>2. s = (s % n) + (s \div n) * n
    BY <1>1, <2>1, Position
  <2>3. s = GetGlobalRank(r, m, n, s \div n)
    BY <1>3, <1>6, <2>2 DEF GetGlobalRank
  <2>4. QED
    BY <2>1, <2>3
<1>7. Members(r, m, n) = {GetGlobalRank(r, m, n, i) : i \in 0 .. m \div n - 1}
  BY DEF Members, GroupSize
<1>8. QED
  BY <1>4, <1>5, <1>6, <1>7, Zenon

\* Second stage: the ranks of the same domain, by position.
LEMMA MembersNvl ==
  ASSUME NEW m \in Nat \ {0}, NEW n \in 1 .. m, Divides(n, m), NEW r \in 0 .. m - 1
  PROVE  /\ Members(r, n, 1) = {s \in 0 .. m - 1 : s \div n = r \div n}
         /\ GetLocalIdx(r, n, 1) = r % n
<1>1. n \in Nat \ {0} /\ r \in Nat /\ r \div n \in 0 .. m \div n - 1
  BY InBlocks
<1>2. r \div n \in Nat /\ r % n \in 0 .. n - 1 /\ (r \div n) * n \in Nat
      /\ r = (r % n) + (r \div n) * n
  BY <1>1, Position
<1>3. GroupStart(r, n, 1) = (r \div n) * n
  <2>1. r % 1 = 0
    BY <1>1, SMT
  <2>2. QED
    BY <1>2, <2>1 DEF GroupStart
<1>4. GetLocalIdx(r, n, 1) = r % n
  <2>1. r - (r \div n) * n = r % n
    BY <1>2
  <2>2. (r % n) \div 1 = r % n
    <3>1. \A x \in Nat : x \div 1 = x
      BY SMT
    <3>2. r % n \in Nat
      BY <1>1, <1>2
    <3>3. QED
      BY <3>1, <3>2
  <2>3. QED
    BY <1>3, <2>1, <2>2 DEF GetLocalIdx
<1>5. ASSUME NEW i \in 0 .. n - 1
      PROVE  /\ GetGlobalRank(r, n, 1, i) = i + (r \div n) * n
             /\ GetGlobalRank(r, n, 1, i) \in 0 .. m - 1
             /\ GetGlobalRank(r, n, 1, i) \div n = r \div n
  <2>1. GetGlobalRank(r, n, 1, i) = i + (r \div n) * n
    <3>1. i * 1 = i
      BY <1>1
    <3>2. QED
      BY <1>1, <1>2, <1>3, <3>1 DEF GetGlobalRank
  <2>2. i + (r \div n) * n \in 0 .. m - 1
    BY <1>1, InBlocks
  <2>3. (i + (r \div n) * n) \div n = r \div n
    BY <1>1, <1>2, DivUnique
  <2>4. QED
    BY <2>1, <2>2, <2>3
<1>6. ASSUME NEW s \in 0 .. m - 1, s \div n = r \div n
      PROVE  \E i \in 0 .. n - 1 : s = GetGlobalRank(r, n, 1, i)
  <2>1. s \in Nat
    BY InBlocks
  <2>2. s = (s % n) + (s \div n) * n /\ s % n \in 0 .. n - 1
    BY <1>1, <2>1, Position
  <2>3. s = GetGlobalRank(r, n, 1, s % n)
    BY <1>5, <1>6, <2>2
  <2>4. QED
    BY <2>2, <2>3
<1>7. n \div 1 = n
  BY <1>1, SMT
<1>8. Members(r, n, 1) = {GetGlobalRank(r, n, 1, i) : i \in 0 .. n - 1}
  BY <1>7 DEF Members, GroupSize
<1>9. QED
  BY <1>4, <1>5, <1>6, <1>8, Zenon

(***************************************************************************)
(* The inductive invariant.                                                *)
(***************************************************************************)
Stages == {"ib", "nvl"}
Ops    == [stage : Stages, side : Sides, b : Batches]
AllRows == Whole("left") \cup Whole("right")
Messages == [op : Ops, rows : SUBSET AllRows]
Tables == [cols : BOOLEAN, rows : SUBSET (AllRows \X AllRows)]

\* The types of the variables and what the arguments are.
TypeInv ==
  /\ size \in 1 .. MaxN /\ nvl \in 1 .. size /\ Divides(nvl, size)
  /\ \A x \in AllRows : HashIb[x.key] \in Nat /\ Hash[x.key] \in Nat
  /\ table \in [Ranks -> [Sides -> SUBSET AllRows]]
  /\ pc \in [Ranks -> {"send", "recv", "partition", "flag", "join", "done", "thrown"}]
  /\ op \in [Ranks -> Ops]
  /\ chan \in [Ranks -> [Ranks -> Seq(Messages)]]
  /\ comm \in [Ranks -> [Sides -> [Batches -> SUBSET AllRows]]]
  /\ flags \in [Ranks -> [Batches -> BOOLEAN]]
  /\ jb \in [Ranks -> 0 .. Factor]
  /\ results \in [Ranks -> [Batches -> Tables]]
  /\ out \in [Ranks -> Tables]

\* Where in the program a rank can be.
ControlAt(r) ==
  /\ op[r].stage = "ib" =>
       /\ op[r].b = 0 /\ pc[r] \in {"send", "recv", "partition", "done"}
       /\ pc[r] = "done" => nvl = 1
       /\ pc[r] \in {"partition", "done"} => (nvl = size \/ op[r].side = "right")
  /\ op[r].stage = "nvl" =>
       /\ nvl # 1 /\ pc[r] # "partition"
       /\ pc[r] \in {"flag", "join", "done", "thrown"} => op[r].side = "right"
       /\ pc[r] \in {"join", "done", "thrown"} => op[r].b = Factor - 1
       /\ pc[r] \in {"done", "thrown"} => jb[r] = Factor

\* The communications of a stage have numbers; how many of them a rank has
\* sent, and how many it has completed.
Number(side, b) == 2 * b + (IF side = "left" THEN 0 ELSE 1)
Num(o) == Number(o.side, o.b)

SentOf(s, g) ==
  IF op[s].stage = g THEN Num(op[s]) + (IF pc[s] = "send" THEN 0 ELSE 1)
  ELSE IF g = "ib" THEN 2 ELSE 0

DoneOf(r, g) ==
  IF op[r].stage = g THEN Num(op[r]) + (IF pc[r] \in {"send", "recv"} THEN 0 ELSE 1)
  ELSE IF g = "ib" THEN 2 ELSE 0

\* The rows of rank r between the two stages.
Shuffled(side, r) ==
  UNION {Part(input[side][s], Op("ib", side, 0), r) : s \in Group(r, "ib")}

Source(g, side, r) == IF g = "ib" THEN input[side][r] ELSE Shuffled(side, r)

\* A channel holds exactly the communications its sender has sent and its
\* receiver has not completed, in order, each with the rows it should have.
ChanInv ==
  \A g \in Stages : \A r \in Ranks : \A s \in Group(r, g) \ {r} :
    /\ Len(chan[s][r]) = SentOf(s, g) - DoneOf(r, g)
    /\ \A k \in 1 .. Len(chan[s][r]) :
         LET m == chan[s][r][k] IN
         /\ m.op.stage = g /\ Num(m.op) = DoneOf(r, g) + k - 1
         /\ m.rows = Part(Source(g, m.op.side, s), m.op, r)

\* The table a rank works on: its input until the shuffle of that side has
\* completed, then the shuffled rows, until it is released.
TableAt(r) ==
  \A s \in Sides :
    pc[r] \notin {"join", "done", "thrown"} =>
      table[r][s] = IF op[r].stage = "ib" /\ pc[r] \in {"send", "recv"}
                       /\ (op[r].side = "left" \/ s = "right")
                    THEN input[s][r] ELSE Shuffled(s, r)

\* A batch is complete when its communication is; before, it has the rows
\* that stayed.
CommAt(r) ==
  \A s \in Sides, b \in Batches :
    op[r].stage = "nvl" =>
      comm[r][s][b] = IF Number(s, b) < DoneOf(r, "nvl") THEN WholeBatch(s, r, b)
                      ELSE Part(Shuffled(s, r), Op("nvl", s, b), r)

\* The join thread exists only in the second stage and is behind the flags,
\* and the flags are behind the communication.
BatchJoin(r, b) == LocalJoin(WholeBatch("left", r, b), WholeBatch("right", r, b))

JoinAt(r) ==
  \A b \in Batches :
    /\ flags[r][b] => op[r].stage = "nvl" /\ Number("right", b) < DoneOf(r, "nvl")
    /\ op[r].stage = "ib" => jb[r] = Factor /\ results[r][b] = NoTable
    /\ op[r].stage = "nvl" =>
         IF b < jb[r] THEN flags[r][b] /\ results[r][b] = BatchJoin(r, b)
         ELSE results[r][b] = NoTable

\* All rows of one side that belong to rank r: a rank that has returned has
\* returned their join.
HomeRows(s, r) == {x \in Whole(s) : Home(x.key) = r}

OutAt(r) ==
  pc[r] = "done" => out[r].rows = Matches(HomeRows("left", r), HomeRows("right", r))

RankAt(r) == ControlAt(r) /\ TableAt(r) /\ CommAt(r) /\ JoinAt(r) /\ OutAt(r)

IInv == TypeInv /\ ChanInv /\ \A r \in Ranks : RankAt(r)

(***************************************************************************)
(* Operators of the arguments only.                                        *)
(***************************************************************************)
\* No step changes the arguments, so everything computed from them stays.
LEMMA Frozen ==
  ASSUME UNCHANGED args
  PROVE  /\ Ranks' = Ranks /\ AllRows' = AllRows /\ Messages' = Messages /\ Tables' = Tables
         /\ \A r, g : Group(r, g)' = Group(r, g)
         /\ \A T, o, d : Part(T, o, d)' = Part(T, o, d)
         /\ \A s, r : Shuffled(s, r)' = Shuffled(s, r)
         /\ \A g, s, r : Source(g, s, r)' = Source(g, s, r)
         /\ \A s, r, b : WholeBatch(s, r, b)' = WholeBatch(s, r, b)
         /\ \A r, b : BatchJoin(r, b)' = BatchJoin(r, b)
         /\ \A s, r : HomeRows(s, r)' = HomeRows(s, r)
<1>1. size' = size /\ nvl' = nvl /\ input' = input
  BY DEF args
<1>2. Ranks' = Ranks
  BY <1>1 DEF Ranks
<1>3. \A s : Whole(s)' = Whole(s)
  BY <1>1, <1>2 DEF Whole
<1>4. \A r, g : Group(r, g)' = Group(r, g)
  BY <1>1 DEF Group, Grid, Stride
<1>5. \A T, o, d : Part(T, o, d)' = Part(T, o, d)
  BY <1>1 DEF Part, Grid, Stride
<1>6. \A s, r : Shuffled(s, r)' = Shuffled(s, r)
  BY <1>1, <1>4, <1>5 DEF Shuffled
<1>7. \A g, s, r : Source(g, s, r)' = Source(g, s, r)
  BY <1>1, <1>6 DEF Source
<1>8. \A s, r, b : WholeBatch(s, r, b)' = WholeBatch(s, r, b)
  BY <1>1, <1>3 DEF WholeBatch, Home, BatchOf
<1>9. \A s, r : HomeRows(s, r)' = HomeRows(s, r)
  BY <1>1, <1>3 DEF HomeRows, Home
<1>10. AllRows' = AllRows
  BY <1>3 DEF AllRows
<1>11. Messages' = Messages /\ Tables' = Tables
  BY <1>10 DEF Messages, Tables
<1>12. \A r, b : BatchJoin(r, b)' = BatchJoin(r, b)
  BY <1>8 DEF BatchJoin
<1>13. QED
  BY <1>2, <1>4, <1>5, <1>6, <1>7, <1>8, <1>9, <1>10, <1>11, <1>12

\* The sizes, as the arithmetic needs them.
LEMMA Cluster ==
  ASSUME TypeInv
  PROVE  /\ size \in Nat \ {0} /\ nvl \in 1 .. size /\ nvl \in Nat \ {0}
         /\ Divides(nvl, size) /\ size \div nvl \in Nat \ {0}
         /\ Factor \in Nat \ {0} /\ nvl * Factor \in Nat \ {0}
         /\ \A r \in Ranks : r \in Nat /\ r \div nvl \in 0 .. size \div nvl - 1
<1>1. size \in Nat \ {0} /\ nvl \in 1 .. size /\ Divides(nvl, size)
  BY NAssumption DEF TypeInv
<1>2. /\ nvl \in Nat \ {0} /\ size \div nvl \in Nat \ {0}
      /\ \A r \in Ranks : r \in Nat /\ r \div nvl \in 0 .. size \div nvl - 1
  BY <1>1, InBlocks DEF Ranks
<1>3. \A x, y \in Nat \ {0} : x * y \in Nat \ {0}
  BY SMT
<1>4. QED
  BY <1>1, <1>2, <1>3, FactorAssumption

\* Two different ranks are in one group of at most one of the two stages.
LEMMA Groups ==
  ASSUME TypeInv
  PROVE  /\ \A r \in Ranks : Group(r, "ib") = {s \in Ranks : s % nvl = r % nvl}
         /\ \A r \in Ranks : Group(r, "nvl") = {s \in Ranks : s \div nvl = r \div nvl}
         /\ \A r \in Ranks, g \in Stages : r \in Group(r, g) /\ Group(r, g) \subseteq Ranks
         /\ \A g \in Stages, r \in Ranks : \A s \in Group(r, g) : r \in Group(s, g)
         /\ \A r \in Ranks : \A s \in Group(r, "ib") : s \in Group(r, "nvl") => s = r
         /\ nvl = size => \A r \in Ranks : Group(r, "ib") = {r}
<1>1. \A r \in Ranks : Group(r, "ib") = {s \in Ranks : s % nvl = r % nvl}
  BY Cluster, MembersIb DEF Group, Grid, Stride, Ranks
<1>2. \A r \in Ranks : Group(r, "nvl") = {s \in Ranks : s \div nvl = r \div nvl}
  BY Cluster, MembersNvl DEF Group, Grid, Stride, Ranks
<1>3. \A r \in Ranks, g \in Stages : r \in Group(r, g) /\ Group(r, g) \subseteq Ranks
  BY <1>1, <1>2 DEF Stages
<1>4. \A g \in Stages, r \in Ranks : \A s \in Group(r, g) : r \in Group(s, g)
  BY <1>1, <1>2 DEF Stages
<1>5. ASSUME NEW r \in Ranks, NEW s \in Ranks, s % nvl = r % nvl, s \div nvl = r \div nvl
      PROVE  s = r
  <2>1. r = (r % nvl) + (r \div nvl) * nvl /\ s = (s % nvl) + (s \div nvl) * nvl
    BY Cluster, Position
  <2>2. QED
    BY <1>5, <2>1
<1>6. \A r \in Ranks : \A s \in Group(r, "ib") : s \in Group(r, "nvl") => s = r
  BY <1>1, <1>2, <1>5
<1>7. ASSUME nvl = size, NEW r \in Ranks PROVE Group(r, "ib") = {r}
  <2>1. \A s \in Ranks : s % nvl = s
    BY <1>7, Cluster, SmallQuotient DEF Ranks
  <2>2. QED
    BY <1>1, <2>1
<1>8. QED
  BY <1>1, <1>2, <1>3, <1>4, <1>6, <1>7

\* What Part selects: by the first hash and the domain, or by the second
\* hash and the position in the domain.
LEMMA Parts ==
  ASSUME TypeInv, NEW r \in Ranks, NEW s \in Sides, NEW b \in Batches
  PROVE  \A T, x :
           /\ x \in Part(T, Op("ib", s, 0), r) <=>
                x \in T /\ HashIb[x.key] % (size \div nvl) = r \div nvl
           /\ x \in Part(T, Op("nvl", s, b), r) <=>
                x \in T /\ Hash[x.key] % (nvl * Factor) = b * nvl + (r % nvl)
           /\ \A o : x \in Part(T, o, r) => x \in T
<1>1. GetLocalIdx(r, size, nvl) = r \div nvl /\ GetLocalIdx(r, nvl, 1) = r % nvl
  BY Cluster, MembersIb, MembersNvl DEF Ranks
<1>2. \A T, x : x \in Part(T, Op("ib", s, 0), r) <=>
                  x \in T /\ HashIb[x.key] % (size \div nvl) = r \div nvl
  BY <1>1 DEF Part, Op, Grid, Stride, HashPartition, GroupSize
<1>3. \A T, x : x \in Part(T, Op("nvl", s, b), r) <=>
                  x \in T /\ Hash[x.key] % (nvl * Factor) = b * nvl + (r % nvl)
  BY <1>1 DEF Part, Op, Grid, Stride, HashPartition
<1>4. \A T, x, o : x \in Part(T, o, r) => x \in T
  BY DEF Part, HashPartition
<1>5. QED
  BY <1>2, <1>3, <1>4, Zenon

\* Between the stages a rank has rows of the whole table: those of the ranks
\* in its first group whose first hash names its domain.
LEMMA ShuffledRows ==
  ASSUME TypeInv, NEW r \in Ranks, NEW s \in Sides
  PROVE  /\ \A x : x \in Shuffled(s, r) <=>
                     /\ HashIb[x.key] % (size \div nvl) = r \div nvl
                     /\ \E t \in Group(r, "ib") : x \in input[s][t]
         /\ Shuffled(s, r) \subseteq AllRows
<1>1. 0 \in Batches
  BY FactorAssumption DEF Batches
<1>2. \A t \in Group(r, "ib") : input[s][t] \subseteq AllRows
  <2>1. \A t \in Ranks : input[s][t] \subseteq AllRows
    BY DEF AllRows, Whole, Sides
  <2>2. QED
    BY <2>1, Groups DEF Stages
<1>3. \A T, x : x \in Part(T, Op("ib", s, 0), r) <=>
                  x \in T /\ HashIb[x.key] % (size \div nvl) = r \div nvl
  BY <1>1, Parts
<1>4. \A x : x \in Shuffled(s, r) <=>
               \E t \in Group(r, "ib") : x \in Part(input[s][t], Op("ib", s, 0), r)
  BY DEF Shuffled
<1>5. QED
  BY <1>2, <1>3, <1>4, Zenon

\* A single domain: nothing is shuffled.
LEMMA ShuffledAlone ==
  ASSUME TypeInv, nvl = size, NEW r \in Ranks, NEW s \in Sides
  PROVE  Shuffled(s, r) = input[s][r]
<1>1. size \div nvl = 1
  <2>1. \A x \in Nat \ {0} : x \div x = 1
    BY SMT
  <2>2. QED
    BY <2>1, Cluster
<1>2. \A x \in AllRows : HashIb[x.key] % 1 = 0
  <2>1. \A x \in Nat : x % 1 = 0
    BY SMT
  <2>2. QED
    BY <2>1 DEF TypeInv
<1>3. r \div nvl = 0
  BY Cluster, SmallQuotient DEF Ranks
<1>4. Group(r, "ib") = {r}
  BY Groups
<1>5. input[s][r] \subseteq AllRows
  BY DEF AllRows, Whole, Sides
<1>6. \A x : x \in Shuffled(s, r) <=>
               /\ HashIb[x.key] % (size \div nvl) = r \div nvl
               /\ \E t \in Group(r, "ib") : x \in input[s][t]
  BY ShuffledRows
<1>7. QED
  BY <1>1, <1>2, <1>3, <1>4, <1>5, <1>6

\* Where a row ends: on the rank and in the batch that its two hashes name.
LEMMA HomeFacts ==
  ASSUME TypeInv, NEW x \in AllRows
  PROVE  /\ Home(x.key) \in Ranks /\ BatchOf(x.key) \in Batches
         /\ \A r \in Ranks :
              Home(x.key) = r <=> /\ HashIb[x.key] % (size \div nvl) = r \div nvl
                                  /\ (Hash[x.key] % (nvl * Factor)) % nvl = r % nvl
         /\ \A r \in Ranks, b \in Batches :
              (Home(x.key) = r /\ BatchOf(x.key) = b) <=>
                 /\ HashIb[x.key] % (size \div nvl) = r \div nvl
                 /\ Hash[x.key] % (nvl * Factor) = b * nvl + (r % nvl)
<1> DEFINE i == HashIb[x.key] % (size \div nvl)
           j == Hash[x.key] % (nvl * Factor)
<1>1. i \in 0 .. size \div nvl - 1 /\ j \in 0 .. nvl * Factor - 1
  <2>1. HashIb[x.key] \in Nat /\ Hash[x.key] \in Nat
    BY DEF TypeInv
  <2>2. QED
    BY <2>1, Cluster, DivMod
<1>2. i \in Nat /\ j \in Nat
  BY <1>1, Cluster
<1>3. Home(x.key) = i * nvl + (j % nvl) /\ BatchOf(x.key) = j \div nvl
  BY DEF Home, BatchOf
<1> HIDE DEF i, j
<1>4. j % nvl \in 0 .. nvl - 1 /\ j \div nvl \in Nat
      /\ \A q \in Nat, b \in 0 .. nvl - 1 : j = b + q * nvl <=> (j \div nvl = q /\ j % nvl = b)
  BY <1>2, Cluster, Position
<1>5. i * nvl \in Nat /\ i * nvl + (j % nvl) = (j % nvl) + i * nvl
  <2>1. \A y, z \in Nat : y * z \in Nat
    BY SMT
  <2>2. i * nvl \in Nat
    BY <1>2, <2>1, Cluster
  <2>3. QED
    BY <1>4, <2>2, Cluster
<1>6. Home(x.key) \in Ranks
  <2>1. \A k \in 0 .. size \div nvl - 1, b \in 0 .. nvl - 1 : b + k * nvl \in 0 .. size - 1
    BY Cluster, InBlocks
  <2>2. (j % nvl) + i * nvl \in 0 .. size - 1
    BY <1>1, <1>4, <2>1
  <2>3. QED
    BY <1>3, <1>5, <2>2 DEF Ranks
<1>7. BatchOf(x.key) \in Batches
  <2>1. nvl * Factor = Factor * nvl
    BY Cluster, SMT
  <2>2. j \in 0 .. Factor * nvl - 1
    BY <1>1, <2>1
  <2>3. QED
    BY <1>3, <2>2, Cluster, QuotientBound DEF Batches
<1>8. ASSUME NEW r \in Ranks
      PROVE  Home(x.key) = r <=> i = r \div nvl /\ j % nvl = r % nvl
  <2>1. r \in Nat
    BY Cluster
  <2>2. r = (j % nvl) + i * nvl <=> (r \div nvl = i /\ r % nvl = j % nvl)
    <3>1. \A q \in Nat, b \in 0 .. nvl - 1 : r = b + q * nvl <=> (r \div nvl = q /\ r % nvl = b)
      BY <2>1, Cluster, Position
    <3>2. QED
      BY <1>2, <1>4, <3>1
  <2>3. QED
    BY <1>3, <1>5, <2>2
<1>9. ASSUME NEW r \in Ranks, NEW b \in Batches
      PROVE  (Home(x.key) = r /\ BatchOf(x.key) = b) <=> i = r \div nvl /\ j = b * nvl + (r % nvl)
  <2>1. b \in Nat /\ r % nvl \in 0 .. nvl - 1
    <3>1. r \in Nat /\ nvl \in Nat \ {0}
      BY Cluster
    <3>2. r % nvl \in 0 .. nvl - 1
      BY <3>1, Position
    <3>3. QED
      BY <3>2, FactorAssumption DEF Batches
  <2>2. b * nvl + (r % nvl) = (r % nvl) + b * nvl
    <3>1. \A y, z \in Nat : y * z \in Nat
      BY SMT
    <3>2. b * nvl \in Nat
      BY <2>1, <3>1, Cluster
    <3>3. QED
      BY <2>1, <3>2, Cluster
  <2>3. j = (r % nvl) + b * nvl <=> (j \div nvl = b /\ j % nvl = r % nvl)
    BY <1>4, <2>1
  <2>4. QED
    BY <1>3, <1>8, <2>2, <2>3
<1>10. QED
  BY <1>6, <1>7, <1>8, <1>9 DEF i, j

\* What a rank keeps and gets in the second stage is the whole batch: every
\* row was brought to the domain that its first hash names.
LEMMA BatchComplete ==
  ASSUME TypeInv, NEW r \in Ranks, NEW s \in Sides, NEW b \in Batches
  PROVE  UNION {Part(Shuffled(s, t), Op("nvl", s, b), r) : t \in Group(r, "nvl")}
           = WholeBatch(s, r, b)
<1> DEFINE U == UNION {Part(Shuffled(s, t), Op("nvl", s, b), r) : t \in Group(r, "nvl")}
           Here(x) == Hash[x.key] % (nvl * Factor) = b * nvl + (r % nvl)
           Near(x) == HashIb[x.key] % (size \div nvl) = r \div nvl
<1>1. Whole(s) \subseteq AllRows /\ \A x : x \in Whole(s) <=> \E t \in Ranks : x \in input[s][t]
  BY DEF Whole, AllRows, Sides
<1>2. \A x : x \in WholeBatch(s, r, b) <=> x \in Whole(s) /\ Near(x) /\ Here(x)
  BY <1>1, HomeFacts DEF WholeBatch
<1>3. \A x : x \in U <=> Here(x) /\ \E t \in Group(r, "nvl") : x \in Shuffled(s, t)
  <2>1. \A T, x : x \in Part(T, Op("nvl", s, b), r) <=> x \in T /\ Here(x)
    BY Parts
  <2>2. \A x : x \in U <=> \E t \in Group(r, "nvl") : x \in Part(Shuffled(s, t), Op("nvl", s, b), r)
    OBVIOUS
  <2>3. QED
    BY <2>1, <2>2, Zenon
<1>4. \A t \in Group(r, "nvl") : t \in Ranks /\ t \div nvl = r \div nvl
  BY Groups
<1>5. ASSUME NEW x \in U PROVE x \in WholeBatch(s, r, b)
  <2>1. PICK t \in Group(r, "nvl") : x \in Shuffled(s, t)
    BY <1>3
  <2>2. Near(x) /\ \E u \in Group(t, "ib") : x \in input[s][u]
    BY <1>4, <2>1, ShuffledRows
  <2>3. x \in Whole(s)
    BY <1>1, <1>4, <2>1, <2>2, Groups DEF Stages
  <2>4. QED
    BY <1>2, <1>3, <2>2, <2>3
<1>6. ASSUME NEW x \in WholeBatch(s, r, b) PROVE x \in U
  <2>1. PICK u \in Ranks : x \in input[s][u]
    BY <1>1, <1>2
  <2>2. PICK t \in Ranks : t % nvl = u % nvl /\ t \div nvl = r \div nvl
    <3> DEFINE t == (u % nvl) + (r \div nvl) * nvl
    <3>1. u % nvl \in 0 .. nvl - 1 /\ r \div nvl \in 0 .. size \div nvl - 1 /\ r \div nvl \in Nat
      BY Cluster, Position
    <3>2. t \in Ranks
      BY <3>1, Cluster, InBlocks DEF Ranks
    <3>3. t % nvl = u % nvl /\ t \div nvl = r \div nvl
      BY <3>1, Cluster, DivUnique
    <3>4. QED
      BY <3>2, <3>3
  <2>3. u \in Group(t, "ib") /\ t \in Group(r, "nvl")
    BY <2>2, Groups
  <2>4. x \in AllRows /\ Near(x)
    BY <1>1, <1>2
  <2>5. x \in Shuffled(s, t)
    BY <2>1, <2>2, <2>3, <2>4, ShuffledRows
  <2>6. QED
    BY <1>2, <1>3, <2>3, <2>5
<1>7. QED
  BY <1>5, <1>6

(***************************************************************************)
(* Channels.                                                               *)
(***************************************************************************)
\* The number tells a communication of a stage from the others.
LEMMA NumberUnique ==
  ASSUME NEW o \in Ops, NEW p \in Ops, o.stage = p.stage, Num(o) = Num(p)
  PROVE  o = p
<1>1. o.b \in Nat /\ p.b \in Nat /\ o.side \in {"left", "right"} /\ p.side \in {"left", "right"}
  BY FactorAssumption DEF Ops, Batches, Sides
<1>2. o.b = p.b /\ o.side = p.side
  BY <1>1 DEF Num, Number
<1>3. QED
  BY <1>2 DEF Ops

\* The counts are numbers.
LEMMA Counts ==
  ASSUME TypeInv, NEW r \in Ranks, NEW g \in Stages
  PROVE  /\ SentOf(r, g) \in Nat /\ DoneOf(r, g) \in Nat /\ Num(op[r]) \in Nat
         /\ op[r] \in Ops /\ op[r].stage \in Stages /\ op[r].side \in Sides /\ op[r].b \in Batches
<1>1. op[r] \in Ops
  BY DEF TypeInv
<1>2. op[r].stage \in Stages /\ op[r].side \in Sides /\ op[r].b \in Batches /\ op[r].b \in Nat
  BY <1>1, FactorAssumption DEF Ops, Batches
<1>3. Num(op[r]) \in Nat
  BY <1>2 DEF Num, Number
<1>4. QED
  BY <1>1, <1>2, <1>3 DEF SentOf, DoneOf

\* What a pair of ranks of one group can rely on.
LEMMA Channel ==
  ASSUME IInv, NEW g \in Stages, NEW r \in Ranks, NEW s \in Group(r, g) \ {r}
  PROVE  /\ s \in Ranks /\ chan[s][r] \in Seq(Messages)
         /\ Len(chan[s][r]) = SentOf(s, g) - DoneOf(r, g)
         /\ \A k \in 1 .. Len(chan[s][r]) :
              /\ chan[s][r][k].op \in Ops /\ chan[s][r][k].rows \subseteq AllRows
              /\ chan[s][r][k].op.stage = g
              /\ Num(chan[s][r][k].op) = DoneOf(r, g) + k - 1
              /\ chan[s][r][k].rows = Part(Source(g, chan[s][r][k].op.side, s), chan[s][r][k].op, r)
<1>1. s \in Ranks
  BY Groups DEF IInv
<1>2. chan[s][r] \in Seq(Messages)
  BY <1>1 DEF IInv, TypeInv
<1>3. \A k \in 1 .. Len(chan[s][r]) : chan[s][r][k] \in Messages
  BY <1>2
<1>4. \A k \in 1 .. Len(chan[s][r]) : chan[s][r][k].op \in Ops /\ chan[s][r][k].rows \subseteq AllRows
  BY <1>3 DEF Messages
<1>5. QED
  BY <1>1, <1>2, <1>4 DEF IInv, ChanInv

\* A rank that waits finds the message of its own communication first.
LEMMA HeadIsOwn ==
  ASSUME IInv, NEW r \in Ranks, pc[r] = "recv",
         NEW s \in Group(r, op[r].stage) \ {r}, chan[s][r] # <<>>
  PROVE  /\ s \in Ranks
         /\ Head(chan[s][r]).op = op[r]
         /\ Head(chan[s][r]).rows = Part(Source(op[r].stage, op[r].side, s), op[r], r)
         /\ Head(chan[s][r]).rows \subseteq AllRows
<1>1. TypeInv
  BY DEF IInv
<1>2. op[r].stage \in Stages /\ op[r] \in Ops /\ Num(op[r]) \in Nat
  BY <1>1, Counts DEF Stages
<1>3. Len(chan[s][r]) > 0 /\ Head(chan[s][r]) = chan[s][r][1] /\ 1 \in 1 .. Len(chan[s][r]) /\ s \in Ranks
  BY <1>2, Channel
<1>4. DoneOf(r, op[r].stage) = Num(op[r])
  BY <1>2 DEF DoneOf
<1>5. /\ chan[s][r][1].op \in Ops /\ chan[s][r][1].op.stage = op[r].stage
      /\ Num(chan[s][r][1].op) = DoneOf(r, op[r].stage) + 1 - 1
      /\ chan[s][r][1].rows
           = Part(Source(op[r].stage, chan[s][r][1].op.side, s), chan[s][r][1].op, r)
      /\ chan[s][r][1].rows \subseteq AllRows
  BY <1>2, <1>3, Channel
<1>6. Num(chan[s][r][1].op) = Num(op[r])
  BY <1>2, <1>4, <1>5
<1>7. chan[s][r][1].op = op[r]
  BY <1>2, <1>5, <1>6, NumberUnique
<1>8. QED
  BY <1>3, <1>5, <1>7

\* What arrives, with what stays, is the share of every member of the group.
LEMMA IncomingRows ==
  ASSUME IInv, NEW r \in Ranks, pc[r] = "recv", Arrived(r)
  PROVE  LET o == op[r] IN
         /\ Incoming(r) \subseteq AllRows
         /\ Part(Source(o.stage, o.side, r), o, r) \cup Incoming(r)
              = UNION {Part(Source(o.stage, o.side, s), o, r) : s \in Group(r, o.stage)}
<1>1. op[r].stage \in Stages /\ r \in Group(r, op[r].stage)
  BY Counts, Groups DEF IInv, Stages
<1>2. \A s \in Group(r, op[r].stage) \ {r} :
        /\ Head(chan[s][r]).rows = Part(Source(op[r].stage, op[r].side, s), op[r], r)
        /\ Head(chan[s][r]).rows \subseteq AllRows
  BY HeadIsOwn DEF Arrived
<1>3. \A x : x \in Incoming(r) <=>
               \E s \in Group(r, op[r].stage) \ {r} : x \in Head(chan[s][r]).rows
  BY DEF Incoming
<1>4. Incoming(r) \subseteq AllRows
  BY <1>2, <1>3
<1>5. \A x : x \in Part(Source(op[r].stage, op[r].side, r), op[r], r) \cup Incoming(r) <=>
               \E s \in Group(r, op[r].stage) : x \in Part(Source(op[r].stage, op[r].side, s), op[r], r)
  BY <1>1, <1>2, <1>3
<1>6. QED
  BY <1>4, <1>5

\* The channels after a rank has taken one message of every other member.
LEMMA Taken ==
  ASSUME IInv, NEW r \in Ranks, Arrived(r), TakeAll(r)
  PROVE  /\ chan' \in [Ranks -> [Ranks -> Seq(Messages)]]
         /\ \A s \in Group(r, op[r].stage) \ {r} :
              chan[s][r] # <<>> /\ chan'[s][r] = Tail(chan[s][r])
         /\ \A s, d \in Ranks :
              ~(d = r /\ s \in Group(r, op[r].stage) \ {r}) => chan'[s][d] = chan[s][d]
<1>1. \A s \in Group(r, op[r].stage) \ {r} : s \in Ranks
  BY Counts, Groups DEF IInv, Stages
<1>2. \A s, d \in Ranks : chan[s][d] \in Seq(Messages)
  BY DEF IInv, TypeInv
<1>3. \A s \in Group(r, op[r].stage) \ {r} :
        chan[s][r] # <<>> /\ Tail(chan[s][r]) \in Seq(Messages)
  BY <1>1, <1>2 DEF Arrived
<1>4. QED
  BY <1>1, <1>2, <1>3 DEF TakeAll

\* A step that moves no message and counts none keeps the channels right; in
\* a single domain the first stage has no channels.
LEMMA ChanSame ==
  ASSUME IInv, UNCHANGED <<args, chan>>,
         \A g \in Stages, s \in Ranks :
           (g = "ib" => nvl # size) =>
             SentOf(s, g)' = SentOf(s, g) /\ DoneOf(s, g)' = DoneOf(s, g)
  PROVE  ChanInv'
<1> SUFFICES ASSUME NEW g \in Stages, NEW r \in Ranks, NEW s \in Group(r, g) \ {r}
             PROVE  /\ Len(chan[s][r]) = SentOf(s, g)' - DoneOf(r, g)'
                    /\ \A k \in 1 .. Len(chan[s][r]) :
                         LET m == chan[s][r][k] IN
                         /\ m.op.stage = g /\ Num(m.op) = DoneOf(r, g)' + k - 1
                         /\ m.rows = Part(Source(g, m.op.side, s), m.op, r)
  BY Frozen DEF ChanInv
<1>1. s \in Ranks
  BY Channel
<1>2. g = "ib" => nvl # size
  BY Groups DEF IInv
<1>3. SentOf(s, g)' = SentOf(s, g) /\ DoneOf(r, g)' = DoneOf(r, g)
  BY <1>1, <1>2
<1>4. QED
  BY <1>3, Channel

\* A send adds the next communication at the end of every channel of its
\* stage.
LEMMA ChanSend ==
  ASSUME IInv, NEW r \in Ranks, Send(r)
  PROVE  /\ chan' \in [Ranks -> [Ranks -> Seq(Messages)]]
         /\ ChanInv'
<1> DEFINE o == op[r]
           M(d) == [op |-> o, rows |-> Part(table[r][o.side], o, d)]
<1>1. TypeInv /\ UNCHANGED args
  BY DEF IInv, Send, args
<1>2. o \in Ops /\ o.stage \in Stages /\ o.side \in Sides /\ Num(o) \in Nat
  BY <1>1, Counts DEF Stages
<1>3. \A d \in Group(r, o.stage) : d \in Ranks
  BY <1>1, <1>2, Groups
<1>4. \A s, d \in Ranks : chan[s][d] \in Seq(Messages)
  BY DEF IInv, TypeInv
<1>5. table[r][o.side] = Source(o.stage, o.side, r) /\ table[r][o.side] \subseteq AllRows
  <2>1. pc[r] = "send"
    BY DEF Send
  <2>2. table[r][o.side] \subseteq AllRows
    BY <1>2 DEF IInv, TypeInv
  <2>3. o.stage = "ib" \/ o.stage = "nvl"
    BY <1>2 DEF Stages
  <2>4. table[r][o.side] = IF o.stage = "ib" /\ (o.side = "left" \/ o.side = "right")
                           THEN input[o.side][r] ELSE Shuffled(o.side, r)
    BY <1>2, <2>1 DEF IInv, RankAt, TableAt
  <2>5. QED
    BY <1>2, <2>2, <2>3, <2>4 DEF Source, Sides
<1>6. \A d \in Ranks : M(d) \in Messages
  <2>1. ASSUME NEW d \in Ranks, NEW x \in Part(table[r][o.side], o, d)
        PROVE  x \in AllRows
    BY <1>5, <2>1 DEF Part, HashPartition
  <2>2. QED
    BY <1>2, <2>1 DEF Messages
<1> HIDE DEF M
<1>7. chan' = [chan EXCEPT ![r] =
                [d \in Ranks |-> IF d \in Group(r, o.stage) \ {r}
                                 THEN Append(chan[r][d], M(d)) ELSE chan[r][d]]]
  BY DEF Send, M
<1>8. chan \in [Ranks -> [Ranks -> Seq(Messages)]]
  BY DEF IInv, TypeInv
<1>9. chan' \in [Ranks -> [Ranks -> Seq(Messages)]]
  <2>1. \A d \in Ranks : Append(chan[r][d], M(d)) \in Seq(Messages)
    BY <1>4, <1>6
  <2>2. QED
    BY <1>4, <1>7, <1>8, <2>1
<1>10. /\ \A d \in Group(r, o.stage) \ {r} : chan'[r][d] = Append(chan[r][d], M(d))
      /\ \A s, d \in Ranks : ~(s = r /\ d \in Group(r, o.stage) \ {r}) => chan'[s][d] = chan[s][d]
  BY <1>3, <1>7, <1>8
<1>11. \A g \in Stages, s \in Ranks :
         /\ DoneOf(s, g)' = DoneOf(s, g)
         /\ SentOf(s, g)' = SentOf(s, g) + (IF s = r /\ g = o.stage THEN 1 ELSE 0)
  <2>1. /\ op' = op /\ pc' = [pc EXCEPT ![r] = "recv"] /\ pc[r] = "send"
        /\ pc \in [Ranks -> {"send", "recv", "partition", "flag", "join", "done", "thrown"}]
    BY DEF Send, IInv, TypeInv
  <2>2. \A g \in Stages, s \in Ranks : Num(op[s]) \in Nat /\ SentOf(s, g) \in Nat
    BY <1>1, Counts
  <2>3. QED
    BY <2>1, <2>2 DEF SentOf, DoneOf
<1>12. SentOf(r, o.stage) = Num(o)
  BY <1>2 DEF Send, SentOf
<1>13. ASSUME NEW g \in Stages, NEW d \in Ranks, NEW s \in Group(d, g) \ {d}
       PROVE  /\ Len(chan'[s][d]) = SentOf(s, g)' - DoneOf(d, g)'
              /\ \A k \in 1 .. Len(chan'[s][d]) :
                   LET m == chan'[s][d][k] IN
                   /\ m.op.stage = g /\ Num(m.op) = DoneOf(d, g)' + k - 1
                   /\ m.rows = Part(Source(g, m.op.side, s), m.op, d)
  <2>1. s \in Ranks
    BY Channel
  <2>2. /\ Len(chan[s][d]) = SentOf(s, g) - DoneOf(d, g)
        /\ \A k \in 1 .. Len(chan[s][d]) :
             /\ chan[s][d][k].op.stage = g
             /\ Num(chan[s][d][k].op) = DoneOf(d, g) + k - 1
             /\ chan[s][d][k].rows = Part(Source(g, chan[s][d][k].op.side, s), chan[s][d][k].op, d)
    BY Channel
  <2>3. SentOf(s, g) \in Nat /\ DoneOf(d, g) \in Nat
    BY <1>1, <2>1, Counts
  <2>4. CASE s = r /\ g = o.stage
    <3>1. d \in Group(r, o.stage) \ {r}
      BY <1>1, <2>4, Groups
    <3>2. chan'[s][d] = Append(chan[s][d], M(d)) /\ chan[s][d] \in Seq(Messages) /\ M(d) \in Messages
      BY <1>3, <1>4, <1>6, <1>10, <2>1, <2>4, <3>1
    <3>3. /\ Len(chan'[s][d]) = Len(chan[s][d]) + 1
          /\ \A k \in 1 .. Len(chan[s][d]) : chan'[s][d][k] = chan[s][d][k]
          /\ chan'[s][d][Len(chan[s][d]) + 1] = M(d)
      BY <3>2
    <3>4. Len(chan'[s][d]) = SentOf(s, g)' - DoneOf(d, g)'
      BY <1>11, <2>1, <2>4, <2>2, <2>3, <3>3
    <3>5. M(d).op = o /\ M(d).rows = Part(Source(g, o.side, s), o, d)
      BY <1>5, <2>4 DEF M
    <3>6. Num(o) = DoneOf(d, g) + (Len(chan[s][d]) + 1) - 1
      BY <1>2, <1>12, <2>4, <2>2, <2>3
    <3>7. ASSUME NEW k \in 1 .. Len(chan'[s][d])
          PROVE  LET m == chan'[s][d][k] IN
                 /\ m.op.stage = g /\ Num(m.op) = DoneOf(d, g)' + k - 1
                 /\ m.rows = Part(Source(g, m.op.side, s), m.op, d)
      <4>1. CASE k = Len(chan[s][d]) + 1
        BY <1>11, <2>4, <3>3, <3>5, <3>6, <4>1
      <4>2. CASE k \in 1 .. Len(chan[s][d])
        BY <1>11, <2>2, <3>3, <4>2
      <4>3. Len(chan[s][d]) \in Nat
        BY <3>2
      <4>4. QED
        BY <3>3, <4>1, <4>2, <4>3
    <3>8. QED
      BY <3>4, <3>7
  <2>5. CASE ~(s = r /\ g = o.stage)
    <3>1. ~(s = r /\ d \in Group(r, o.stage) \ {r})
      <4>1. ASSUME s = r, d \in Group(r, o.stage) PROVE FALSE
        <5>1. d \in Group(r, g)
          BY <1>1, <4>1, Groups
        <5>2. d = r
          BY <1>1, <1>2, <2>5, <4>1, <5>1, Groups DEF Stages
        <5>3. QED
          BY <4>1, <5>2
      <4>2. QED
        BY <4>1
    <3>2. chan'[s][d] = chan[s][d]
      BY <1>10, <2>1, <3>1
    <3>3. SentOf(s, g)' = SentOf(s, g) /\ DoneOf(d, g)' = DoneOf(d, g)
      BY <1>11, <2>1, <2>5, <2>3
    <3>4. QED
      BY <2>2, <3>2, <3>3
  <2>6. QED
    BY <2>4, <2>5
<1>14. ChanInv'
  BY <1>1, <1>13, Frozen DEF ChanInv
<1>15. QED
  BY <1>9, <1>14

\* A completed receive takes the first communication off every channel of its
\* stage that leads to the rank.
LEMMA ChanTake ==
  ASSUME IInv, NEW r \in Ranks, Arrived(r), TakeAll(r), UNCHANGED args,
         \A g \in Stages, s \in Ranks :
           /\ SentOf(s, g)' = SentOf(s, g)
           /\ DoneOf(s, g)' = DoneOf(s, g) + (IF s = r /\ g = op[r].stage THEN 1 ELSE 0)
  PROVE  ChanInv'
<1>1. TypeInv
  BY DEF IInv
<1>2. ASSUME NEW g \in Stages, NEW d \in Ranks, NEW s \in Group(d, g) \ {d}
      PROVE  /\ Len(chan'[s][d]) = SentOf(s, g)' - DoneOf(d, g)'
             /\ \A k \in 1 .. Len(chan'[s][d]) :
                  LET m == chan'[s][d][k] IN
                  /\ m.op.stage = g /\ Num(m.op) = DoneOf(d, g)' + k - 1
                  /\ m.rows = Part(Source(g, m.op.side, s), m.op, d)
  <2>1. s \in Ranks /\ chan[s][d] \in Seq(Messages)
    BY Channel
  <2>2. /\ Len(chan[s][d]) = SentOf(s, g) - DoneOf(d, g)
        /\ \A k \in 1 .. Len(chan[s][d]) :
             /\ chan[s][d][k].op.stage = g
             /\ Num(chan[s][d][k].op) = DoneOf(d, g) + k - 1
             /\ chan[s][d][k].rows = Part(Source(g, chan[s][d][k].op.side, s), chan[s][d][k].op, d)
    BY Channel
  <2>3. SentOf(s, g) \in Nat /\ DoneOf(d, g) \in Nat
    BY <1>1, <2>1, Counts
  <2>4. CASE d = r /\ g = op[r].stage
    <3>1. chan[s][d] # <<>> /\ chan'[s][d] = Tail(chan[s][d])
      BY <2>4, Taken
    <3>2. /\ Len(chan'[s][d]) = Len(chan[s][d]) - 1
          /\ \A k \in 1 .. Len(chan'[s][d]) : chan'[s][d][k] = chan[s][d][k + 1]
                                              /\ k + 1 \in 1 .. Len(chan[s][d])
      BY <2>1, <3>1
    <3>3. DoneOf(d, g)' = DoneOf(d, g) + 1 /\ SentOf(s, g)' = SentOf(s, g)
      BY <2>1, <2>4
    <3>4. Len(chan'[s][d]) = SentOf(s, g)' - DoneOf(d, g)'
      BY <2>2, <2>3, <3>2, <3>3
    <3>5. ASSUME NEW k \in 1 .. Len(chan'[s][d])
          PROVE  LET m == chan'[s][d][k] IN
                 /\ m.op.stage = g /\ Num(m.op) = DoneOf(d, g)' + k - 1
                 /\ m.rows = Part(Source(g, m.op.side, s), m.op, d)
      <4>1. chan'[s][d][k] = chan[s][d][k + 1] /\ k + 1 \in 1 .. Len(chan[s][d]) /\ k \in Int
        BY <3>2
      <4>2. /\ chan[s][d][k + 1].op.stage = g
            /\ Num(chan[s][d][k + 1].op) = DoneOf(d, g) + (k + 1) - 1
            /\ chan[s][d][k + 1].rows
                 = Part(Source(g, chan[s][d][k + 1].op.side, s), chan[s][d][k + 1].op, d)
        BY <2>2, <4>1
      <4>3. DoneOf(d, g) + (k + 1) - 1 = DoneOf(d, g)' + k - 1
        BY <2>3, <3>3, <4>1
      <4>4. QED
        BY <4>1, <4>2, <4>3
    <3>6. QED
      BY <3>4, <3>5
  <2>5. CASE ~(d = r /\ g = op[r].stage)
    <3>1. ~(d = r /\ s \in Group(r, op[r].stage) \ {r})
      <4>1. ASSUME d = r, s \in Group(r, op[r].stage) PROVE FALSE
        <5>1. op[r].stage \in Stages
          BY <1>1, Counts DEF Stages
        <5>2. s = r
          BY <1>1, <2>5, <4>1, <5>1, Groups DEF Stages
        <5>3. QED
          BY <4>1, <5>2
      <4>2. QED
        BY <4>1
    <3>2. chan'[s][d] = chan[s][d]
      BY <2>1, <3>1, Taken
    <3>3. SentOf(s, g)' = SentOf(s, g) /\ DoneOf(d, g)' = DoneOf(d, g)
      BY <2>1, <2>5, <2>3
    <3>4. QED
      BY <2>2, <3>2, <3>3
  <2>6. QED
    BY <2>4, <2>5
<1>3. QED
  BY <1>2, Frozen DEF ChanInv

(***************************************************************************)
(* Steps.                                                                  *)
(***************************************************************************)
\* What a rank has depends on its own variables only.
LEMMA RankSame ==
  ASSUME UNCHANGED args, NEW t \in Ranks, RankAt(t),
         pc'[t] = pc[t], op'[t] = op[t], table'[t] = table[t], comm'[t] = comm[t],
         flags'[t] = flags[t], jb'[t] = jb[t], results'[t] = results[t], out'[t] = out[t]
  PROVE  RankAt(t)'
<1>1. size' = size /\ nvl' = nvl /\ input' = input
  BY DEF args
<1>2. ControlAt(t)'
  BY <1>1 DEF RankAt, ControlAt
<1>3. TableAt(t)'
  BY <1>1, Frozen DEF RankAt, TableAt
<1>4. DoneOf(t, "nvl")' = DoneOf(t, "nvl")
  BY DEF DoneOf
<1>5. CommAt(t)'
  BY <1>4, Frozen DEF RankAt, CommAt
<1>6. JoinAt(t)'
  BY <1>4, Frozen DEF RankAt, JoinAt
<1>7. OutAt(t)'
  BY Frozen DEF RankAt, OutAt
<1>8. QED
  BY <1>2, <1>3, <1>5, <1>6, <1>7 DEF RankAt

\* The types of a rank's variables.
LEMMA RankTypes ==
  ASSUME TypeInv, NEW r \in Ranks
  PROVE  /\ op[r] \in Ops /\ jb[r] \in 0 .. Factor /\ jb[r] \in Nat
         /\ pc[r] \in {"send", "recv", "partition", "flag", "join", "done", "thrown"}
         /\ \A s \in Sides : table[r][s] \subseteq AllRows
         /\ \A s \in Sides, b \in Batches : comm[r][s][b] \subseteq AllRows
         /\ \A b \in Batches : results[r][b] \in Tables
         /\ 0 \in Batches /\ Factor - 1 \in Batches /\ Factor \in Nat \ {0}
         /\ \A b \in Batches : b \in Nat
<1>1. 0 \in Batches /\ Factor - 1 \in Batches /\ Factor \in Nat \ {0} /\ \A b \in Batches : b \in Nat
  BY FactorAssumption DEF Batches
<1>2. jb[r] \in 0 .. Factor
  BY DEF TypeInv
<1>3. \A s \in Sides : table[r][s] \subseteq AllRows
  BY DEF TypeInv
<1>4. \A s \in Sides, b \in Batches : comm[r][s][b] \subseteq AllRows
  BY DEF TypeInv
<1>5. QED
  BY <1>1, <1>2, <1>3, <1>4 DEF TypeInv

\* A local join is a table of pairs of rows, and its rows are the matches.
LEMMA LocalJoinFacts ==
  ASSUME NEW L, NEW R
  PROVE  /\ LocalJoin(L, R).rows = Matches(L, R)
         /\ (L \subseteq AllRows /\ R \subseteq AllRows) => LocalJoin(L, R) \in Tables
         /\ NoTable \in Tables /\ NoTable.rows = {}
<1>1. (L = {} \/ R = {}) => Matches(L, R) = {}
  BY DEF Matches
<1>2. \A p \in Matches(L, R) : p \in L \X R
  BY DEF Matches
<1>3. NoTable \in Tables /\ NoTable.rows = {} /\ NoTable.cols = FALSE
  BY DEF NoTable, Tables
<1>4. LocalJoin(L, R) = IF L # {} /\ R # {} THEN [cols |-> TRUE, rows |-> Matches(L, R)] ELSE NoTable
  BY DEF LocalJoin
<1>5. LocalJoin(L, R).rows = Matches(L, R)
  BY <1>1, <1>3, <1>4
<1>6. ASSUME L \subseteq AllRows, R \subseteq AllRows PROVE LocalJoin(L, R) \in Tables
  <2>1. \A p \in L \X R : p \in AllRows \X AllRows
    BY <1>6
  <2>2. Matches(L, R) \subseteq AllRows \X AllRows
    BY <1>2, <2>1
  <2>3. QED
    BY <1>3, <1>4, <2>2 DEF Tables
<1>7. QED
  BY <1>3, <1>5, <1>6

\* The first half of a communication.
LEMMA SendStep ==
  ASSUME IInv, NEW r \in Ranks, Send(r)
  PROVE  IInv'
<1>1. /\ UNCHANGED <<args, table, op, comm, flags, jb, results, out>>
      /\ pc[r] = "send" /\ pc' = [pc EXCEPT ![r] = "recv"]
      /\ size' = size /\ nvl' = nvl /\ input' = input
  BY DEF Send, args
<1>2. TypeInv /\ RankAt(r) /\ pc \in [Ranks -> {"send", "recv", "partition", "flag", "join", "done", "thrown"}]
  BY DEF IInv, TypeInv
<1>3. chan' \in [Ranks -> [Ranks -> Seq(Messages)]] /\ ChanInv'
  BY ChanSend
<1>4. TypeInv'
  BY <1>1, <1>2, <1>3, Frozen DEF TypeInv
<1>5. pc'[r] = "recv" /\ \A t \in Ranks \ {r} : pc'[t] = pc[t]
  BY <1>1, <1>2
<1>6. ControlAt(r)' /\ TableAt(r)' /\ OutAt(r)'
  BY <1>1, <1>2, <1>5, Frozen DEF RankAt, ControlAt, TableAt, OutAt
<1>7. DoneOf(r, "nvl")' = DoneOf(r, "nvl")
  BY <1>1, <1>5 DEF DoneOf
<1>8. CommAt(r)' /\ JoinAt(r)'
  BY <1>1, <1>2, <1>7, Frozen DEF RankAt, CommAt, JoinAt
<1>9. RankAt(r)'
  BY <1>6, <1>8 DEF RankAt
<1>10. \A t \in Ranks \ {r} : RankAt(t)'
  BY <1>1, <1>5, RankSame DEF IInv
<1>11. QED
  BY <1>1, <1>3, <1>4, <1>9, <1>10, Frozen DEF IInv

PCs == {"send", "recv", "partition", "flag", "join", "done", "thrown"}

\* The shuffle between the domains of one table returns.
LEMMA RecvIbStep ==
  ASSUME IInv, NEW r \in Ranks, RecvIb(r)
  PROVE  IInv'
<1> DEFINE o == op[r]
           T == Part(table[r][o.side], o, r) \cup Incoming(r)
<1>1. /\ UNCHANGED <<args, comm, flags, jb, results, out>>
      /\ pc[r] = "recv" /\ o.stage = "ib" /\ Arrived(r) /\ TakeAll(r)
      /\ size' = size /\ nvl' = nvl /\ input' = input
      /\ table' = [table EXCEPT ![r][o.side] = T]
  BY DEF RecvIb, args, Keep
<1>2. TypeInv /\ RankAt(r) /\ op \in [Ranks -> Ops] /\ pc \in [Ranks -> PCs]
      /\ table \in [Ranks -> [Sides -> SUBSET AllRows]]
  BY DEF IInv, TypeInv, PCs
<1>3. o \in Ops /\ o.side \in Sides /\ o.b = 0 /\ o = Op("ib", o.side, 0)
  BY <1>1, <1>2 DEF RankAt, ControlAt, Op, Ops
<1>4. table[r][o.side] = input[o.side][r]
  <2>1. o.side = "left" \/ o.side = "right"
    BY <1>3 DEF Sides
  <2>2. QED
    BY <1>1, <1>2, <1>3, <2>1 DEF RankAt, TableAt
<1>5. T = Shuffled(o.side, r)
  <2>1. \A s : Source("ib", o.side, s) = input[o.side][s]
    BY DEF Source
  <2>2. /\ Incoming(r) \subseteq AllRows
        /\ Part(Source("ib", o.side, r), o, r) \cup Incoming(r)
              = UNION {Part(Source("ib", o.side, s), o, r) : s \in Group(r, "ib")}
    BY <1>1, IncomingRows
  <2>3. QED
    BY <1>3, <1>4, <2>1, <2>2 DEF Shuffled
<1>6. Shuffled(o.side, r) \subseteq AllRows
  BY <1>2, <1>3, ShuffledRows
<1> HIDE DEF T
<1>7. /\ table' \in [Ranks -> [Sides -> SUBSET AllRows]]
      /\ table'[r][o.side] = Shuffled(o.side, r)
      /\ \A s \in Sides \ {o.side} : table'[r][s] = table[r][s]
      /\ \A t \in Ranks \ {r} : table'[t] = table[t]
  BY <1>1, <1>2, <1>3, <1>5, <1>6
<1>8. /\ op' \in [Ranks -> Ops] /\ pc' \in [Ranks -> PCs]
      /\ op'[r].stage = "ib" /\ op'[r].b = 0
      /\ o.side = "left" => op'[r].side = "right" /\ pc'[r] = "send"
      /\ o.side = "right" => op'[r].side = "right" /\ pc'[r] = "partition"
      /\ \A t \in Ranks \ {r} : op'[t] = op[t] /\ pc'[t] = pc[t]
  <2>1. CASE o.side = "left"
    <3>1. op' = [op EXCEPT ![r].side = "right"] /\ pc' = [pc EXCEPT ![r] = "send"]
      BY <2>1 DEF RecvIb
    <3>2. [o EXCEPT !.side = "right"] \in Ops
      BY <1>3 DEF Ops, Sides
    <3>3. QED
      BY <1>1, <1>2, <1>3, <2>1, <3>1, <3>2 DEF PCs, Ops
  <2>2. CASE o.side # "left"
    <3>1. op' = op /\ pc' = [pc EXCEPT ![r] = "partition"] /\ o.side = "right"
      BY <1>3, <2>2 DEF RecvIb, Sides
    <3>2. QED
      BY <1>1, <1>2, <1>3, <3>1 DEF PCs
  <2>3. QED
    BY <2>1, <2>2
<1>9. TypeInv'
  <2>1. chan' \in [Ranks -> [Ranks -> Seq(Messages)]]
    BY <1>1, Taken
  <2>2. QED
    BY <1>1, <1>2, <1>7, <1>8, <2>1, Frozen DEF TypeInv, PCs
<1>10. ChanInv'
  <2>1. ASSUME NEW g \in Stages, NEW s \in Ranks
        PROVE  /\ SentOf(s, g)' = SentOf(s, g)
               /\ DoneOf(s, g)' = DoneOf(s, g) + (IF s = r /\ g = o.stage THEN 1 ELSE 0)
    <3>1. DoneOf(s, g) \in Nat
      BY <1>2, Counts
    <3>2. CASE s # r
      BY <1>8, <3>1, <3>2 DEF SentOf, DoneOf
    <3>3. CASE s = r
      <4>1. o.side = "left" \/ o.side = "right"
        BY <1>3 DEF Sides
      <4>2. QED
        BY <1>1, <1>3, <1>8, <3>1, <3>3, <4>1 DEF SentOf, DoneOf, Num, Number, Stages
    <3>4. QED
      BY <3>2, <3>3
  <2>2. QED
    BY <1>1, <2>1, ChanTake
<1>11. RankAt(r)'
  <2>1. o.side = "left" \/ o.side = "right"
    BY <1>3 DEF Sides
  <2>2. ControlAt(r)'
    BY <1>8, <2>1 DEF ControlAt
  <2>3. TableAt(r)'
    <3>1. \A s \in Sides : (o.side = "right" /\ s = "left") => table[r][s] = Shuffled(s, r)
      BY <1>1, <1>2 DEF RankAt, TableAt
    <3>2. \A s \in Sides : (o.side = "left" /\ s = "right") => table[r][s] = input[s][r]
      BY <1>1, <1>2 DEF RankAt, TableAt
    <3>3. \A s \in Sides : s = "left" \/ s = "right"
      BY DEF Sides
    <3>4. ASSUME NEW s \in Sides
          PROVE  table'[r][s] = IF pc'[r] \in {"send", "recv"}
                                   /\ (op'[r].side = "left" \/ s = "right")
                                THEN input[s][r] ELSE Shuffled(s, r)
      BY <1>7, <1>8, <2>1, <3>1, <3>2, <3>3
    <3>5. QED
      BY <1>1, <1>8, <3>4, Frozen DEF TableAt
  <2>4. CommAt(r)'
    BY <1>8 DEF CommAt
  <2>5. JoinAt(r)'
    BY <1>1, <1>2, <1>8, Frozen DEF RankAt, JoinAt
  <2>6. OutAt(r)'
    BY <1>8, <2>1 DEF OutAt
  <2>7. QED
    BY <2>2, <2>3, <2>4, <2>5, <2>6 DEF RankAt
<1>12. \A t \in Ranks \ {r} : RankAt(t)'
  BY <1>1, <1>7, <1>8, RankSame DEF IInv
<1>13. QED
  BY <1>1, <1>9, <1>10, <1>11, <1>12, Frozen DEF IInv

\* With an NVLink stage of size 1 a rank has all rows that belong to it
\* after the first stage.
LEMMA HomeAfterIb ==
  ASSUME TypeInv, nvl = 1, NEW r \in Ranks, NEW s \in Sides
  PROVE  Shuffled(s, r) = HomeRows(s, r)
<1>1. \A y \in Nat : y % 1 = 0
  BY SMT
<1>2. Group(r, "ib") = Ranks
  <2>1. \A t \in Ranks : t % nvl = 0
    BY <1>1, Cluster
  <2>2. Group(r, "ib") = {t \in Ranks : t % nvl = r % nvl}
    BY Groups
  <2>3. QED
    BY <2>1, <2>2
<1>3. \A x : x \in Whole(s) <=> \E t \in Ranks : x \in input[s][t]
  BY DEF Whole
<1>4. \A x \in Whole(s) : x \in AllRows
  BY DEF AllRows, Sides
<1>5. \A x \in AllRows : Home(x.key) = r <=> HashIb[x.key] % (size \div nvl) = r \div nvl
  <2>1. \A x \in AllRows : (Hash[x.key] % (nvl * Factor)) % nvl = 0 /\ r % nvl = 0
    <3>1. \A x \in AllRows : Hash[x.key] % (nvl * Factor) \in Nat
      <4>1. \A x \in AllRows : Hash[x.key] \in Nat
        BY DEF TypeInv
      <4>2. nvl * Factor \in Nat \ {0}
        BY Cluster
      <4>3. \A y \in Nat, n \in Nat \ {0} : y % n \in Nat
        BY SMT
      <4>4. QED
        BY <4>1, <4>2, <4>3
    <3>2. QED
      BY <1>1, <3>1, Cluster
  <2>2. QED
    BY <2>1, HomeFacts
<1>6. \A x : x \in Shuffled(s, r) <=>
               /\ HashIb[x.key] % (size \div nvl) = r \div nvl
               /\ \E t \in Group(r, "ib") : x \in input[s][t]
  BY ShuffledRows
<1>7. \A x : x \in Shuffled(s, r) <=> x \in HomeRows(s, r)
  BY <1>2, <1>3, <1>4, <1>5, <1>6, Zenon DEF HomeRows
<1>8. QED
  BY <1>7

\* The local join is the result.
LEMMA JoinAtOnceStep ==
  ASSUME IInv, NEW r \in Ranks, JoinAtOnce(r)
  PROVE  IInv'
<1>1. /\ UNCHANGED <<args, table, op, chan, comm, flags, jb, results>>
      /\ pc[r] = "partition" /\ nvl = 1 /\ pc' = [pc EXCEPT ![r] = "done"]
      /\ out' = [out EXCEPT ![r] = LocalJoin(table[r].left, table[r].right)]
      /\ size' = size /\ nvl' = nvl /\ input' = input
  BY DEF JoinAtOnce, args
<1>2. TypeInv /\ RankAt(r) /\ pc \in [Ranks -> PCs] /\ out \in [Ranks -> Tables] /\ op[r] \in Ops
  BY DEF IInv, TypeInv, PCs
<1>3. op[r].stage = "ib" /\ (nvl = size \/ op[r].side = "right")
  BY <1>1, <1>2 DEF RankAt, ControlAt, Ops, Stages
<1>4. table[r].left = HomeRows("left", r) /\ table[r].right = HomeRows("right", r)
  <2>1. \A s \in Sides : table[r][s] = Shuffled(s, r)
    BY <1>1, <1>2 DEF RankAt, TableAt
  <2>2. \A s \in Sides : table[r][s] = HomeRows(s, r)
    BY <1>1, <1>2, <2>1, HomeAfterIb
  <2>3. QED
    BY <2>2 DEF Sides
<1>5. table[r].left \subseteq AllRows /\ table[r].right \subseteq AllRows
  BY <1>4 DEF HomeRows, AllRows
<1>6. /\ LocalJoin(table[r].left, table[r].right) \in Tables
      /\ LocalJoin(table[r].left, table[r].right).rows
           = Matches(HomeRows("left", r), HomeRows("right", r))
  BY <1>4, <1>5, LocalJoinFacts
<1>7. /\ pc' \in [Ranks -> PCs] /\ out' \in [Ranks -> Tables]
      /\ pc'[r] = "done" /\ out'[r] = LocalJoin(table[r].left, table[r].right)
      /\ \A t \in Ranks \ {r} : pc'[t] = pc[t] /\ out'[t] = out[t]
  BY <1>1, <1>2, <1>6 DEF PCs
<1>8. TypeInv'
  BY <1>1, <1>2, <1>7, Frozen DEF TypeInv, PCs
<1>9. ChanInv'
  <2>1. \A g \in Stages, s \in Ranks : SentOf(s, g)' = SentOf(s, g) /\ DoneOf(s, g)' = DoneOf(s, g)
    BY <1>1, <1>7 DEF SentOf, DoneOf
  <2>2. QED
    BY <1>1, <2>1, ChanSame
<1>10. RankAt(r)'
  <2>1. ControlAt(r)' /\ TableAt(r)' /\ CommAt(r)'
    BY <1>1, <1>2, <1>3, <1>7 DEF RankAt, ControlAt, TableAt, CommAt
  <2>2. JoinAt(r)'
    BY <1>1, <1>2, <1>3, <1>7, Frozen DEF RankAt, JoinAt
  <2>3. OutAt(r)'
    BY <1>1, <1>6, <1>7, Frozen DEF OutAt, Matches
  <2>4. QED
    BY <2>1, <2>2, <2>3 DEF RankAt
<1>11. \A t \in Ranks \ {r} : RankAt(t)'
  BY <1>1, <1>7, RankSame DEF IInv
<1>12. QED
  BY <1>1, <1>8, <1>9, <1>10, <1>11, Frozen DEF IInv

\* The second stage begins: the batches have the rows that stay.
LEMMA PartitionStep ==
  ASSUME IInv, NEW r \in Ranks, Partition(r)
  PROVE  IInv'
<1> DEFINE C == [s \in Sides |-> [b \in Batches |-> Part(table[r][s], Op("nvl", s, b), r)]]
<1>1. /\ UNCHANGED <<args, table, chan, flags, results, out>>
      /\ pc[r] = "partition" /\ nvl # 1 /\ pc' = [pc EXCEPT ![r] = "send"]
      /\ op' = [op EXCEPT ![r] = Op("nvl", "left", 0)]
      /\ jb' = [jb EXCEPT ![r] = 0]
      /\ comm' = [comm EXCEPT ![r] = C]
      /\ size' = size /\ nvl' = nvl /\ input' = input
  BY DEF Partition, args, Keep
<1>2. TypeInv /\ RankAt(r) /\ pc \in [Ranks -> PCs] /\ op \in [Ranks -> Ops] /\ op[r] \in Ops
      /\ jb \in [Ranks -> 0 .. Factor] /\ comm \in [Ranks -> [Sides -> [Batches -> SUBSET AllRows]]]
  BY DEF IInv, TypeInv, PCs
<1>3. op[r].stage = "ib" /\ op[r].b = 0 /\ (nvl = size \/ op[r].side = "right")
  BY <1>1, <1>2 DEF RankAt, ControlAt, Ops, Stages
<1>4. \A s \in Sides : table[r][s] = Shuffled(s, r) /\ table[r][s] \subseteq AllRows
  BY <1>1, <1>2, RankTypes DEF RankAt, TableAt
<1>5. C \in [Sides -> [Batches -> SUBSET AllRows]]
  <2>1. ASSUME NEW s \in Sides, NEW b \in Batches
        PROVE  Part(table[r][s], Op("nvl", s, b), r) \subseteq AllRows
    BY <1>4 DEF Part, HashPartition
  <2>2. QED
    BY <2>1
<1>6. Op("nvl", "left", 0) \in Ops /\ 0 \in 0 .. Factor
  BY FactorAssumption DEF Op, Ops, Stages, Sides, Batches
<1> HIDE DEF C
<1>7. /\ pc' \in [Ranks -> PCs] /\ op' \in [Ranks -> Ops] /\ jb' \in [Ranks -> 0 .. Factor]
      /\ comm' \in [Ranks -> [Sides -> [Batches -> SUBSET AllRows]]]
      /\ pc'[r] = "send" /\ op'[r] = Op("nvl", "left", 0) /\ jb'[r] = 0 /\ comm'[r] = C
      /\ \A t \in Ranks \ {r} : pc'[t] = pc[t] /\ op'[t] = op[t] /\ jb'[t] = jb[t] /\ comm'[t] = comm[t]
  BY <1>1, <1>2, <1>5, <1>6 DEF PCs
<1>8. TypeInv'
  BY <1>1, <1>2, <1>7, Frozen DEF TypeInv, PCs
<1>9. op'[r].stage = "nvl" /\ op'[r].side = "left" /\ op'[r].b = 0
  BY <1>7 DEF Op
<1>10. ChanInv'
  <2>1. ASSUME NEW g \in Stages, NEW s \in Ranks, g = "ib" => nvl # size
        PROVE  SentOf(s, g)' = SentOf(s, g) /\ DoneOf(s, g)' = DoneOf(s, g)
    <3>1. CASE s # r
      BY <1>7, <3>1 DEF SentOf, DoneOf
    <3>2. CASE s = r
      BY <1>1, <1>3, <1>7, <1>9, <2>1, <3>2 DEF SentOf, DoneOf, Num, Number, Stages
    <3>3. QED
      BY <3>1, <3>2
  <2>2. QED
    BY <1>1, <2>1, ChanSame
<1>11. RankAt(r)'
  <2>1. ControlAt(r)'
    BY <1>1, <1>7, <1>9 DEF ControlAt
  <2>2. TableAt(r)'
    BY <1>1, <1>4, <1>7, <1>9, Frozen DEF TableAt
  <2>3. CommAt(r)'
    <3>1. DoneOf(r, "nvl")' = 0
      BY <1>7, <1>9 DEF DoneOf, Num, Number
    <3>2. \A s \in Sides, b \in Batches : ~ (Number(s, b) < 0)
      BY FactorAssumption DEF Number, Batches
    <3>3. \A s \in Sides, b \in Batches : comm'[r][s][b] = Part(Shuffled(s, r), Op("nvl", s, b), r)
      BY <1>4, <1>7 DEF C
    <3>4. QED
      BY <1>1, <3>1, <3>2, <3>3, Frozen DEF CommAt
  <2>4. JoinAt(r)'
    <3>1. \A b \in Batches : ~ flags[r][b] /\ results[r][b] = NoTable /\ ~ (b < 0)
      BY <1>2, <1>3, RankTypes DEF RankAt, JoinAt
    <3>2. QED
      BY <1>1, <1>7, <1>9, <3>1 DEF JoinAt
  <2>5. OutAt(r)'
    BY <1>7 DEF OutAt
  <2>6. QED
    BY <2>1, <2>2, <2>3, <2>4, <2>5 DEF RankAt
<1>12. \A t \in Ranks \ {r} : RankAt(t)'
  BY <1>1, <1>7, RankSame DEF IInv
<1>13. QED
  BY <1>1, <1>8, <1>10, <1>11, <1>12, Frozen DEF IInv

\* The communication of one table of a batch returns: the batch is whole.
LEMMA RecvNvlStep ==
  ASSUME IInv, NEW r \in Ranks, RecvNvl(r)
  PROVE  IInv'
<1> DEFINE o == op[r]
           T == comm[r][o.side][o.b] \cup Incoming(r)
<1>1. /\ UNCHANGED <<args, table, flags, jb, results, out>>
      /\ pc[r] = "recv" /\ o.stage = "nvl" /\ Arrived(r) /\ TakeAll(r)
      /\ size' = size /\ nvl' = nvl /\ input' = input
      /\ comm' = [comm EXCEPT ![r][o.side][o.b] = T]
  BY DEF RecvNvl, args
<1>2. TypeInv /\ RankAt(r) /\ op \in [Ranks -> Ops] /\ pc \in [Ranks -> PCs]
      /\ comm \in [Ranks -> [Sides -> [Batches -> SUBSET AllRows]]]
  BY DEF IInv, TypeInv, PCs
<1>3. o \in Ops /\ o.side \in Sides /\ o.b \in Batches /\ o = Op("nvl", o.side, o.b) /\ o.b \in Nat
  BY <1>1, <1>2, FactorAssumption DEF Op, Ops, Batches
<1>4. DoneOf(r, "nvl") = Number(o.side, o.b) /\ Number(o.side, o.b) \in Nat
  BY <1>1, <1>3 DEF DoneOf, Num, Number
<1>5. T = WholeBatch(o.side, r, o.b)
  <2>1. comm[r][o.side][o.b] = Part(Shuffled(o.side, r), o, r)
    BY <1>1, <1>2, <1>3, <1>4 DEF RankAt, CommAt
  <2>2. \A s : Source("nvl", o.side, s) = Shuffled(o.side, s)
    BY DEF Source
  <2>3. Part(Source("nvl", o.side, r), o, r) \cup Incoming(r)
          = UNION {Part(Source("nvl", o.side, s), o, r) : s \in Group(r, "nvl")}
    BY <1>1, IncomingRows
  <2>4. UNION {Part(Shuffled(o.side, s), o, r) : s \in Group(r, "nvl")} = WholeBatch(o.side, r, o.b)
    BY <1>2, <1>3, BatchComplete
  <2>5. QED
    BY <2>1, <2>2, <2>3, <2>4
<1>6. WholeBatch(o.side, r, o.b) \subseteq AllRows
  BY <1>3 DEF WholeBatch, AllRows, Sides
<1> HIDE DEF T
<1>7. /\ comm' \in [Ranks -> [Sides -> [Batches -> SUBSET AllRows]]]
      /\ comm'[r][o.side][o.b] = WholeBatch(o.side, r, o.b)
      /\ \A s \in Sides, b \in Batches : (s # o.side \/ b # o.b) => comm'[r][s][b] = comm[r][s][b]
      /\ \A t \in Ranks \ {r} : comm'[t] = comm[t]
  BY <1>1, <1>2, <1>3, <1>5, <1>6
<1>8. /\ op' \in [Ranks -> Ops] /\ pc' \in [Ranks -> PCs]
      /\ op'[r].stage = "nvl" /\ op'[r].b = o.b
      /\ o.side = "left" => op'[r].side = "right" /\ pc'[r] = "send"
      /\ o.side = "right" => op'[r].side = "right" /\ pc'[r] = "flag"
      /\ \A t \in Ranks \ {r} : op'[t] = op[t] /\ pc'[t] = pc[t]
  <2>1. CASE o.side = "left"
    <3>1. op' = [op EXCEPT ![r].side = "right"] /\ pc' = [pc EXCEPT ![r] = "send"]
      BY <2>1 DEF RecvNvl
    <3>2. [o EXCEPT !.side = "right"] \in Ops
      BY <1>3 DEF Ops, Sides
    <3>3. QED
      BY <1>1, <1>2, <1>3, <2>1, <3>1, <3>2 DEF PCs, Ops
  <2>2. CASE o.side # "left"
    <3>1. op' = op /\ pc' = [pc EXCEPT ![r] = "flag"] /\ o.side = "right"
      BY <1>3, <2>2 DEF RecvNvl, Sides
    <3>2. QED
      BY <1>1, <1>2, <1>3, <3>1 DEF PCs
  <2>3. QED
    BY <2>1, <2>2
<1>9. o.side = "left" \/ o.side = "right"
  BY <1>3 DEF Sides
<1>10. TypeInv'
  <2>1. chan' \in [Ranks -> [Ranks -> Seq(Messages)]]
    BY <1>1, Taken
  <2>2. QED
    BY <1>1, <1>2, <1>7, <1>8, <2>1, Frozen DEF TypeInv, PCs
<1>11. ASSUME NEW g \in Stages, NEW s \in Ranks
      PROVE  /\ SentOf(s, g)' = SentOf(s, g)
             /\ DoneOf(s, g)' = DoneOf(s, g) + (IF s = r /\ g = o.stage THEN 1 ELSE 0)
  <2>1. DoneOf(s, g) \in Nat
    BY <1>2, Counts
  <2>2. CASE s # r
    BY <1>8, <2>1, <2>2 DEF SentOf, DoneOf
  <2>3. CASE s = r
    BY <1>1, <1>3, <1>8, <1>9, <2>1, <2>3 DEF SentOf, DoneOf, Num, Number, Stages
  <2>4. QED
    BY <2>2, <2>3
<1>12. ChanInv'
  BY <1>1, <1>11, ChanTake
<1>13. RankAt(r)'
  <2>1. DoneOf(r, "nvl")' = DoneOf(r, "nvl") + 1
    BY <1>1, <1>11 DEF Stages
  <2>2. ControlAt(r)'
    BY <1>1, <1>2, <1>8, <1>9 DEF RankAt, ControlAt
  <2>3. TableAt(r)'
    BY <1>1, <1>2, <1>8, <1>9, Frozen DEF RankAt, TableAt
  <2>4. CommAt(r)'
    <3>1. ASSUME NEW s \in Sides, NEW b \in Batches
          PROVE  comm'[r][s][b] = IF Number(s, b) < DoneOf(r, "nvl") + 1 THEN WholeBatch(s, r, b)
                                  ELSE Part(Shuffled(s, r), Op("nvl", s, b), r)
      <4>1. CASE s = o.side /\ b = o.b
        BY <1>4, <1>7, <4>1
      <4>2. CASE s # o.side \/ b # o.b
        <5>1. Number(s, b) # Number(o.side, o.b) /\ Number(s, b) \in Nat
          BY <1>3, <4>2, FactorAssumption DEF Number, Batches, Sides
        <5>2. comm'[r][s][b] = comm[r][s][b]
          BY <1>7, <4>2
        <5>3. comm[r][s][b] = IF Number(s, b) < DoneOf(r, "nvl") THEN WholeBatch(s, r, b)
                              ELSE Part(Shuffled(s, r), Op("nvl", s, b), r)
          BY <1>1, <1>2 DEF RankAt, CommAt
        <5>4. QED
          BY <1>4, <5>1, <5>2, <5>3
      <4>3. QED
        BY <4>1, <4>2
    <3>2. QED
      BY <1>1, <2>1, <3>1, Frozen DEF CommAt
  <2>5. JoinAt(r)'
    <3>1. \A b \in Batches : Number("right", b) \in Nat
      BY FactorAssumption DEF Number, Batches
    <3>2. \A b \in Batches : Number("right", b) < DoneOf(r, "nvl") => Number("right", b) < DoneOf(r, "nvl") + 1
      BY <1>4, <3>1
    <3>3. \A b \in Batches :
            /\ flags[r][b] => Number("right", b) < DoneOf(r, "nvl")
            /\ IF b < jb[r] THEN flags[r][b] /\ results[r][b] = BatchJoin(r, b)
               ELSE results[r][b] = NoTable
      BY <1>1, <1>2 DEF RankAt, JoinAt
    <3>4. QED
      BY <1>1, <1>8, <2>1, <3>2, <3>3, Frozen DEF JoinAt
  <2>6. OutAt(r)'
    BY <1>8, <1>9 DEF OutAt
  <2>7. QED
    BY <2>2, <2>3, <2>4, <2>5, <2>6 DEF RankAt
<1>14. \A t \in Ranks \ {r} : RankAt(t)'
  BY <1>1, <1>7, <1>8, RankSame DEF IInv
<1>15. QED
  BY <1>1, <1>10, <1>12, <1>13, <1>14, Frozen DEF IInv

\* A flag is set, and the next batch begins or the tables are released.
LEMMA SetFlagStep ==
  ASSUME IInv, NEW r \in Ranks, SetFlag(r)
  PROVE  IInv'
<1> DEFINE b == op[r].b
<1>1. /\ UNCHANGED <<args, chan, comm, jb, results, out>>
      /\ pc[r] = "flag" /\ flags' = [flags EXCEPT ![r][b] = TRUE]
      /\ size' = size /\ nvl' = nvl /\ input' = input
  BY DEF SetFlag, args
<1>2. TypeInv /\ RankAt(r) /\ op \in [Ranks -> Ops] /\ pc \in [Ranks -> PCs]
      /\ flags \in [Ranks -> [Batches -> BOOLEAN]]
      /\ table \in [Ranks -> [Sides -> SUBSET AllRows]]
  BY DEF IInv, TypeInv, PCs
<1>3. op[r] \in Ops /\ b \in Batches /\ b \in 0 .. Factor - 1 /\ b \in Nat /\ Factor \in Nat
  BY <1>2, FactorAssumption DEF Ops, Batches
<1>4. op[r].stage = "nvl" /\ op[r].side = "right" /\ nvl # 1
  BY <1>1, <1>2, <1>3 DEF RankAt, ControlAt, Ops, Stages
<1>5. /\ op' \in [Ranks -> Ops] /\ pc' \in [Ranks -> PCs]
      /\ table' \in [Ranks -> [Sides -> SUBSET AllRows]]
      /\ op'[r].stage = "nvl"
      /\ \/ pc'[r] = "send" /\ op'[r].side = "left" /\ op'[r].b = b + 1 /\ table' = table
         \/ pc'[r] = "join" /\ op'[r] = op[r] /\ b = Factor - 1
      /\ \A t \in Ranks \ {r} : op'[t] = op[t] /\ pc'[t] = pc[t] /\ table'[t] = table[t]
  <2>1. CASE ~LastBatch(b)
    <3>1. op' = [op EXCEPT ![r] = Op("nvl", "left", b + 1)] /\ pc' = [pc EXCEPT ![r] = "send"]
          /\ table' = table
      BY <2>1 DEF SetFlag
    <3>2. b + 1 \in 0 .. Factor - 1
      BY <1>3, <2>1 DEF LastBatch
    <3>3. Op("nvl", "left", b + 1) \in Ops
      BY <3>2 DEF Op, Ops, Stages, Sides, Batches
    <3>4. /\ Op("nvl", "left", b + 1).stage = "nvl" /\ Op("nvl", "left", b + 1).side = "left"
          /\ Op("nvl", "left", b + 1).b = b + 1
      BY DEF Op
    <3>5. QED
      BY <1>2, <3>1, <3>3, <3>4 DEF PCs
  <2>2. CASE LastBatch(b)
    <3>1. op' = op /\ pc' = [pc EXCEPT ![r] = "join"]
          /\ table' = [table EXCEPT ![r] = [s \in Sides |-> {}]]
      BY <2>2 DEF SetFlag
    <3>2. b = Factor - 1
      BY <1>3, <2>2 DEF LastBatch
    <3>3. [s \in Sides |-> {}] \in [Sides -> SUBSET AllRows]
      OBVIOUS
    <3>4. QED
      BY <1>2, <1>4, <3>1, <3>2, <3>3 DEF PCs
  <2>3. QED
    BY <2>1, <2>2
<1>6. /\ flags' \in [Ranks -> [Batches -> BOOLEAN]]
      /\ \A c \in Batches : flags'[r][c] <=> (c = b \/ flags[r][c])
      /\ \A t \in Ranks \ {r} : flags'[t] = flags[t]
  BY <1>1, <1>2, <1>3
<1>7. TypeInv'
  BY <1>1, <1>2, <1>5, <1>6, Frozen DEF TypeInv, PCs
<1>8. ASSUME NEW g \in Stages, NEW s \in Ranks
      PROVE  SentOf(s, g)' = SentOf(s, g) /\ DoneOf(s, g)' = DoneOf(s, g)
  <2>1. CASE s # r
    BY <1>5, <2>1 DEF SentOf, DoneOf
  <2>2. CASE s = r
    BY <1>1, <1>3, <1>4, <1>5, <2>2 DEF SentOf, DoneOf, Num, Number, Stages
  <2>3. QED
    BY <2>1, <2>2
<1>9. ChanInv'
  BY <1>1, <1>8, ChanSame
<1>10. RankAt(r)'
  <2>1. DoneOf(r, "nvl")' = DoneOf(r, "nvl") /\ DoneOf(r, "nvl") = Number("right", b) + 1
        /\ Number("right", b) \in Nat
    BY <1>1, <1>3, <1>4, <1>8 DEF Stages, DoneOf, Num, Number
  <2>2. ControlAt(r)'
    BY <1>1, <1>3, <1>4, <1>5 DEF ControlAt
  <2>3. TableAt(r)'
    <3>1. \A s \in Sides : table[r][s] = Shuffled(s, r)
      BY <1>1, <1>2, <1>4 DEF RankAt, TableAt
    <3>2. QED
      BY <1>1, <1>5, <3>1, Frozen DEF TableAt
  <2>4. CommAt(r)'
    BY <1>1, <1>2, <1>4, <1>5, <2>1, Frozen DEF RankAt, CommAt
  <2>5. JoinAt(r)'
    <3>1. \A c \in Batches :
            /\ flags[r][c] => Number("right", c) < DoneOf(r, "nvl")
            /\ IF c < jb[r] THEN flags[r][c] /\ results[r][c] = BatchJoin(r, c)
               ELSE results[r][c] = NoTable
      BY <1>2, <1>4 DEF RankAt, JoinAt
    <3>2. \A c \in Batches : flags'[r][c] => Number("right", c) < DoneOf(r, "nvl")
      BY <1>6, <2>1, <3>1
    <3>3. QED
      BY <1>1, <1>5, <1>6, <2>1, <3>1, <3>2, Frozen DEF JoinAt
  <2>6. OutAt(r)'
    BY <1>5 DEF OutAt
  <2>7. QED
    BY <2>2, <2>3, <2>4, <2>5, <2>6 DEF RankAt
<1>11. \A t \in Ranks \ {r} : RankAt(t)'
  BY <1>1, <1>5, <1>6, RankSame DEF IInv
<1>12. QED
  BY <1>1, <1>7, <1>9, <1>10, <1>11, Frozen DEF IInv

\* The join thread joins a whole batch, whatever the main thread does.
LEMMA JoinThreadStep ==
  ASSUME IInv, NEW r \in Ranks, JoinThread(r)
  PROVE  IInv'
<1> DEFINE b == jb[r]
           J == LocalJoin(comm[r].left[b], comm[r].right[b])
<1>1. /\ UNCHANGED <<args, table, pc, op, chan, comm, flags, out>>
      /\ b < Factor /\ flags[r][b] /\ jb' = [jb EXCEPT ![r] = b + 1]
      /\ results' = [results EXCEPT ![r][b] = J]
      /\ size' = size /\ nvl' = nvl /\ input' = input
  BY DEF JoinThread, args
<1>2. TypeInv /\ RankAt(r) /\ op[r] \in Ops /\ jb \in [Ranks -> 0 .. Factor]
      /\ results \in [Ranks -> [Batches -> Tables]]
  BY DEF IInv, TypeInv
<1>3. b \in Batches /\ b \in Nat /\ Factor \in Nat /\ b + 1 \in 0 .. Factor
  BY <1>1, <1>2, FactorAssumption DEF Batches
<1>4. op[r].stage = "nvl" /\ Number("right", b) < DoneOf(r, "nvl")
  BY <1>1, <1>2, <1>3 DEF RankAt, JoinAt
<1>5. comm[r]["left"][b] = WholeBatch("left", r, b) /\ comm[r]["right"][b] = WholeBatch("right", r, b)
  <2>1. Number("left", b) < DoneOf(r, "nvl")
    <3>1. DoneOf(r, "nvl") \in Nat
      BY <1>2, Counts DEF Stages
    <3>2. QED
      BY <1>3, <1>4, <3>1 DEF Number
  <2>2. QED
    BY <1>2, <1>3, <1>4, <2>1 DEF RankAt, CommAt, Sides
<1>6. J = BatchJoin(r, b) /\ J \in Tables
  <2>1. J = BatchJoin(r, b)
    BY <1>5 DEF BatchJoin
  <2>2. WholeBatch("left", r, b) \subseteq AllRows /\ WholeBatch("right", r, b) \subseteq AllRows
    BY DEF WholeBatch, AllRows
  <2>3. QED
    BY <2>1, <2>2, LocalJoinFacts DEF BatchJoin
<1> HIDE DEF J
<1>7. /\ jb' \in [Ranks -> 0 .. Factor] /\ results' \in [Ranks -> [Batches -> Tables]]
      /\ jb'[r] = b + 1 /\ results'[r][b] = BatchJoin(r, b)
      /\ \A c \in Batches \ {b} : results'[r][c] = results[r][c]
      /\ \A t \in Ranks \ {r} : jb'[t] = jb[t] /\ results'[t] = results[t]
  BY <1>1, <1>2, <1>3, <1>6
<1>8. TypeInv'
  BY <1>1, <1>2, <1>7, Frozen DEF TypeInv
<1>9. \A g \in Stages, s \in Ranks : SentOf(s, g)' = SentOf(s, g) /\ DoneOf(s, g)' = DoneOf(s, g)
  BY <1>1 DEF SentOf, DoneOf
<1>10. ChanInv'
  BY <1>1, <1>9, ChanSame
<1>11. RankAt(r)'
  <2>1. ControlAt(r)'
    BY <1>1, <1>2, <1>3, <1>4 DEF RankAt, ControlAt
  <2>2. TableAt(r)' /\ OutAt(r)'
    BY <1>1, <1>2, Frozen DEF RankAt, TableAt, OutAt
  <2>3. CommAt(r)'
    BY <1>1, <1>2, <1>9, Frozen DEF RankAt, CommAt, Stages
  <2>4. JoinAt(r)'
    <3>1. \A c \in Batches :
            /\ flags[r][c] => Number("right", c) < DoneOf(r, "nvl")
            /\ IF c < b THEN flags[r][c] /\ results[r][c] = BatchJoin(r, c)
               ELSE results[r][c] = NoTable
      BY <1>2, <1>4 DEF RankAt, JoinAt
    <3>2. \A c \in Batches :
            IF c < b + 1 THEN flags[r][c] /\ results'[r][c] = BatchJoin(r, c)
            ELSE results'[r][c] = NoTable
      BY <1>1, <1>3, <1>7, <3>1, RankTypes DEF Batches
    <3>3. QED
      BY <1>1, <1>4, <1>7, <1>9, <3>1, <3>2, Frozen DEF JoinAt, Stages
  <2>5. QED
    BY <2>1, <2>2, <2>3, <2>4 DEF RankAt
<1>12. \A t \in Ranks \ {r} : RankAt(t)'
  BY <1>1, <1>7, RankSame DEF IInv
<1>13. QED
  BY <1>1, <1>8, <1>10, <1>11, <1>12, Frozen DEF IInv

\* The joins of a rank's batches together are the join of its rows: rows with
\* one key are in one batch.
LEMMA BatchesJoined ==
  ASSUME TypeInv, NEW r \in Ranks
  PROVE  UNION {BatchJoin(r, b).rows : b \in Batches}
           = Matches(HomeRows("left", r), HomeRows("right", r))
<1>1. \A b : BatchJoin(r, b).rows = Matches(WholeBatch("left", r, b), WholeBatch("right", r, b))
  BY LocalJoinFacts DEF BatchJoin
<1>2. \A s, b : WholeBatch(s, r, b) = {x \in HomeRows(s, r) : BatchOf(x.key) = b}
  BY DEF WholeBatch, HomeRows
<1>3. \A x \in HomeRows("left", r) : BatchOf(x.key) \in Batches
  <2>1. HomeRows("left", r) \subseteq AllRows
    BY DEF HomeRows, AllRows
  <2>2. QED
    BY <2>1, HomeFacts
<1>4. ASSUME NEW b \in Batches, NEW p \in BatchJoin(r, b).rows
      PROVE  p \in Matches(HomeRows("left", r), HomeRows("right", r))
  BY <1>1, <1>2 DEF Matches
<1>5. ASSUME NEW p \in Matches(HomeRows("left", r), HomeRows("right", r))
      PROVE  \E b \in Batches : p \in BatchJoin(r, b).rows
  <2>1. PICK x \in HomeRows("left", r), y \in HomeRows("right", r) : p = <<x, y>> /\ x.key = y.key
    BY DEF Matches
  <2>2. BatchOf(x.key) \in Batches /\ BatchOf(y.key) = BatchOf(x.key)
    BY <1>3, <2>1
  <2>3. x \in WholeBatch("left", r, BatchOf(x.key)) /\ y \in WholeBatch("right", r, BatchOf(x.key))
    BY <1>2, <2>1, <2>2
  <2>4. p \in Matches(WholeBatch("left", r, BatchOf(x.key)), WholeBatch("right", r, BatchOf(x.key)))
    BY <2>1, <2>3 DEF Matches
  <2>5. QED
    BY <1>1, <2>2, <2>4
<1>6. QED
  BY <1>4, <1>5

\* The batch results are put together, or the concatenation throws.
LEMMA ConcatenateStep ==
  ASSUME IInv, NEW r \in Ranks, Concatenate(r)
  PROVE  IInv'
<1> DEFINE O == [cols |-> results[r][0].cols, rows |-> UNION {results[r][b].rows : b \in Batches}]
<1>1. /\ UNCHANGED <<args, table, op, chan, comm, flags, jb, results>>
      /\ pc[r] = "join" /\ jb[r] = Factor
      /\ size' = size /\ nvl' = nvl /\ input' = input
      /\ \/ pc' = [pc EXCEPT ![r] = "thrown"] /\ out' = out
         \/ pc' = [pc EXCEPT ![r] = "done"] /\ out' = [out EXCEPT ![r] = O]
  BY DEF Concatenate, args
<1>2. TypeInv /\ RankAt(r) /\ op[r] \in Ops /\ pc \in [Ranks -> PCs] /\ out \in [Ranks -> Tables]
  BY DEF IInv, TypeInv, PCs
<1>3. op[r].stage = "nvl" /\ op[r].side = "right" /\ op[r].b = Factor - 1 /\ nvl # 1
  BY <1>1, <1>2 DEF RankAt, ControlAt, Ops, Stages
<1>4. \A b \in Batches : results[r][b] = BatchJoin(r, b)
  <2>1. \A b \in Batches : b < Factor
    BY FactorAssumption DEF Batches
  <2>2. QED
    BY <1>1, <1>2, <1>3, <2>1 DEF RankAt, JoinAt
<1>5. O.rows = Matches(HomeRows("left", r), HomeRows("right", r))
  <2>1. UNION {results[r][b].rows : b \in Batches} = UNION {BatchJoin(r, b).rows : b \in Batches}
    BY <1>4
  <2>2. QED
    BY <1>2, <2>1, BatchesJoined
<1>6. O \in Tables
  <2>1. results[r][0] \in Tables /\ \A b \in Batches : results[r][b] \in Tables
    BY <1>2, RankTypes
  <2>2. results[r][0].cols \in BOOLEAN /\ \A b \in Batches : results[r][b].rows \subseteq AllRows \X AllRows
    BY <2>1 DEF Tables
  <2>3. UNION {results[r][b].rows : b \in Batches} \subseteq AllRows \X AllRows
    BY <2>2
  <2>4. QED
    BY <2>2, <2>3 DEF Tables
<1> HIDE DEF O
<1>7. /\ pc' \in [Ranks -> PCs] /\ out' \in [Ranks -> Tables]
      /\ pc'[r] = "thrown" \/ (pc'[r] = "done" /\ out'[r] = O)
      /\ \A t \in Ranks \ {r} : pc'[t] = pc[t] /\ out'[t] = out[t]
  BY <1>1, <1>2, <1>6 DEF PCs
<1>8. TypeInv'
  BY <1>1, <1>2, <1>7, Frozen DEF TypeInv, PCs
<1>9. \A g \in Stages, s \in Ranks : SentOf(s, g)' = SentOf(s, g) /\ DoneOf(s, g)' = DoneOf(s, g)
  BY <1>1, <1>7 DEF SentOf, DoneOf
<1>10. ChanInv'
  BY <1>1, <1>9, ChanSame
<1>11. RankAt(r)'
  <2>1. ControlAt(r)' /\ TableAt(r)'
    BY <1>1, <1>3, <1>7 DEF ControlAt, TableAt
  <2>2. CommAt(r)' /\ JoinAt(r)'
    BY <1>1, <1>2, <1>9, Frozen DEF RankAt, CommAt, JoinAt, Stages
  <2>3. OutAt(r)'
    BY <1>1, <1>5, <1>7, Frozen DEF OutAt, Matches
  <2>4. QED
    BY <2>1, <2>2, <2>3 DEF RankAt
<1>12. \A t \in Ranks \ {r} : RankAt(t)'
  BY <1>1, <1>7, RankSame DEF IInv
<1>13. QED
  BY <1>1, <1>8, <1>10, <1>11, <1>12, Frozen DEF IInv

(***************************************************************************)
(* The invariant, and what follows from it.                                *)
(***************************************************************************)
\* A call of distributed_inner_join begins with empty channels, no batch and
\* the inputs where the shuffle, or in a single domain the hash partition,
\* expects them.
LEMMA InitIInv == Init => IInv
<1> SUFFICES ASSUME Init PROVE IInv
  OBVIOUS
<1>1. size \in 1 .. MaxN /\ nvl \in 1 .. size /\ Divides(nvl, size)
  <2>1. PICK c \in Clusters : size = c[1] /\ nvl = GetNvlPartitionSize(c[1], c[2])
    BY DEF Init
  <2>2. c[1] \in 1 .. MaxN /\ c[2] \in Nat
    BY ClusterAssumption
  <2>3. c[1] \in Nat \ {0}
    BY <2>2, NAssumption
  <2>4. QED
    BY <2>1, <2>2, <2>3, NvlDivides
<1>2. PICK L \in LeftInputs(size), R \in RightInputs(size) : input = [left |-> L, right |-> R]
  BY DEF Init
<1>3. \A x \in AllRows : HashIb[x.key] \in Nat /\ Hash[x.key] \in Nat
  <2>1. input["left"] = L /\ input["right"] = R
    BY <1>2
  <2>2. \A x : x \in AllRows <=> \E r \in Ranks : x \in L[r] \/ x \in R[r]
    BY <2>1 DEF AllRows, Whole
  <2>3. \A T \in LeftInputs(size) \cup RightInputs(size) : \A r \in 0 .. size - 1 :
          \A x \in T[r] : HashIb[x.key] \in Nat /\ Hash[x.key] \in Nat
    BY <1>1, HashAssumption
  <2>4. QED
    BY <1>2, <2>2, <2>3 DEF Ranks
<1>4. 0 \in Batches /\ Factor \in 0 .. Factor /\ Factor \in Nat \ {0}
  BY FactorAssumption DEF Batches
<1>5. Op("ib", "left", 0) \in Ops
  BY <1>4 DEF Op, Ops, Stages, Sides
<1>6. NoTable \in Tables
  BY DEF NoTable, Tables
<1>7. \A s \in Sides, r \in Ranks : input[s][r] \subseteq AllRows
  BY DEF AllRows, Whole, Sides
<1>8. TypeInv
  <2>1. table \in [Ranks -> [Sides -> SUBSET AllRows]]
    BY <1>7 DEF Init
  <2>2. /\ pc \in [Ranks -> {"send", "recv", "partition", "flag", "join", "done", "thrown"}]
        /\ op \in [Ranks -> Ops]
    BY <1>5 DEF Init
  <2>3. chan \in [Ranks -> [Ranks -> Seq(Messages)]]
    <3>1. <<>> \in Seq(Messages)
      OBVIOUS
    <3>2. QED
      BY <3>1 DEF Init
  <2>4. comm \in [Ranks -> [Sides -> [Batches -> SUBSET AllRows]]]
    BY DEF Init
  <2>5. flags \in [Ranks -> [Batches -> BOOLEAN]] /\ jb \in [Ranks -> 0 .. Factor]
    BY <1>4 DEF Init
  <2>6. results \in [Ranks -> [Batches -> Tables]] /\ out \in [Ranks -> Tables]
    BY <1>6 DEF Init
  <2>7. QED
    BY <1>1, <1>3, <2>1, <2>2, <2>3, <2>4, <2>5, <2>6 DEF TypeInv
<1>9. \A r \in Ranks :
        /\ op[r].stage = "ib" /\ op[r].side = "left" /\ op[r].b = 0
        /\ pc[r] = IF nvl # size THEN "send" ELSE "partition"
  BY DEF Init, Op
<1>10. ChanInv
  <2> SUFFICES ASSUME NEW g \in Stages, NEW r \in Ranks, NEW s \in Group(r, g) \ {r}
               PROVE  Len(chan[s][r]) = 0 /\ SentOf(s, g) - DoneOf(r, g) = 0
    BY DEF ChanInv
  <2>1. s \in Ranks /\ (g = "ib" => nvl # size)
    BY <1>8, Groups
  <2>2. chan[s][r] = <<>>
    BY <2>1 DEF Init
  <2>3. SentOf(s, g) = 0 /\ DoneOf(r, g) = 0
    BY <1>9, <2>1 DEF SentOf, DoneOf, Num, Number, Stages
  <2>4. QED
    BY <2>2, <2>3
<1>11. ASSUME NEW r \in Ranks PROVE RankAt(r)
  <2>1. ControlAt(r) /\ CommAt(r) /\ OutAt(r)
    BY <1>9 DEF ControlAt, CommAt, OutAt
  <2>2. JoinAt(r)
    BY <1>9 DEF JoinAt, Init
  <2>3. TableAt(r)
    <3>1. \A s \in Sides : table[r][s] = input[s][r]
      BY DEF Init
    <3>2. nvl = size => \A s \in Sides : Shuffled(s, r) = input[s][r]
      BY <1>8, ShuffledAlone
    <3>3. QED
      BY <1>9, <3>1, <3>2 DEF TableAt
  <2>4. QED
    BY <2>1, <2>2, <2>3 DEF RankAt
<1>12. QED
  BY <1>8, <1>10, <1>11 DEF IInv

\* Every step of a rank, of its main thread or of its join thread, keeps it.
LEMMA NextIInv == IInv /\ [Next]_vars => IInv'
<1> SUFFICES ASSUME IInv, [Next]_vars PROVE IInv'
  OBVIOUS
<1>1. CASE UNCHANGED vars
  <2>1. /\ UNCHANGED <<args, chan>>
        /\ size' = size /\ nvl' = nvl /\ input' = input
        /\ UNCHANGED <<table, pc, op, comm, flags, jb, results, out>>
    BY <1>1 DEF vars, args
  <2>2. TypeInv'
    BY <2>1, Frozen DEF IInv, TypeInv
  <2>3. ChanInv'
    <3>1. \A g \in Stages, s \in Ranks : SentOf(s, g)' = SentOf(s, g) /\ DoneOf(s, g)' = DoneOf(s, g)
      BY <2>1 DEF SentOf, DoneOf
    <3>2. QED
      BY <2>1, <3>1, ChanSame
  <2>4. \A t \in Ranks : RankAt(t)'
    BY <2>1, RankSame DEF IInv
  <2>5. QED
    BY <2>1, <2>2, <2>3, <2>4, Frozen DEF IInv
<1>2. ASSUME NEW r \in Ranks, Main(r) PROVE IInv'
  BY <1>2, SendStep, RecvIbStep, JoinAtOnceStep, PartitionStep, RecvNvlStep, SetFlagStep,
     ConcatenateStep DEF Main
<1>3. ASSUME NEW r \in Ranks, JoinThread(r) PROVE IInv'
  BY <1>3, JoinThreadStep
<1>4. QED
  BY <1>1, <1>2, <1>3 DEF Next, Ended

\* The invariant holds in every reachable state.
LEMMA SpecIInv == Spec => []IInv
<1>1. QED
  BY InitIInv, NextIInv, PTL DEF Spec

\* Messages carry no tag: still, for every cluster, factor and schedule, a
\* rank that waits for a communication of distributed_inner_join finds the
\* message of that communication first in each of its channels.
THEOREM OwnMessagesTaken == Spec => []TakesOwnMessages
<1>1. IInv => TakesOwnMessages
  BY HeadIsOwn DEF TakesOwnMessages
<1>2. QED
  BY <1>1, SpecIInv, PTL

\* The flag protocol between the main thread and inner_join_func: a flag
\* implies that both tables of the batch are complete, and every batch result
\* is the join of the complete batch.
THEOREM WholeBatchesJoined == Spec => []JoinsWholeBatches
<1>1. ASSUME IInv, NEW r \in Ranks, NEW b \in Batches
      PROVE  /\ flags[r][b] => \A s \in Sides : comm[r][s][b] = WholeBatch(s, r, b)
             /\ results[r][b] # NoTable =>
                  results[r][b].rows = Matches(WholeBatch("left", r, b), WholeBatch("right", r, b))
  <2>1. TypeInv /\ CommAt(r) /\ JoinAt(r) /\ op[r].stage \in {"ib", "nvl"} /\ DoneOf(r, "nvl") \in Nat
    BY <1>1, Counts DEF IInv, RankAt, Stages
  <2>2. ASSUME flags[r][b], NEW s \in Sides PROVE comm[r][s][b] = WholeBatch(s, r, b)
    <3>1. op[r].stage = "nvl" /\ Number("right", b) < DoneOf(r, "nvl")
      BY <2>1, <2>2 DEF JoinAt
    <3>2. Number(s, b) < DoneOf(r, "nvl")
      BY <2>1, <3>1, FactorAssumption DEF Number, Batches
    <3>3. QED
      BY <2>1, <3>1, <3>2 DEF CommAt
  <2>3. ASSUME results[r][b] # NoTable
        PROVE  results[r][b].rows = Matches(WholeBatch("left", r, b), WholeBatch("right", r, b))
    <3>1. results[r][b] = BatchJoin(r, b)
      BY <2>1, <2>3 DEF JoinAt
    <3>2. QED
      BY <3>1, LocalJoinFacts DEF BatchJoin
  <2>4. QED
    BY <2>2, <2>3
<1>2. IInv => JoinsWholeBatches
  BY <1>1 DEF JoinsWholeBatches
<1>3. QED
  BY <1>2, SpecIInv, PTL

\* What distributed_inner_join promises: when every rank has returned, the
\* returned tables together are the inner join of the whole tables, and no
\* pair of rows is returned twice.
THEOREM JoinCorrect == Spec => []ResultIsJoin
<1>1. ASSUME IInv, \A r \in Ranks : pc[r] = "done"
      PROVE  /\ UNION {out[r].rows : r \in Ranks} = Matches(Whole("left"), Whole("right"))
             /\ \A r, s \in Ranks : r # s => out[r].rows \cap out[s].rows = {}
  <2>1. TypeInv /\ \A r \in Ranks : out[r].rows = Matches(HomeRows("left", r), HomeRows("right", r))
    BY <1>1 DEF IInv, RankAt, OutAt
  <2>2. \A x \in Whole("left") \cup Whole("right") : Home(x.key) \in Ranks
    BY <2>1, HomeFacts DEF AllRows
  <2>3. \A s, r, x : x \in HomeRows(s, r) <=> x \in Whole(s) /\ Home(x.key) = r
    BY DEF HomeRows
  <2>4. \A L, R, p : p \in Matches(L, R) <=>
          p \in L \X R /\ p[1].key = p[2].key
    BY DEF Matches
  <2>5. \A r \in Ranks : \A p : p \in out[r].rows <=>
          p \in Matches(Whole("left"), Whole("right")) /\ Home(p[1].key) = r
    BY <2>1, <2>3, <2>4
  <2>6. \A p \in Matches(Whole("left"), Whole("right")) : Home(p[1].key) \in Ranks
    BY <2>2, <2>4
  <2>7. QED
    BY <2>5, <2>6
<1>2. IInv => ResultIsJoin
  BY <1>1 DEF ResultIsJoin
<1>3. QED
  BY <1>2, SpecIInv, PTL
=============================================================================
