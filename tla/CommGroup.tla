------------------------------ MODULE CommGroup ------------------------------
(***************************************************************************)
(* Which ranks exchange data with each other: class CommunicationGroup     *)
(* (src/src/all_to_all_comm.hpp) and the size of the NVLink stage          *)
(* (get_nvl_partition_size in src/src/distributed_join.cpp).  All          *)
(* operators are pure functions of a rank, a grid size and a stride.       *)
(***************************************************************************)
EXTENDS Integers, FiniteSets

\* Mutant: the position below the stride is forgotten.
GroupStartAligned(rank, grid, stride) == (rank \div grid) * grid

GroupStart(rank, grid, stride) == (rank \div grid) * grid + (rank % stride)

GroupSize(grid, stride) == grid \div stride

\* Mutant: indices counted from one.
GetGlobalRankFromOne(rank, grid, stride, idx) ==
  GroupStart(rank, grid, stride) + (idx + 1) * stride

GetGlobalRank(rank, grid, stride, idx) == GroupStart(rank, grid, stride) + idx * stride

GetLocalIdx(rank, grid, stride) == (rank - GroupStart(rank, grid, stride)) \div stride

Members(rank, grid, stride) ==
  {GetGlobalRank(rank, grid, stride, i) : i \in 0 .. GroupSize(grid, stride) - 1}

\* ceil(sqrt(n)), for positive n
CeilSqrt(n) == CHOOSE m \in 1 .. n : n <= m * m /\ (m - 1) * (m - 1) < n

Divides(d, n) == n % d = 0

\* The loop counts down from ceil(sqrt(mpi_size)) to the first divisor that
\* fits the domain; 1 is returned when there is none.
GetNvlPartitionSize(mpi_size, domain) ==
  LET fits == {d \in 1 .. mpi_size :
                 d <= CeilSqrt(mpi_size) /\ Divides(d, mpi_size) /\ d <= domain}
  IN  IF domain >= mpi_size THEN mpi_size
      ELSE IF fits = {} THEN 1
      ELSE CHOOSE d \in fits : \A e \in fits : e <= d
=============================================================================
