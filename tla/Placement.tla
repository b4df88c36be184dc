------------------------------ MODULE Placement ------------------------------
(***************************************************************************)
(* The journey of two rows with the same join key, one of the left and one *)
(* of the right table, through distributed_inner_join                      *)
(* (src/src/distributed_join.cpp): first a shuffle between NVLink domains, *)
(* over the group of ranks with the same position in their domain, then a  *)
(* hash partition inside the domain, over-decomposed into batches.  The    *)
(* join is correct only if both rows end on one rank and in one batch.     *)
(***************************************************************************)
EXTENDS CommGroup

CONSTANTS
  MaxSize,    \* bound: mpi_size
  MaxDomain,  \* bound: nvlink_domain_size
  MaxFactor   \* bound: over_decom_factor

ASSUME SizeAssumption    == MaxSize \in Nat \ {0}
ASSUME DomainAssumption  == MaxDomain \in Nat
ASSUME BatchesAssumption == MaxFactor \in Nat \ {0}

VARIABLES
  mpi_size, domain, factor,  \* the arguments of the call
  nvl_size,  \* nvlink_partition_size, 0 before it is computed
  hash,      \* hash.ib, hash.nvl: the key's partition in the two hash_partitions
  at,        \* at.left, at.right: the rank that holds the row
  batch,     \* batch.left, batch.right: the batch of the row, -1 before the second stage
  stage      \* stage.left, stage.right: "start", "ib" (after the first stage), "done"

journey == <<mpi_size, domain, factor, nvl_size, hash, at, batch, stage>>

Rows == {"left", "right"}

PlacementInit ==
  /\ mpi_size \in 1 .. MaxSize
  /\ domain \in 0 .. MaxDomain
  /\ factor \in 1 .. MaxFactor
  /\ nvl_size = 0
  /\ hash = [ib |-> 0, nvl |-> 0]
  /\ at \in [Rows -> 0 .. mpi_size - 1]
  /\ batch = [s \in Rows |-> -1]
  /\ stage = [s \in Rows |-> "start"]

\* The partition size is computed; the two seeded hashes of the key, modulo
\* the number of partitions of each stage, are the same for both tables.
Begin ==
  /\ nvl_size = 0
  /\ nvl_size' = GetNvlPartitionSize(mpi_size, domain)
  /\ \E i \in 0 .. mpi_size \div nvl_size' - 1, j \in 0 .. nvl_size' * factor - 1 :
       hash' = [ib |-> i, nvl |-> j]
  /\ UNCHANGED <<mpi_size, domain, factor, at, batch, stage>>

\* shuffle_on over CommunicationGroup(mpi_size, nvlink_partition_size);
\* partition i of hash_partition goes to local index i of the group.
ShuffleIb(s) ==
  /\ nvl_size # 0 /\ nvl_size # mpi_size /\ stage[s] = "start"
  /\ at' = [at EXCEPT ![s] = GetGlobalRank(@, mpi_size, nvl_size, hash.ib)]
  /\ stage' = [stage EXCEPT ![s] = "ib"]
  /\ UNCHANGED <<mpi_size, domain, factor, nvl_size, hash, batch>>

\* A single domain: the first stage is skipped.
SkipIb(s) ==
  /\ nvl_size # 0 /\ nvl_size = mpi_size /\ stage[s] = "start"
  /\ stage' = [stage EXCEPT ![s] = "ib"]
  /\ UNCHANGED <<mpi_size, domain, factor, nvl_size, hash, at, batch>>

\* nvlink_partition_size 1: the local join follows the first stage at once.
JoinHere(s) ==
  /\ nvl_size = 1 /\ stage[s] = "ib"
  /\ batch' = [batch EXCEPT ![s] = 0]
  /\ stage' = [stage EXCEPT ![s] = "done"]
  /\ UNCHANGED <<mpi_size, domain, factor, nvl_size, hash, at>>

\* Mutant: the group of the first stage again.
ShuffleNvlSameGroup(s) ==
  /\ nvl_size > 1 /\ stage[s] = "ib"
  /\ at' = [at EXCEPT ![s] = GetGlobalRank(@, mpi_size, nvl_size, hash.nvl % nvl_size)]
  /\ batch' = [batch EXCEPT ![s] = hash.nvl \div nvl_size]
  /\ stage' = [stage EXCEPT ![s] = "done"]
  /\ UNCHANGED <<mpi_size, domain, factor, nvl_size, hash>>

\* Batch b sends partitions b * nvl .. (b + 1) * nvl - 1 to local indices
\* 0 .. nvl - 1 of CommunicationGroup(nvlink_partition_size, 1).
ShuffleNvl(s) ==
  /\ nvl_size > 1 /\ stage[s] = "ib"
  /\ at' = [at EXCEPT ![s] = GetGlobalRank(@, nvl_size, 1, hash.nvl % nvl_size)]
  /\ batch' = [batch EXCEPT ![s] = hash.nvl \div nvl_size]
  /\ stage' = [stage EXCEPT ![s] = "done"]
  /\ UNCHANGED <<mpi_size, domain, factor, nvl_size, hash>>

Settled == (\A s \in Rows : stage[s] = "done") /\ UNCHANGED journey

PlacementNext ==
  \/ Begin
  \/ \E s \in Rows : ShuffleIb(s) \/ SkipIb(s) \/ JoinHere(s) \/ ShuffleNvl(s)
  \/ Settled

PlacementSpec == PlacementInit /\ [][PlacementNext]_journey

-----------------------------------------------------------------------------
\* Every variable has its type; rows are always on a rank that exists.
TypeOK ==
  /\ mpi_size \in 1 .. MaxSize /\ domain \in 0 .. MaxDomain /\ factor \in 1 .. MaxFactor
  /\ nvl_size \in 0 .. mpi_size
  /\ hash \in [ib : Nat, nvl : Nat]
  /\ at \in [Rows -> 0 .. mpi_size - 1]
  /\ batch \in [Rows -> -1 .. factor - 1]
  /\ stage \in [Rows -> {"start", "ib", "done"}]

\* Two rows with one key end on the same rank and in the same batch, from
\* whatever ranks they start, whatever the sizes and the hashes: the local
\* joins of the batches see every matching pair.
Colocated ==
  (\A s \in Rows : stage[s] = "done") =>
    at["left"] = at["right"] /\ batch["left"] = batch["right"]

\* The groups of a stage are consistent: every member of a rank's group has
\* the same group, and local and global indices invert each other.  Sends and
\* receives of communicate_sizes and of the data match only if this holds.
Consistent(grid, stride) ==
  \A r \in 0 .. mpi_size - 1 :
    /\ GetLocalIdx(r, grid, stride) \in 0 .. GroupSize(grid, stride) - 1
    /\ GetGlobalRank(r, grid, stride, GetLocalIdx(r, grid, stride)) = r
    /\ \A i \in 0 .. GroupSize(grid, stride) - 1 :
         LET m == GetGlobalRank(r, grid, stride, i) IN
         /\ m \in 0 .. mpi_size - 1
         /\ GroupStart(m, grid, stride) = GroupStart(r, grid, stride)
         /\ GetLocalIdx(m, grid, stride) = i

GroupsConsistent ==
  nvl_size # 0 => Consistent(mpi_size, nvl_size) /\ Consistent(nvl_size, 1)
=============================================================================
