--------------------------- MODULE DistributedJoin ---------------------------
(***************************************************************************)
(* distributed_inner_join (src/src/distributed_join.cpp) on all ranks: the *)
(* shuffle between NVLink domains (shuffle_on), the hash partition inside  *)
(* a domain into over_decom_factor batches, the pipeline in which the main *)
(* thread communicates batch after batch while the join thread joins the   *)
(* batches whose flag is set, and the concatenation of the batch results.  *)
(*                                                                         *)
(* A table is a set of rows, a row a record with an id and a key.  An      *)
(* all-to-all communication is two steps of a rank: it sends the           *)
(* partitions of the other members of its group, and it returns when it    *)
(* has taken one message of each of them (module Communicator).            *)
(***************************************************************************)
EXTENDS CommGroup, Sequences

CONSTANTS
  MaxN,           \* bound: ranks of the largest cluster
  Clusters,       \* values of <<mpi_size, nvlink_domain_size>>
  Factor,         \* over_decom_factor
  HashIb,         \* key -> hash with seed hash_partition_seed_ib
  Hash,           \* key -> hash with seed hash_partition_seed
  LeftInputs(_),  \* LeftInputs(n): distributions of the left table on n ranks
  RightInputs(_)  \* RightInputs(n): those of the right table

ASSUME NAssumption       == MaxN \in Nat \ {0}
ASSUME ClusterAssumption == Clusters \subseteq (1 .. MaxN) \X Nat /\ Clusters # {}
ASSUME FactorAssumption  == Factor \in Nat \ {0}
\* cudf's hashes of the keys are unsigned numbers.
ASSUME HashAssumption ==
  \A n \in 1 .. MaxN : \A T \in LeftInputs(n) \cup RightInputs(n) :
    \A r \in 0 .. n - 1 : \A x \in T[r] : HashIb[x.key] \in Nat /\ Hash[x.key] \in Nat

VARIABLES
  size,     \* mpi_size
  nvl,      \* nvlink_partition_size
  input,    \* input.left, input.right: the arguments on every rank
  table,    \* table[r].left, .right: the rows the main thread works on
  pc,       \* pc[r]: what the main thread does next
  op,       \* op[r]: its current communication [stage, side, b]
  chan,     \* chan[s][d]: messages from s to d, in order
  comm,     \* comm[r].left, .right: communicated table of every batch
  flags,    \* flags[r][b]: batch b has been communicated
  jb,       \* jb[r]: next batch of the join thread
  results,  \* results[r][b]: batch_join_results
  out       \* out[r]: the table returned

vars == <<size, nvl, input, table, pc, op, chan, comm, flags, jb, results, out>>

args == <<size, nvl, input>>

Ranks   == 0 .. size - 1
Sides   == {"left", "right"}
Batches == 0 .. Factor - 1

NoTable == [cols |-> FALSE, rows |-> {}]     \* std::make_unique<table>()

\* The pairs of rows with equal keys: what an inner join returns.
Matches(L, R) == {p \in L \X R : p[1].key = p[2].key}

\* local_join_helper: without rows on one side, a table without columns.
LocalJoin(L, R) ==
  IF L # {} /\ R # {} THEN [cols |-> TRUE, rows |-> Matches(L, R)] ELSE NoTable

\* cudf::hash_partition: partition p of n.
HashPartition(T, h, n, p) == {x \in T : h[x.key] % n = p}

(***************************************************************************)
(* One all-to-all communication.  In the first stage partition i goes to   *)
(* local index i of CommunicationGroup(mpi_size, nvlink_partition_size);   *)
(* in the second, partition b * nvl + i of batch b to local index i of     *)
(* CommunicationGroup(nvlink_partition_size, 1).                           *)
(***************************************************************************)
Grid(stage)   == IF stage = "ib" THEN size ELSE nvl
Stride(stage) == IF stage = "ib" THEN nvl ELSE 1

Group(r, stage) == Members(r, Grid(stage), Stride(stage))

Part(T, o, d) ==
  LET i == GetLocalIdx(d, Grid(o.stage), Stride(o.stage)) IN
  IF o.stage = "ib"
  THEN HashPartition(T, HashIb, GroupSize(size, nvl), i)
  ELSE HashPartition(T, Hash, nvl * Factor, o.b * nvl + i)

\* Mutant: the partition that stays is not copied.
KeepNothing(T, o, r) == {}

\* allocate_communicated_table: the partition that stays on the rank.
Keep(T, o, r) == Part(T, o, r)

Op(stage, side, b) == [stage |-> stage, side |-> side, b |-> b]

Init ==
  /\ \E c \in Clusters : size = c[1] /\ nvl = GetNvlPartitionSize(c[1], c[2])
  /\ \E L \in LeftInputs(size), R \in RightInputs(size) : input = [left |-> L, right |-> R]
  /\ table = [r \in Ranks |-> [s \in Sides |-> input[s][r]]]
  /\ pc = [r \in Ranks |-> IF nvl # size THEN "send" ELSE "partition"]
  /\ op = [r \in Ranks |-> Op("ib", "left", 0)]
  /\ chan = [s \in Ranks |-> [d \in Ranks |-> <<>>]]
  /\ comm = [r \in Ranks |-> [s \in Sides |-> [b \in Batches |-> {}]]]
  /\ flags = [r \in Ranks |-> [b \in Batches |-> FALSE]]
  /\ jb = [r \in Ranks |-> Factor]
  /\ results = [r \in Ranks |-> [b \in Batches |-> NoTable]]
  /\ out = [r \in Ranks |-> NoTable]

\* launch_communication, first half: everyone else's partition is sent.
Send(r) ==
  LET o == op[r] IN
  /\ pc[r] = "send"
  /\ chan' = [chan EXCEPT ![r] =
                [d \in Ranks |->
                   IF d \in Group(r, o.stage) \ {r}
                   THEN Append(chan[r][d], [op |-> o, rows |-> Part(table[r][o.side], o, d)])
                   ELSE chan[r][d]]]
  /\ pc' = [pc EXCEPT ![r] = "recv"]
  /\ UNCHANGED <<args, table, op, comm, flags, jb, results, out>>

\* Second half: one message of every other member has arrived.
ArrivedWithSelf(r) == \A s \in Group(r, op[r].stage) : chan[s][r] # <<>>   \* Mutant
Arrived(r) == \A s \in Group(r, op[r].stage) \ {r} : chan[s][r] # <<>>

Incoming(r) == UNION {Head(chan[s][r]).rows : s \in Group(r, op[r].stage) \ {r}}

\* Mutant: messages are looked at and left in the queue.
TakeNone(r) == chan' = chan

TakeAll(r) ==
  chan' = [s \in Ranks |-> [d \in Ranks |->
             IF d = r /\ s \in Group(r, op[r].stage) \ {r}
             THEN Tail(chan[s][d]) ELSE chan[s][d]]]

\* shuffle_on returns; the left table is followed by the right one.
RecvIb(r) ==
  LET o == op[r] IN
  /\ pc[r] = "recv" /\ o.stage = "ib" /\ Arrived(r)
  /\ TakeAll(r)
  /\ table' = [table EXCEPT ![r][o.side] = Keep(@, o, r) \cup Incoming(r)]
  /\ IF o.side = "left"
     THEN /\ op' = [op EXCEPT ![r].side = "right"]
          /\ pc' = [pc EXCEPT ![r] = "send"]
     ELSE /\ pc' = [pc EXCEPT ![r] = "partition"]
          /\ op' = op
  /\ UNCHANGED <<args, comm, flags, jb, results, out>>

\* nvlink_partition_size 1: the local join is the result.
JoinAtOnce(r) ==
  /\ pc[r] = "partition" /\ nvl = 1
  /\ out' = [out EXCEPT ![r] = LocalJoin(table[r].left, table[r].right)]
  /\ pc' = [pc EXCEPT ![r] = "done"]
  /\ UNCHANGED <<args, table, op, chan, comm, flags, jb, results>>

\* Hash partition; the communicated tables are allocated and get the rows
\* that stay on this rank; the join thread is launched.
Partition(r) ==
  /\ pc[r] = "partition" /\ nvl # 1
  /\ comm' = [comm EXCEPT ![r] =
                [s \in Sides |-> [b \in Batches |->
                   Keep(table[r][s], Op("nvl", s, b), r)]]]
  /\ op' = [op EXCEPT ![r] = Op("nvl", "left", 0)]
  /\ jb' = [jb EXCEPT ![r] = 0]
  /\ pc' = [pc EXCEPT ![r] = "send"]
  /\ UNCHANGED <<args, table, chan, flags, results, out>>

\* The communication of one table of the batch returns.
RecvNvl(r) ==
  LET o == op[r] IN
  /\ pc[r] = "recv" /\ o.stage = "nvl" /\ Arrived(r)
  /\ TakeAll(r)
  /\ comm' = [comm EXCEPT ![r][o.side][o.b] = @ \cup Incoming(r)]
  /\ IF o.side = "left"
     THEN /\ op' = [op EXCEPT ![r].side = "right"]
          /\ pc' = [pc EXCEPT ![r] = "send"]
     ELSE /\ pc' = [pc EXCEPT ![r] = "flag"]
          /\ op' = op
  /\ UNCHANGED <<args, table, flags, jb, results, out>>

LastBatch(b) == b + 1 = Factor

\* flags[ibatch] = true, then the next batch; after the last one the hashed
\* tables are released.
SetFlag(r) ==
  LET b == op[r].b IN
  /\ pc[r] = "flag"
  /\ flags' = [flags EXCEPT ![r][b] = TRUE]
  /\ IF ~LastBatch(b)
     THEN /\ op' = [op EXCEPT ![r] = Op("nvl", "left", b + 1)]
          /\ pc' = [pc EXCEPT ![r] = "send"]
          /\ table' = table
     ELSE /\ pc' = [pc EXCEPT ![r] = "join"]
          /\ table' = [table EXCEPT ![r] = [s \in Sides |-> {}]]
          /\ op' = op
  /\ UNCHANGED <<args, chan, comm, jb, results, out>>

\* Mutant: the join thread does not wait for the flag.
JoinThreadNoWait(r) ==
  LET b == jb[r] IN
  /\ b < Factor
  /\ results' = [results EXCEPT ![r][b] = LocalJoin(comm[r].left[b], comm[r].right[b])]
  /\ jb' = [jb EXCEPT ![r] = b + 1]
  /\ UNCHANGED <<args, table, pc, op, chan, comm, flags, out>>

\* inner_join_func: one round of the join thread.
JoinThread(r) ==
  LET b == jb[r] IN
  /\ b < Factor /\ flags[r][b]
  /\ results' = [results EXCEPT ![r][b] = LocalJoin(comm[r].left[b], comm[r].right[b])]
  /\ jb' = [jb EXCEPT ![r] = b + 1]
  /\ UNCHANGED <<args, table, pc, op, chan, comm, flags, out>>

\* inner_join_thread.join(), then cudf::concatenate, which throws if the
\* tables do not have the same columns.
Concatenate(r) ==
  LET cols == {results[r][b].cols : b \in Batches} IN
  /\ pc[r] = "join" /\ jb[r] = Factor
  /\ IF cols = BOOLEAN
     THEN /\ pc' = [pc EXCEPT ![r] = "thrown"]
          /\ out' = out
     ELSE /\ pc' = [pc EXCEPT ![r] = "done"]
          /\ out' = [out EXCEPT ![r] =
                       [cols |-> results[r][0].cols,
                        rows |-> UNION {results[r][b].rows : b \in Batches}]]
  /\ UNCHANGED <<args, table, op, chan, comm, flags, jb, results>>

Main(r) == Send(r) \/ RecvIb(r) \/ JoinAtOnce(r) \/ Partition(r) \/ RecvNvl(r)
           \/ SetFlag(r) \/ Concatenate(r)

Ended == (\A r \in Ranks : pc[r] \in {"done", "thrown"}) /\ UNCHANGED vars

Next == (\E r \in Ranks : Main(r) \/ JoinThread(r)) \/ Ended

Spec == /\ Init /\ [][Next]_vars
        /\ \A r \in 0 .. MaxN - 1 : /\ WF_vars(r \in Ranks /\ Main(r))
                                   /\ WF_vars(r \in Ranks /\ JoinThread(r))

-----------------------------------------------------------------------------
\* The whole left or right table, and its rows that belong to batch b of
\* rank r: both stages of hashing applied at once, whatever the origin.
Whole(s) == UNION {input[s][r] : r \in Ranks}

Home(key) ==
  (HashIb[key] % (size \div nvl)) * nvl + ((Hash[key] % (nvl * Factor)) % nvl)
BatchOf(key) == (Hash[key] % (nvl * Factor)) \div nvl

WholeBatch(s, r, b) == {x \in Whole(s) : Home(x.key) = r /\ BatchOf(x.key) = b}

\* A flag is set only when both tables of the batch are complete, and what
\* the join thread computes is the join of complete batches, although the
\* main thread goes on communicating the next ones.
JoinsWholeBatches ==
  \A r \in Ranks, b \in Batches :
    /\ flags[r][b] => \A s \in Sides : comm[r][s][b] = WholeBatch(s, r, b)
    /\ results[r][b] # NoTable =>
         results[r][b].rows = Matches(WholeBatch("left", r, b), WholeBatch("right", r, b))

\* Messages carry no tag that names the table or the batch; a rank that waits
\* for a communication finds the message of that communication first, however
\* far its peers have advanced.
TakesOwnMessages ==
  \A r \in Ranks : pc[r] = "recv" =>
    \A s \in Group(r, op[r].stage) \ {r} :
      chan[s][r] # <<>> => Head(chan[s][r]).op = op[r]

\* "The join result is the concatenation of the returned tables on all
\* ranks": together they hold every matching pair of the whole tables, and no
\* pair is returned by two ranks.
ResultIsJoin ==
  (\A r \in Ranks : pc[r] = "done") =>
    /\ UNION {out[r].rows : r \in Ranks} = Matches(Whole("left"), Whole("right"))
    /\ \A r, s \in Ranks : r # s => out[r].rows \cap out[s].rows = {}

\* The documented schema: the returned table has the joined columns.
ResultHasColumns == \A r \in Ranks : pc[r] = "done" => out[r].cols

\* Every rank returns: the communications of the two stages never wait in a
\* cycle, and the join thread sees every flag.
Terminates == <>(\A r \in Ranks : pc[r] \in {"done", "thrown"})
=============================================================================
