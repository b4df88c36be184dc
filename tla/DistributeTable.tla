-------------------------- MODULE DistributeTable --------------------------
(***************************************************************************)
(* distribute_table and collect_tables (src/src/distribute_table.cpp) as   *)
(* the tests use them: the root cuts a table into one slice per rank, the  *)
(* ranks work on their slices (here: drop rows), and the root puts the     *)
(* tables together again.  Each column is a start/stop round of its own    *)
(* between the root and every worker; only the order of the messages tells *)
(* the columns apart.  MPI_Bcast and MPI_Gather are external: in the first *)
(* nobody but the workers waits, in the second nobody but the root.        *)
(*                                                                         *)
(* A cell of a table is <<column, row>>, a column a sequence of cells.     *)
(***************************************************************************)
EXTENDS Integers, Sequences

CONSTANTS
  N,          \* mpi_size
  Cols,       \* ncols
  TableSizes  \* possible numbers of rows of the global table

ASSUME NAssumption     == N \in Nat \ {0}
ASSUME ColsAssumption  == Cols \in Nat \ {0}
ASSUME SizesAssumption == TableSizes \subseteq Nat

VARIABLES
  global,  \* rows of the global table, known to the root
  pc,      \* pc[r]: the call rank r makes next
  col,     \* col[r]: icol of its loop over the columns, from 1
  local,   \* local[r][c]: column c of the table of rank r
  bcast,   \* bcast[r]: sizes broadcast to worker r and not yet taken
  gather,  \* gather[r]: sizes worker r has sent to the root
  down,    \* down[r]: messages from the root to worker r, in order
  up,      \* up[r]: messages from worker r to the root, in order
  nrows,   \* nrows[r]: table_nrows on the root
  merged   \* merged[c]: merged_columns on the root

vars == <<global, pc, col, local, bcast, gather, down, up, nrows, merged>>

Ranks   == 0 .. N - 1
Workers == 1 .. N - 1
Columns == 1 .. Cols
Garbage == <<0, 0>>

Cells(c, from, n) == [i \in 1 .. n |-> <<c, from + i>>]
Blank(n)          == [i \in 1 .. n |-> Garbage]

\* Mutant: the last rank gets the remainder.
LocalTableSizeLast(size, r) ==
  IF r = N - 1 THEN (size \div N) + (size % N) ELSE size \div N

\* get_local_table_size
LocalTableSize(size, r) == IF r < size % N THEN (size \div N) + 1 ELSE size \div N

\* start_idx of distribute_cols
StartIdx(size, r) == (IF r < size % N THEN r ELSE size % N) + (size \div N) * r

\* A message longer than the receive is truncated: nothing lands.
Landing(msg, buf) ==
  [i \in DOMAIN buf |-> IF Len(msg) <= Len(buf) /\ i <= Len(msg) THEN msg[i] ELSE buf[i]]

Init ==
  /\ global \in TableSizes
  /\ pc = [r \in Ranks |-> "bcast"]
  /\ col = [r \in Ranks |-> 1]
  /\ local = [r \in Ranks |-> [c \in Columns |-> <<>>]]
  /\ bcast = [r \in Ranks |-> <<>>]
  /\ gather = [r \in Ranks |-> <<>>]
  /\ down = [r \in Ranks |-> <<>>]
  /\ up = [r \in Ranks |-> <<>>]
  /\ nrows = [r \in Ranks |-> -1]
  /\ merged = [c \in Columns |-> <<>>]

\* The loops over the columns.
NextColumn(r, this, next) ==
  /\ pc' = [pc EXCEPT ![r] = IF col[r] < Cols THEN this ELSE next]
  /\ col' = [col EXCEPT ![r] = IF col[r] < Cols THEN @ + 1 ELSE 1]

Allocated(size, r) == [c \in Columns |-> Blank(LocalTableSize(size, r))]

\* distribute_table on the root: broadcast the sizes, allocate.
BcastRoot ==
  /\ pc[0] = "bcast"
  /\ bcast' = [r \in Ranks |-> IF r \in Workers THEN Append(bcast[r], global) ELSE bcast[r]]
  /\ local' = [local EXCEPT ![0] = Allocated(global, 0)]
  /\ pc' = [pc EXCEPT ![0] = "distribute"]
  /\ UNCHANGED <<global, col, gather, down, up, nrows, merged>>

BcastWorker(r) ==
  /\ r \in Workers /\ pc[r] = "bcast" /\ bcast[r] # <<>>
  /\ bcast' = [bcast EXCEPT ![r] = Tail(@)]
  /\ local' = [local EXCEPT ![r] = Allocated(Head(bcast[r]), r)]
  /\ pc' = [pc EXCEPT ![r] = "distribute"]
  /\ UNCHANGED <<global, col, gather, down, up, nrows, merged>>

\* distribute_cols on the root: every worker's slice is sent, the root's own
\* slice is copied.
DistributeRoot ==
  LET c == col[0] IN
  /\ pc[0] = "distribute"
  /\ down' = [r \in Ranks |->
                IF r \in Workers
                THEN Append(down[r], Cells(c, StartIdx(global, r), LocalTableSize(global, r)))
                ELSE down[r]]
  /\ local' = [local EXCEPT ![0][c] = Landing(Cells(c, 0, LocalTableSize(global, 0)), @)]
  /\ NextColumn(0, "distribute", "work")
  /\ UNCHANGED <<global, bcast, gather, up, nrows, merged>>

DistributeWorker(r) ==
  /\ r \in Workers /\ pc[r] = "distribute" /\ down[r] # <<>>
  /\ local' = [local EXCEPT ![r][col[r]] = Landing(Head(down[r]), @)]
  /\ down' = [down EXCEPT ![r] = Tail(@)]
  /\ NextColumn(r, "distribute", "work")
  /\ UNCHANGED <<global, bcast, gather, up, nrows, merged>>

\* The caller's work between the two functions: any prefix of the rows stays.
Work(r) ==
  /\ pc[r] = "work"
  /\ \E k \in 0 .. Len(local[r][1]) :
       local' = [local EXCEPT ![r] = [c \in Columns |-> SubSeq(@[c], 1, k)]]
  /\ pc' = [pc EXCEPT ![r] = "gather"]
  /\ UNCHANGED <<global, col, bcast, gather, down, up, nrows, merged>>

\* collect_tables: MPI_Gather of the numbers of rows.
GatherWorker(r) ==
  /\ r \in Workers /\ pc[r] = "gather"
  /\ gather' = [gather EXCEPT ![r] = Append(@, Len(local[r][1]))]
  /\ pc' = [pc EXCEPT ![r] = "collect"]
  /\ UNCHANGED <<global, col, local, bcast, down, up, nrows, merged>>

\* Mutant: every table is taken to be as long as the root's.
ScanEqual(n) == [i \in 0 .. N |-> i * n[0]]

\* table_nrows_scan
Scan(n) == LET f[i \in 0 .. N] == IF i = 0 THEN 0 ELSE f[i - 1] + n[i - 1] IN f

GatherRoot ==
  LET n == [r \in Ranks |-> IF r = 0 THEN Len(local[0][1]) ELSE Head(gather[r])] IN
  /\ pc[0] = "gather" /\ \A r \in Workers : gather[r] # <<>>
  /\ gather' = [r \in Ranks |-> IF r \in Workers THEN Tail(gather[r]) ELSE gather[r]]
  /\ nrows' = n
  /\ merged' = [c \in Columns |-> Blank(Scan(n)[N])]
  /\ pc' = [pc EXCEPT ![0] = "collect"]
  /\ UNCHANGED <<global, col, local, bcast, down, up>>

CollectWorker(r) ==
  /\ r \in Workers /\ pc[r] = "collect"
  /\ up' = [up EXCEPT ![r] = Append(@, local[r][col[r]])]
  /\ NextColumn(r, "collect", "done")
  /\ UNCHANGED <<global, local, bcast, gather, down, nrows, merged>>

\* What is stored at index i of the merged column: the part of some rank.
Part(r) == IF r = 0 THEN local[0][col[0]] ELSE Head(up[r])

Merge(old) ==
  LET scan == Scan(nrows)
      of(i) == {r \in Ranks : i \in scan[r] + 1 .. scan[r] + nrows[r] /\ Len(Part(r)) <= nrows[r]}
  IN  [i \in DOMAIN old |->
         IF of(i) = {} THEN old[i]
         ELSE LET r == CHOOSE r \in of(i) : TRUE IN
              IF i - scan[r] \in DOMAIN Part(r) THEN Part(r)[i - scan[r]] ELSE old[i]]

ArrivedWithSelf == \A r \in Ranks : up[r] # <<>>   \* Mutant
Arrived         == \A r \in Workers : up[r] # <<>>

\* The root's round for a column: one message of every worker.
CollectRoot ==
  /\ pc[0] = "collect" /\ Arrived
  /\ merged' = [merged EXCEPT ![col[0]] = Merge(@)]
  /\ up' = [r \in Ranks |-> IF r \in Workers THEN Tail(up[r]) ELSE up[r]]
  /\ NextColumn(0, "collect", "done")
  /\ UNCHANGED <<global, local, bcast, gather, down, nrows>>

Root == BcastRoot \/ DistributeRoot \/ Work(0) \/ GatherRoot \/ CollectRoot

Worker(r) == BcastWorker(r) \/ DistributeWorker(r) \/ Work(r) \/ GatherWorker(r) \/ CollectWorker(r)

Ended == (\A r \in Ranks : pc[r] = "done") /\ UNCHANGED vars

Next == Root \/ (\E r \in Workers : Worker(r)) \/ Ended

Spec == Init /\ [][Next]_vars /\ WF_vars(Root) /\ \A r \in Workers : WF_vars(Worker(r))

-----------------------------------------------------------------------------
\* The parts of all ranks, one after the other.
Joined(part) == LET f[i \in 0 .. N] == IF i = 0 THEN <<>> ELSE f[i - 1] \o part[i - 1] IN f[N]

\* When every rank has its slice, the slices in rank order are the global
\* table, whatever rows the number of ranks leaves over; columns that travel
\* in different rounds are cut alike, and no slice is more than one row
\* longer than another.
Tiled ==
  (\A r \in Ranks : pc[r] = "work") =>
    /\ \A c \in Columns : Joined([r \in Ranks |-> local[r][c]]) = Cells(c, 0, global)
    /\ \A r, s \in Ranks : Len(local[r][1]) <= Len(local[s][1]) + 1

\* The collected table is the ranks' tables in rank order, although fast
\* workers have sent later columns while the root waits for earlier ones.
Collected ==
  (\A r \in Ranks : pc[r] = "done") =>
    \A c \in Columns : merged[c] = Joined([r \in Ranks |-> local[r][c]])

\* Both functions return on every rank.
Terminates == <>(\A r \in Ranks : pc[r] = "done")
=============================================================================
