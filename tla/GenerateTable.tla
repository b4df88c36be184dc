---------------------------- MODULE GenerateTable ----------------------------
(***************************************************************************)
(* Test tables on all ranks (src/src/generate_table.cuh): on its own GPU   *)
(* each rank runs generate_input_tables                                    *)
(* (generate_dataset/generate_dataset.cuh), whose threads draw the build   *)
(* keys from a shared lottery with atomicCAS, excludes the drawn keys and  *)
(* draws the probe keys; then keys and payloads are shifted by the rank    *)
(* and chunk j of every table goes to rank j.                              *)
(*                                                                         *)
(* GPUs share nothing, so the threads of one of them, rank 0's, are        *)
(* modelled step by step; the other ranks' tables are some of those        *)
(* IsLocal allows, which KernelOutcome shows is all the kernels can       *)
(* make.  The random numbers x in (0, 1] are external: an index x * size   *)
(* is any of 0 .. size - 1, and size itself when x is exactly 1.           *)
(***************************************************************************)
EXTENDS Integers, Sequences, FiniteSets, SequencesExt

CONSTANTS
  N,            \* mpi_size
  Grids,        \* possible numbers of threads of a kernel: the stride of its loops
  BuildRows,    \* build_table_nrows_per_rank
  ProbeRows,    \* probe_table_nrows_per_rank
  RandMax,      \* rand_max_per_rank
  KeyMax,       \* std::numeric_limits<key_type>::max()
  UniqueKeys,   \* values of uniq_build_tbl_keys
  Elsewhere(_)  \* Elsewhere(u): tables the other ranks may generate

ASSUME NAssumption == N \in Nat \ {0}
ASSUME GridsAssumption == Grids \subseteq Nat \ {0} /\ Grids # {} /\ IsFiniteSet(Grids)
ASSUME UniqueAssumption == UniqueKeys \subseteq BOOLEAN /\ UniqueKeys # {}
\* "should be set larger than build_table_size_per_rank", and the chunks of
\* the ranks have the same number of rows.
ASSUME RowsAssumption ==
  /\ BuildRows \in Nat /\ ProbeRows \in Nat /\ RandMax \in Nat /\ RandMax > BuildRows
  /\ BuildRows > 0 /\ BuildRows % N = 0 /\ ProbeRows % N = 0

\* The shifted keys of all ranks fit the key type.
ASSUME KeyAssumption == KeyMax \in Nat /\ N * RandMax <= KeyMax

Ranks   == 0 .. N - 1
Gpu     == 0                     \* the rank whose kernels are modelled
Keys    == 0 .. RandMax
Rows(n) == 0 .. n - 1

\* At the limit of the key type the lottery does without the key rand_max.
LotterySize == IF RandMax < KeyMax - 1 THEN RandMax + 1 ELSE RandMax
Drawable    == 0 .. LotterySize - 1

Used   == -1          \* a key of the lottery that was drawn
Behind == -2          \* whatever else lies behind the lottery array

\* A table pair of one rank; hit is history: the probe key was to match.
TablePairs ==
  [build : [Rows(BuildRows) -> Keys], probe : [Rows(ProbeRows) -> [key : Keys, hit : BOOLEAN]]]

\* What generate_input_tables may give with uniq_build_tbl_keys = u.
IsLocal(t, u) ==
  /\ t \in TablePairs
  /\ u => \A i, j \in Rows(BuildRows) : t.build[i] = t.build[j] => i = j
  /\ \A i \in Rows(ProbeRows) :
       t.probe[i].hit <=> \E j \in Rows(BuildRows) : t.probe[i].key = t.build[j]

ASSUME ElsewhereAssumption ==
  \A u \in UniqueKeys : Elsewhere(u) # {} /\ \A t \in Elsewhere(u) : IsLocal(t, u)

VARIABLES
  uniq,     \* uniq_build_tbl_keys
  lottery,  \* the lottery array of Gpu, and the cell behind it
  th,       \* th[t]: state of thread t: pc, row, lottery_idx, lottery_val
  build,    \* build[i]: build table of Gpu while it is made
  edge,     \* history: a random number was exactly 1
  stage,    \* stage[r]: "generate", "send", "recv", "done"
  local,    \* local[r]: the tables r has generated
  chan,     \* chan[s][d]: chunks from s to d
  out       \* out[r].build, .probe: the returned tables

vars == <<uniq, lottery, th, build, edge, stage, local, chan, out>>
rest == <<uniq, stage, local, chan, out>>

Thread(t) == t - 1                  \* thread indices from zero
Stride == Cardinality(DOMAIN th)    \* blockDim.x * gridDim.x
NoTable == <<>>
Undrawn == -3                       \* build cell not written yet

Init ==
  /\ uniq \in UniqueKeys
  /\ \E b \in {Used, Behind} :
       lottery = [i \in 0 .. LotterySize |->
                    IF i = LotterySize THEN b ELSE IF uniq THEN i ELSE 0]
  /\ \E n \in Grids :
       th = [t \in 1 .. n |-> [pc |-> "draw", row |-> Thread(t), idx |-> 0, val |-> Used]]
  /\ build = [i \in Rows(BuildRows) |-> Undrawn]
  /\ edge = FALSE
  /\ stage = [r \in Ranks |-> "generate"]
  /\ local = [r \in Ranks |-> NoTable]
  /\ chan = [s \in Ranks |-> [d \in Ranks |-> <<>>]]
  /\ out = [r \in Ranks |-> NoTable]

(***************************************************************************)
(* init_build_tbl.                                                         *)
(***************************************************************************)
Running(t, pc) == stage[Gpu] = "generate" /\ th[t].pc = pc /\ th[t].row < BuildRows

\* x * lottery_size
Draw(t) ==
  \E i \in 0 .. LotterySize :
    /\ uniq /\ Running(t, "draw")
    /\ th' = [th EXCEPT ![t].pc = "read", ![t].idx = i]
    /\ edge' = (edge \/ i = LotterySize)
    /\ UNCHANGED <<lottery, build, rest>>

NextIdxNoWrap(i) == i + 1   \* Mutant: past the end of the lottery.
NextIdxSame(i) == i         \* Mutant: the same cell again.
NextIdx(i) == (i + 1) % LotterySize

\* The cell is read; a used one is skipped.
Look(t) ==
  LET v == lottery[th[t].idx] IN
  /\ Running(t, "read")
  /\ th' = IF v = Used THEN [th EXCEPT ![t].idx = NextIdx(@)]
           ELSE [th EXCEPT ![t].pc = "cas", ![t].val = v]
  /\ UNCHANGED <<lottery, build, edge, rest>>

\* Mutant: the result of atomicCAS is not looked at.
OldIgnored(t) == th[t].val

\* What atomicCAS returns: the cell's value before.
Old(t) == lottery[th[t].idx]

\* atomicCAS(lottery + lottery_idx, lottery_val, -1): if another thread was
\* faster the loop goes on, else the key is this row's.
Cas(t) ==
  LET i == th[t].idx
      v == Old(t)
  IN
  /\ Running(t, "cas")
  /\ lottery' = [lottery EXCEPT ![i] = IF @ = th[t].val THEN Used ELSE @]
  /\ IF v = Used
     THEN /\ th' = [th EXCEPT ![t].pc = "read", ![t].idx = NextIdx(@), ![t].val = Used]
          /\ build' = build
     ELSE /\ th' = [th EXCEPT ![t] = [pc |-> "draw", row |-> @.row + Stride, idx |-> 0, val |-> Used]]
          /\ build' = [build EXCEPT ![th[t].row] = v]
  /\ UNCHANGED <<edge, rest>>

\* Without unique keys: x * rand_max.
Pick(t) ==
  \E k \in Keys :
    /\ ~uniq /\ Running(t, "draw")
    /\ build' = [build EXCEPT ![th[t].row] = k]
    /\ th' = [th EXCEPT ![t].row = @ + Stride]
    /\ UNCHANGED <<lottery, edge, rest>>

(***************************************************************************)
(* The host sorts the build keys and excludes them from the lottery; then  *)
(* init_probe_tbl, whose threads share nothing they write.                 *)
(***************************************************************************)
BuildDone == \A t \in DOMAIN th : th[t].row >= BuildRows

\* Mutant: the keys drawn are not excluded.
DifferenceAll == Keys

\* set_difference of [0, lottery_size) and the sorted build keys
Difference == Drawable \ {build[i] : i \in Rows(BuildRows)}

\* Its keys in ascending order; only the front of the array is overwritten.
LotteryAfter ==
  [i \in DOMAIN lottery |->
     IF i < Cardinality(Difference)
     THEN CHOOSE k \in Difference : Cardinality({j \in Difference : j < k}) = i
     ELSE lottery[i]]

\* One row of the probe table and whether its random number was exactly 1:
\* the index of a hit is clamped, that of a miss is not.
Hits == {[key |-> build[i], hit |-> TRUE, edge |-> FALSE] : i \in Rows(BuildRows)}

Misses ==
  LET after == LotteryAfter
      size  == Cardinality(Difference)
  IN  {[key |-> after[i], hit |-> FALSE, edge |-> i = size] : i \in 0 .. size}

\* generate_build_probe_tables returns on Gpu.
GenerateHere ==
  \E p \in [Rows(ProbeRows) -> Hits \cup Misses] :
    /\ stage[Gpu] = "generate" /\ BuildDone
    /\ local' = [local EXCEPT ![Gpu] =
                   [build |-> build,
                    probe |-> [i \in Rows(ProbeRows) |-> [key |-> p[i].key, hit |-> p[i].hit]]]]
    /\ edge' = (edge \/ \E i \in Rows(ProbeRows) : p[i].edge)
    /\ lottery' = LotteryAfter
    /\ stage' = [stage EXCEPT ![Gpu] = "send"]
    /\ UNCHANGED <<uniq, th, build, chan, out>>

\* The same on another rank.
GenerateThere(r) ==
  \E t \in Elsewhere(uniq) :
    /\ r # Gpu /\ stage[r] = "generate"
    /\ local' = [local EXCEPT ![r] = t]
    /\ stage' = [stage EXCEPT ![r] = "send"]
    /\ UNCHANGED <<uniq, lottery, th, build, edge, chan, out>>

(***************************************************************************)
(* generate_tables_distributed: shift, cut, exchange.                      *)
(***************************************************************************)
KeyShift(r) == RandMax * r

PayloadShiftRank(rows, r) == r           \* Mutant: payloads overlap.
PayloadShift(rows, r) == rows * r

Row(key, payload, from, hit) == [key |-> key, payload |-> payload, from |-> from, hit |-> hit]

\* The generated tables after the constants are added; from is history.
Shifted(r) ==
  [build |-> [i \in Rows(BuildRows) |->
                Row(local[r].build[i] + KeyShift(r), i + PayloadShift(BuildRows, r), r, TRUE)],
   probe |-> [i \in Rows(ProbeRows) |->
                Row(local[r].probe[i].key + KeyShift(r), i + PayloadShift(ProbeRows, r), r,
                    local[r].probe[i].hit)]]

\* build_table_offset, probe_table_offset
Offset(rows, d) == (rows \div N) * d

Chunk(tbl, rows, d) ==
  [i \in 1 .. Offset(rows, d + 1) - Offset(rows, d) |-> tbl[Offset(rows, d) + i - 1]]

\* all_to_all_comm, first half: a chunk of both tables for everyone.
SendChunks(r) ==
  /\ stage[r] = "send"
  /\ chan' = [chan EXCEPT ![r] =
                [d \in Ranks |-> Append(@[d], [build |-> Chunk(Shifted(r).build, BuildRows, d),
                                               probe |-> Chunk(Shifted(r).probe, ProbeRows, d)])]]
  /\ stage' = [stage EXCEPT ![r] = "recv"]
  /\ UNCHANGED <<uniq, lottery, th, build, edge, local, out>>

\* Second half: the chunks one after the other, by rank of origin.
TakeChunks(r) ==
  /\ stage[r] = "recv" /\ \A s \in Ranks : chan[s][r] # <<>>
  /\ out' = [out EXCEPT ![r] =
               [build |-> FlattenSeq([i \in 1 .. N |-> Head(chan[i - 1][r]).build]),
                probe |-> FlattenSeq([i \in 1 .. N |-> Head(chan[i - 1][r]).probe])]]
  /\ chan' = [s \in Ranks |-> [chan[s] EXCEPT ![r] = Tail(@)]]
  /\ stage' = [stage EXCEPT ![r] = "done"]
  /\ UNCHANGED <<uniq, lottery, th, build, edge, local>>

ThreadStep(t) == Draw(t) \/ Look(t) \/ Cas(t) \/ Pick(t)

HostStep(r) == (r = Gpu /\ GenerateHere) \/ GenerateThere(r) \/ SendChunks(r) \/ TakeChunks(r)

Ended == (\A r \in Ranks : stage[r] = "done") /\ UNCHANGED vars

Next == (\E t \in DOMAIN th : ThreadStep(t)) \/ (\E r \in Ranks : HostStep(r)) \/ Ended

Spec == /\ Init /\ [][Next]_vars
        /\ \A t \in 1 .. Max(Grids) : WF_vars(t \in DOMAIN th /\ ThreadStep(t))
        /\ \A r \in Ranks : WF_vars(HostStep(r))

-----------------------------------------------------------------------------
Cells == Keys \cup {Used, Behind}

\* Every variable has its type; a thread stands behind the lottery, by one
\* cell, only after a random number of exactly 1, and all others read and
\* swap cells of the array.
TypeOK ==
  /\ uniq \in UniqueKeys /\ edge \in BOOLEAN
  /\ lottery \in [0 .. LotterySize -> Cells]
  /\ \E n \in Grids : DOMAIN th = 1 .. n
  /\ th \in [DOMAIN th -> [pc : {"draw", "read", "cas"}, row : Nat,
                              idx : 0 .. LotterySize, val : Cells]]
  /\ \A t \in DOMAIN th : th[t].idx = LotterySize => edge
  /\ build \in [Rows(BuildRows) -> Cells \cup {Undrawn}]
  /\ stage \in [Ranks -> {"generate", "send", "recv", "done"}]

\* The lottery loses and doubles no key: whatever two threads read before
\* either swaps, every key is in its cell or in exactly one build row.
LotteryConserved ==
  (uniq /\ ~edge /\ stage[Gpu] = "generate") =>
    \A k \in Drawable :
      (IF lottery[k] = k THEN 1 ELSE 0)
      + Cardinality({i \in Rows(BuildRows) : build[i] = k}) = 1

\* "Each value in the build table will be from [0,rand_max] and if
\* uniq_build_tbl_keys is true ... uniq", a probe key "also in the build table
\* ... and a random number from [0,rand_max] \setminus build_tbl otherwise":
\* true of what the kernels make, unless a random number was exactly 1.
KernelOutcome ==
  (local[Gpu] # NoTable /\ ~edge) => IsLocal(local[Gpu], uniq)

\* The result tables together hold every generated row once, and every row
\* can be told by its payload.
Returned(tbl) == UNION {{<<r, i>> : i \in DOMAIN out[r][tbl]} : r \in Ranks}
AllRows(tbl)  == UNION {{Shifted(r)[tbl][i] : i \in DOMAIN Shifted(r)[tbl]} : r \in Ranks}

RowsConserved ==
  (\A r \in Ranks : stage[r] = "done") =>
    \A tbl \in {"build", "probe"} :
      /\ {out[p[1]][tbl][p[2]] : p \in Returned(tbl)} = AllRows(tbl)
      /\ Cardinality(Returned(tbl)) = Cardinality({x.payload : x \in AllRows(tbl)})

\* "Whether the keys in the build table are unique": asked for, they differ
\* over all ranks.  They do not: rank r's keys lie in [r * rand_max,
\* (r + 1) * rand_max], and neighbours share an end.
KeysUnique ==
  ((\A r \in Ranks : stage[r] = "done") /\ uniq /\ ~edge) =>
    \A p, q \in Returned("build") :
      out[p[1]].build[p[2]].key = out[q[1]].build[q[2]].key => p = q

\* Every thread finds a key, since there are more keys than rows, and every
\* rank returns.
Terminates == <>(\A r \in Ranks : stage[r] = "done")
=============================================================================
