# A TLA+ verification of distributed-join

distributed-join computes an inner join of two tables whose rows are spread over
the GPUs of many MPI ranks. Rows are hash-partitioned, shuffled with all-to-all
communications so that equal keys meet on one rank, and joined locally. This
directory holds the models of the parts where that can go wrong, their TLC
configurations, and machine-checked proofs. Paths are relative to the
repository; `PROJECT.json` maps every definition to the lines it models.

## 1. Inventory

| Component | State | Operations | Correct when |
|---|---|---|---|
| `Communicator` interface (`communicator.hpp`) | the open round | `start`, `send`, `recv`, `stop` | `stop` returns with exactly the peers' messages of this round |
| `UCXBufferCommunicator` (`communicator.cpp:300-784`) | queue of communication buffers, pending requests, the `SendInfo`/`RecvInfo` in each UCX request | `setup_cache`, `send`, `recv` (two overloads), `send_handler`, `recv_handler`, `waitall`, `finalize` | any mix of immediate, delayed and early callbacks delivers every element once; buffers and recycled requests are clean |
| `UCXCommunicator` (`communicator.cpp:40-298`) | context, worker, endpoints, pending requests | `initialize`, `send`, `recv` (known size, probing), `waitall`, registration, `finalize` | as the interface; the caller's blocks stay untouched while UCX uses them; no worker goes before its peers are done |
| `NCCLCommunicator` (`communicator.cpp:799-875`) | NCCL group, communication buffers and their sizes | grouped calls through aligned buffers | as the interface; every buffer is given back with its allocated size |
| `CommunicationGroup` (`all_to_all_comm.hpp:72-111`) | grid size, stride, start | `size`, `get_global_rank`, `get_local_idx` | members agree, indices invert |
| All-to-all (`all_to_all_comm.cpp`) | send/receive offsets, buffers, compressed sizes | `communicate_sizes`, `AllToAllCommunicator`, `all_to_all_comm`, postprocessing | every row and string lands at its place |
| String columns (`strings_column.cu`) | sizes, offsets | offsets to sizes and back, char offsets | round trip is the identity |
| Compression (`compression.hpp/.cpp`) | options per column | compress, decompress, choose and broadcast options | decompression inverts, sizes agree across ranks |
| `shuffle_on`, `distributed_inner_join` | hashed tables, batches, atomic flags, join thread | two shuffle stages, pipeline of communication and join, concatenation | together the ranks return the inner join |
| `distribute_table`, `collect_tables` | column in progress, slices, merged columns | cut and reassemble | inverse of each other |
| Setup, memory resources (`setup.cpp`, `registered_memory_resource.hpp`) | pool, registered memory, communicator | construct, allocate, register, tear down | every object outlives its use, for every communicator and registration method |
| Table generation (`generate_table.cuh`, `generate_dataset.cuh`) | lottery of unused keys, tables | kernels that draw keys with `atomicCAS`, shift by rank, exchange of chunks | no key drawn twice, rows conserved, hits match and misses do not |
| Error macros, benchmarks, tests | none of the protocol | - | - |

*Interaction.* `distributed_inner_join` calls `shuffle_on` and
`AllToAllCommunicator`; both call `communicate_sizes` (MPI, one tag for all
exchanges) and then `start`/`send`/`recv`/`stop` of a `Communicator`. The main
thread of a rank communicates; a join thread shares the communicated tables and
a vector of atomic flags with it. UCX runs callbacks on the main thread, from
`ucp_worker_progress` or inside `ucp_tag_recv_nb`.

*What is hard.* Callbacks that run before their handle is filled in; requests
that UCX recycles without initialising them again; messages that are told apart
only by their order, on two channels, by ranks that may be a round ahead;
offsets relative to a batch mixed with offsets into a table; a two-stage hash
whose group sizes come from a divisor search; a busy-waiting join thread; GPU
threads that race for keys; objects whose order of destruction depends on the
configuration; one rank that decides (and may throw) for all. The
list with lines and covering properties is `hazards` in `PROJECT.json`. No part
persists anything or recovers from a crash: errors end the program.

## 2. Modules

```
Communicator <- CommunicatorProofs          (what start/send/recv/stop promise)
  ^ refinement   ^ refinement
BufferComm     Session -> UCXComm, NcclComm -> DeviceMemory
  ^              ^                          (setup, warm-up, tear-down; unbuffered UCX, NCCL)
  |              '-- SessionProofs
  '-- BufferCommProofs <- DeliveryProofs
CommGroup <- Placement                      (where a key's rows go)
     ^           ^-- DistributedJoinProofs
     ^------ DistributedJoin                (both stages, batches, join thread)
CompressionOptions <- AllToAll <- AllToAllProofs
                                            (options; one all-to-all: sizes, strings, compression)
DistributeTable <- DistributeTableProofs    (cut a table, collect the pieces)
GenerateTable <- GenerateTableProofs        (random tables on all ranks)
```

A `...Proofs` module extends the module it is about.

**Communicator.** The abstract interface. `rnd[r]` counts `start` calls,
`sent[s][d]` the messages so far, `got[r]` is what is in the receive buffers
outside `start`/`stop`. Actions `Start`, `Send`, `Stop`; `recv` has no effect of
its own before `stop` returns. There is no barrier, as in the code.

**BufferComm.** `UCXBufferCommunicator` as the `*_data_by_offset` loops use it.
A step is one call: a send, a recv, one activation or one return of
`recv_handler`, one callback, a `waitall` that succeeds. `info[r][h]` is the
handle (`orig` is `orig_info`, with `Marked` for the value `0x1` an early
callback leaves), `stack[r]` the nested activations of `recv_handler`,
`cache[r]` is `buffer_cache`. External, from how the code uses it: UCX delivers
in order per source and destination (tags name the source), a send completes
inside the call (`SendNow`, the `k` batches of `SendHandlerMore`) or later
(`Flush`, then a callback), a receive completes inside `ucp_tag_recv_nb`
(`RecvNow`, `RecvHandlerNow`) or is posted. The request pool hands out its
lowest free request, so requests are reused as soon as possible; `MaxReq` never
binds in the runs. Fields of a released handle that are overwritten before they
are read take one value (`Dead`). `SendLater` assumes that a recycled request is
not `custom_allocated`; `FreeRequestsClean` shows it. An exception for lack of a
buffer leaves what UCX already got in place and ends the rank's calls.

**CommGroup, Placement.** The index arithmetic of `CommunicationGroup`,
`get_nvl_partition_size`, and the path of two rows with equal keys through both
shuffle stages. The two hashes of the key are arbitrary numbers below the number
of partitions; nothing else about hashing matters.

**DistributedJoin.** All ranks at once, each with a main thread (`Main`) and a
join thread (`JoinThread`). A table is a set of rows with an id and a key; an
all-to-all is a `Send` of everyone's partition and a receive that takes one
message of each group member, in order and without looking at a name, as
`Communicator` promises. `cudf::concatenate` throws when the tables do not have
the same columns; `LocalJoin` returns a table without columns when a side has no
rows, as `local_join_helper` does.

**AllToAll, CompressionOptions.** One `AllToAllCommunicator` per rank with the
three kinds of buffer the code makes: string sizes, chars and a fixed-width
column. Before it, the caller makes the compression options
(`CompressionOptions`): locally, selected by the root from its own data, or given
to the root. The selector comes to one column after the other (`Select`). Then every
rank walks over its own columns and their children (`todo`), and each of the two
`MPI_Bcast`s of a node is a step of each rank (`BcastMethod`, `BcastFormat`): the root
goes on, another rank takes the next word in `bcasts`, which names no node. The
selector throws on the root for a type it does not support; only the fixed-width column
can have one, since the offsets it also looks at are integers; nobody catches that, so
it ends the program (`thrown`). A word of a message names
the rank and position it comes from; a string size also carries its value,
because the receiver computes offsets from it. `Garbage` stands for what is
outside a vector. nvcomp is external: compressing gives bytes that only together,
in order and with the right item count decompress to the items; the selector's
format depends on the rank whose data it saw.

**Session, UCXComm, NcclComm, DeviceMemory.** A whole program on every rank, as a
sequence of calls (`Programs`, `ip[r]`): setup for one of the kinds NCCL, UCX
with `buffer`, `preregistered` or `none`, or an unknown name, which throws; some
exchanges written like `warmup_all_to_all`; destruction. `alive[r]` has the
objects that exist, `handles[r]` the memory registered with UCX, `blocks[r]` what
is allocated in the pool, with contents, and `inUse[r]` the pool's own count,
which trusts the sizes passed to `deallocate`. `UCXComm` keeps the requests of
`pending_requests`; a send either completes at once (null handle) or reads the
caller's block until UCX takes it, and a receive takes the first message of its
tag. `NcclComm` queues calls between `start` and `ncclGroupEnd` (`Launch`) and
copies in `stop`. The loops over the ranks make one send a step; the receives,
which only post, are one step together. `session.probing` replaces the receives
by the overload that probes and allocates, followed by `waitall`, as
`test/buffer_communicator.cu` uses handles. A round of the buffered communicator
is the promise of `Communicator`, since `BufferComm` implements it.

**GenerateTable.** `generate_tables_distributed`. GPUs share nothing, so the
threads of rank 0's GPU are modelled step by step (draw an index, read the cell,
`atomicCAS`), and the other ranks' tables are some of those that `KernelOutcome`
shows the kernels can make. Random numbers are external: any index, and the one
behind the array when the number is exactly 1. The build keys are then excluded
(`LotteryAfter`), probe keys drawn, keys and payloads shifted by the rank, and
chunk `j` goes to rank `j` in one exchange of all buffers.

**DistributeTable.** `distribute_table`, some work on the slices and
`collect_tables` on all ranks. A cell names its column and row. Each column is one
message per worker; in `distribute_cols` a worker waits for the root, in
`collect_tables` the root waits for all workers, and nobody waits for anybody
else. `MPI_Bcast` and `MPI_Gather` are external: in the first only the workers
wait, in the second only the root. `start` and `stop` are what `Communicator`
promises, so a round on the root is one step. The three broadcasts are one: the
number of columns is the constant `Cols`, and column types are left out.

`MC*.tla` give the inputs for TLC. Operators marked *Mutant* are plausible bugs of
the definition they precede, used to test that the properties can fail; no
specification uses them.

## 3. Runs

| Run | Checks | Bounds |
|---|---|---|
| `communicator` | `Lockstep`, `BoundedBacklog`, `OwnRound`, `AllRoundsDone` | 3 ranks, 3 rounds: a rank between a fast and a slow peer |
| `buffer_comm` | `DeliveredIntact`, `BufferExclusive`, `InFlightStable`, `FreeRequestsClean`, `NoThrow`, `QuietWhenClosed`, `ImplementsCommunicator`, `Terminates` | 2 ranks, 2 rounds, 3 elements one way and none or 2 the other, 2 per batch: a partial, an exact and no last batch; recycled requests, a peer one round ahead; 0, 1 or 2 buffers: `send` throws, `recv` throws, exactly enough |
| `placement` | `TypeOK`, `Colocated`, `GroupsConsistent` | up to 9 ranks (squares, primes, composites), any domain up to 9, up to 2 batches |
| `all_to_all_options` | `FixedIntact`, `FirstBatchStrings`, `CountsAgree`, `OwnSizes`, `SameOptions`, `Terminates` | 2 ranks, every partition of up to 2 rows, batches that start at row 0 or 1, options made in every way, grouping and explicit copy or not; empty strings and partitions |
| `distribute_table` | `Tiled`, `Collected`, `Terminates` | 4 ranks, 2 columns, 0, 1, 5 and 7 rows: fewer rows than ranks, a remainder of one and of all but one; every rank keeps any prefix of its slice |
| `join` | `JoinsWholeBatches`, `TakesOwnMessages`, `ResultIsJoin`, `Terminates` | 2 ranks in one or two domains with every distribution of up to 5 rows, 4 ranks in 2 domains with both stages; 2 batches |
| `session` | `ObjectsOutliveUse`, `WorkersOutlivePeers`, `TransfersOwned`, `PoolBalanced`, `ImplementsCommunicator`, `Terminates` | 3 ranks, every kind, 2 exchanges (1 with probing receives), messages that are no multiple of the alignment; at most `MaxBusy` = 1 send in progress at a time, enough for one that is still read when its receiver is a round behind or its sender polls |
| `generate_tables` | `TypeOK`, `LotteryConserved`, `KernelOutcome`, `RowsConserved`, `Terminates` | 2 ranks, 2 rows per table, 4 keys; 1 thread that makes both rows or 2 that race; unique keys or not |
| `join_schema`, `all_to_all_strings`, `session_leak`, `generate_tables_unique` | one documented claim each, which TLC refutes (see below) | small: two ranks; one exchange of unbuffered UCX, unique keys only, no compression |

Two ranks are enough for the callbacks of `BufferComm`: a rank's queues, handles
and buffers towards different peers meet only in the buffer and request pools.
Three ranks exceed what TLC can explore in minutes; messages to oneself and the
`recv` overload that is given a buffer multiply the states and are left to the
theorems, which hold for every `IncludeSelf` and `Overloads`. So is the
lottery at the limit of the key type, where it has one cell less (theorems
`TypeInvariant` and `KernelsCorrect` of `GenerateTableProofs`, for every `KeyMax`).
`Session` has three, so that a tag or an index
of one peer can be taken for another's.

Only `communicator` turns deadlock checking off, since its ranks stop after their last
round. The other models end in an explicit `Ended` step, and TLC checks that nothing
else stops them. An exception that nobody catches ends the program.

*Fairness.* Weak fairness of each rank's steps: a rank is a running thread, and
inside `stop` it polls in a loop. Weak fairness of the network (`Flush`): UCX
completes a send eventually, which the loop in `waitall` relies on. Weak
fairness of main and join thread separately in `DistributedJoin`. Nothing
stronger is assumed; there is no fairness between the callbacks UCX may run, as
any order of them ends. In `GenerateTable` weak fairness of every GPU thread: a
kernel ends only when all its threads do, and the lottery loop takes no lock, so
no thread needs another one to go on.

### Disagreements between code and documentation

- `join_schema`: a rank without rows on one side returns a table without
  columns, where the documentation and a test's assertion promise the joined columns.
  With batches, some with rows and some without, `concatenate` gets tables with
  different columns (the `thrown` states of `join`).
- `all_to_all_strings`: for a batch that does not start at row 0 the vector of
  string sizes starts at the batch, but is indexed with offsets into the whole
  table (`all_to_all_comm.cpp:264` and `641`): strings are cut at wrong places.
  Fixed-width columns are not affected, and neither are strings of a
  first batch (`FixedIntact` and `FirstBatchStrings` in `all_to_all_options`).

- `session_leak`: `warmup_all_to_all` announces to deallocate its send and receive
  buffers (`all_to_all_comm.cpp:225`), but its loop ends at `mpi_rank`: buffers for the
  ranks above stay allocated until the pool is deleted.
- `generate_tables_unique`: build keys asked to be unique
  (`generate_table.cuh:147`) need not be: `rand_max * mpi_rank` is added to keys from
  `[0, rand_max]`, so neighbouring ranks share an end. Probe rows drawn as misses can
  match there too, which the documented selectivity (line 143) does not allow for.

One more, which no run states: `get_nvl_partition_size` is documented as "the largest
integer that divides *mpi_size* and is not larger than *nvlink_domain_size*"
(`distributed_join.cpp:57-58`), but searches only from `ceil(sqrt(mpi_size))` down: 8
ranks with a domain of 4 get 2. The join is correct for any divisor
(`ColocatedInvariant`); the NVLink stage is smaller than it could be.

### What the checks show besides

- `PoolBalanced`: except for those buffers, everything taken from the pool is given
  back with the size it was taken with.
- The keys of all ranks meet nowhere but at the common ends (theorem `KeysGlobal`).
- `KernelOutcome` excepts a random number of exactly 1, which makes
  `x * lottery_size` one cell too far (`generate_dataset.cuh:73` and `127`; the
  index in between is clamped).
- `setup.cpp:115-129`: each of the two orders of destruction is right for its
  kinds, and `ObjectsOutliveUse` fails when they share the second one.

## 4. Proofs

All proofs are by TLAPS, for every value of the constants that satisfies the
named assumptions.

**CommunicatorProofs** (assumes: `Rounds` is a natural number, being a peer is
symmetric). `LockstepInvariant`, `BacklogInvariant` and `OwnRoundInvariant` rest on
`IInv == TypeOK /\ SentInv /\ RecvInv /\ RoundInv /\ HeldInv`. `Lockstep` alone is
not inductive: that a peer has started a round is known only through the message
it sent, so `SentInv` bounds what a rank has sent by its own round and `RecvInv`
bounds its round by what it has been sent. For `OwnRound`, `RoundInv` says that the
`k`-th message of every queue is one of round `k`, which needs that nobody ends a round
without having sent, and `HeldInv` that a closed rank holds the messages of its round.

**BufferCommProofs** (assumes: at least one rank, and a peer to talk to; any set of
numbers of buffers; at least one element per batch; any bounds on requests, rounds and
elements). `BuffersExclusive`, `CacheSuffices`, `RequestsReset` and `SendsUndisturbed` rest on
`IInv == TypeInv /\ \A r \in Ranks : RankInv(r)`. The argument follows the handles. A
transfer of the round is a handle of `pending_requests`. It is carried on by at most one
handle: one in UCX's hands (`InUCX`: a send in progress, a completed send, a posted receive) or
the argument of the callback about to run (`Due`). `PlaceInv` says that a request is in one of
these places only and is not free meanwhile; `CarryInv` that an active handle leads to its
transfer through `orig_info`, that the transfer is not completed yet, and that two active handles
lead to two transfers; so a callback that sends or receives the next batch writes into a
buffer nobody else uses. `OwnInv` is the ownership of buffers, `CountInv` the number of
buffers a round has taken, from which the cache suffices, `CleanInv` the state of free requests, and
`ReadInv` what is still read from buffers. `HeapInv` is needed because a send whose count goes
out at once gets a handle from `malloc`, which must be new and must not reach UCX's pool. None of the
four properties is inductive alone: that a recycled request is clean depends on which handle a
callback releases, and that on `CarryInv`. `RankInv(r)` mentions one rank, so a step of
another rank keeps it if that rank at most takes messages out of the network (`Frame`), and there
is one lemma for each action at its own rank (`...Rank`). A transfer that begins is handled once for
the four ways it can (`Begins`), the callback of a send once for its two callers (`SendEffect`).

**DeliveryProofs** (same assumptions). `MessagesDelivered` rests on `IInv` and `DelInv == UserType /\ \A s, d \in Ranks : Between(s, d)`. All
messages from `s` to `d`, of all rounds, are one stream: the position `<<k, 0>>` is the count of round `k`,
`<<k, i>>` its `i`-th batch, and `IsAfter` the next position. `Between` says that the messages under way lie in
consecutive positions from the one the receiver expects next (`ReceiverAt`) to the one the sender
sends next (`SenderAt`), each with the value of its position, and that what the receiver copied up to its
position is what was sent (`FilledTo`). The receiver's position is that of its round before it calls
recv (`ToCome`), of the receive it posted (`IsPosted`), after the message its callback is about to
handle (`IsCalled`), or the next round's (`HasAll`); `CarryInv` and `OwnInv` make the posted receive
and the buffer the message lands in its own. The sender's is read off the one request that carries its message on
(`InProgress`), or follows the messages sent. A step that sends extends the stream at one end (`BetweenSent`, also for
the run of batches an immediate send puts out in one call: `Parts`, `Calling`, `Continues`), one that
receives takes from the other (`BetweenTaken`), and all others leave both positions where they are (`BetweenKept`). The
proof needs no bound on how far a sender is ahead: that messages of two rounds are never mixed up follows from
the order alone.

`BufferCommRefines` is the refinement of `Communicator`, step by step: with the mapping of
`ImplementsCommunicator` (`Phase`, `round`, `Streams`, `Results`) `Start`, `SendNow`/`SendLater`/`SendThrow` and
`WaitAll` are the interface's `Start`, `Send` and `Stop`, every other action changes none of the four
(`StepMoves` says which action moves what). That a stop finds what it needs is
`DeliveredIntact` of its next state; that a call of send comes at most once per peer and round is `SentSoFar`, and
`EndInv` keeps rounds and program counters together. No number of buffers is
assumed: a `send` or `recv` that throws leaves a round open that the interface would have closed, and a
`send` has announced its count by then, which is the interface's `Send`.

`ClosedQuiet` needs two things more. `NothingLost`: every request is free, a transfer's own handle, in UCX's hands
or in a callback's, so that a rank outside a round has them all back. And `NothingUnderWay`: when sender
and receiver have both left their last round, the receiver's position in the stream is that of a round that is
never sent. `EndInv` carries that a rank past the barrier found all others there.

**DistributedJoinProofs** is about `Placement` and `DistributedJoin`, which share the arithmetic of groups.
For `Placement` (assumes: positive bounds on ranks and over-decomposition,
any domain size, any hashes) `TypeInvariant`, `ColocatedInvariant` and
`GroupsInvariant` rest on `RowsInv == TypeOK /\ Begun /\ Placed`: once a stage is over,
the rank and the batch of a row are a function of the hashes of its key and no longer of
where it started. `Begun` carries that the stage size divides `mpi_size`. The lemmas go
from division (`DivMod`, `DivUnique`, `BlockBound`) over the divisor search
(`NvlDivides`) to the address of a rank, its domain and its position in it
(`Address`, `Addressed`), from which both stages' moves (`MoveIb`, `MoveNvl`) and the
consistency of the groups follow.

For `DistributedJoin` (assumes in addition `HashAssumption`: the hashes of the rows'
keys are natural numbers) `OwnMessagesTaken`, `WholeBatchesJoined` and `JoinCorrect` rest on
`IInv == TypeInv /\ ChanInv /\ RankAt`. Every rank performs its communications in one fixed order, so
the number of those it has sent and finished (`SentOf`, `DoneOf`) says where it is;
`ChanInv` says that a channel holds exactly the messages between the receiver's number and the
sender's, in order and with the partition of the whole input that belongs to them. That is what makes
nameless messages find their communication, and what a receive puts into a batch is then the
whole batch (`BatchComplete`, by the addresses of ranks as for `Placement`). `RankAt` connects flags, tables and
results to that position. `JoinCorrect` finally needs that equal keys meet in one batch of one
rank and that two batches share no pair.

**GenerateTableProofs** (assumes: the bounds of the model; any number of threads, rows and
keys). `TypeInvariant`, `KeysConserved` and `KernelsCorrect`. `LotteryConserved` speaks of the lottery and
the rows; inductive is that a cell holds its own key exactly as long as no row has it, that rows have
different keys, that a thread between its read and its `atomicCAS` remembers the key of the cell it read
(so a swap that succeeds takes that key, however old the read is), that a thread looks
at a cell behind the lottery only after a random number of exactly 1, and that the rows of a thread
are those of its residue below its current one, so no row is written twice (`RowsOf`).
`RowsReturned` and `KeysGlobal` add `FInv`: a chunk is under way from its sender's first half of the
exchange to its receiver's second half, which needs one of every rank (`ExchangeInv`), and whoever has
left the kernels has a table as it should be (`GeneratedInv`). Since the chunks of a table have one
length, row `k` of rank `s` has a place of its own (`Place`; `Placed` and `Came` are the two directions),
found by unfolding `FlattenSeq` (`FlatSteps`, `FlatIs`); payloads tell rows apart because the shift is a
whole table (`PayloadTells`), and keys of two ranks can only meet at an end because the shift is the
largest key (`Ends`).

**AllToAllProofs** (assumes in addition `AscendingAssumption`: offsets of partitions and of strings never
decrease; `CompressedAssumption`: compressing something gives at least a byte). `OneTreeOfOptions` rests on
`OptInv`: there is a number `at[r]` of words rank `r` has walked over, which decides what it still has to visit
(`Rest`), the method it holds (`MethodAt`) and the options it has made (`OptionsAt`), and between the root and a rank are
the words between their two numbers, in order (`Between`). As the walk follows types that are the same on all ranks, a
nameless word is of the node the rank has come to. The root starts its walk with a finished tree only (`WalkAt`), so
a selector that throws leaves every `at[r]` at zero.
`SizesTakenInOrder` and `ReceivesMatchSends` rest on `IInv`: because options agree, all ranks perform
the same sequence of size exchanges and rounds; `SizesBetween` says that the size messages between
two ranks are those between the receiver's position in that sequence and the sender's, with the
sizes of the sender's partitions, and `DataBetween` the same for the messages of a round.
`RowsIntact` and `StringsRebuilt` are about what the buffers hold in the end and rest on `DataInv` on top of
`IInv`: after `Stopped(r)` buffers every peer's payload lies at its place in the buffer it lands in
(`LandedAt`, bytes or words), the part that stays is there from the allocation on and everything at the
end (`FinishedAt`). A place is where the partial sums of the sizes put it, so two ranks' places do not
overlap (`OnePlace`) and pasting all messages puts each where it belongs (`PastedHolds`, used for the
rounds and for decompression); that a message is as long as its place is `IInv`. For
strings, the recursive functions `PartialSums` and `StringOffsets` are unfolded into `SumsUpTo`; over the
rows of one source the rebuilt offsets advance as the source's own (`Telescope`, `SourceOffsets`), so every
source's strings start where its chars start (`SourceStarts`, induction over the ranks).

**DistributeTableProofs** (assumes: at least one rank and one column). `SlicesTile` is about the
operators: start and size of the slices agree, without gap or overlap, and the last
slice ends with the table. `SlicesTiled` and `TablesCollected` rest on
`IInv`: `Dealt` and `Returned` count the rounds a rank has ended, and the messages between
the root and a worker are the columns between the two ranks' counts, in order (`DownInv`,
`UpInv`); that is why nameless messages of fast workers meet their own column. What the
recursive functions `Scan` and `Joined` compute is shown by `Climb`, induction over `0 .. n` in the
form of a set with a least missing element: `ScanValues` and `JoinedSteps` unfold them, `ScanOrder`
separates the parts, and `JoinedIs` recognises a sequence that has each part where the scan
puts it as their concatenation, which serves both the slices and the merge (`MergeJoins`).

**SessionProofs** (assumes: at least one rank, any set of programs and any bound on exchanges, a message
and an alignment of at least a byte). `ObjectsLive`, `WorkersLive`, `BuffersOwned` and `MemoryBalanced` rest on
`IInv`, which has four parts. (1) Where every rank is in its program (`Site`: in setup, at the start of an exchange,
at a call inside one, in destroy). A program is unfolded into its parts once (`ProgramIs`); from then on a
proof only uses which call may follow which (`Follows`, `StepFollows`). The call decides which objects exist
and which memory is registered (`ObjectsInv`, `During`), so `ObjectsOutliveUse` is not inductive without it.
`LeaveInv` says that a rank past the barrier found every rank past `close`. (2) What has been sent (`SentInv`):
as many messages to a peer as the sender's place in its loop says, which is what decides the next
receiver. (3) What UCX holds (`UcxInv`): the messages to a peer under way are those between the
receiver's round and the sender's, in order, and one whose send is not complete has an unchanged block and a
pending request (`NetInv`); a rank's posted receives are those of its round that are pending and not
complete, each with the tag of its peer and a block of that round (`PostedInv`, `RequestsInv`). Hence a `stop` that
returns has left nothing posted, and `close`, which waits for the flush, nothing unread. (4) The account of
memory (`BlocksInv`): the allocated blocks are those of the round, those `warmup_all_to_all` forgot in the
rounds before, the NCCL buffers of the round and the cache, and the pool's count is their sizes together. Sets of
blocks are counted through `Grown` and `Shrunk`. NCCL buffers are named by their position in `comm_buffers`
(`BuffersInv`), by which `free` gives each back with the size it was taken with. Steps are sorted by what they do
to messages (`AllSteps`, `UcxSteps`) and to blocks (`MemStep`), with one lemma per sort.

`SessionRefines` (`Spec => ImplementsCommunicator`, for all three communicators) needs to know besides *what* the
messages say, wherever they are: `ValInv`, which is inductive together with `IInv` (`Values`). The blocks of a round
hold its messages until `free` (`Loaded`), so what is sent is what the round should send (`Told`). For UCX without
buffers a message under way says what the block it was sent from did (`Carried`), and the block of a receive that is
no longer awaited has the peer's message of this round (`Filled`). For NCCL the queued calls are the sends and then the
receives to the same peers in the same order, with the send messages copied into the first half of the communication
buffers and each receive tied to its landing place (`GroupInv`); what is on the wire between two ranks are the messages
of the rounds the sender has launched and the receiver has not stopped, in order (`WireInv`). Hence `stop` finds each
peer's message of its own round (`UcxBrings`, `BufferBrings`, `NcclBrings`), which is the only step of the
interface that is not immediate (`PromiseStop`).

*Only model-checked:* liveness and what needs `ENABLED`: `Terminates` of every protocol,
`AllRoundsDone`, and the liveness part of `ImplementsCommunicator` of `BufferComm` (its safety part is
`BufferCommRefines`; that of `Session` has no liveness part and is proved). Every invariant that a
passing run checks is also stated by a theorem.

## 5. Not modelled

- `wait(handle)`: nothing in the repository calls it; `UCXCommunicator::wait` is
  `waitall` of one handle.
- User tags: the repository's own calls all use the reserved tag.
- A communication buffer smaller than an element (`communicator.cpp:407`, for
  which `setup.cpp:85` leaves room): a wrong configuration, excluded by
  `BatchAssumption`.
- A second `registered_memory_resource`, or a second block from one: setup makes
  one resource and a pool that cannot grow.
- Column types in `distribute_table`, of which `MPI_Bcast` transfers four bytes
  (`distribute_table.cpp:147`).
- GPU kernels other than the lottery, cudf, nvcomp, rmm, MPI, NCCL and UCX:
  external, by what the code relies on. `warmup_nvcomp` changes no state.
- Integer widths: row counts are `cudf::size_type`; the small instances do not
  come near its limit, and the code has no wrap-around it depends on. The lottery at the
  limit of the key type is modelled (`LotterySize`); that the keys shifted by the rank
  still fit the type is assumed (`KeyAssumption`).
- Error macros, timing output, benchmarks and tests.

## 6. Plan

Order: most important behaviour first.

1. *Done:* `Communicator`, `BufferComm` with its refinement, `CommGroup`,
   `Placement`, `DistributedJoin`, `AllToAll`, `DistributeTable`; proofs about
   `Communicator`, `Placement` and the slices of `DistributeTable`.
2. *Done:* `UCXComm`, `NcclComm` and their life in `Session`, shown to implement
   `Communicator`; `CompressionOptions` in front of `AllToAll`; `GenerateTable`.
3. *Done:* proofs about the buffers, requests and delivery of `BufferComm`, the message order, flags and
   result of `DistributedJoin`, the lottery, kernels and exchange of `GenerateTable`, the options, size
   exchanges and data of `AllToAll`, the tiling and the collection of `DistributeTable`, the objects,
   transfers and memory of `Session`.
4. *Done:* the requests of `BufferComm`, and the refinements of `Communicator` by `BufferComm` and by
   `Session`. No proof of the plan is left.
