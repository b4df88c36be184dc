---------------------------- MODULE DeviceMemory ----------------------------
(***************************************************************************)
(* A rank's device memory as the communicators use it: the blocks taken    *)
(* from the current memory resource, the pool of                           *)
(* setup_memory_pool_and_communicator, with what they hold, the pool's own *)
(* count of the bytes given out, and the memory handles registered with    *)
(* UCX (src/src/registered_memory_resource.hpp, register_buffer).          *)
(*                                                                         *)
(* rmm is external: allocate gives a block nobody has, deallocate takes    *)
(* the block back and trusts the size it is called with.                   *)
(***************************************************************************)
EXTENDS Integers, Sequences, FiniteSets, FiniteSetsExt

CONSTANT N   \* mpi_size

ASSUME NAssumption == N \in Nat \ {0}

VARIABLES
  alive,    \* alive[r]: "context" (UCX context and worker, NCCL communicator and
            \* stream), "comm" (the communicator object), "registered", "pool"
  handles,  \* handles[r]: memory registered with UCX: "pool", "cache"
  blocks,   \* blocks[r]: the blocks allocated in the pool, size and contents
  inUse     \* inUse[r]: bytes the pool counts as given out

memVars == <<alive, handles, blocks, inUse>>

Ranks == 0 .. N - 1
Garbage == <<>>

Block(n, v) == [size |-> n, val |-> v]

\* The blocks of new beside, or in the place of, those of f.
With(f, new) == [b \in DOMAIN f \cup DOMAIN new |-> IF b \in DOMAIN new THEN new[b] ELSE f[b]]
Only(b, v)   == [x \in {b} |-> v]

\* External: device_memory_resource::allocate of all blocks of new, and
\* deallocate, block by block, with the sizes in old.
Bytes(f) == MapThenSumSet(LAMBDA b : f[b], DOMAIN f)

Allocate(r, new) ==
  /\ blocks' = [blocks EXCEPT ![r] = With(@, new)]
  /\ inUse' = [inUse EXCEPT ![r] = @ + Bytes([b \in DOMAIN new |-> new[b].size])]

Without(f, S) == [b \in DOMAIN f \ S |-> f[b]]

Deallocate(r, old) ==
  /\ blocks' = [blocks EXCEPT ![r] = Without(@, DOMAIN old)]
  /\ inUse' = [inUse EXCEPT ![r] = @ - Bytes(old)]

\* What a transfer reads from a block: garbage once the block is gone.
Read(r, b) == IF b \in DOMAIN blocks[r] THEN blocks[r][b].val ELSE Garbage

\* The blocks of f with the contents in new, where they are still there.
Write(f, new) == [b \in DOMAIN f |-> IF b \in DOMAIN new THEN [f[b] EXCEPT !.val = new[b]] ELSE f[b]]

MemInit ==
  /\ alive = [r \in Ranks |-> {}]
  /\ handles = [r \in Ranks |-> {}]
  /\ blocks = [r \in Ranks |-> <<>>]
  /\ inUse = [r \in Ranks |-> 0]

Create(r, o) == alive' = [alive EXCEPT ![r] = @ \cup {o}]
Delete(r, o) == alive' = [alive EXCEPT ![r] = @ \ {o}]

\* new pool_memory_resource, set_current_device_resource: the pool takes one
\* block from its upstream resource, which do_allocate of a
\* registered_memory_resource registers with UCX.
NewPool(r, upstream) ==
  /\ Create(r, "pool")
  /\ handles' = [handles EXCEPT ![r] = IF upstream = "registered" THEN @ \cup {"pool"} ELSE @]
  /\ UNCHANGED <<blocks, inUse>>

\* delete pool_mr: the block goes back upstream, where do_deallocate looks up
\* its handle and deregisters it; blocks not deallocated are lost with it.
DeletePool(r) ==
  /\ Delete(r, "pool")
  /\ handles' = [handles EXCEPT ![r] = @ \ {"pool"}]
  /\ UNCHANGED <<blocks, inUse>>
=============================================================================
