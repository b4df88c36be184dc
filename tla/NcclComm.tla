------------------------------ MODULE NcclComm ------------------------------
(***************************************************************************)
(* The NCCL communicator (src/src/communicator.cpp, class                  *)
(* NCCLCommunicator): sends and receives go through communication buffers  *)
(* of aligned size taken from the memory pool, are queued in an NCCL group *)
(* and launched by ncclGroupEnd; afterwards the received buffers are       *)
(* copied to the caller's and all of them are given back.                  *)
(*                                                                         *)
(* NCCL is external: the k-th send launched to a rank meets the k-th       *)
(* receive that rank launched from here.                                   *)
(***************************************************************************)
EXTENDS DeviceMemory

CONSTANT Align   \* the alignment of communication buffers, 256 in the code

ASSUME AlignAssumption == Align \in Nat \ {0}

VARIABLES
  commBuffers,  \* commBuffers[r]: comm_buffers with comm_buffer_sizes
  recvBuffers,  \* recvBuffers[r]: recv_buffers with recv_buffer_idx
  group,        \* group[r]: the calls queued since ncclGroupStart
  wire          \* wire[s][d]: messages launched by s for d

ncclVars == <<commBuffers, recvBuffers, group, wire>>

Aligned(n) == ((n + Align - 1) \div Align) * Align

NcclInit ==
  /\ commBuffers = [r \in Ranks |-> <<>>]
  /\ recvBuffers = [r \in Ranks |-> <<>>]
  /\ group = [r \in Ranks |-> <<>>]
  /\ wire = [s \in Ranks |-> [d \in Ranks |-> <<>>]]

\* start(): ncclGroupStart, and the vectors are cleared.
NcclStart(r) ==
  /\ commBuffers' = [commBuffers EXCEPT ![r] = <<>>]
  /\ recvBuffers' = [recvBuffers EXCEPT ![r] = <<>>]
  /\ group' = [group EXCEPT ![r] = <<>>]
  /\ wire' = wire

\* The i-th communication buffer of the round, a block of the pool.
CommBlock(i) == <<"comm", i, 0>>

\* send() of n bytes of block b: they are copied to a communication buffer.
NcclSend(r, d, b, n) ==
  LET i == Len(commBuffers[r]) + 1 IN
  /\ Allocate(r, Only(CommBlock(i), Block(Aligned(n), Read(r, b))))
  /\ commBuffers' = [commBuffers EXCEPT ![r] = Append(@, [blk |-> CommBlock(i), size |-> n])]
  /\ group' = [group EXCEPT ![r] = Append(@, [call |-> "send", peer |-> d, blk |-> CommBlock(i)])]
  /\ UNCHANGED <<alive, handles, recvBuffers, wire>>

\* recv_buffer_idx of the i-th receive, counted from one here.
Idx(len, i) == len + i

\* recv() of n bytes into block dst[s] from every s of the sequence from.
NcclRecvs(r, from, dst, n) ==
  LET len == Len(commBuffers[r])
      blk(i) == CommBlock(len + i)
  IN
  /\ Allocate(r, [c \in {blk(i) : i \in DOMAIN from} |-> Block(Aligned(n), Garbage)])
  /\ commBuffers' = [commBuffers EXCEPT ![r] =
                       @ \o [i \in DOMAIN from |-> [blk |-> blk(i), size |-> n]]]
  /\ recvBuffers' = [recvBuffers EXCEPT ![r] =
                       @ \o [i \in DOMAIN from |-> [dst |-> dst[from[i]], idx |-> Idx(len, i)]]]
  /\ group' = [group EXCEPT ![r] =
                 @ \o [i \in DOMAIN from |-> [call |-> "recv", peer |-> from[i], blk |-> blk(i)]]]
  /\ UNCHANGED <<alive, handles, wire>>

Calls(r, call) == {i \in DOMAIN group[r] : group[r][i].call = call}

\* ncclGroupEnd: the queued calls are launched together.
NcclLaunch(r) ==
  /\ wire' = [wire EXCEPT ![r] =
                [d \in Ranks |->
                   LET mine == {i \in Calls(r, "send") : group[r][i].peer = d} IN
                   IF mine = {} THEN @[d]
                   ELSE Append(@[d], Read(r, group[r][CHOOSE i \in mine : TRUE].blk))]]
  /\ UNCHANGED <<memVars, commBuffers, recvBuffers, group>>

\* What the communication buffers hold when the group is complete.
Landed(r) ==
  LET from(b) == {i \in Calls(r, "recv") : group[r][i].blk = b} IN
  [j \in DOMAIN commBuffers[r] |->
     LET b == commBuffers[r][j].blk IN
     IF from(b) = {} THEN Read(r, b)
     ELSE Head(wire[group[r][CHOOSE i \in from(b) : TRUE].peer][r])]

\* Mutant: the buffers are given back with the sizes of the messages.
GiveBackUnaligned(r) ==
  [b \in {commBuffers[r][j].blk : j \in DOMAIN commBuffers[r]} |->
     commBuffers[r][CHOOSE j \in DOMAIN commBuffers[r] : commBuffers[r][j].blk = b].size]

GiveBack(r) ==
  [b \in {commBuffers[r][j].blk : j \in DOMAIN commBuffers[r]} |->
     Aligned(commBuffers[r][CHOOSE j \in DOMAIN commBuffers[r] : commBuffers[r][j].blk = b].size)]

\* stop(), after the group is complete: copies, deallocations, synchronised
\* with the stream of the communicator.
NcclStop(r) ==
  LET landed == Landed(r)
      copied == [b \in {recvBuffers[r][i].dst : i \in DOMAIN recvBuffers[r]} |->
                   landed[recvBuffers[r][CHOOSE i \in DOMAIN recvBuffers[r] :
                                           recvBuffers[r][i].dst = b].idx]]
      old == GiveBack(r)
      peers == {group[r][i].peer : i \in Calls(r, "recv")}
  IN
  /\ \A s \in peers : wire[s][r] # <<>>
  /\ blocks' = [blocks EXCEPT ![r] = Write(Without(@, DOMAIN old), copied)]
  /\ inUse' = [inUse EXCEPT ![r] = @ - Bytes(old)]
  /\ wire' = [s \in Ranks |-> [wire[s] EXCEPT ![r] = IF s \in peers THEN Tail(@) ELSE @]]
  /\ UNCHANGED <<alive, handles, commBuffers, recvBuffers, group>>
=============================================================================
