------------------------------ MODULE Session ------------------------------
(***************************************************************************)
(* A program's life on every rank: setup_memory_pool_and_communicator      *)
(* (src/src/setup.cpp) with one of the communicators and registration      *)
(* methods, exchanges written like warmup_all_to_all                       *)
(* (src/src/all_to_all_comm.cpp), and                                      *)
(* destroy_memory_pool_and_communicator.  The order in which the objects   *)
(* are made and destroyed differs from kind to kind, because the pool may  *)
(* need the communicator (registration) or the communicator the pool       *)
(* (communication buffers).                                                *)
(*                                                                         *)
(* The program is a sequence of calls, the same on every rank.  The        *)
(* unbuffered UCX and the NCCL communicator are modules UCXComm and        *)
(* NcclComm; a round of the buffered one is what module Communicator says  *)
(* and module BufferComm is shown to implement.                            *)
(***************************************************************************)
EXTENDS UCXComm, NcclComm

CONSTANTS
  Sessions,  \* the programs: see SessionAssumption
  Rounds,    \* bound: exchanges of the longest program
  MsgSize    \* size / mpi_size of warmup_all_to_all, in bytes

\* kind: "nccl"; UCX with "buffer", "preregistered" or "none"; "unknown" is
\* any other name.  probing: the receives are made by the overload that
\* probes and allocates.  rounds: exchanges.
ASSUME SessionAssumption ==
  Sessions \subseteq [kind : {"nccl", "buffer", "preregistered", "none", "unknown"},
                      probing : BOOLEAN, rounds : 0 .. Rounds]
ASSUME SizeAssumption == Rounds \in Nat /\ MsgSize \in Nat \ {0}

VARIABLES
  session,  \* the program, the same on every rank
  ip,       \* ip[r]: the next call of r's program
  rnd,      \* rnd[r]: start() calls
  sent,     \* history: sent[s][d]: what s has sent to d, round by round
  got       \* history: got[r]: what r's buffers held when stop returned

hist == <<sent, got>>
vars == <<memVars, ucxVars, ncclVars, session, ip, rnd, hist>>

kind == session.kind

Peers(r) == Ranks \ {r}

\* The loops over irank skip mpi_rank: the i-th other rank.
Nth(r, i)  == IF i - 1 < r THEN i - 1 ELSE i
Others(r)  == [i \in 1 .. N - 1 |-> Nth(r, i)]

(***************************************************************************)
(* The program.                                                            *)
(***************************************************************************)
SetupCalls(k) ==
  CASE k = "nccl"          -> <<"connect", "pool">>
    [] k = "buffer"        -> <<"pool", "worker", "connect", "cache">>
    [] k = "preregistered" -> <<"worker", "connect", "registered", "pool">>
    [] k = "none"          -> <<"worker", "connect", "pool">>
    [] k = "unknown"       -> <<"throw">>

ExchangeCalls(k) ==
  <<"start">> \o [i \in 1 .. N - 1 |-> "send"] \o <<"recv">>
  \o (IF k = "nccl" THEN <<"launch">> ELSE <<>>) \o <<"stop", "free">>

\* Mutant: one order for every kind.
DestroyCallsPoolFirst(k) ==
  IF k = "nccl" THEN <<"deletePool", "deleteRegistered", "destroyNccl", "deleteComm">>
  ELSE <<"deletePool", "deleteRegistered">>
       \o (IF k = "buffer" THEN <<"uncache">> ELSE <<>>) \o <<"close", "barrier", "deleteComm">>

DestroyCalls(k) ==
  CASE k = "nccl"    -> <<"deletePool", "deleteRegistered", "destroyNccl", "deleteComm">>
    [] k = "buffer"  -> <<"uncache", "close", "barrier", "deletePool", "deleteRegistered", "deleteComm">>
    [] k = "unknown" -> <<>>
    [] OTHER         -> <<"deletePool", "deleteRegistered", "close", "barrier", "deleteComm">>

\* An exception in setup ends the program.
Programs ==
  [s \in Sessions |->
     LET k == s.kind
         exchanges[n \in 0 .. Rounds] ==
           IF n = 0 THEN <<>> ELSE exchanges[n - 1] \o ExchangeCalls(k)
     IN  IF k = "unknown" THEN SetupCalls(k)
         ELSE SetupCalls(k) \o exchanges[s.rounds] \o DestroyCalls(k)]

Program == Programs[session]

NextCall(r) == IF ip[r] <= Len(Program) THEN Program[ip[r]] ELSE "end"

Do(r, call) == NextCall(r) = call /\ ip' = [ip EXCEPT ![r] = @ + 1]

\* Mutant: a rank goes on without waiting for the others.
NoCollective(r) == TRUE

\* An MPI collective, or ncclCommInitRank: everyone has come here.
Collective(r) == \A s \in Ranks : ip[s] >= ip[r]

Init ==
  /\ MemInit /\ UcxInit /\ NcclInit
  /\ session \in Sessions
  /\ ip = [r \in Ranks |-> 1]
  /\ rnd = [r \in Ranks |-> 0]
  /\ sent = [s \in Ranks |-> [d \in Ranks |-> <<>>]]
  /\ got = [r \in Ranks |-> <<>>]

comms == <<ucxVars, ncclVars>>
user  == <<session, rnd, hist>>

(***************************************************************************)
(* Setup.                                                                  *)
(***************************************************************************)
\* initialize_ucx: context and worker.
Worker(r) ==
  /\ Do(r, "worker")
  /\ Create(r, "context")
  /\ UNCHANGED <<handles, blocks, inUse, comms, user>>

\* create_endpoints after MPI_Allgather; NCCLCommunicator::initialize.
Connect(r) ==
  /\ Do(r, "connect") /\ Collective(r)
  /\ alive' = [alive EXCEPT ![r] = @ \cup {"context", "comm"}]
  /\ UNCHANGED <<handles, blocks, inUse, comms, user>>

\* new registered_memory_resource(ucx_communicator)
Registered(r) ==
  /\ Do(r, "registered")
  /\ Create(r, "registered")
  /\ UNCHANGED <<handles, blocks, inUse, comms, user>>

Pool(r) ==
  /\ Do(r, "pool")
  /\ NewPool(r, IF kind = "preregistered" THEN "registered" ELSE "cuda")
  /\ UNCHANGED <<comms, user>>

\* setup_cache: the communication buffers, 2 * mpi_size of them.
CacheBlock == <<"cache", 0, 0>>
CacheSize  == 2 * N * Align

Cache(r) ==
  /\ Do(r, "cache")
  /\ Allocate(r, Only(CacheBlock, Block(CacheSize, Garbage)))
  /\ handles' = [handles EXCEPT ![r] = @ \cup {"cache"}]
  /\ UNCHANGED <<alive, comms, user>>

\* "Unknown communicator name" or "Unknown registration method".
Throw(r) ==
  /\ Do(r, "throw")
  /\ UNCHANGED <<memVars, comms, user>>

(***************************************************************************)
(* warmup_all_to_all.                                                      *)
(***************************************************************************)
SendBlock(d, k) == <<"send", d, k>>
RecvBlock(s, k) == <<"recv", s, k>>
Message(s, d, k) == <<s, d, k>>

\* Which communicator the calls go to.
Unbuffered == kind \in {"none", "preregistered"}

NewSendBlocks(r, k) ==
  [b \in {SendBlock(d, k) : d \in Peers(r)} |-> Block(MsgSize, Message(r, b[2], k))]
NewRecvBlocks(r, k) ==
  [b \in {RecvBlock(s, k) : s \in Peers(r)} |-> Block(MsgSize, Garbage)]

\* The buffers are allocated, then start().
Start(r) ==
  LET k == rnd[r] + 1 IN
  /\ Do(r, "start")
  /\ Allocate(r, With(NewSendBlocks(r, k), IF session.probing THEN <<>> ELSE NewRecvBlocks(r, k)))
  /\ rnd' = [rnd EXCEPT ![r] = k]
  /\ got' = [got EXCEPT ![r] = <<>>]
  /\ IF Unbuffered THEN UcxStart(r) ELSE UNCHANGED ucxVars
  /\ IF kind = "nccl" THEN NcclStart(r) ELSE UNCHANGED ncclVars
  /\ UNCHANGED <<alive, handles, session, sent>>

\* send() to the next other rank.
Send(r) ==
  \E i \in 1 .. N - 1 :
    LET d == Nth(r, i)
        b == SendBlock(d, rnd[r])
    IN
    /\ \A j \in 1 .. N - 1 : Len(sent[r][Nth(r, j)]) = rnd[r] - (IF j < i THEN 0 ELSE 1)
    /\ Do(r, "send")
    /\ sent' = [sent EXCEPT ![r][d] = Append(@, Read(r, b))]
    /\ IF Unbuffered THEN UcxSend(r, d, b) ELSE UNCHANGED ucxVars
    /\ IF kind = "nccl" THEN NcclSend(r, d, b, MsgSize)
       ELSE UNCHANGED <<memVars, ncclVars>>
    /\ UNCHANGED <<session, rnd, got>>

\* recv() from every other rank.
Recv(r) ==
  LET dst == [s \in Peers(r) |-> RecvBlock(s, rnd[r])] IN
  /\ Do(r, "recv")
  /\ session.probing => Probed(r, Others(r))
  /\ IF Unbuffered THEN UcxRecvs(r, Others(r), dst) ELSE UNCHANGED ucxVars
  /\ IF kind = "nccl" THEN NcclRecvs(r, Others(r), dst, MsgSize)
     ELSE IF session.probing
     THEN Allocate(r, NewRecvBlocks(r, rnd[r])) /\ UNCHANGED <<alive, handles, ncclVars>>
     ELSE UNCHANGED <<memVars, ncclVars>>
  /\ UNCHANGED user

Launch(r) ==
  /\ Do(r, "launch")
  /\ NcclLaunch(r)
  /\ UNCHANGED <<ucxVars, user>>

\* stop() of the buffered communicator, as module Communicator has it.
BufferStop(r) ==
  /\ \A s \in Peers(r) : Len(sent[s][r]) >= rnd[r]
  /\ blocks' = [blocks EXCEPT ![r] =
                  Write(@, [b \in {RecvBlock(s, rnd[r]) : s \in Peers(r)} |-> sent[b[2]][r][rnd[r]]])]
  /\ UNCHANGED <<alive, handles, inUse>>

Stop(r) ==
  /\ Do(r, "stop")
  /\ CASE kind = "nccl"   -> NcclStop(r) /\ UNCHANGED ucxVars
       [] kind = "buffer" -> BufferStop(r) /\ UNCHANGED comms
       [] OTHER           -> UcxStop(r) /\ UNCHANGED <<memVars, ncclVars>>
  /\ got' = [got EXCEPT ![r] = [s \in Peers(r) |-> blocks'[r][RecvBlock(s, rnd[r])].val]]
  /\ UNCHANGED <<session, rnd, sent>>

\* ucp_worker_progress inside stop, or inside the flush of finalize.
Progress(r) ==
  /\ Unbuffered
  /\ \/ NextCall(r) = "stop" /\ UcxDeliver(r)
     \/ NextCall(r) \in {"stop", "close"} /\ UcxFlush(r)
  /\ UNCHANGED <<ncclVars, ip, user>>

\* The loop that deallocates runs over the ranks below mpi_rank only.
Freed(r, k) == UNION {{SendBlock(d, k), RecvBlock(d, k)} : d \in {d \in Ranks : d < r}}

Free(r) ==
  /\ Do(r, "free")
  /\ Deallocate(r, [b \in Freed(r, rnd[r]) |-> MsgSize])
  /\ UNCHANGED <<alive, handles, comms, user>>

(***************************************************************************)
(* Destroy.                                                                *)
(***************************************************************************)
\* UCXBufferCommunicator::finalize, before the base class's.
Uncache(r) ==
  /\ Do(r, "uncache")
  /\ handles' = [handles EXCEPT ![r] = @ \ {"cache"}]
  /\ Deallocate(r, Only(CacheBlock, CacheSize))
  /\ UNCHANGED <<alive, comms, user>>

\* UCXCommunicator::finalize: close the endpoints, MPI_Barrier, destroy the
\* worker and the context.
Close(r) ==
  /\ Do(r, "close") /\ EndpointsFlushed(r)
  /\ UNCHANGED <<memVars, comms, user>>

Barrier(r) ==
  /\ Do(r, "barrier") /\ Collective(r)
  /\ Delete(r, "context")
  /\ UNCHANGED <<handles, blocks, inUse, comms, user>>

\* NCCLCommunicator::finalize
DestroyNccl(r) ==
  /\ Do(r, "destroyNccl")
  /\ Delete(r, "context")
  /\ UNCHANGED <<handles, blocks, inUse, comms, user>>

PoolDeleted(r) ==
  /\ Do(r, "deletePool")
  /\ DeletePool(r)
  /\ UNCHANGED <<comms, user>>

\* delete of a pointer that may be null; delete communicator.
Deleted(r) ==
  /\ \/ Do(r, "deleteRegistered") /\ Delete(r, "registered")
     \/ Do(r, "deleteComm") /\ Delete(r, "comm")
  /\ UNCHANGED <<handles, blocks, inUse, comms, user>>

Setup(r)   == Worker(r) \/ Connect(r) \/ Registered(r) \/ Pool(r) \/ Cache(r) \/ Throw(r)
Warmup(r)  == Start(r) \/ Send(r) \/ Recv(r) \/ Launch(r) \/ Stop(r) \/ Progress(r) \/ Free(r)
Destroy(r) == Uncache(r) \/ Close(r) \/ Barrier(r) \/ DestroyNccl(r) \/ PoolDeleted(r) \/ Deleted(r)

RankStep(r) == Setup(r) \/ Warmup(r) \/ Destroy(r)

Ended == (\A r \in Ranks : NextCall(r) = "end") /\ UNCHANGED vars

Next == (\E r \in Ranks : RankStep(r)) \/ Ended

Spec == Init /\ [][Next]_vars /\ \A r \in Ranks : WF_vars(RankStep(r))

-----------------------------------------------------------------------------
\* What a rank's next call uses.
Needs(r) ==
  LET c == NextCall(r) IN
  CASE c = "pool" /\ kind = "preregistered" -> {"registered", "context"}
    [] c = "registered"                     -> {"context"}
    [] c \in {"cache", "uncache"}           -> {"pool", "context"}
    [] c \in {"start", "send", "recv", "launch", "stop"} -> {"pool", "context"}
    [] c = "free"                           -> {"pool"}
    [] c = "deletePool" -> {"pool"} \cup (IF "pool" \in handles[r] THEN {"registered", "context"} ELSE {})
    [] c \in {"close", "barrier", "destroyNccl"} -> {"context"}
    [] c = "deleteComm"                     -> {"comm"}
    [] OTHER                                -> {}

\* The order of construction and destruction is right for every kind: a call
\* finds the objects it uses, in particular the pool when communication
\* buffers are given back and the UCX context when memory is deregistered, and
\* a context is never destroyed while memory is still registered with it.
ObjectsOutliveUse ==
  \A r \in Ranks :
    /\ Needs(r) \subseteq alive[r]
    /\ handles[r] # {} => "context" \in alive[r]

Past(r, call) == \E i \in 1 .. ip[r] - 1 : Program[i] = call

\* "We do not want to destroy any worker before all ranks have closed the
\* endpoints": and by then nothing is under way to the destroyed worker.
WorkersOutlivePeers ==
  \A r \in Ranks : Past(r, "barrier") =>
    \A s \in Ranks : Past(s, "close") /\ net[s][r] = <<>>

\* UCX reads and writes the caller's blocks until a request completes: a send
\* in progress still finds in its block what was sent, and a posted receive
\* has its block, whatever was freed or reused meanwhile.
TransfersOwned ==
  /\ \A s, d \in Ranks : \A j \in DOMAIN net[s][d] :
       LET m == net[s][d][j] IN m.req # NoRequest => m.val = Read(s, m.ref)
  /\ \A r \in Ranks : \A i \in DOMAIN posted[r] : posted[r][i].dst \in DOMAIN blocks[r]

\* When the pool is deleted no communicator has a block of it left (buffers in
\* NCCL's vectors, the buffer cache), and the pool counts as used exactly the
\* bytes of what the program itself kept: each block was given back with the
\* size it was taken with, the aligned one for NCCL's communication buffers.
PoolBalanced ==
  \A r \in Ranks : NextCall(r) = "deletePool" =>
    /\ DOMAIN blocks[r] \subseteq {"send", "recv"} \X Ranks \X (1 .. session.rounds)
    /\ inUse[r] = MsgSize * Cardinality(DOMAIN blocks[r])

\* "Deallocate send/recv buffers": when the pool is deleted warmup_all_to_all
\* has given back what it allocated.  It has not (Freed).
WarmupGivesBack ==
  \A r \in Ranks : NextCall(r) = "deletePool" => DOMAIN blocks[r] = {}

\* No stop, collective or barrier waits forever: every rank's program ends.
Terminates == <>(\A r \in Ranks : NextCall(r) = "end")

\* The promise of the interface.
Payload(s, d, k) == {Message(s, d, k)}

InRound(r) == NextCall(r) \in {"send", "recv", "launch", "stop"}

Promise == INSTANCE Communicator WITH
  phase <- [r \in Ranks |-> IF InRound(r) THEN "open" ELSE "closed"]

\* Whatever the kind, the exchanges are rounds of the Communicator interface:
\* messages of three ranks and two rounds that differ in nothing but a tag,
\* or in their position in an NCCL group, reach the right receive buffers.
\* (An unknown kind makes no round, so only its safety part says anything.)
ImplementsCommunicator == Promise!Init /\ [][Promise!Next]_(Promise!vars)
=============================================================================
