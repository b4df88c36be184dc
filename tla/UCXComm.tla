------------------------------- MODULE UCXComm -------------------------------
(***************************************************************************)
(* The unbuffered UCX communicator (src/src/communicator.cpp, classes      *)
(* MPILikeCommunicator and UCXCommunicator): every group send and receive  *)
(* is one UCX request kept in pending_requests, told apart only by the tag *)
(* made of the user's tag and the sender's rank, and stop waits for them.  *)
(*                                                                         *)
(* UCX is external.  A send completes inside the call (the handle is then  *)
(* null) or later, reading the caller's block until then; a receive takes  *)
(* the first message whose tag is equal to its own.  Messages of one       *)
(* sender keep their order.                                                *)
(***************************************************************************)
EXTENDS DeviceMemory

CONSTANT MaxBusy   \* bound: sends in progress at a time, over all ranks

VARIABLES
  net,      \* net[s][d]: messages from s to d that no receive has matched
  posted,   \* posted[r]: receives no message has matched, in order
  pending,  \* pending[r]: pending_requests
  done      \* done[r]: requests whose status is no more UCS_INPROGRESS

ucxVars == <<net, posted, pending, done>>

NoRequest == <<>>
ReservedTag == -1

\* Mutant: two ranks share a tag.
TagShifted(tag, rank) == tag * N + (rank \div 2)

\* tag * mpi_size + rank
Tag(tag, rank) == tag * N + rank

UcxInit ==
  /\ net = [s \in Ranks |-> [d \in Ranks |-> <<>>]]
  /\ posted = [r \in Ranks |-> <<>>]
  /\ pending = [r \in Ranks |-> <<>>]
  /\ done = [r \in Ranks |-> {}]

\* start()
UcxStart(r) ==
  /\ pending' = [pending EXCEPT ![r] = <<>>]
  /\ UNCHANGED <<net, posted, done>>

\* The sends still in progress.
Busy == UNION {{<<s, d, j>> : j \in {j \in DOMAIN net[s][d] : net[s][d][j].req # NoRequest}}
                : s \in Ranks, d \in Ranks}

\* send() of block b to d: a message in progress (req) reads b when it goes.
UcxSend(r, d, b) ==
  \E req \in {NoRequest, <<"send", b>>} :
    /\ req # NoRequest => Cardinality(Busy) < MaxBusy
    /\ net' = [net EXCEPT ![r][d] =
                 Append(@, [tag |-> Tag(ReservedTag, r), val |-> Read(r, b), ref |-> b, req |-> req])]
    /\ pending' = [pending EXCEPT ![r] = Append(@, req)]
    /\ UNCHANGED <<posted, done>>

\* recv() into block dst[s] from every s of the sequence from.
UcxRecvs(r, from, dst) ==
  LET post(s) == [tag |-> Tag(ReservedTag, s), req |-> <<"recv", dst[s]>>, dst |-> dst[s]] IN
  /\ posted' = [posted EXCEPT ![r] = @ \o [i \in DOMAIN from |-> post(from[i])]]
  /\ pending' = [pending EXCEPT ![r] = @ \o [i \in DOMAIN from |-> post(from[i]).req]]
  /\ UNCHANGED <<net, done>>

\* recv(void **): ucp_tag_probe_nb has found a message of every source.
Probed(r, from) ==
  \A i \in DOMAIN from : \E s \in Ranks : \E j \in DOMAIN net[s][r] :
    net[s][r][j].tag = Tag(ReservedTag, from[i])

FirstWith(q, tag) ==
  {i \in DOMAIN q : q[i].tag = tag /\ \A k \in 1 .. i - 1 : q[k].tag # tag}

Drop(q, i) == SubSeq(q, 1, i - 1) \o SubSeq(q, i + 1, Len(q))

Completed(f, r, q) == [f EXCEPT ![r] = @ \cup ({q} \ {NoRequest})]

\* ucp_worker_progress, from the polling of waitall: a receive meets its
\* message, which also ends a send that was still in progress.
UcxDeliver(r) ==
  \E tag \in {posted[r][i].tag : i \in DOMAIN posted[r]}, s \in Ranks :
    \E i \in FirstWith(posted[r], tag), j \in FirstWith(net[s][r], tag) :
      LET m == net[s][r][j]
          p == posted[r][i]
          v == IF m.req = NoRequest THEN m.val ELSE Read(s, m.ref)
      IN
      /\ blocks' = [blocks EXCEPT ![r] = Write(@, Only(p.dst, v))]
      /\ net' = [net EXCEPT ![s][r] = Drop(@, j)]
      /\ posted' = [posted EXCEPT ![r] = Drop(@, i)]
      /\ done' = Completed(Completed(done, s, m.req), r, p.req)
      /\ UNCHANGED <<alive, handles, inUse, pending>>

\* UCX has taken the contents of a send in progress without a receive.
UcxFlush(s) ==
  \E d \in Ranks : \E j \in DOMAIN net[s][d] :
    LET m == net[s][d][j] IN
    /\ m.req # NoRequest
    /\ net' = [net EXCEPT ![s][d][j].val = Read(s, m.ref), ![s][d][j].req = NoRequest]
    /\ done' = Completed(done, s, m.req)
    /\ UNCHANGED <<memVars, posted, pending>>

\* Mutant: only the receives are waited for.
FinishedRecvs(r) ==
  LET reqs == {pending[r][i] : i \in DOMAIN pending[r]} \ {NoRequest}
  IN  {x \in reqs : x[1] = "recv"} \subseteq done[r]

\* Mutant: the null handle of a send that completed at once is polled too.
FinishedNoNull(r) == \A i \in DOMAIN pending[r] : pending[r][i] \in done[r]

Finished(r) == \A i \in DOMAIN pending[r] : pending[r][i] \in done[r] \cup {NoRequest}

\* stop(): waitall, which frees the requests.
UcxStop(r) ==
  /\ Finished(r)
  /\ done' = [done EXCEPT ![r] = @ \ {pending[r][i] : i \in DOMAIN pending[r]}]
  /\ UNCHANGED <<net, posted, pending>>

\* finalize(): ucp_ep_close_nb with UCP_EP_CLOSE_MODE_FLUSH has completed.
EndpointsFlushed(r) == \A d \in Ranks : \A j \in DOMAIN net[r][d] : net[r][d][j].req = NoRequest
=============================================================================
