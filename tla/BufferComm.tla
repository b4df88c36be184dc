----------------------------- MODULE BufferComm -----------------------------
(***************************************************************************)
(* The buffered UCX communicator (src/src/communicator.cpp, class          *)
(* UCXBufferCommunicator) as used by the group calls start / send / recv / *)
(* stop: every message is preceded by its element count, cut into batches  *)
(* of one communication buffer each, and the batches are chained by        *)
(* callbacks that UCX runs either from ucp_worker_progress or, for a       *)
(* receive whose message has already arrived, inside ucp_tag_recv_nb.      *)
(*                                                                         *)
(* One step is one call made by a rank's (single) communication thread:    *)
(* a send, a recv, one activation or one return of a callback, a waitall   *)
(* that succeeds.  UCX itself (the network, its request pool) is external. *)
(***************************************************************************)
EXTENDS Integers, Sequences, FiniteSets

CONSTANTS
  N,            \* mpi_size
  IncludeSelf,  \* self_send / self_recv of the *_data_by_offset helpers
  CacheSizes,   \* values of ncaches, the argument of setup_cache
  PerBatch,     \* comm_buffer_size / element_size
  Counts,       \* Counts[s][d]: element counts of the messages from s to d
  MaxCount,     \* bound: elements of one message
  Rounds,       \* bound: start/stop pairs before finalize
  MaxReq,       \* bound: requests in UCX's pool
  Overloads     \* which recv overloads the user calls: "given", "alloc"

ASSUME NAssumption        == N \in Nat \ {0}
ASSUME SelfAssumption     == IncludeSelf \in BOOLEAN /\ (IncludeSelf \/ N > 1)
ASSUME BuffersAssumption  == CacheSizes \subseteq Nat /\ CacheSizes # {}
ASSUME BatchAssumption    == PerBatch \in Nat \ {0}
ASSUME BoundsAssumption   == /\ MaxCount \in Nat
                             /\ Counts \in [0 .. N - 1 -> [0 .. N - 1 -> SUBSET (0 .. MaxCount)]]
                             /\ Rounds \in Nat /\ MaxReq \in Nat
ASSUME OverloadAssumption == Overloads \subseteq {"given", "alloc"}

VARIABLES
  ncaches,  \* communication buffers of every rank
  pc,       \* pc[r]: the call the user of rank r makes next
  idx,      \* idx[r]: local_idx of the send or the recv loop
  round,    \* round[r]: start() calls made so far
  pending,  \* pending[r]: pending_requests
  cache,    \* cache[r]: buffer_cache, a FIFO queue of communication buffers
  mem,      \* mem[r][b]: what communication buffer b holds
  info,     \* info[r][h]: the SendInfo / RecvInfo behind handle h
  free,     \* free[r]: requests UCX may hand out
  done,     \* done[r]: sends completed, their callback not yet run
  posted,   \* posted[r][s]: receives posted by r for source s, in order
  net,      \* net[s][d]: messages from s that d has not matched, in order
  stack,    \* stack[r]: activations of recv_handler, the innermost first
  mode,     \* mode[r]: the innermost activation is to "call" or to "return"
  countMem, \* countMem[r][s]: *recved_count of the receive from s
  recvBuf,  \* recvBuf[r][s]: the user's receive buffer for source s
  sent      \* history: sent[s][d][k] is the count s sent to d in round k

vars == <<ncaches, pc, idx, round, pending, cache, mem, info, free, done, posted, net,
          stack, mode, countMem, recvBuf, sent>>

loop      == <<pc, idx, round, pending>>
callbacks == <<stack, mode>>
user      == <<countMem, recvBuf, sent>>

Ranks    == 0 .. N - 1
Requests == 1 .. MaxReq
Buffers  == 1 .. ncaches
Null     == 0     \* nullptr, of a handle and of a communication buffer
Marked   == -1    \* (CommInfo *)0x1

\* The handle that send() allocates with malloc for destination d.
Heap(d)  == MaxReq + 1 + d
Handles  == 1 .. MaxReq + N

\* local_idx skips the current rank unless self messages are included.
From(r, i) == IF ~IncludeSelf /\ i = r THEN i + 1 ELSE i
Peers(r)   == {s \in Ranks : IncludeSelf \/ s # r}

\* Memory is made of words <<source, destination, round, position, value>>:
\* a count is the word at position 0, an element carries no value.
CountWord(s, d, k, c) == <<s, d, k, 0, c>>
DataWord(s, d, k, i)  == <<s, d, k, i, 0>>
Garbage               == <<0, 0, 0, 0, 0>>
At(m, j)              == IF j \in DOMAIN m THEN m[j] ELSE Garbage
Blank(n)              == [j \in 1 .. n |-> Garbage]

\* The handle's fields that steer the callbacks.
InitInfo == [completed |-> FALSE, orig |-> Null, custom |-> FALSE,
             buf |-> Null, count |-> 0, peer |-> 0, ibatch |-> 0]

\* Fields of a released handle nobody reads before they are overwritten
\* (memcpy of the next batch, or the assignments of send and recv_helper)
\* take one value, so that states differ only where the code can tell.
Dead(i) == [i EXCEPT !.buf = Null, !.count = 0, !.peer = 0, !.ibatch = 0]

\* Mutant: orig_info survives in a freed request.
WaitResetKeepsOrig(i) == Dead([i EXCEPT !.completed = FALSE])

\* What a callback resets before it frees an internal handle.
Reset(i) == Dead([i EXCEPT !.completed = FALSE, !.orig = Null, !.custom = FALSE])

\* What waitall resets before it frees a handle of the user.
WaitReset(i) == Dead([i EXCEPT !.completed = FALSE, !.orig = Null])

\* Mutant: one more batch when the count is a multiple of the batch.
BatchesExtra(c) == (c + PerBatch) \div PerBatch

Batches(c) == (c + PerBatch - 1) \div PerBatch
BatchLen(c, b) == IF c - b * PerBatch < PerBatch THEN c - b * PerBatch ELSE PerBatch

\* UCX.  A message stays in net from the send until the receiver matches
\* it; tags carry the source rank, so matching is FIFO per (source,
\* destination).  A send that did not complete at once (req # Null) still
\* reads its buffer (ref # Null: a communication buffer).
Msg(v)         == [val |-> v, ref |-> Null, req |-> Null]
MsgBusy(v,b,q) == [val |-> v, ref |-> b, req |-> q]

\* The request pool hands out some free request; the model takes the lowest.
NewRequest(r) == CHOOSE q \in free[r] : \A p \in free[r] : q <= p

Arrived(s, d) == net[s][d] # <<>> /\ Head(net[s][d]).req = Null

\* A message longer than the posted receive is truncated: nothing lands.
Landing(m, n) == IF Len(m.val) <= n THEN m.val ELSE <<>>

\* The network takes over the contents of an incomplete send's buffer.
Flush(s, d) ==
  \E i \in DOMAIN net[s][d] :
    LET m == net[s][d][i] IN
    /\ m.req # Null
    /\ net' = [net EXCEPT ![s][d][i] =
                 Msg(IF m.ref = Null THEN m.val
                     ELSE [j \in DOMAIN m.val |-> At(mem[s][m.ref], j)])]
    /\ done' = [done EXCEPT ![s] = @ \cup {m.req}]
    /\ UNCHANGED <<ncaches, loop, cache, mem, info, free, posted, callbacks, user>>

\* start()
Idle(r) == stack[r] = <<>>

Start(r) ==
  /\ pc[r] = "start" /\ round[r] < Rounds
  /\ pc' = [pc EXCEPT ![r] = "send"]
  /\ idx' = [idx EXCEPT ![r] = From(r, 0)]
  /\ round' = [round EXCEPT ![r] = @ + 1]
  /\ pending' = [pending EXCEPT ![r] = <<>>]
  /\ UNCHANGED <<ncaches, cache, mem, info, free, done, posted, net, callbacks, user>>

\* The loops over the group: send to everyone, then recv from everyone.
LoopNext(r, this, next) ==
  LET i == From(r, idx[r] + 1) IN
  /\ pc'  = [pc EXCEPT ![r] = IF i < N THEN this ELSE next]
  /\ idx' = [idx EXCEPT ![r] = IF i < N THEN i ELSE From(r, 0)]

\* send_handler: batches go out one after the other until one does not
\* complete at once (its callback continues) or none remains.  tbl is the
\* table of r's handles, pre what the caller already gave to UCX; k is the
\* number of batches that complete at once.
Batch(r, i, b) == [j \in 1 .. BatchLen(i.count, b) |->
                     DataWord(r, i.peer, round[r], b * PerBatch + j)]

\* Release handle h in table tbl if it is internal (not the user's).
FreeInternal(tbl, h) ==
  IF tbl[h].orig # h THEN [tbl EXCEPT ![h] = Reset(@)] ELSE tbl

Freed(tbl, h) == IF tbl[h].orig # h THEN {h} ELSE {}

\* Mutant: a send in progress is taken for a completed one.
SendHandlerNoWait(r, i, pre, k) ==
  pre \o [j \in 1 .. k |-> MsgBusy(Batch(r, i, i.ibatch + j - 1), i.buf, NewRequest(r))]

SendHandlerEager(r, i, pre, k) ==
  pre \o [j \in 1 .. k |-> Msg(Batch(r, i, i.ibatch + j - 1))]

\* Every remaining batch completed at once: the user's handle is completed.
SendHandlerLast(r, h, tbl, pre) ==
  LET i == tbl[h]
      k == Batches(i.count) - i.ibatch
  IN
  /\ net' = [net EXCEPT ![r][i.peer] = @ \o SendHandlerEager(r, i, pre, k)]
  /\ mem' = [mem EXCEPT ![r][i.buf] =
               IF k > 0 THEN Batch(r, i, i.ibatch + k - 1) ELSE @]
  /\ info' = [info EXCEPT ![r] =
                FreeInternal([tbl EXCEPT ![i.orig].completed = TRUE], h)]
  /\ free' = [free EXCEPT ![r] = @ \cup Freed(tbl, h)]

\* Batch ibatch + k is in progress: its handle carries the continuation.
SendHandlerMore(r, h, tbl, pre) ==
  LET i == tbl[h] IN
  \E k \in 0 .. Batches(i.count) - i.ibatch - 1 :
    LET q == NewRequest(r)
        b == i.ibatch + k
    IN
    /\ free[r] # {}
    /\ net' = [net EXCEPT ![r][i.peer] =
                 @ \o SendHandlerEager(r, i, pre, k)
                   \o <<MsgBusy(Batch(r, i, b), i.buf, q)>>]
    /\ mem' = [mem EXCEPT ![r][i.buf] = Batch(r, i, b)]
    /\ info' = [info EXCEPT ![r] =
                  FreeInternal([tbl EXCEPT ![q] = [i EXCEPT !.ibatch = b + 1,
                                                            !.custom = FALSE]], h)]
    /\ free' = [free EXCEPT ![r] = (@ \ {q}) \cup Freed(tbl, h)]

SendHandler(r, h, tbl, pre) ==
  SendHandlerLast(r, h, tbl, pre) \/ SendHandlerMore(r, h, tbl, pre)

\* send(): the count goes first; if it completes at once the handle comes
\* from malloc and the callback is run by hand.
SendReady(r, c) ==
  pc[r] = "send" /\ idx[r] < N /\ Idle(r) /\ c \in Counts[r][idx[r]]

SendFill(r, h, old, d, c) ==
  [info[r] EXCEPT ![h] = [old EXCEPT !.orig = h, !.buf = Head(cache[r]),
                                     !.count = c, !.peer = d, !.ibatch = 0]]

\* Mutant: the buffer is looked at, not taken.
FrontOnly(r) == cache' = cache

\* buffer_cache.front(), buffer_cache.pop()
Pop(r) == cache' = [cache EXCEPT ![r] = Tail(@)]

SendBook(r, h, d, c) ==
  /\ Pop(r)
  /\ pending' = [pending EXCEPT ![r] = Append(@, h)]
  /\ sent' = [sent EXCEPT ![r][d] = Append(@, c)]
  /\ LoopNext(r, "send", "recv")
  /\ UNCHANGED <<ncaches, round, done, posted, callbacks, countMem, recvBuf>>

\* The count message completed inside ucp_tag_send_nb.
SendNow(r, c) ==
  LET d == idx[r]
      h == Heap(d)
      old == [InitInfo EXCEPT !.custom = TRUE]
  IN
  /\ SendReady(r, c)
  /\ cache[r] # <<>>
  /\ SendHandler(r, h, SendFill(r, h, old, d, c),
                 <<Msg(<<CountWord(r, d, round[r], c)>>)>>)
  /\ SendBook(r, h, d, c)

\* The count message is in progress: its request is the user's handle.  A
\* recycled request that still says custom_allocated would have its callback
\* run by hand here; FreeRequestsClean shows that there is none.
SendLater(r, c) ==
  LET d == idx[r]
      q == NewRequest(r)
      tbl == SendFill(r, q, info[r][q], d, c)
      msg == MsgBusy(<<CountWord(r, d, round[r], c)>>, Null, q)
  IN
  /\ SendReady(r, c)
  /\ cache[r] # <<>> /\ free[r] # {}
  /\ ~tbl[q].custom
  /\ net' = [net EXCEPT ![r][d] = Append(@, msg)]
  /\ info' = [info EXCEPT ![r] = tbl]
  /\ free' = [free EXCEPT ![r] = @ \ {q}]
  /\ mem' = mem
  /\ SendBook(r, q, d, c)

\* ucp_tag_recv_nb(n elements into dst, from source s): either the message
\* is there and the callback runs inside the call, which only marks a
\* handle that is not filled in yet, or the receive is posted.  dst is a
\* communication buffer, or Null for *recved_count.
MarkLost(i) == i   \* Mutant: an early callback leaves no trace.
Mark(i) == IF i.orig = Null THEN [i EXCEPT !.orig = Marked] ELSE i

Land(r, s, dst, v) ==
  IF dst = Null
  THEN /\ countMem' = [countMem EXCEPT ![r][s] = At(v, 1)]
       /\ mem' = mem
  ELSE /\ mem' = [mem EXCEPT ![r][dst] = v]
       /\ countMem' = countMem

RecvNbEarly(r, s, dst, n) ==
  /\ Arrived(s, r) /\ posted[r][s] = <<>>
  /\ Land(r, s, dst, Landing(Head(net[s][r]), n))
  /\ net' = [net EXCEPT ![s][r] = Tail(@)]
  /\ posted' = posted

RecvNbPost(r, s, dst, n, q) ==
  /\ posted' = [posted EXCEPT ![r][s] = Append(@, [req |-> q, dst |-> dst, n |-> n])]
  /\ UNCHANGED <<net, mem, countMem>>

\* recv() and recv_helper(): post the receive of the count, take a
\* communication buffer, fill the handle; if the callback already ran, run
\* it again by hand.
RecvFill(i, q, b, s) == [i EXCEPT !.orig = q, !.buf = b, !.custom = FALSE,
                                  !.peer = s, !.ibatch = 0]

RecvBook(r, q, s, i, called) ==
  /\ info' = [info EXCEPT ![r][q] = RecvFill(i, q, Head(cache[r]), s)]
  /\ free' = [free EXCEPT ![r] = @ \ {q}]
  /\ Pop(r)
  /\ pending' = [pending EXCEPT ![r] = Append(@, q)]
  /\ stack' = [stack EXCEPT ![r] = IF called THEN <<q>> ELSE <<>>]
  /\ mode' = [mode EXCEPT ![r] = "call"]
  /\ \E o \in Overloads :
       recvBuf' = [recvBuf EXCEPT ![r][s] =
                     IF o = "given" THEN Blank(MaxCount) ELSE <<>>]
  /\ LoopNext(r, "recv", "stop")
  /\ UNCHANGED <<ncaches, round, done, sent>>

RecvReady(r) ==
  pc[r] = "recv" /\ idx[r] < N /\ Idle(r) /\ free[r] # {}

\* The count has arrived: the callback runs inside ucp_tag_recv_nb.
RecvNow(r) ==
  LET s == idx[r]
      q == NewRequest(r)
      i == Mark(info[r][q])
  IN
  /\ RecvReady(r) /\ cache[r] # <<>>
  /\ RecvNbEarly(r, s, Null, 1)
  /\ RecvBook(r, q, s, i, i.orig # Null)

\* The count has not arrived: the receive is posted.
RecvLater(r) ==
  LET s == idx[r]
      q == NewRequest(r)
      i == info[r][q]
  IN
  /\ RecvReady(r) /\ cache[r] # <<>>
  /\ RecvNbPost(r, s, Null, 1, q)
  /\ RecvBook(r, q, s, i, i.orig # Null)

\* "No buffered cache available": the exception leaves send or recv_helper
\* after UCX got the count message, or the receive of it; whether UCX is done
\* with it (now) or not, no handle is filled in and the rank stops calling.
ThrowReady(r, where) ==
  pc[r] = where /\ idx[r] < N /\ Idle(r) /\ cache[r] = <<>> /\ free[r] # {}

SendThrow(r) ==
  LET d == idx[r]
      q == NewRequest(r)
  IN
  /\ ThrowReady(r, "send")
  /\ \E c \in Counts[r][d], now \in BOOLEAN :
       LET w == <<CountWord(r, d, round[r], c)>> IN
       /\ net' = [net EXCEPT ![r][d] = Append(@, IF now THEN Msg(w) ELSE MsgBusy(w, Null, q))]
       /\ free' = [free EXCEPT ![r] = IF now THEN @ ELSE @ \ {q}]
       /\ sent' = [sent EXCEPT ![r][d] = Append(@, c)]
  /\ pc' = [pc EXCEPT ![r] = "thrown"]
  /\ UNCHANGED <<ncaches, idx, round, pending, cache, mem, info, done, posted, callbacks,
                 countMem, recvBuf>>

RecvThrow(r) ==
  LET s == idx[r]
      q == NewRequest(r)
  IN
  /\ ThrowReady(r, "recv")
  /\ \/ /\ RecvNbEarly(r, s, Null, 1)
        /\ info' = [info EXCEPT ![r][q] = Mark(@)]
     \/ /\ RecvNbPost(r, s, Null, 1, q)
        /\ info' = info
  /\ free' = [free EXCEPT ![r] = @ \ {q}]
  /\ pc' = [pc EXCEPT ![r] = "thrown"]
  /\ UNCHANGED <<ncaches, idx, round, pending, cache, done, callbacks, recvBuf, sent>>

\* recv_handler, innermost activation: store the batch that has arrived,
\* then ask for the next one or complete the user's handle.
Count(r, i) == countMem[r][i.peer][5]

\* The user's buffer, allocated if it was null and the count is positive.
UserBuf(r, i) ==
  IF recvBuf[r][i.peer] = <<>> THEN Blank(Count(r, i)) ELSE recvBuf[r][i.peer]

\* Mutant: the offset of the next batch.
StoredOneFurther(r, i) ==
  LET b == i.ibatch
      old == UserBuf(r, i)
  IN  IF i.ibatch = 0 THEN old
      ELSE [j \in DOMAIN old |->
              IF j \in b * PerBatch + 1 .. (b + 1) * PerBatch
              THEN At(mem[r][i.buf], j - b * PerBatch) ELSE old[j]]

Stored(r, i) ==
  LET b == i.ibatch - 1
      n == BatchLen(Count(r, i), b)
      old == UserBuf(r, i)
  IN  IF i.ibatch = 0 THEN old
      ELSE [j \in DOMAIN old |->
              IF j \in b * PerBatch + 1 .. b * PerBatch + n
              THEN At(mem[r][i.buf], j - b * PerBatch) ELSE old[j]]

HandlerReady(r) == stack[r] # <<>> /\ mode[r] = "call"

Remaining(r, i) == Count(r, i) - PerBatch * i.ibatch

\* The next batch's handle takes over this one's info, ibatch advanced.
RecvHandlerNext(r, h, q, called) ==
  LET i == [info[r][h] EXCEPT !.ibatch = @ + 1] IN
  /\ info' = [info EXCEPT ![r][h] = i, ![r][q] = i]
  /\ free' = [free EXCEPT ![r] = @ \ {q}]
  /\ stack' = [stack EXCEPT ![r] = IF called THEN <<q>> \o @ ELSE @]
  /\ mode' = [mode EXCEPT ![r] = IF called THEN "call" ELSE "return"]
  /\ recvBuf' = [recvBuf EXCEPT ![r][i.peer] = Stored(r, info[r][h])]
  /\ UNCHANGED <<ncaches, loop, cache, done, sent>>

\* The next batch is there already: nested activation.
RecvHandlerNow(r) ==
  LET h == Head(stack[r])
      i == info[r][h]
      q == NewRequest(r)
  IN
  /\ HandlerReady(r) /\ Remaining(r, i) > 0 /\ free[r] # {}
  /\ RecvNbEarly(r, i.peer, i.buf, BatchLen(Count(r, i), i.ibatch))
  /\ RecvHandlerNext(r, h, q, Mark(info[r][q]).orig # Null)

\* The next batch is awaited: UCX calls back.
RecvHandlerLater(r) ==
  LET h == Head(stack[r])
      i == info[r][h]
      q == NewRequest(r)
  IN
  /\ HandlerReady(r) /\ Remaining(r, i) > 0 /\ free[r] # {}
  /\ RecvNbPost(r, i.peer, i.buf, BatchLen(Count(r, i), i.ibatch), q)
  /\ RecvHandlerNext(r, h, q, info[r][q].orig # Null)

\* Nothing remains: the receive is complete.
RecvHandlerLast(r) ==
  LET h == Head(stack[r])
      i == info[r][h]
  IN
  /\ HandlerReady(r) /\ Remaining(r, i) <= 0
  /\ info' = [info EXCEPT ![r][i.orig].completed = TRUE]
  /\ recvBuf' = [recvBuf EXCEPT ![r][i.peer] = Stored(r, i)]
  /\ mode' = [mode EXCEPT ![r] = "return"]
  /\ UNCHANGED <<ncaches, loop, cache, mem, free, done, posted, net, stack, countMem, sent>>

\* The activation returns, releasing its handle if it is internal.
RecvHandlerReturn(r) ==
  LET h == Head(stack[r]) IN
  /\ stack[r] # <<>> /\ mode[r] = "return"
  /\ info' = [info EXCEPT ![r] = FreeInternal(@, h)]
  /\ free' = [free EXCEPT ![r] = @ \cup Freed(info[r], h)]
  /\ stack' = [stack EXCEPT ![r] = Tail(@)]
  /\ UNCHANGED <<ncaches, loop, cache, mem, done, posted, net, mode, user>>

\* stop(): waitall polls ucp_worker_progress, which runs the callbacks,
\* until every pending request is completed.
\* Mutant: the last request is not looked at.
AllButOneFinished(r) ==
  \A j \in 1 .. Len(pending[r]) - 1 : info[r][pending[r][j]].completed

AllFinished(r) == \A j \in DOMAIN pending[r] : info[r][pending[r][j]].completed

Polling(r) == pc[r] = "stop" /\ Idle(r) /\ ~AllFinished(r)

\* ucp_worker_progress: a send has completed.
ProgressSend(r) ==
  \E q \in done[r] :
    /\ Polling(r)
    /\ done' = [done EXCEPT ![r] = @ \ {q}]
    /\ SendHandler(r, q, info[r], <<>>)
    /\ UNCHANGED <<ncaches, loop, cache, posted, callbacks, user>>

\* ucp_worker_progress: a posted receive is matched, its callback starts.
ProgressRecv(r, s) ==
  LET p == Head(posted[r][s]) IN
  /\ Polling(r)
  /\ posted[r][s] # <<>> /\ Arrived(s, r)
  /\ Land(r, s, p.dst, Landing(Head(net[s][r]), p.n))
  /\ net' = [net EXCEPT ![s][r] = Tail(@)]
  /\ posted' = [posted EXCEPT ![r][s] = Tail(@)]
  /\ stack' = [stack EXCEPT ![r] = <<p.req>>]
  /\ mode' = [mode EXCEPT ![r] = "call"]
  /\ UNCHANGED <<ncaches, loop, cache, info, free, done, recvBuf, sent>>

\* The communication buffers that waitall pushes back to the queue.
Returned(r) == [j \in DOMAIN pending[r] |-> info[r][pending[r][j]].buf]

\* All finished: buffers go back to the queue, handles are freed.
WaitAll(r) ==
  LET hs == {pending[r][j] : j \in DOMAIN pending[r]} IN
  /\ pc[r] = "stop" /\ Idle(r) /\ AllFinished(r)
  /\ cache' = [cache EXCEPT ![r] = @ \o Returned(r)]
  /\ mem' = [mem EXCEPT ![r] =
               [b \in Buffers |-> IF \E h \in hs : info[r][h].buf = b
                                  THEN <<>> ELSE @[b]]]
  /\ info' = [info EXCEPT ![r] =
                [h \in Handles |->
                   IF h \notin hs THEN @[h]
                   ELSE IF @[h].custom THEN InitInfo ELSE WaitReset(@[h])]]
  /\ free' = [free EXCEPT ![r] = @ \cup {h \in hs : ~info[r][h].custom}]
  /\ pc' = [pc EXCEPT ![r] = IF round[r] < Rounds THEN "start" ELSE "finalize"]
  /\ UNCHANGED <<ncaches, idx, round, pending, done, posted, net, callbacks, user>>

\* finalize(): give the cache back, close the endpoints, MPI_Barrier,
\* destroy the worker.
Finalize(r) ==
  /\ pc[r] = "finalize"
  /\ \A d \in Ranks : \A j \in DOMAIN net[r][d] : net[r][d][j].req = Null
  /\ pc' = [pc EXCEPT ![r] = "barrier"]
  /\ UNCHANGED <<ncaches, idx, round, pending, cache, mem, info, free, done, posted, net,
                 callbacks, user>>

Barrier(r) ==
  /\ pc[r] = "barrier"
  /\ \A s \in Ranks : pc[s] \in {"barrier", "closed"}
  /\ pc' = [pc EXCEPT ![r] = "closed"]
  /\ UNCHANGED <<ncaches, idx, round, pending, cache, mem, info, free, done, posted, net,
                 callbacks, user>>

-----------------------------------------------------------------------------
\* Mutant: mpi_size buffers, enough for the sends alone.
SetupHalf == [b \in 1 .. ncaches \div 2 |-> b]

\* setup_cache: the buffers are queued in the order of their addresses.
SetupCache == [b \in Buffers |-> b]

Init ==
  /\ ncaches \in CacheSizes
  /\ pc = [r \in Ranks |-> "start"]
  /\ idx = [r \in Ranks |-> 0]
  /\ round = [r \in Ranks |-> 0]
  /\ pending = [r \in Ranks |-> <<>>]
  /\ cache = [r \in Ranks |-> SetupCache]
  /\ mem = [r \in Ranks |-> [b \in Buffers |-> <<>>]]
  /\ info = [r \in Ranks |-> [h \in Handles |-> InitInfo]]
  /\ free = [r \in Ranks |-> Requests]
  /\ done = [r \in Ranks |-> {}]
  /\ posted = [r \in Ranks |-> [s \in Ranks |-> <<>>]]
  /\ net = [s \in Ranks |-> [d \in Ranks |-> <<>>]]
  /\ stack = [r \in Ranks |-> <<>>]
  /\ mode = [r \in Ranks |-> "call"]
  /\ countMem = [r \in Ranks |-> [s \in Ranks |-> Garbage]]
  /\ recvBuf = [r \in Ranks |-> [s \in Ranks |-> <<>>]]
  /\ sent = [s \in Ranks |-> [d \in Ranks |-> <<>>]]

RankStep(r) ==
  \/ Start(r)
  \/ \E c \in 0 .. MaxCount : SendNow(r, c) \/ SendLater(r, c)
  \/ RecvNow(r) \/ RecvLater(r) \/ SendThrow(r) \/ RecvThrow(r)
  \/ RecvHandlerNow(r) \/ RecvHandlerLater(r) \/ RecvHandlerLast(r)
  \/ RecvHandlerReturn(r)
  \/ ProgressSend(r)
  \/ \E s \in Ranks : ProgressRecv(r, s)
  \/ WaitAll(r)
  \/ Finalize(r) \/ Barrier(r)

NetStep == \E s, d \in Ranks : Flush(s, d)

\* Every rank has closed its worker, or nobody catches a rank's exception:
\* the program ends.
Ended == /\ (\A r \in Ranks : pc[r] = "closed") \/ (\E r \in Ranks : pc[r] = "thrown")
         /\ UNCHANGED vars

Next == (\E r \in Ranks : RankStep(r)) \/ NetStep \/ Ended

Fairness ==
  /\ \A r \in Ranks : WF_vars(RankStep(r))
  /\ \A s, d \in Ranks : WF_vars(Flush(s, d))

Spec == Init /\ [][Next]_vars /\ Fairness

\* Properties
\* When stop() has returned, what r received from each peer in this round is
\* exactly what the peer sent to r in this round: count and every element,
\* whatever the mix of immediate, delayed and early callbacks, and although
\* peers may already be one round ahead.
DeliveredIntact ==
  \A r \in Ranks :
    (pc[r] \in {"start", "finalize", "barrier", "closed"} /\ round[r] > 0) =>
      \A s \in Peers(r) :
        LET k == round[r] IN
        /\ k <= Len(sent[s][r])
        /\ countMem[r][s] = CountWord(s, r, k, sent[s][r][k])
        /\ \A i \in 1 .. sent[s][r][k] :
             At(recvBuf[r][s], i) = DataWord(s, r, k, i)

\* A communication buffer is in the cache once, or belongs to exactly one
\* pending request of its rank: no two transfers ever share a buffer.
Holds(r, b) ==
  {j \in DOMAIN pending[r] : info[r][pending[r][j]].buf = b}
InCache(r, b) == {j \in DOMAIN cache[r] : cache[r][j] = b}

BufferExclusive ==
  \A r \in Ranks, b \in Buffers :
    Cardinality(Holds(r, b)) + Cardinality(InCache(r, b)) = 1

\* Whatever UCX still has to read from a communication buffer has not been
\* overwritten since the send was issued.
InFlightStable ==
  \A s, d \in Ranks : \A j \in DOMAIN net[s][d] :
    LET m == net[s][d][j] IN m.ref # Null => mem[s][m.ref] = m.val

\* A request UCX may hand out again looks like a new one: orig_info null,
\* not completed, not custom_allocated.  request_init runs once per request,
\* so the callbacks and waitall must have restored this.
FreeRequestsClean ==
  \A r \in Ranks : \A q \in free[r] :
    /\ ~info[r][q].completed
    /\ ~info[r][q].custom
    /\ info[r][q].orig = Null

\* Buffers for every send and every receive of a round, as the 2 * mpi_size
\* of setup() are.
Enough == \A r \in Ranks : ncaches >= 2 * Cardinality(Peers(r))

\* With enough buffers no call finds the cache empty.
NoThrow == Enough => \A r \in Ranks : pc[r] # "thrown"

\* Once a worker is destroyed no traffic is left for it: nothing in flight,
\* nothing posted, no callback due, every request and every buffer returned.
QuietWhenClosed ==
  \A r \in Ranks : pc[r] = "closed" =>
    /\ \A s \in Ranks : net[s][r] = <<>> /\ net[r][s] = <<>> /\ posted[r][s] = <<>>
    /\ done[r] = {} /\ stack[r] = <<>> /\ free[r] = Requests
    /\ Len(cache[r]) = ncaches

\* With enough buffers every start() is followed by its stop(), and all ranks
\* get through finalize: no interleaving of callbacks and polling deadlocks or livelocks.
Terminates == Enough => <>(\A r \in Ranks : pc[r] = "closed")

\* The promise of the interface, with this communicator's state as witness.
Payload(s, d, k) == {[i \in 1 .. c |-> DataWord(s, d, k, i)] : c \in Counts[s][d]}

Received(r, s) == [i \in 1 .. countMem[r][s][5] |-> At(recvBuf[r][s], i)]

Promise == INSTANCE Communicator WITH
  phase <- [r \in Ranks |-> IF pc[r] \in {"send", "recv", "stop", "thrown"}
                            THEN "open" ELSE "closed"],
  rnd   <- round,
  sent  <- [s \in Ranks |-> [d \in Ranks |->
             [k \in DOMAIN sent[s][d] |->
                [i \in 1 .. sent[s][d][k] |-> DataWord(s, d, k, i)]]]],
  got   <- [r \in Ranks |->
             IF pc[r] \in {"send", "recv", "stop", "thrown"} \/ round[r] = 0
             THEN <<>>
             ELSE [s \in Peers(r) |-> Received(r, s)]]

\* The buffered communicator implements the Communicator interface: every
\* start, send and stop of it is one of the interface's, and no message is
\* lost, altered or taken from another round, an exception in mid-round
\* included.  With enough buffers every stop returns.
ImplementsCommunicator ==
  Promise!Init /\ [][Promise!Next]_(Promise!vars) /\ (Enough => Promise!Fairness)
=============================================================================
