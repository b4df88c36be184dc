------------------------------ MODULE AllToAll ------------------------------
(***************************************************************************)
(* One AllToAllCommunicator (src/src/all_to_all_comm.cpp and               *)
(* strings_column.cu) on every rank of a group: the compression options    *)
(* (module CompressionOptions), the exchange of sizes, the allocation of   *)
(* the output table, the communication of its buffers, each compressed or  *)
(* not, in one start/stop round per buffer or in one for all               *)
(* (group_by_batch), decompression and the rebuilding of string offsets.   *)
(*                                                                         *)
(* The table has a string column and a fixed-width column, that is, the    *)
(* three kinds of buffer append_to_all_to_all_comm_buffers makes.  Ranks   *)
(* are local indices of the group (module CommGroup); start, send, recv    *)
(* and stop behave as module Communicator says, with several messages per  *)
(* round when grouped; MPI is external.                                    *)
(***************************************************************************)
EXTENDS CompressionOptions, FiniteSets

CONSTANTS
  NumRows,            \* rows of the input table of every rank
  StrOff,             \* StrOff[r]: offset subcolumn of r's string column
  Offsets,            \* possible send offsets: functions on 0 .. Size
  CompressedSize(_),  \* bytes that so many items are compressed to
  Options             \* possible options of the call, see OptionAssumption

Sizes   == 1    \* string_sizes of the string column
Chars   == 2    \* the char subcolumn
Fixed   == 3    \* the fixed-width column
Buffers == Sizes .. Fixed

ASSUME SizeAssumption   == Size \in Nat \ {0} /\ NumRows \in Nat
ASSUME StringAssumption == StrOff \in [Ranks -> [0 .. NumRows -> Nat]]
ASSUME OffsetAssumption == Offsets \subseteq [0 .. Size -> 0 .. NumRows]
\* Offsets of partitions and of strings never decrease.
ASSUME AscendingAssumption ==
  /\ \A f \in Offsets : \A i, j \in 0 .. Size : i <= j => f[i] <= f[j]
  /\ \A r \in Ranks : \A i, j \in 0 .. NumRows : i <= j => StrOff[r][i] <= StrOff[r][j]
\* Compressed data are not empty: decompression reads their length from them.
ASSUME CompressedAssumption ==
  \A r \in Ranks, i, j \in 0 .. NumRows :
    \A n \in {j - i, StrOff[r][j] - StrOff[r][i]} : n > 0 => CompressedSize(n) \in Nat \ {0}
\* byBatch: group_by_batch(), explicit: explicit_copy_to_current_rank.
ASSUME OptionAssumption == Options \subseteq [byBatch : BOOLEAN, explicit : BOOLEAN]

VARIABLES
  options,   \* the options, the same on every rank
  pc,        \* pc[r]: the call rank r makes next
  cur,       \* cur[r]: the buffer of the loop in all_to_all_comm
  offsets,   \* offsets[r]: send_offsets
  recvOff,   \* recvOff[r][b]: recv_offsets of buffer b
  compOff,   \* compOff[r][b]: compressed_recv_offsets
  sizeMsgs,  \* sizeMsgs[s][d]: MPI messages with exchange_size_tag
  chan,      \* chan[s][d]: messages of the communicator
  posted,    \* posted[r]: buffers with a posted receive from every peer
  recvBuf,   \* recvBuf[r][b]: receive buffers, indexed from 0
  compBuf,   \* compBuf[r][b]: compressed_recv_buffer
  strOut     \* strOut[r]: offset subcolumn of the communicated table

vars == <<optVars, options, pc, cur, offsets, recvOff, compOff, sizeMsgs, chan, posted, recvBuf,
          compBuf, strOut>>

args == <<optVars, options, offsets>>

\* The node of the option tree that a buffer of the table looks at.
NodeOf(b) == CASE b = Sizes -> "offsets" [] b = Chars -> "chars" [] b = Fixed -> "fixed"

IsCompressed(r, b) == opts[r][NodeOf(b)].method = "cascaded"

\* Words are <<rank, position, value>>: only a string size has a value.
Garbage == <<-1, 0, 0>>
NoByte  == [data |-> <<>>, at |-> 0, of |-> 0]
NoOffsets == [i \in 0 .. Size |-> 0]

Fresh(n, w) == [i \in 0 .. n - 1 |-> w]

\* recv_offset: zero, then the partial sums of the counts.
PartialSums(count) ==
  LET f[i \in 0 .. Size] == IF i = 0 THEN 0 ELSE f[i - 1] + count[i - 1] IN f

\* gather_string_offsets for the chars, the row offsets for the others.
SendOff(r, b) ==
  IF b = Chars THEN [i \in 0 .. Size |-> StrOff[r][offsets[r][i]]] ELSE offsets[r]

\* calculate_string_sizes_from_offsets(offsets.front(), offsets.back()): the
\* vector starts with the first row of the batch; beyond it there is garbage.
StringSize(r, i) ==
  LET row == offsets[r][0] + i IN
  IF row < offsets[r][Size]
  THEN <<r, row, StrOff[r][row + 1] - StrOff[r][row]>> ELSE Garbage

\* What the send buffer of b holds at index i.
SendWord(r, b, i) == IF b = Sizes THEN StringSize(r, i) ELSE <<r, i, 0>>

\* The items sent to d: offset[d] .. offset[d + 1] - 1 of the send buffer.
Parcel(r, b, d) ==
  LET o == SendOff(r, b) IN
  [j \in 1 .. o[d + 1] - o[d] |-> SendWord(r, b, o[d] + j - 1)]

Peers(r) == IF options.explicit THEN Ranks \ {r} ELSE Ranks

\* compression_functor: an empty partition, and with explicit copies the one that
\* stays, is not compressed and takes no bytes.
CompressedParcel(r, b, d) ==
  LET p == Parcel(r, b, d)
      n == IF d \in Peers(r) /\ p # <<>> THEN CompressedSize(Len(p)) ELSE 0
  IN  [j \in 1 .. n |-> [data |-> p, at |-> j, of |-> n]]

\* decompression_functor: n items out of the bytes c.
Decompress(c, n) ==
  IF c # <<>> /\ Len(c[1].data) = n
     /\ \A j \in DOMAIN c : c[j] = [data |-> c[1].data, at |-> j, of |-> Len(c)]
  THEN c[1].data ELSE [j \in 1 .. n |-> Garbage]

Store(buf, at, val) ==
  [i \in DOMAIN buf |-> IF i \in at .. at + Len(val) - 1 THEN val[i - at + 1] ELSE buf[i]]

Init ==
  /\ OptInit
  /\ options \in Options
  /\ pc = [r \in Ranks |-> "options"]
  /\ cur = [r \in Ranks |-> Sizes]
  /\ offsets \in [Ranks -> Offsets]
  /\ recvOff = [r \in Ranks |-> [b \in Buffers |-> NoOffsets]]
  /\ compOff = [r \in Ranks |-> [b \in Buffers |-> NoOffsets]]
  /\ sizeMsgs = [s \in Ranks |-> [d \in Ranks |-> <<>>]]
  /\ chan = [s \in Ranks |-> [d \in Ranks |-> <<>>]]
  /\ posted = [r \in Ranks |-> <<>>]
  /\ recvBuf = [r \in Ranks |-> [b \in Buffers |-> Fresh(0, Garbage)]]
  /\ compBuf = [r \in Ranks |-> [b \in Buffers |-> Fresh(0, NoByte)]]
  /\ strOut = [r \in Ranks |-> <<>>]

\* generate_compression_options_distributed or broadcast_compression_options,
\* by the caller of the all-to-all communication, until the vector is complete.
MakeOptions(r) ==
  /\ pc[r] = "options"
  /\ GenerateOptions(r)
  /\ pc' = [pc EXCEPT ![r] = IF todo'[r] = <<>> THEN "rows" ELSE "options"]
  /\ UNCHANGED <<options, offsets, cur, recvOff, compOff, sizeMsgs, chan, posted, recvBuf,
                 compBuf, strOut>>

OptionsThrow(r) ==
  /\ pc[r] = "options"
  /\ SelectorThrows(r)
  /\ pc' = [pc EXCEPT ![r] = "thrown"]
  /\ UNCHANGED <<options, offsets, cur, recvOff, compOff, sizeMsgs, chan, posted, recvBuf,
                 compBuf, strOut>>

(***************************************************************************)
(* communicate_sizes: of the rows and of the chars in the constructor, of  *)
(* the compressed partitions in all_to_all_comm.  A message carries the    *)
(* exchange it belongs to for the properties only.                         *)
(***************************************************************************)
Exchange(r) == <<pc[r], cur[r]>>

SizeTo(r, d) ==
  CASE pc[r] = "rows"     -> Len(Parcel(r, Fixed, d))
    [] pc[r] = "chars"    -> Len(Parcel(r, Chars, d))
    [] pc[r] = "compress" -> Len(CompressedParcel(r, cur[r], d))

\* Mutant: a size of zero is not sent.
SizeMsgNonEmpty(r, d) ==
  IF SizeTo(r, d) = 0 THEN <<>> ELSE <<[of |-> Exchange(r), n |-> SizeTo(r, d)]>>

SizeMsg(r, d) == <<[of |-> Exchange(r), n |-> SizeTo(r, d)]>>

PostSizes(r) ==
  /\ pc[r] \in {"rows", "chars", "compress"}
  /\ sizeMsgs' = [sizeMsgs EXCEPT ![r] =
                    [d \in Ranks |-> @[d] \o SizeMsg(r, d)]]
  /\ pc' = [pc EXCEPT ![r] = CASE @ = "rows"     -> "rowsWait"
                               [] @ = "chars"    -> "charsWait"
                               [] @ = "compress" -> "compressWait"]
  /\ UNCHANGED <<cur, args, recvOff, compOff, chan, posted, recvBuf, compBuf, strOut>>

Waiting(r) == pc[r] \in {"rowsWait", "charsWait", "compressWait"}

\* MPI_Waitall: one message of every rank of the group, oneself included.
SizesHere(r) == \A s \in Ranks : sizeMsgs[s][r] # <<>>

TakeSizes(r) ==
  LET got == PartialSums([s \in Ranks |-> Head(sizeMsgs[s][r]).n]) IN
  /\ Waiting(r) /\ SizesHere(r)
  /\ sizeMsgs' = [s \in Ranks |-> [sizeMsgs[s] EXCEPT ![r] = Tail(@)]]
  /\ \/ /\ pc[r] = "rowsWait"
        /\ recvOff' = [recvOff EXCEPT ![r][Fixed] = got, ![r][Sizes] = got]
        /\ pc' = [pc EXCEPT ![r] = "chars"]
        /\ UNCHANGED <<compOff, compBuf>>
     \/ /\ pc[r] = "charsWait"
        /\ recvOff' = [recvOff EXCEPT ![r][Chars] = got]
        /\ pc' = [pc EXCEPT ![r] = "allocate"]
        /\ UNCHANGED <<compOff, compBuf>>
     \/ /\ pc[r] = "compressWait"
        /\ compOff' = [compOff EXCEPT ![r][cur[r]] = got]
        /\ compBuf' = [compBuf EXCEPT ![r][cur[r]] = Fresh(got[Size], NoByte)]
        /\ pc' = [pc EXCEPT ![r] = "launch"]
        /\ recvOff' = recvOff
  /\ UNCHANGED <<cur, args, chan, posted, recvBuf, strOut>>

AtBufferNoSizes(r, b) == "launch"   \* Mutant: compressed sizes are not exchanged.

\* Where the loop over the buffers goes on.
AtBuffer(r, b) == IF IsCompressed(r, b) THEN "compress" ELSE "launch"

\* allocate_communicated_table, with copy_table_to_current_rank.
Allocate(r) ==
  /\ pc[r] = "allocate"
  /\ recvBuf' = [recvBuf EXCEPT ![r] = [b \in Buffers |->
                   LET new == Fresh(recvOff[r][b][Size], Garbage) IN
                   IF options.explicit THEN Store(new, recvOff[r][b][r], Parcel(r, b, r)) ELSE new]]
  /\ pc' = [pc EXCEPT ![r] = AtBuffer(r, Sizes)]
  /\ UNCHANGED <<cur, args, recvOff, compOff, sizeMsgs, chan, posted, compBuf, strOut>>

AfterBuffer(r, b) == IF b < Fixed THEN AtBuffer(r, b + 1) ELSE "postprocess"

\* start (unless grouped), send_data_by_offset and recv_data_by_offset.
Launch(r) ==
  LET b == cur[r]
      Val(d) == IF IsCompressed(r, b) THEN CompressedParcel(r, b, d) ELSE Parcel(r, b, d)
  IN
  /\ pc[r] = "launch"
  /\ chan' = [chan EXCEPT ![r] =
                [d \in Ranks |-> IF d \in Peers(r)
                                 THEN Append(@[d], [buf |-> b, val |-> Val(d)]) ELSE @[d]]]
  /\ posted' = [posted EXCEPT ![r] = Append(@, b)]
  /\ IF options.byBatch /\ b < Fixed
     THEN /\ pc' = [pc EXCEPT ![r] = AfterBuffer(r, b)]
          /\ cur' = [cur EXCEPT ![r] = b + 1]
     ELSE /\ pc' = [pc EXCEPT ![r] = "stop"]
          /\ cur' = cur
  /\ UNCHANGED <<args, recvOff, compOff, sizeMsgs, recvBuf, compBuf, strOut>>

\* What the posted receive of buffer b from s expects, and where it lands.
PlaceUncompressed(r, b) == recvOff[r][b]   \* Mutant
Place(r, b) == IF IsCompressed(r, b) THEN compOff[r][b] ELSE recvOff[r][b]
Expected(r, b, s) == Place(r, b)[s + 1] - Place(r, b)[s]

Landing(r, s, k) ==
  LET v == chan[s][r][k].val IN
  IF Len(v) <= Expected(r, posted[r][k], s) THEN v ELSE <<>>

\* The round's messages of every peer, stored one after the other in buf.
Filled(r, b, buf) ==
  LET k == CHOOSE j \in DOMAIN posted[r] : posted[r][j] = b
      from(i) == {s \in Peers(r) : i \in Place(r, b)[s] .. Place(r, b)[s] + Len(Landing(r, s, k)) - 1}
  IN  [i \in DOMAIN buf |->
         IF from(i) = {} THEN buf[i]
         ELSE LET s == CHOOSE s \in from(i) : TRUE
              IN  Landing(r, s, k)[i - Place(r, b)[s] + 1]]

InRound(r) == {posted[r][k] : k \in DOMAIN posted[r]}

ArrivedWithSelf(r) == \A s \in Ranks : Len(chan[s][r]) >= Len(posted[r])   \* Mutant
Arrived(r) == \A s \in Peers(r) : Len(chan[s][r]) >= Len(posted[r])

\* stop: all receives of the round are complete.
Stop(r) ==
  LET n == Len(posted[r])
      b == cur[r]
  IN
  /\ pc[r] = "stop" /\ Arrived(r)
  /\ recvBuf' = [recvBuf EXCEPT ![r] = [c \in Buffers |->
                   IF c \in InRound(r) /\ ~IsCompressed(r, c) THEN Filled(r, c, @[c]) ELSE @[c]]]
  /\ compBuf' = [compBuf EXCEPT ![r] = [c \in Buffers |->
                   IF c \in InRound(r) /\ IsCompressed(r, c) THEN Filled(r, c, @[c]) ELSE @[c]]]
  /\ chan' = [s \in Ranks |-> [chan[s] EXCEPT ![r] =
                IF s \in Peers(r) THEN SubSeq(@, n + 1, Len(@)) ELSE @]]
  /\ posted' = [posted EXCEPT ![r] = <<>>]
  /\ pc' = [pc EXCEPT ![r] = AfterBuffer(r, b)]
  /\ cur' = [cur EXCEPT ![r] = IF b < Fixed THEN b + 1 ELSE b]
  /\ UNCHANGED <<args, recvOff, compOff, sizeMsgs, strOut>>

\* postprocess_all_to_all_comm for buffer b.
Bytes(r, b, s) ==
  [j \in 1 .. compOff[r][b][s + 1] - compOff[r][b][s] |-> compBuf[r][b][compOff[r][b][s] + j - 1]]

Decompressed(r, b) ==
  LET o == recvOff[r][b]
      from(i) == {s \in Peers(r) : i \in o[s] .. o[s + 1] - 1}
  IN  [i \in DOMAIN recvBuf[r][b] |->
         IF from(i) = {} THEN recvBuf[r][b][i]
         ELSE LET s == CHOOSE s \in from(i) : TRUE
              IN  Decompress(Bytes(r, b, s), o[s + 1] - o[s])[i - o[s] + 1]]

\* calculate_string_offsets_from_sizes: zero, then an inclusive scan.
StringOffsetsLate(sizes, n) ==   \* Mutant: the scan is stored one row too late.
  LET f[i \in 0 .. n] == IF i <= 1 THEN 0 ELSE f[i - 1] + sizes[i - 2][3] IN f

StringOffsets(sizes, n) ==
  LET f[i \in 0 .. n] == IF i = 0 THEN 0 ELSE f[i - 1] + sizes[i - 1][3] IN f

Postprocess(r) ==
  LET bufs == [b \in Buffers |-> IF IsCompressed(r, b) THEN Decompressed(r, b) ELSE recvBuf[r][b]]
  IN
  /\ pc[r] = "postprocess"
  /\ recvBuf' = [recvBuf EXCEPT ![r] = bufs]
  /\ strOut' = [strOut EXCEPT ![r] = StringOffsets(bufs[Sizes], recvOff[r][Sizes][Size])]
  /\ pc' = [pc EXCEPT ![r] = "done"]
  /\ UNCHANGED <<cur, args, recvOff, compOff, sizeMsgs, chan, posted, compBuf>>

RankStep(r) == MakeOptions(r) \/ OptionsThrow(r) \/ PostSizes(r) \/ TakeSizes(r) \/ Allocate(r) \/ Launch(r) \/ Stop(r)
               \/ Postprocess(r)

\* Every rank is done, or the exception nobody catches ends the program.
Over == (\A r \in Ranks : pc[r] = "done") \/ pc[Root] = "thrown"

Ended == Over /\ UNCHANGED vars

Next == (\E r \in Ranks : RankStep(r)) \/ Ended

Spec == Init /\ [][Next]_vars /\ \A r \in Ranks : WF_vars(RankStep(r))

-----------------------------------------------------------------------------
\* Fixed-width rows arrive complete, in the order of their source ranks and,
\* within a source, in the order they had there, whichever buffers were
\* compressed, copied or grouped and however the ranks interleaved.
FixedIntact ==
  \A r \in Ranks : pc[r] = "done" =>
    \A s \in Ranks : \A j \in 0 .. offsets[s][r + 1] - offsets[s][r] - 1 :
      recvBuf[r][Fixed][recvOff[r][Fixed][s] + j] = <<s, offsets[s][r] + j, 0>>

\* The string at index i of the communicated string column.
StringAt(r, i) ==
  LET o == strOut[r] IN [c \in 1 .. o[i + 1] - o[i] |-> recvBuf[r][Chars][o[i] + c - 1]]

StringSent(s, i) ==
  [c \in 1 .. StrOff[s][i + 1] - StrOff[s][i] |-> <<s, StrOff[s][i] + c - 1, 0>>]

\* Strings arrive complete too: sizes and chars travel in different buffers,
\* and cut by the rebuilt offsets the chars are the strings that were sent.
StringsIntact ==
  \A r \in Ranks : pc[r] = "done" =>
    \A s \in Ranks : \A j \in 0 .. offsets[s][r + 1] - offsets[s][r] - 1 :
      StringAt(r, recvOff[r][Sizes][s] + j) = StringSent(s, offsets[s][r] + j)

\* Strings of the first batch, which starts at row 0 on every rank.
FirstBatchStrings == (\A r \in Ranks : offsets[r][0] = 0) => StringsIntact

\* Messages carry no name: the k-th message of a round from any peer is for
\* the k-th posted receive, and as long as that receive expects, although
\* the expectation was exchanged on another channel earlier.
CountsAgree ==
  \A r \in Ranks : pc[r] = "stop" =>
    \A s \in Peers(r), k \in DOMAIN posted[r] :
      k <= Len(chan[s][r]) =>
        /\ chan[s][r][k].buf = posted[r][k]
        /\ Len(chan[s][r][k].val) = Expected(r, posted[r][k], s)

\* All size exchanges share one MPI tag; still a rank takes the sizes of the
\* exchange it waits for, however far the others are ahead.
OwnSizes ==
  \A r \in Ranks : Waiting(r) =>
    \A s \in Ranks : sizeMsgs[s][r] # <<>> =>
      Head(sizeMsgs[s][r]).of = <<CASE pc[r] = "rowsWait" -> "rows"
                                    [] pc[r] = "charsWait" -> "chars"
                                    [] pc[r] = "compressWait" -> "compress", cur[r]>>

\* Unless the selector throws every rank gets through: option broadcasts, size
\* exchanges and rounds never wait in a cycle.
Terminates == <>(pc[Root] = "thrown" \/ \A r \in Ranks : pc[r] = "done")
=============================================================================
