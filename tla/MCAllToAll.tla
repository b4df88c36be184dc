----------------------------- MODULE MCAllToAll -----------------------------
(* Instances of AllToAll for TLC: row offsets and string lengths. *)
EXTENDS AllToAll

CONSTANT Starts   \* the rows a batch may start with, on every rank

\* All ways to cut the rows from one of Starts on, up to any row.
MCOffsets == {f \in [0 .. Size -> 0 .. NumRows] :
                f[0] \in Starts /\ \A i \in 1 .. Size : f[i - 1] <= f[i]}

\* String lengths 1, 0, 2 on even ranks and 2, 1, 0 on odd ones.
MCStrOff == [r \in 0 .. Size - 1 |->
               [i \in 0 .. NumRows |->
                  IF r % 2 = 0 THEN <<0, 1, 1, 3>>[i + 1] ELSE <<0, 2, 3, 3>>[i + 1]]]

\* Every way to group and copy, and the simplest.
AllOptions   == [byBatch : BOOLEAN, explicit : BOOLEAN]
PlainOptions == {[byBatch |-> FALSE, explicit |-> TRUE]}

\* No compression; the selector's options; every other choice of the three
\* nodes that have a buffer; a table the selector cannot handle.
Call(w, S, ok) == [way |-> w, cascaded |-> S, supported |-> ok]
NoCompression  == {Call("none", {}, TRUE)}
AllCalls == NoCompression
            \cup {Call("auto", {}, b) : b \in BOOLEAN}
            \cup {Call("given", S, TRUE) : S \in SUBSET {"offsets", "chars", "fixed"}
                                                  \ {{}, {"offsets", "fixed"}}}

\* A single item grows, more items shrink.
MCCompressedSize(n) == CASE n = 0 -> 0 [] n = 1 -> 2 [] OTHER -> 1 + n \div 3
=============================================================================
