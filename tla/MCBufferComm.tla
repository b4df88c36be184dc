---------------------------- MODULE MCBufferComm ----------------------------
(* Instances of BufferComm for TLC: who sends how many elements to whom. *)
EXTENDS BufferComm

Everyone(f(_, _)) == [s \in 0 .. N - 1 |-> [d \in 0 .. N - 1 |-> f(s, d)]]

\* With two elements per batch: a full and a partial batch one way, an empty
\* message or exactly one batch the other way.
CountsBatches == LET f(s, d) == IF s = 0 THEN {3} ELSE {0, 2} IN Everyone(f)
=============================================================================
