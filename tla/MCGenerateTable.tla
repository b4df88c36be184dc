--------------------------- MODULE MCGenerateTable ---------------------------
(* An instance of GenerateTable for TLC. *)
EXTENDS GenerateTable

\* The other rank's build keys are both ends or the two lowest; its first
\* probe row matches, its second does not.
MCElsewhere(u) ==
  {[build |-> (0 :> 0 @@ 1 :> k),
    probe |-> (0 :> [key |-> 0, hit |-> TRUE] @@ 1 :> [key |-> 2, hit |-> FALSE])] :
     k \in {1, RandMax} \cup IF u THEN {} ELSE {0}}
=============================================================================
