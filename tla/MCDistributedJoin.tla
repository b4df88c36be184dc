------------------------- MODULE MCDistributedJoin -------------------------
(* Instances of DistributedJoin for TLC: clusters, hashes and small tables. *)
EXTENDS DistributedJoin

\* Two ranks in one NVLink domain or in two, four ranks in two domains.
MCClusters == {<<2, 2>>, <<2, 1>>, <<4, 2>>}

Row(i, k) == [id |-> i, key |-> k]

\* Keys 0 .. 3 hash to four different partitions in the second stage.  In the
\* first, keys 0 and 2 go different ways, and 1 and 3, which belong to the
\* two batches of one rank, the same way.
MCHash   == [k \in 0 .. 3 |-> k]
MCHashIb == [k \in 0 .. 3 |-> IF k = 2 THEN 2 ELSE 1]

\* Every subset of rows, distributed over n ranks in every way.
Distributions(rows, n) ==
  UNION {{[r \in 0 .. n - 1 |-> {x \in S : f[x] = r}] : f \in [S -> 0 .. n - 1]}
           : S \in SUBSET rows}

\* Two ranks: keys 0 and 2 meet in different batches of one rank when the
\* domain holds both.  Four ranks: every key once on the left; on the right
\* key 1 on the last rank and key 3 anywhere or nowhere, so that both batches
\* of a rank have a match, or only one has and the concatenation throws.
MCLeftInputs(n) ==
  IF n = 2 THEN Distributions({Row(1, 0), Row(2, 2)}, n)
           ELSE {[r \in 0 .. n - 1 |-> {Row(r + 1, (r + 3) % 4)}]}
MCRightInputs(n) ==
  IF n = 2 THEN Distributions({Row(3, 0), Row(4, 2), Row(5, 2)}, n)
           ELSE {[r \in 0 .. n - 1 |-> D[r] \cup (IF r = 3 THEN {Row(6, 1)} ELSE {})]
                   : D \in Distributions({Row(5, 3)}, n)}

\* One row on each side at most, two ranks in one domain.
SchemaClusters == {<<2, 2>>}
SchemaLeftInputs(n)  == Distributions({Row(1, 3)}, n)
SchemaRightInputs(n) == Distributions({Row(2, 3)}, n)
=============================================================================
