------------------------- MODULE CompressionOptions -------------------------
(***************************************************************************)
(* How all ranks come to use the same compression options                  *)
(* (src/src/compression.cpp): without compression every rank makes its own *)
(* vector; with it the root runs the cascaded selector on its data, column *)
(* by column, and all ranks run broadcast_compression_options, the root on *)
(* the tree it has, the others on nothing but the types of their own       *)
(* columns.  A caller may also broadcast options of its own.               *)
(*                                                                         *)
(* Every MPI_Bcast is a step of each rank and names neither node nor       *)
(* column.  MPI is external: the root does not wait, and every other rank  *)
(* takes the words in the order they were broadcast.  The table has a      *)
(* string column, with its two subcolumns, and a fixed-width column.       *)
(***************************************************************************)
EXTENDS Integers, Sequences

CONSTANTS
  Size,   \* number of ranks
  Calls   \* how the options are made, see CallAssumption

Ranks == 0 .. Size - 1
Root  == 0

\* The columns of the table, and the children of a column.
Columns == <<"string", "fixed">>
Nodes   == {"string", "offsets", "chars", "fixed"}
Subcolumns(n) == IF n = "string" THEN <<"offsets", "chars">> ELSE <<>>

\* way: "none" is compression = false, "auto" is compression = true,
\* "given" broadcasts the caller's options with the nodes in cascaded
\* compressed; supported: CascadedSelector handles the fixed column's type
\* (that of an offset subcolumn it does).
ASSUME CallAssumption ==
  Calls \subseteq [way : {"none", "auto", "given"}, cascaded : SUBSET Nodes,
                   supported : BOOLEAN]

VARIABLES
  call,    \* the arguments, the same on every rank
  chosen,  \* the root's input_options, as far as they are made
  todo,    \* todo[r]: nodes r's walk has still to visit, in order
  method,  \* method[r]: compression_method of the first of them, when broadcast
  opts,    \* opts[r]: ColumnCompressionOptions of the nodes r has visited
  bcasts   \* bcasts[d]: what the root has broadcast and d not taken yet

optVars == <<call, chosen, todo, method, opts, bcasts>>

\* ColumnCompressionOptions: method, cascaded_format; the node is its place.
Option(m, f) == [method |-> m, format |-> f]

DefaultFormat == <<>>
Plain == Option("none", DefaultFormat)
Unset == Option("unset", DefaultFormat)

\* External: the format CascadedSelector picks for the data of rank r.
Selected(r, n) == <<r, n>>
Cascaded(r, n) == Option("cascaded", Selected(r, n))

\* The options whose cascaded nodes, chosen on rank r, are S.
Tree(r, S) == [n \in Nodes |-> IF n \in S THEN Cascaded(r, n) ELSE Plain]

\* What generate_auto_select_compression_options compresses.
AutoNodes == {"offsets", "fixed"}

OptInit ==
  /\ call \in Calls
  /\ chosen = IF call.way = "given" THEN Tree(Root, call.cascaded) ELSE [n \in Nodes |-> Unset]
  /\ todo = [r \in Ranks |-> Columns]
  /\ method = [r \in Ranks |-> Unset.method]
  /\ opts = [r \in Ranks |-> [n \in Nodes |-> Unset]]
  /\ bcasts = [d \in Ranks |-> <<>>]

\* compression = false: nothing is communicated.
GenerateLocally(r) ==
  /\ call.way = "none" /\ todo[r] # <<>>
  /\ opts' = [opts EXCEPT ![r] = Tree(r, {})]
  /\ todo' = [todo EXCEPT ![r] = <<>>]
  /\ UNCHANGED <<call, chosen, method, bcasts>>

\* generate_auto_select_compression_options has come to column n.
Selecting(r, n) ==
  /\ call.way = "auto" /\ r = Root /\ chosen[n] = Unset
  /\ n = "string" \/ (n = "fixed" /\ chosen["string"] # Unset)

\* The selector on the offset subcolumn or on the fixed-width column.
Select(r, n) ==
  /\ Selecting(r, n) /\ (n = "fixed" => call.supported)
  /\ chosen' = [m \in Nodes |-> IF m = n \/ \E i \in DOMAIN Subcolumns(n) : m = Subcolumns(n)[i]
                                THEN Tree(r, AutoNodes)[m] ELSE chosen[m]]
  /\ UNCHANGED <<call, todo, method, opts, bcasts>>

\* "Unsupported type for CascadedSelector".
SelectorThrows(r) ==
  /\ Selecting(r, "fixed") /\ ~call.supported
  /\ UNCHANGED optVars

(***************************************************************************)
(* broadcast_compression_options.                                          *)
(***************************************************************************)
\* MPI_Bcast of the root's w: the root leaves it for all others and goes on,
\* another rank waits for a word.
Bcast(r, w) ==
  IF r = Root
  THEN /\ \A n \in Nodes : chosen[n] # Unset
       /\ bcasts' = [d \in Ranks |-> IF d = Root THEN <<>> ELSE Append(bcasts[d], w)]
  ELSE /\ bcasts[r] # <<>>
       /\ bcasts' = [bcasts EXCEPT ![r] = Tail(@)]

\* What rank r's variable holds after it.
Received(r, w) == IF r = Root THEN w ELSE Head(bcasts[r])

\* compression_method of the next node.
BcastMethod(r) ==
  LET m == chosen[Head(todo[r])].method IN
  /\ call.way # "none" /\ todo[r] # <<>> /\ method[r] = Unset.method
  /\ Bcast(r, m)
  /\ method' = [method EXCEPT ![r] = Received(r, m)]
  /\ UNCHANGED <<call, chosen, todo, opts>>

\* Mutant: the walk follows the children of the options, which only the root has.
ChildrenOfOptions(r, n) == IF r = Root THEN Subcolumns(n) ELSE <<>>

\* "a string column should always contain two subcolumns": the walk follows
\* the type of the rank's own column.
Children(r, n) == Subcolumns(n)

\* Its cascaded_format; then its children.
BcastFormat(r) ==
  LET n == Head(todo[r])
      f == chosen[n].format
  IN
  /\ call.way # "none" /\ todo[r] # <<>> /\ method[r] # Unset.method
  /\ Bcast(r, f)
  /\ opts' = [opts EXCEPT ![r][n] = Option(method[r], Received(r, f))]
  /\ todo' = [todo EXCEPT ![r] = Children(r, n) \o Tail(@)]
  /\ method' = [method EXCEPT ![r] = Unset.method]
  /\ UNCHANGED <<call, chosen>>

GenerateOptions(r) ==
  GenerateLocally(r) \/ (\E n \in Nodes : Select(r, n)) \/ BcastMethod(r) \/ BcastFormat(r)

-----------------------------------------------------------------------------
\* "Generate the same compression option on all ranks": ranks that have the
\* options of a node agree in them, although only the root looked at its data
\* and no broadcast says which node it is of; a rank whose walk is over has
\* those of every node; and when the root's selector is to throw, no rank is
\* left with a part of the tree.
SameOptions ==
  /\ \A r, s \in Ranks : \A n \in Nodes :
       (opts[r][n] # Unset /\ opts[s][n] # Unset) => opts[r][n] = opts[s][n]
  /\ \A r \in Ranks : todo[r] = <<>> => \A n \in Nodes : opts[r][n] # Unset
  /\ (call.way = "auto" /\ ~call.supported) =>
       \A r \in Ranks : method[r] = Unset.method /\ \A n \in Nodes : opts[r][n] = Unset
=============================================================================
