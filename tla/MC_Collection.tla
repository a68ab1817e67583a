--------------------------- MODULE MC_Collection ---------------------------
(* Constants of Collection for model checking.  The items of column c are   *)
(* so long that the tail CAB of a single one has no room in a Buffer.        *)
EXTENDS Collection

CONSTANTS a, b, c
MCColumns == {a, b, c}
MCItemLen == [k \in MCColumns |-> IF k = c THEN 3 ELSE 2]

\* Three records of two columns, or of the one with long items, or five of one:
\* with two records per CAB that is the least with a CAB of nulls between others.
MCFits(t, n) ==
  \/ Leaves(t) \subseteq {a, b} /\ n <= 3
  \/ Leaves(t) \subseteq {a}    /\ n <= 5
  \/ Leaves(t) \subseteq {c}    /\ n <= 3
=============================================================================
