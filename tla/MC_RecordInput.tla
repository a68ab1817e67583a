-------------------------- MODULE MC_RecordInput ---------------------------
EXTENDS RecordInput

Good(len) == [fields |-> 1, unset |-> FALSE, ret |-> "done", len |-> len]

\* Objects of three lengths, one with an error nested in it, texts that end
\* early behind and inside a value, syntax errors likewise, and no object.
MCTexts ==
  {Good(1), Good(2), Good(6)} \cup
  {[fields |-> 1, unset |-> u, ret |-> r, len |-> 2] :
     u \in BOOLEAN, r \in {"end", "fail"}} \cup
  {[fields |-> 1, unset |-> TRUE, ret |-> "done", len |-> 2],
   [fields |-> 0, unset |-> FALSE, ret |-> "abort", len |-> 1]}

=============================================================================
