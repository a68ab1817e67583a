----------------------------- MODULE Shredding -----------------------------
(***************************************************************************)
(* How ColumnItemGenerator takes a record apart: one sequence of items     *)
(* <rep:def:value> per leaf of the SchemaTree.                             *)
(*                                                                         *)
(* The nodes of the tree are the SchemaSignatures 1..n in the order of     *)
(* their creation, 0 is the root.  A node stands for a name together with  *)
(* a type and a category, so looking a field up (lookupSchema) comes to    *)
(* asking whether its node has been created.  The constants have all nodes *)
(* there will be; a record may create some of them, and the column of a    *)
(* new leaf is then aligned with the elements the record had before.       *)
(* A value of a record is one of                                           *)
(*   [type |-> "null"]                                                     *)
(*   [type |-> "text", val |-> v]          a string, number or boolean     *)
(*   [type |-> "object", fields |-> f]     f a sequence of [key, val]      *)
(*   [type |-> "array", elems |-> e]       elements of one JSON type       *)
(*   [type |-> "matrix", inner |-> c, elems |-> e]                         *)
(*                    e a sequence of arrays, the first not empty, c its   *)
(*                    node                                                 *)
(* An array whose elements differ in type has category index and is stored *)
(* like an object with fields "0", "1", ...; it is an object here.         *)
(***************************************************************************)
EXTENDS Integers, Sequences, FiniteSets, SequencesExt

CONSTANTS
  Parent,  \* the parent of each node
  Multi,   \* nodes of category s_vcat_multi
  Prim     \* nodes of a primitive type: the leaves

Nodes == DOMAIN Parent

ASSUME SchemaAssumption ==
  /\ Parent \in Seq(Nat)
  /\ Multi \subseteq Nodes /\ Prim \subseteq Nodes
  /\ \A s \in Nodes : Parent[s] < s /\ Parent[s] \notin Prim

\* Level of a node, the definition value of what is defined down to it.
Level[s \in Nodes \cup {0}] == IF s = 0 THEN 0 ELSE Level[Parent[s]] + 1

\* The elements of S in the order `less'.
Sorted(S, less(_, _)) ==
  [i \in 1..Cardinality(S) |->
     CHOOSE x \in S : Cardinality({y \in S : less(y, x)}) = i - 1]

Children[s \in Nodes \cup {0}] == Sorted({c \in Nodes : Parent[c] = s}, <)

\* The nodes from below the root to s.
PathOf[s \in Nodes \cup {0}] == IF s = 0 THEN <<>> ELSE Append(PathOf[Parent[s]], s)

\* A null has no value; the values of texts are positive numbers.
NoVal == 0

\* JSONBinField::isNull.
IsNull(v) ==
  \/ v.type = "null"
  \/ v.type = "object" /\ v.fields = <<>>
  \/ v.type \in {"array", "matrix"} /\ v.elems = <<>>

-----------------------------------------------------------------------------
(* st.cols holds the items written, st.cnt is m_nd_cnt, and st.known are   *)
(* the nodes of the tree, in the order of their creation.                  *)

NothingWritten(known) ==
  [cols |-> [l \in Prim |-> <<>>], cnt |-> [s \in Nodes |-> 0], known |-> known]

Write(st, l, rep, def, val) ==
  [st EXCEPT !.cols[l] = Append(@, [rep |-> rep, def |-> def, val |-> val])]

Appeared(st, c) == st.cnt[c] > 0

UpdateNode(st, s) == [st EXCEPT !.cnt[s] = @ + 1]

\* Mutant of ClearAppear: the counter is not reset.
MutantStaysAppeared(st, c) == st

ClearAppear(st, c) == [st EXCEPT !.cnt[c] = 0]

\* Mutant of AlignColumn: the element that has just begun counts as well.
MutantCurrentCounted(st, l) ==
  LET p == PathOf[l]
  IN  [st EXCEPT !.cols[l] = FlattenSeq([k \in 1..(Len(p) - 1) |->
         [n \in 1..st.cnt[p[k]] |->
            [rep |-> IF k = 1 /\ n = 1 THEN 0 ELSE k, def |-> k, val |-> NoVal]]])]

\* Nulls for the elements that were begun before leaf l was created, level by
\* level of its path up to itself; the first of them begins the record.
AlignColumn(st, l) ==
  LET p       == PathOf[l]
      nulls   == FlattenSeq([k \in 1..(Len(p) - 1) |->
                   [n \in 1..(st.cnt[p[k]] - 1) |-> [rep |-> k, def |-> k, val |-> NoVal]]])
      begin   == [k \in DOMAIN nulls |-> IF k = 1 THEN [nulls[k] EXCEPT !.rep = 0] ELSE nulls[k]]
  IN  [st EXCEPT !.cols[l] = begin]

CreateNode(st, c) ==
  LET added == [st EXCEPT !.known = Append(@, c)]
  IN  IF c \in Prim THEN AlignColumn(added, c) ELSE added

UpdateSchema(st, c) ==
  [(IF c \in Range(st.known) THEN st ELSE CreateNode(st, c)) EXCEPT !.cnt[c] = 1]

\* Mutant of NullDef: nulls are defined one level too deep.
MutantNullDefDeeper(s) == Level[s] + 1

\* The definition value of the nulls below a value for s.
NullDef(s) == Level[s]

RECURSIVE CheckChildAppeared(_, _, _, _)

\* The leaves below s that the value did not reach get a null.
CheckChildAppeared(st, s, rep, def) ==
  LET check(acc, c) == IF Appeared(acc, c)  THEN ClearAppear(acc, c)
                       ELSE IF c \in Prim THEN Write(acc, c, rep, def, NoVal)
                       ELSE CheckChildAppeared(acc, c, rep, def)
  IN  FoldLeft(check, st, SelectSeq(Children[s], LAMBDA c : c \in Range(st.known)))

RECURSIVE Generate(_, _, _, _)

\* A field or an element v for node s: an item, or what is generated below.
WriteOrGenerate(st, v, s, rep) ==
  IF s \in Prim /\ v.type = "text" THEN Write(st, s, rep, Level[s], v.val)
  ELSE Generate(st, v, s, rep)

GenerateByField(st, v, s, rep) ==
  LET fields == IF v.type = "object" THEN v.fields ELSE <<>>
      field(acc, f) == IF IsNull(f.val) THEN acc
                       ELSE WriteOrGenerate(UpdateSchema(acc, f.key), f.val, f.key, rep)
  IN  CheckChildAppeared(FoldLeft(field, st, fields), s, rep, NullDef(s))

\* The repetition value of the i-th element of an array for s.
ElemRep(s, i, rep) == IF i = 1 THEN rep ELSE Level[s]

GenerateByNaiveArray(st, v, s, rep) ==
  LET elem(acc, i) == WriteOrGenerate(IF i = 1 THEN acc ELSE UpdateNode(acc, s),
                                      v.elems[i], s, ElemRep(s, i, rep))
  IN  FoldLeftDomain(elem, st, v.elems)

\* All inner arrays are taken for the node of the first one, and the other
\* children of s get one null, however many inner arrays there are.
GenerateByMatrix(st, v, s, rep) ==
  LET elem(acc, i) == Generate(acc, v.elems[i], v.inner, ElemRep(s, i, rep))
  IN  CheckChildAppeared(FoldLeftDomain(elem, UpdateSchema(st, v.inner), v.elems),
                         s, rep, NullDef(s))

Generate(st, v, s, rep) ==
  IF v.type \in {"array", "matrix"} /\ v.elems # <<>> /\ s \in Multi
  THEN IF v.type = "matrix" THEN GenerateByMatrix(st, v, s, rep)
       ELSE GenerateByNaiveArray(st, v, s, rep)
  ELSE GenerateByField(st, v, s, rep)

\* What one record writes when the tree has the nodes known.
Shred(record, known) == Generate(NothingWritten(known), record, 0, 0)

=============================================================================
