------------------------------ MODULE Assembly -----------------------------
(***************************************************************************)
(* A record on its way through the columns: ColumnItemGenerator writes its *)
(* items, a query names some of the columns, and RecordNestedAssembler     *)
(* reads item after item, moving from column to column by the FSMTable,    *)
(* until RecordBuilder has the row and RecordOutput reads and prints it.   *)
(*                                                                         *)
(* m_path and m_crds have one entry for each leaf of the query that is     *)
(* valid for the record, in the order of QueryPathes.  They are numbered   *)
(* from 1, so that Len(path) + 1 is the final state of the FSM.            *)
(***************************************************************************)
EXTENDS RecordBuilder, ColumnExpression

CONSTANTS
  Inputs,   \* a record to parse, and how many nodes the tree has before it
  Queries   \* the sets of columns asked for

\* Nodes are numbered as they are created.
NumberedUpTo(n) == [s \in 1..n |-> s]

ASSUME AssemblyAssumption ==
  /\ \A in \in Inputs :
       LET nodes == Shred(in.record, NumberedUpTo(in.num)).known
       IN  in.num <= Len(Parent) /\ nodes = NumberedUpTo(Len(nodes))
  /\ MaxLevel \in Nat /\ \A l \in Prim : Level[l] <= MaxLevel

VARIABLES
  record,   \* the record
  known,    \* the nodes of the SchemaTree
  fresh,    \* history: the nodes the record has created
  cols,     \* the items of each leaf's column
  marks,    \* the nodes whose counter ColumnItemGenerator has left set
  asked,    \* history: the columns asked for
  path,     \* m_path: the SchemaPathes, sorted
  fsm,      \* m_fsm
  at,       \* items read of each column
  cidx,     \* the column to read next
  mv2frt,   \* the FSM moved to the front
  build,    \* m_build
  row,      \* the row in m_buf, when it is complete
  status

parsed == <<record, known, fresh, cols, marks>>
query  == <<asked, path, fsm>>
vars   == <<parsed, query, at, cidx, mv2frt, build, row, status>>

Maximum(S) == CHOOSE m \in S : \A n \in S : n <= m
Minimum(S) == CHOOSE m \in S : \A n \in S : m <= n

-----------------------------------------------------------------------------
(* FSMTable.                                                               *)

RECURSIVE Before(_, _)

\* SchemaPath::operator<.
Before(p, q) ==
  IF p = <<>> \/ q = <<>> THEN p = <<>> /\ q # <<>>
  ELSE IF Head(p) = Head(q) THEN Before(Tail(p), Tail(q))
  ELSE Head(p) < Head(q)

SortedPathes(q) == Sorted({PathOf[l] : l \in q}, Before)

\* Of the last path with the one behind it, both levels are 0.
LowestSameLevel(ps, i) ==
  IF i = Len(ps) THEN 0
  ELSE Cardinality({k \in 1..Len(ps[i]) : k <= Len(ps[i + 1]) /\ ps[i][k] = ps[i + 1][k]})

\* The level of the lowest repeated node of p above or on level lvl, 0 if none.
RepeatedLevel(p, lvl) == Maximum({0} \cup {k \in 1..lvl : p[k] \in Multi})

CommonLevel(ps, i) == RepeatedLevel(ps[i], LowestSameLevel(ps, i))

GetCommonReptLevel(com, ps, tgt, cur) ==
  IF tgt = cur THEN RepeatedLevel(ps[tgt], Len(ps[tgt]))
  ELSE Minimum({com[i] : i \in cur..(tgt - 1)})

GetLowestSameLevel(low, ps, tgt, cur) ==
  IF tgt = cur THEN Len(ps[tgt]) ELSE Minimum({low[i] : i \in cur..(tgt - 1)})

Invalid == -1

\* One column of the table: up to the common level with the next column the
\* barrier; above it the most head column with that common level, taken from
\* the next lower level that has one; no jump on levels that do not repeat.
TransColumn(ps, com, i) ==
  LET heads(lvl) == {j \in 1..i : GetCommonReptLevel(com, ps, i, j) = lvl}
      given(rep) == {lvl \in rep..Len(ps[i]) : heads(lvl) # {}}
  IN  [rep \in 0..Len(ps[i]) |->
         IF rep > 0 /\ ps[i][rep] \notin Multi THEN Invalid
         ELSE IF rep <= com[i]                 THEN i + 1
         ELSE IF given(rep) = {}               THEN Invalid
         ELSE Minimum(heads(Minimum(given(rep))))]

InitFSM(ps) ==
  LET com == [i \in DOMAIN ps |-> CommonLevel(ps, i)]
  IN  [com |-> com, low |-> [i \in DOMAIN ps |-> LowestSameLevel(ps, i)],
       trans |-> [i \in DOMAIN ps |-> TransColumn(ps, com, i)]]

NoFSM == [com |-> <<>>, low |-> <<>>, trans |-> <<>>]

-----------------------------------------------------------------------------
FieldsOf[q \in Queries] == Fields(q)

Init ==
  /\ \E in \in Inputs : record = in.record /\ known = NumberedUpTo(in.num)
  /\ fresh = {}
  /\ cols = NothingWritten(known).cols /\ marks = {}
  /\ asked = {} /\ path = <<>> /\ fsm = NoFSM
  /\ at = [l \in Prim |-> 0] /\ cidx = 1 /\ mv2frt = FALSE
  /\ build = NoBuild /\ row = <<>>
  /\ status = "parse"

\* ColumnItemGenerator::generate for one record.
GenerateRecord ==
  /\ status = "parse"
  /\ LET st == Shred(record, known)
     IN  /\ known' = st.known
         /\ fresh' = Range(st.known) \ Range(known)
         /\ cols' = st.cols
         /\ marks' = {s \in Nodes : Appeared(st, s)}
  /\ status' = "stored"
  /\ UNCHANGED <<record, query, at, cidx, mv2frt, build, row>>

\* AssembleColumn::updateColumn, RecordNestedAssembler::reinit, and the begin of
\* assemble.  No column may be valid; then the FSMTable is not built.
BeginAssemble(q) ==
  /\ status = "stored" /\ ~Refused(q)
  /\ asked' = q
  /\ path' = SortedPathes(FieldsOf[q] \cap Range(known))
  /\ fsm' = IF path' = <<>> THEN NoFSM ELSE InitFSM(path')
  /\ build' = Begin2Build(build)
  /\ status' = "assemble"
  /\ UNCHANGED <<parsed, at, cidx, mv2frt, row>>

\* ColumnAssembler::init fails, whatever the other columns are.
RefuseQuery(q) ==
  /\ status = "stored" /\ Refused(q)
  /\ asked' = q
  /\ status' = "refused"
  /\ UNCHANGED <<parsed, path, fsm, at, cidx, mv2frt, build, row>>

\* The end of assemble, which aborts unless the Size of the record is what was
\* used of the buffer.
Finish(built) ==
  /\ row' = built.buf
  /\ build' = [Asserting(built, Cell(built.buf, 0) = Len(built.buf)) EXCEPT !.buf = <<>>]
  /\ status' = "done"

EndWithoutColumns ==
  /\ status = "assemble" /\ path = <<>>
  /\ Finish(End2Build(build))
  /\ UNCHANGED <<parsed, query, at, cidx, mv2frt>>

\* The items of the record: up to the next one that begins a record.
OfRecord(items) ==
  LET ends == {i \in 2..Len(items) : items[i].rep = 0}
  IN  IF ends = {} THEN items ELSE SubSeq(items, 1, Minimum(ends) - 1)

Leaf(i)  == Last(path[i])
Items(i) == OfRecord(cols[Leaf(i)])
Reading  == status = "assemble" /\ path # <<>>

\* The item that is read belongs to the next record, or there is none.
ReadBehindRecord ==
  /\ Reading
  /\ at[Leaf(cidx)] = Len(Items(cidx))
  /\ status' = "astray"
  /\ UNCHANGED <<parsed, query, at, cidx, mv2frt, build, row>>

\* The level to return to between two columns.
GetCommonLevel(cur, nxt, nrep) ==
  LET common == GetCommonReptLevel(fsm.com, path, cur, nxt)
  IN  IF cur = nxt THEN nrep
      ELSE IF nxt < cur THEN Minimum({nrep, common})
      ELSE GetLowestSameLevel(fsm.low, path, nxt, cur)

AppendItem(b, item, p) == IF item.def = Len(p) THEN AppendLeafValue(b, item.val) ELSE b

\* What is built when an item has been read.
WithItem(b, item, p, front) == AppendItem(Move2Level(b, item.def, p, front), item, p)

\* One turn of the loop in assemble.
AssembleItem ==
  /\ Reading
  /\ at[Leaf(cidx)] < Len(Items(cidx))
  /\ LET p    == path[cidx]
         n    == at[Leaf(cidx)] + 1
         nrep == IF n < Len(Items(cidx)) THEN Items(cidx)[n + 1].rep ELSE 0
         nidx == fsm.trans[cidx][nrep]
         b    == WithItem(build, Items(cidx)[n], p, mv2frt)
     IN  /\ at' = [at EXCEPT ![Leaf(cidx)] = n]
         /\ \/ /\ nidx \notin DOMAIN path
               /\ Finish(End2Build(Return2Level(b, 0, p, FALSE)))
               /\ UNCHANGED <<cidx, mv2frt>>
            \/ /\ nidx \in DOMAIN path
               /\ cidx' = nidx
               /\ mv2frt' = (nidx <= cidx)
               /\ build' = Return2Level(b, GetCommonLevel(cidx, nidx, nrep), p, mv2frt')
               /\ UNCHANGED <<row, status>>
  /\ UNCHANGED <<parsed, query>>

Next ==
  \/ GenerateRecord
  \/ \E q \in Queries : BeginAssemble(q) \/ RefuseQuery(q)
  \/ EndWithoutColumns
  \/ ReadBehindRecord
  \/ AssembleItem

Spec == Init /\ [][Next]_vars

-----------------------------------------------------------------------------
(* RecordOutput.  null, {} and a field that is not there are the same to   *)
(* the generator, and so they are here.                                    *)

Nothing == [type |-> "object", fields |-> <<>>]
Garbled == [type |-> "garbled"]

RECURSIVE OutJSONObj(_, _), OutJSONArr(_, _, _)

\* The value at p of a member of node s.
OutJSONValue(buf, p, s, in_array) ==
  IF s \in Multi /\ ~in_array THEN OutJSONArr(buf, p, s)
  ELSE IF s \in Prim THEN [type |-> "text", val |-> Cell(buf, p)]
  ELSE OutJSONObj(buf, p)

\* An element of size 0 is printed as null or {}.
OutJSONArr(buf, bgn, s) ==
  LET arr == Init2Read(buf, bgn)
      elem(i) == IF GetBinSize(buf, arr, i) = 0 THEN Nothing
                 ELSE OutJSONValue(buf, GetBinVal(buf, arr, i), s, TRUE)
  IN  IF arr.flag \notin Flags THEN Garbled
      ELSE [type |-> "array", elems |-> [k \in 1..arr.num |-> elem(k - 1)]]

\* A member of size 0 is left out.
OutJSONObj(buf, bgn) ==
  LET obj == Init2Read(buf, bgn)
      member(i) == LET s == GetRowID(buf, obj, i)
                   IN  IF s \notin Nodes THEN [key |-> s, val |-> Garbled]
                       ELSE [key |-> s, val |-> OutJSONValue(buf, GetBinVal(buf, obj, i), s, FALSE)]
      filled == SelectSeq([k \in 1..obj.num |-> k - 1], LAMBDA i : GetMemberSize(buf, obj, i) # 0)
  IN  IF obj.flag \notin Flags THEN Garbled
      ELSE [type |-> "object",
            fields |-> SelectSeq([k \in DOMAIN filled |-> member(filled[k])],
                                 LAMBDA f : ~IsNull(f.val))]

-----------------------------------------------------------------------------
(* What a query promises: of the record, the fields above the leaves asked *)
(* for.  The fields come in the order of the tree, an array keeps all its  *)
(* elements, a field without content is left out.  An array of arrays is   *)
(* an array of objects with one field (its empty inner arrays are lost).   *)

RECURSIVE Selected(_, _, _)

Selected(v, s, leaves) ==
  LET above(c) == \E l \in leaves : \E k \in DOMAIN PathOf[l] : PathOf[l][k] = c
      has(c)   == \E k \in DOMAIN v.fields : v.fields[k].key = c
      field(c) == [key |-> c,
                   val |-> Selected((CHOOSE f \in Range(v.fields) : f.key = c).val, c, leaves)]
      given(c) == above(c) /\ has(c)
      full(f)  == ~IsNull(f.val)
      fields   == SelectSeq(Children[s], given)
      inner(e) == [type |-> "object",
                   fields |-> IF above(v.inner) THEN <<[key |-> v.inner, val |-> e]>> ELSE <<>>]
      arrays   == SelectSeq(v.elems, LAMBDA e : ~IsNull(e))
  IN  CASE v.type = "text"   -> v
        [] v.type = "null"   -> Nothing
        [] v.type = "array"  ->
             [v EXCEPT !.elems = [k \in DOMAIN @ |-> Selected(@[k], s, leaves)]]
        [] v.type = "matrix" ->
             [type |-> "array", elems |-> [k \in DOMAIN arrays |-> inner(arrays[k])]]
        [] v.type = "object" ->
             [type |-> "object",
              fields |-> SelectSeq([k \in DOMAIN fields |-> field(fields[k])], full)]

-----------------------------------------------------------------------------
(* Properties.                                                             *)

\* A leaf is asked for by its name or the name of an object or array above it.
Leaves ==
  {l \in Prim \cap Range(known) : \E names \in asked : IsPrefix(names, NamesOf[l])}

RECURSIVE NamesTwice(_), MixedBelow(_, _, _)

\* Somewhere in v an object has two fields of one name and type.
NamesTwice(v) ==
  CASE v.type = "object" -> \/ \E i, j \in DOMAIN v.fields :
                                 i < j /\ v.fields[i].key = v.fields[j].key
                            \/ \E i \in DOMAIN v.fields : NamesTwice(v.fields[i].val)
    [] v.type \in {"array", "matrix"} -> \E i \in DOMAIN v.elems : NamesTwice(v.elems[i])
    [] OTHER -> FALSE

\* An array of several arrays is stored at s, and one of the leaves is below s
\* but not in the inner arrays (in another record s was an array of objects).
MixedBelow(v, s, leaves) ==
  CASE v.type = "object" ->
         \E i \in DOMAIN v.fields : MixedBelow(v.fields[i].val, v.fields[i].key, leaves)
    [] v.type = "array"  -> \E i \in DOMAIN v.elems : MixedBelow(v.elems[i], s, leaves)
    [] v.type = "matrix" ->
         /\ Len(SelectSeq(v.elems, LAMBDA e : ~IsNull(e))) > 1
         /\ \E l \in leaves : s \in Range(PathOf[l]) /\ v.inner \notin Range(PathOf[l])
    [] OTHER -> FALSE

RECURSIVE Reaches(_, _), BegunBefore(_, _, _)

\* v has a value for leaf l.
Reaches(v, l) ==
  LET given(f) == ~IsNull(f.val) /\ (f.key = l \/ (f.key \in Range(PathOf[l]) /\ Reaches(f.val, l)))
  IN  CASE v.type = "object" -> \E i \in DOMAIN v.fields : given(v.fields[i])
        [] v.type = "array"  -> \E i \in DOMAIN v.elems : Reaches(v.elems[i], l)
        [] OTHER             -> v.type = "matrix" /\ v.inner = l

\* The levels at which there are elements of v, a value for s, before the first
\* that has a value for l.
BegunBefore(v, s, l) ==
  LET next   == PathOf[l][Level[s] + 1]
      fields == SelectSeq(v.fields, LAMBDA f : f.key = next)
      first  == Minimum({k \in DOMAIN v.elems : Reaches(v.elems[k], l)})
      deeper == \E k \in 1..(first - 1) : v.elems[k].type = "object" /\
                  \E f \in Range(v.elems[k].fields) : f.key = next /\ ~IsNull(f.val)
  IN  CASE s = l \/ ~Reaches(v, l) -> {}
        [] v.type = "object" -> BegunBefore(fields[1].val, next, l)
        [] v.type = "array"  -> BegunBefore(v.elems[first], s, l)
                                  \cup (IF first > 1 THEN {Level[s]} ELSE {})
                                  \cup (IF deeper THEN {Level[next]} ELSE {})
        [] OTHER             -> {}

\* A leaf that this record created behind elements of one level at most: those of
\* a second level are not told apart by the array they belong to.
Aligned(l) == l \in fresh => Cardinality(BegunBefore(record, 0, l)) <= 1

Regular(leaves) ==
  /\ ~NamesTwice(record) /\ ~MixedBelow(record, 0, leaves)
  /\ \A l \in leaves : Aligned(l)

Item == [rep : 0..MaxLevel, def : 0..MaxLevel, val : Nat]

TypeOK ==
  /\ \A l \in Prim : at[l] \in 0..Len(cols[l])
  /\ status = "stored" =>
       \A l \in Prim : \A i \in DOMAIN cols[l] :
         cols[l][i] \in Item /\ (cols[l][i].def = Level[l] <=> cols[l][i].val # NoVal)
  /\ marks \subseteq Nodes /\ known \in Seq(Nodes)
  /\ cidx \in 1..(Len(path) + 1) /\ mv2frt \in BOOLEAN
  /\ \A i \in DOMAIN path : \A r \in DOMAIN fsm.trans[i] :
       fsm.trans[i][r] \in {Invalid} \cup 1..(Len(path) + 1)
  /\ build.next \in 0..MaxLevel /\ row \in Seq(Nat)
  /\ status \in {"parse", "stored", "refused", "assemble", "astray", "done"}

\* What the items of a leaf say about the first k levels of the tree, of which
\* those down to r may repeat: which elements there are, and how deep they go.
Skeleton(l, k, r) ==
  LET upper == SelectSeq(cols[l], LAMBDA it : it.rep <= r)
  IN  [i \in DOMAIN upper |-> <<upper[i].rep, Minimum({upper[i].def, k})>>]

\* Two columns agree on the arrays and objects that lie above both of them (on
\* the records in particular): the assembler has nothing else to bring them
\* together by.  The counters of the generator are cleared for the next record.
ColumnsAgree ==
  status = "stored" =>
    /\ marks = {}
    /\ \A l, m \in Prim \cap Range(known) :
         LET ps == <<PathOf[l], PathOf[m]>>
             k  == LowestSameLevel(ps, 1)
         IN  Regular({l, m}) => Skeleton(l, k, CommonLevel(ps, 1)) = Skeleton(m, k, CommonLevel(ps, 1))

\* Reading the columns a query asks for yields these fields of the record.
AssemblesWhatWasParsed ==
  status = "done" /\ Regular(Leaves) => OutJSONObj(row, 0) = Selected(record, 0, Leaves)

\* The assembler never reads behind the record (ColumnAssembler.cpp:130 asserts
\* that it has assembled one), and the assertions of RecordBuilder hold.
StaysInRecord == build.ok /\ (status = "astray" => ~Regular(Leaves))

\* After a record its items have been read in all columns, and the builders are
\* as they were before it, which begin2build counts on.
ReadyForNextRecord ==
  status = "done" =>
    /\ build = NoBuild
    /\ Regular(Leaves) => \A l \in Leaves : at[l] = Len(cols[l])

=============================================================================
