---------------------------- MODULE MC_Assembly ----------------------------
EXTENDS Assembly

\* 1 a[]   2 a.c[]
\* 3 d[]   4 d.e[]   5 d.e.g[]   6 d.k
\* 7 h     8 h.l[]
\* 9 m[]   10 m.0[]  11 m.p
\* created by the records: 12 d.e.f   13 a.b   14 h.i   15 h.i.j   16 m.o
MCParent == <<0, 1, 0, 3, 4, 3, 0, 7, 0, 9, 9, 4, 1, 7, 14, 9>>
MCMulti  == {1, 2, 3, 4, 5, 8, 9, 10}
MCPrim   == {2, 5, 6, 8, 10, 11, 12, 13, 15, 16}

T(n)       == [type |-> "text", val |-> n]
Object(fs) == [type |-> "object", fields |-> fs]
Arr(es)    == [type |-> "array", elems |-> es]
Matrix(es) == [type |-> "matrix", inner |-> 10, elems |-> es]
Null       == [type |-> "null"]
F(k, v)    == [key |-> k, val |-> v]

Or(k, vs) == {<<>>} \cup {<<F(k, v)>> : v \in vs}

Texts(n)  == {Arr(<<T(n)>>), Arr(<<T(n), T(n + 1)>>)}
Both(A, B) == {x \o y : x \in A, y \in B}
Objects(fss) == {Object(fs) : fs \in fss}
\* Arrays of one or two elements; numbers make the values different.
Arrays(E(_), n) == {Arr(<<x>>) : x \in E(n)} \cup {Arr(<<x, y>>) : x \in E(n), y \in E(n + 100)}

InA(n) == Objects(Both(Or(13, {T(n)}), Or(2, Texts(n + 1))))
InE(n) == Objects(Both(Or(12, {T(n)}), Or(5, Texts(n + 1))))
InD(n) == Objects(Both(Or(4, Arrays(InE, n)), Or(6, {T(n + 10)})))
InM(n) == Objects(Both(Or(16, {T(n + 10)}), Both(Or(10, Texts(n)), Or(11, {T(n + 11)}))))
InH    == Objects(Both(Or(14, {Object(<<F(15, Null)>>), Object(<<F(15, T(1))>>)}), Or(8, Texts(2))))

\* A second element of d: fields in both orders, and f behind an element without it.
LastOfD == {Object(<<F(4, Arr(<<Object(<<F(5, Arr(<<T(2500)>>))>>), Object(<<F(12, T(2600))>>)>>))>>),
            Object(<<F(6, T(2700)), F(4, Arr(<<Object(<<F(12, T(2600))>>)>>))>>),
            Object(<<F(6, T(2700))>>)}

OfA == {F(1, v) : v \in Arrays(InA, 1000)}
OfD == {F(3, Arr(<<x>>)) : x \in InD(2000)} \cup {F(3, Arr(<<x, y>>)) : x \in InD(2000), y \in LastOfD}
OfH == {F(7, v) : v \in InH}
OfM == {F(9, v) : v \in Arrays(InM, 4000) \cup {Matrix(<<x>>) : x \in Texts(4000)}
                        \cup {Matrix(<<x, y>>) : x \in Texts(4000), y \in Texts(4100) \cup {Arr(<<>>)}}}

MCRecords ==
  {Object(<<f>>) : f \in OfA \cup OfD \cup OfH \cup OfM}
  \cup {Object(<<F(7, Object(<<F(8, v), F(8, w)>>))>>) : v, w \in Texts(1)}
  \cup {Object(<<f, g>>) : f \in OfH, g \in OfA }

\* Every record with all nodes known; and those that create nodes, in order.
Created(r, n) == Shred(r, NumberedUpTo(n)).known
MCInputs ==
  {[record |-> r, num |-> 16] : r \in MCRecords}
  \cup {in \in [record : MCRecords, num : {11, 12, 13, 14, 15}] :
          LET nodes == Created(in.record, in.num)
          IN  Len(nodes) > in.num /\ nodes = NumberedUpTo(Len(nodes))}

\* Values of two lengths.
MCValueLength(v) == 1 + (v % 2)

\* A text and an array of objects have one name, and so have two texts.
MCName == [s \in DOMAIN MCParent |-> IF s = 6 THEN 4 ELSE IF s = 16 THEN 11 ELSE s]

\* One or two leaves by their names, of one field of the record or together with
\* leaf 2 or 8; some more; and objects by their names.
Together == {<<l, m>> \in MCPrim \X MCPrim : PathOf[l][1] = PathOf[m][1] \/ l \in {2, 8}}
MCQueries ==
  {{NamesOf[lm[1]], NamesOf[lm[2]]} : lm \in Together}
  \cup {{NamesOf[l] : l \in S} : S \in {{12, 5, 6}, {13, 2, 8}, {2, 12, 6}, MCPrim}}
  \cup {{<<7>>}, {<<3>>, <<1, 2>>}}
=============================================================================
