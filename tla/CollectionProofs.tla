-------------------------- MODULE CollectionProofs --------------------------
(***************************************************************************)
(* Theorems about one collection (module Collection), for any columns and  *)
(* any sizes of CABs, batches and buffers.                                 *)
(*                                                                         *)
(* That a scan returns the records parsed is not kept by every step: a     *)
(* batch is on its way through the buffers, a session through its close,   *)
(* and a scan through its rows.  The invariant says for each phase where   *)
(* the items of a column are and that, taken together, they are the items  *)
(* of the first n records (Kept), but for a tail CAB that another block    *)
(* was stored over (KeptButTail); for every column that what no CABInfo    *)
(* counts lies in CABs of nulls before the last (Sound); and for a scan    *)
(* which columns it reads next, which rows it has buffered and how many it *)
(* has returned (Position, Buffered).                                      *)
(***************************************************************************)
EXTENDS Collection, SequenceTheorems, FiniteSetTheorems, NatInduction

-----------------------------------------------------------------------------
(* Trees, columns and the items in them.                                   *)

\* The leaves of a tree and of what is appended to it.
LEMMA LeavesOfConcat ==
  ASSUME NEW t \in Seq(Columns), NEW u \in Seq(Columns)
  PROVE  /\ Leaves(t) \subseteq Columns
         /\ t \o u \in Seq(Columns) /\ Leaves(t \o u) = Leaves(t) \cup Leaves(u)
<1>1. Len(t) \in Nat /\ Len(u) \in Nat
  BY LenProperties
<1>2. /\ t \o u \in Seq(Columns) /\ Len(t \o u) = Len(t) + Len(u)
      /\ \A i \in 1..(Len(t) + Len(u)) : (t \o u)[i] = IF i <= Len(t) THEN t[i] ELSE u[i - Len(t)]
  BY ConcatProperties
<1>3. Leaves(t) \subseteq Columns
  BY ElementOfSeq DEF Leaves
<1> DEFINE v == t \o u
<1> HIDE DEF v
<1>4. ASSUME NEW i \in 1..Len(v) PROVE v[i] \in Leaves(t) \cup Leaves(u)
  <2>1. CASE i <= Len(t)
    BY <1>1, <1>2, <2>1 DEF v, Leaves
  <2>2. CASE i > Len(t)
    <3>1. i - Len(t) \in 1..Len(u) /\ v[i] = u[i - Len(t)]
      BY <1>1, <1>2, <2>2 DEF v
    <3> QED BY <3>1 DEF Leaves
  <2> QED BY <1>1, <1>2, <2>1, <2>2 DEF v
<1>5. ASSUME NEW i \in 1..Len(t) PROVE t[i] \in Leaves(v)
  <2>1. i \in 1..Len(v) /\ v[i] = t[i]
    BY <1>1, <1>2 DEF v
  <2> QED BY <2>1 DEF Leaves
<1>6. ASSUME NEW i \in 1..Len(u) PROVE u[i] \in Leaves(v)
  <2>1. Len(t) + i \in 1..Len(v) /\ ~(Len(t) + i <= Len(t)) /\ (Len(t) + i) - Len(t) = i
    BY <1>1, <1>2 DEF v
  <2>2. v[Len(t) + i] = u[i]
    BY <1>1, <1>2, <2>1 DEF v
  <2> QED BY <2>1, <2>2 DEF Leaves
<1>7. Leaves(v) = Leaves(t) \cup Leaves(u)
  BY <1>4, <1>5, <1>6 DEF Leaves
<1> QED BY <1>2, <1>3, <1>7 DEF v

\* The new leaves of a record come in some order.
LEMMA OrderedLeaves ==
  ASSUME NEW cs \in SUBSET Columns, NEW fresh \in Orders(cs)
  PROVE  fresh \in Seq(Columns) /\ Leaves(fresh) = cs
<1>1. Cardinality(cs) \in Nat
  BY ConstantsAssumption, FS_Subset, FS_CardinalityType
<1>2. fresh \in Seq(Columns)
  <2>1. fresh \in [1..Cardinality(cs) -> Columns]
    BY DEF Orders
  <2> QED BY <1>1, <2>1, SeqDef
<1> QED BY <1>2 DEF Orders

\* Division with remainder.
LEMMA DivMod ==
  ASSUME NEW a \in Nat, NEW b \in Nat \ {0}
  PROVE  /\ a \div b \in Nat /\ (a % b) \in 0..(b - 1)
         /\ a = (a \div b) * b + (a % b)
  OBVIOUS

\* A CAB begins at or before the record it is looked up for, at a multiple of RecdCap,
\* and is the last that does.
LEMMA AlignBegin ==
  ASSUME NEW n \in Nat
  PROVE  /\ CalcAlignBegin(n, RecdCap) \in Nat /\ CalcAlignBegin(n, RecdCap) <= n
         /\ CalcAlignBegin(n, RecdCap) % RecdCap = 0
         /\ \A b \in Nat : b % RecdCap = 0 /\ b <= n => b <= CalcAlignBegin(n, RecdCap)
         /\ \A b \in Nat : b % RecdCap = 0 /\ b < CalcAlignBegin(n, RecdCap)
                             => b + RecdCap <= CalcAlignBegin(n, RecdCap)
<1> SUFFICES ASSUME NEW k \in Nat \ {0}, k = RecdCap
             PROVE  /\ CalcAlignBegin(n, k) \in Nat /\ CalcAlignBegin(n, k) <= n
                    /\ CalcAlignBegin(n, k) % k = 0
                    /\ \A b \in Nat : b % k = 0 /\ b <= n => b <= CalcAlignBegin(n, k)
                    /\ \A b \in Nat : b % k = 0 /\ b < CalcAlignBegin(n, k)
                                        => b + k <= CalcAlignBegin(n, k)
  BY ConstantsAssumption
<1> DEFINE q == n \div k
<1>1. q \in Nat /\ q * k \in Nat /\ q * k <= n /\ n < q * k + k
  OBVIOUS
<1>2. (q * k) % k = 0
  BY <1>1
<1>3. ASSUME NEW b \in Nat, b % k = 0
      PROVE  \E p \in Nat : b = p * k
  <2>1. b \div k \in Nat /\ b = (b \div k) * k + (b % k)
    BY DivMod
  <2> QED BY <1>3, <2>1
<1>4. ASSUME NEW p \in Nat, NEW u \in Nat, p < u PROVE p * k + k <= u * k
  <2>1. PICK d \in Nat : u = (p + 1) + d
    <3>1. u - (p + 1) \in Nat /\ u = (p + 1) + (u - (p + 1))
      BY <1>4
    <3> QED BY <3>1
  <2>2. u * k = (p * k + k) + d * k
    BY <2>1
  <2>3. p * k \in Nat /\ d * k \in Nat
    OBVIOUS
  <2> QED BY <2>2, <2>3
<1>5. \A p, u \in Nat : p * k < u * k => p < u
  OBVIOUS
<1> HIDE DEF q
<1>6. ASSUME NEW b \in Nat, b % k = 0
      PROVE  /\ b <= n => b <= q * k
             /\ b < q * k => b + k <= q * k
  <2>1. PICK p \in Nat : b = p * k
    BY <1>3, <1>6
  <2>2. p * k \in Nat /\ (p < q => p * k + k <= q * k) /\ (q < p => q * k + k <= p * k)
    BY <1>1, <1>4, <2>1
  <2>3. b <= n => b <= q * k
    BY <1>1, <2>1, <2>2
  <2>4. b < q * k => b + k <= q * k
    BY <1>1, <1>5, <2>1, <2>2
  <2> QED BY <2>3, <2>4
<1>7. CalcAlignBegin(n, k) = q * k
  BY DEF CalcAlignBegin, q
<1> QED BY <1>1, <1>2, <1>6, <1>7

\* The next CAB begins at a multiple of RecdCap too.
LEMMA NextAligned ==
  ASSUME NEW b \in Nat, b % RecdCap = 0
  PROVE  (b + RecdCap) % RecdCap = 0
<1> SUFFICES ASSUME NEW k \in Nat \ {0}, b % k = 0 PROVE (b + k) % k = 0
  BY ConstantsAssumption
<1> DEFINE p == b \div k
<1>1. p \in Nat /\ b = p * k + (b % k)
  BY DivMod
<1> HIDE DEF p
<1>2. b + k = (p + 1) * k
  BY <1>1
<1>3. \A m \in Nat : (m * k) % k = 0
  OBVIOUS
<1> QED BY <1>1, <1>2, <1>3

\* The fields of a column.
LEMMA ColumnFields ==
  ASSUME NEW col \in Column
  PROVE  /\ col.valid \in Nat /\ col.bgn \in Nat /\ col.recds \in Seq(Garbage..MaxRecds)
         /\ col.uncounted \in SUBSET Nat
         /\ Len(col.recds) \in Nat /\ End(col) \in Nat
<1>1. /\ col.valid \in Nat /\ col.bgn \in Nat /\ col.recds \in Seq(Garbage..MaxRecds)
      /\ col.uncounted \in SUBSET Nat
  BY DEF Column
<1>2. Len(col.recds) \in Nat
  BY <1>1, LenProperties
<1> QED BY <1>1, <1>2 DEF End

\* A column whose items are all its own, as those of a writer are.
Written == [valid : Nat, bgn : Nat, recds : Seq(0..MaxRecds), uncounted : SUBSET Nat]

\* Its fields.
LEMMA WrittenFields ==
  ASSUME NEW col \in Written
  PROVE  /\ col \in Column
         /\ col.valid \in Nat /\ col.bgn \in Nat /\ col.recds \in Seq(0..MaxRecds)
         /\ col.uncounted \in SUBSET Nat
         /\ Len(col.recds) \in Nat /\ End(col) \in Nat
<1>1. /\ col.valid \in Nat /\ col.bgn \in Nat /\ col.recds \in Seq(0..MaxRecds)
      /\ col.uncounted \in SUBSET Nat
  BY DEF Written
<1>2. Len(col.recds) \in Nat
  BY <1>1, LenProperties
<1>3. ASSUME NEW s \in Seq(0..MaxRecds) PROVE s \in Seq(Garbage..MaxRecds)
  <2>1. 0..MaxRecds \subseteq Garbage..MaxRecds
    BY ConstantsAssumption DEF Garbage
  <2> QED BY <2>1, SeqMonotonic
<1>4. col \in Column
  <2>1. col.recds \in Seq(Garbage..MaxRecds)
    BY <1>1, <1>3
  <2> QED BY <2>1 DEF Written, Column
<1> QED BY <1>1, <1>2, <1>4 DEF End

\* What column c should hold of the record with id r when the records are inp.
Item(inp, c, r) == IF c \in inp[r + 1] THEN r + 1 ELSE 0

\* The items of col and those in buf are those of c in the first n records; the
\* valid record is one of them, and the first of c.
Kept(inp, col, buf, c, n) ==
  /\ col.bgn <= col.valid /\ col.valid < n
  /\ End(col) + Len(buf) = n
  /\ \A r \in col.bgn..(n - 1) : (col.recds \o buf)[r - col.bgn + 1] = Item(inp, c, r)
  /\ \A r \in 0..(n - 1) : Item(inp, c, r) # 0 => r >= col.valid

\* Records that come or go behind the n-th do not matter.
LEMMA KeptFirst ==
  ASSUME NEW inp, NEW jnp, NEW n \in Nat, \A i \in 1..n : jnp[i] = inp[i],
         NEW col \in Written, NEW buf, NEW c, Kept(inp, col, buf, c, n)
  PROVE  Kept(jnp, col, buf, c, n)
<1>1. \A r \in 0..(n - 1) : Item(jnp, c, r) = Item(inp, c, r)
  BY DEF Item
<1>2. col.bgn \in Nat
  BY WrittenFields
<1>3. ASSUME NEW r \in col.bgn..(n - 1)
      PROVE  (col.recds \o buf)[r - col.bgn + 1] = Item(jnp, c, r)
  <2>1. r \in 0..(n - 1)
    BY <1>2
  <2>2. (col.recds \o buf)[r - col.bgn + 1] = Item(inp, c, r)
    BY DEF Kept
  <2> QED BY <1>1, <2>1, <2>2
<1>4. \A r \in 0..(n - 1) : Item(jnp, c, r) # 0 => r >= col.valid
  BY <1>1 DEF Kept
<1>5. col.bgn <= col.valid /\ col.valid < n /\ End(col) + Len(buf) = n
  BY DEF Kept
<1> QED BY <1>3, <1>4, <1>5 DEF Kept

\* An item behind two sequences is one behind the second.
LEMMA ConcatAppend ==
  ASSUME NEW S, NEW s \in Seq(S), NEW t \in Seq(S), NEW x \in S
  PROVE  s \o Append(t, x) = Append(s \o t, x)
<1>1. s \o t \in Seq(S) /\ <<x>> \in Seq(S)
  BY ConcatProperties
<1>2. Append(t, x) = t \o <<x>> /\ Append(s \o t, x) = (s \o t) \o <<x>>
  BY <1>1, AppendIsConcat
<1> QED BY <1>1, <1>2, ConcatAssociative

\* The items of a column as one sequence: r is at position r - bgn + 1.
LEMMA KeptItems ==
  ASSUME NEW inp, NEW n \in Nat, NEW col \in Written, NEW buf \in Seq(0..MaxRecds), NEW c,
         Kept(inp, col, buf, c, n)
  PROVE  /\ col.recds \o buf \in Seq(0..MaxRecds)
         /\ col.bgn + Len(col.recds \o buf) = n
         /\ col.bgn \in Nat /\ col.valid \in Nat /\ col.bgn <= col.valid /\ col.valid < n
<1>1. /\ col.valid \in Nat /\ col.bgn \in Nat /\ col.recds \in Seq(0..MaxRecds)
      /\ Len(col.recds) \in Nat /\ Len(buf) \in Nat
  BY WrittenFields, LenProperties
<1>2. /\ col.recds \o buf \in Seq(0..MaxRecds)
      /\ Len(col.recds \o buf) = Len(col.recds) + Len(buf)
  BY <1>1, ConcatProperties
<1>3. (col.bgn + Len(col.recds)) + Len(buf) = n /\ col.bgn <= col.valid /\ col.valid < n
  BY DEF Kept, End
<1>4. col.bgn + (Len(col.recds) + Len(buf)) = n
  <2> SUFFICES ASSUME NEW l \in Nat, l = Len(col.recds), NEW m \in Nat, m = Len(buf),
                      NEW b \in Nat, b = col.bgn
               PROVE  b + (l + m) = n
    BY <1>1
  <2> QED BY <1>3
<1> QED BY <1>1, <1>2, <1>3, <1>4

\* Another record, and its item goes to the buffer.
LEMMA KeptAppend ==
  ASSUME NEW inp, NEW n \in Nat, NEW col \in Written, NEW buf \in Seq(0..MaxRecds), NEW c,
         Kept(inp, col, buf, c, n),
         NEW x \in 0..MaxRecds, x = Item(inp, c, n)
  PROVE  Kept(inp, col, Append(buf, x), c, n + 1)
<1> DEFINE s == col.recds \o buf
<1>1. /\ s \in Seq(0..MaxRecds) /\ col.bgn + Len(s) = n
      /\ col.bgn \in Nat /\ col.valid \in Nat /\ col.bgn <= col.valid /\ col.valid < n
  BY KeptItems
<1>2. col.recds \o Append(buf, x) = Append(s, x)
  <2>1. col.recds \in Seq(0..MaxRecds)
    BY WrittenFields
  <2>2. ASSUME NEW u \in Seq(0..MaxRecds) PROVE u \o Append(buf, x) = Append(u \o buf, x)
    BY ConcatAppend
  <2> QED BY <2>1, <2>2
<1>3. /\ Append(s, x) \in Seq(0..MaxRecds) /\ Len(Append(s, x)) = Len(s) + 1
      /\ \A i \in 1..Len(s) : Append(s, x)[i] = s[i]
      /\ Append(s, x)[Len(s) + 1] = x
  <2> HIDE DEF s
  <2> QED BY <1>1, AppendProperties
<1>4. \A r \in col.bgn..(n - 1) : s[r - col.bgn + 1] = Item(inp, c, r)
  BY DEF Kept
<1>5. \A r \in 0..(n - 1) : Item(inp, c, r) # 0 => r >= col.valid
  BY DEF Kept
<1>6. End(col) + Len(buf) = n /\ End(col) \in Nat /\ Len(buf) \in Nat /\ Len(Append(buf, x)) = Len(buf) + 1
  BY WrittenFields, LenProperties, AppendProperties DEF Kept
<1> SUFFICES ASSUME NEW a, a = Append(s, x), NEW l \in Nat, l = Len(s),
                    NEW b \in Nat, b = col.bgn, NEW v \in Nat, v = col.valid
             PROVE  Kept(inp, col, Append(buf, x), c, n + 1)
  <2>1. Len(s) \in Nat
    BY <1>1, LenProperties
  <2> QED BY <1>1, <2>1
<1> HIDE DEF s
<1>10. b + l = n /\ v < n /\ b <= v
  BY <1>1
<1>7. ASSUME NEW r \in b..n PROVE a[r - b + 1] = Item(inp, c, r)
  <2>1. CASE r < n
    <3>1. r - b + 1 \in 1..l /\ r \in b..(n - 1)
      BY <1>10, <2>1, SMTT(30)
    <3> QED BY <1>3, <1>4, <3>1
  <2>2. a[n - b + 1] = Item(inp, c, n)
    <3>1. n - b + 1 = l + 1
      <4>1. b + l = n
        BY <1>10
      <4>2. n - b = l
        BY <4>1
      <4> QED BY <4>2
    <3> QED BY <1>3, <3>1
  <2>3. r < n \/ r = n
    BY <1>10
  <2> QED BY <2>1, <2>2, <2>3
<1>8. ASSUME NEW r \in 0..n, Item(inp, c, r) # 0 PROVE r >= v
  <2>1. CASE r < n
    BY <1>5, <1>8, <2>1
  <2>2. CASE r = n
    BY <1>10, <2>2
  <2> QED BY <2>1, <2>2
<1>9. v < n + 1 /\ End(col) + Len(Append(buf, x)) = n + 1 /\ (n + 1) - 1 = n
  <2>1. End(col) + (Len(buf) + 1) = n + 1
    <3> SUFFICES ASSUME NEW e \in Nat, e = End(col), NEW m \in Nat, m = Len(buf)
                 PROVE  e + (m + 1) = n + 1
      BY <1>6
    <3> QED BY <1>6, SMTT(30)
  <2> QED BY <1>6, <1>10, <2>1
<1> QED BY <1>1, <1>2, <1>7, <1>8, <1>9 DEF Kept

\* The buffer goes to the writer.
LEMMA KeptFlush ==
  ASSUME NEW inp, NEW n \in Nat, NEW col \in Written, NEW buf \in Seq(0..MaxRecds), NEW c,
         Kept(inp, col, buf, c, n)
  PROVE  /\ [col EXCEPT !.recds = @ \o buf] \in Written
         /\ Kept(inp, [col EXCEPT !.recds = @ \o buf], <<>>, c, n)
<1>1. /\ col.valid \in Nat /\ col.bgn \in Nat /\ col.recds \in Seq(0..MaxRecds)
      /\ Len(col.recds) \in Nat /\ Len(buf) \in Nat
  BY WrittenFields, LenProperties
<1> DEFINE s   == col.recds \o buf
           new == [col EXCEPT !.recds = s]
<1>2. s \in Seq(0..MaxRecds) /\ Len(s) = Len(col.recds) + Len(buf) /\ s \o <<>> = s
  BY <1>1, ConcatProperties, ConcatEmptySeq
<1>3. /\ new \in Written
      /\ new.recds = s /\ new.bgn = col.bgn /\ new.valid = col.valid
  <2> HIDE DEF s
  <2> QED BY <1>1, <1>2 DEF Written
<1>4. Len(<<>>) = 0 /\ End(col) + Len(buf) = n
  BY EmptySeq DEF Kept
<1>5. End(new) + 0 = n
  <2>1. End(new) = col.bgn + Len(s)
    <3> HIDE DEF s, new
    <3> QED BY <1>3 DEF End
  <2>2. col.bgn + Len(s) = n
    BY KeptItems
  <2> QED BY <2>1, <2>2
<1>6. \A r \in col.bgn..(n - 1) : (new.recds \o <<>>)[r - col.bgn + 1] = Item(inp, c, r)
  <2>1. new.recds \o <<>> = s
    BY <1>2, <1>3
  <2> HIDE DEF new
  <2> QED BY <2>1 DEF Kept
<1>7. new \in Written /\ Kept(inp, new, <<>>, c, n)
  <2> HIDE DEF new, s
  <2> QED BY <1>3, <1>4, <1>5, <1>6 DEF Kept
<1> QED BY <1>7

\* A column begun with the n-th record: nulls from its CAB's begin.
LEMMA NewColumnType ==
  ASSUME NEW n \in Nat, root_cnt' = n + 1
  PROVE  /\ NewColumn \in Written /\ NewColumn.valid = n
         /\ NewColumn.uncounted = {} /\ NewColumn.bgn % RecdCap = 0
         /\ NewColumn.bgn \in Nat /\ NewColumn.bgn <= n
         /\ Len(NewColumn.recds) = n - NewColumn.bgn
         /\ \A i \in 1..Len(NewColumn.recds) : NewColumn.recds[i] = 0
<1> DEFINE b == CalcAlignBegin(n, RecdCap)
           z == [i \in 1..(n - b) |-> 0]
<1>1. b \in Nat /\ b <= n /\ b % RecdCap = 0
  BY AlignBegin
<1> HIDE DEF b
<1>2. z \in Seq(0..MaxRecds) /\ Len(z) = n - b
  <2>1. n - b \in Nat
    BY <1>1
  <2>2. 0 \in 0..MaxRecds
    BY ConstantsAssumption
  <2>3. z \in [1..(n - b) -> 0..MaxRecds]
    BY <2>2
  <2>4. z \in Seq(0..MaxRecds)
    BY <2>1, <2>3, SeqDef, ZenonT(30)
  <2>5. DOMAIN z = 1..Len(z) /\ DOMAIN z = 1..(n - b) /\ Len(z) \in Nat
    BY <2>4, LenProperties
  <2> QED BY <2>1, <2>4, <2>5
<1>3. NewColumn = [valid |-> n, bgn |-> b, recds |-> z, uncounted |-> {}]
  <2>1. root_cnt' - 1 = n
    OBVIOUS
  <2> QED BY <2>1 DEF NewColumn, b
<1>4. \A i \in 1..(n - b) : z[i] = 0
  OBVIOUS
<1> HIDE DEF z
<1> QED BY <1>1, <1>2, <1>3, <1>4 DEF Written

\* When the column is in no record before, it has kept all its items.
LEMMA KeptNew ==
  ASSUME NEW inp, NEW n \in 0..(MaxRecds - 1), NEW c, c \in inp[n + 1], \A r \in 1..n : c \notin inp[r],
         root_cnt' = n + 1
  PROVE  Kept(inp, NewColumn, Append(<<>>, n + 1), c, n + 1)
<1>1. MaxRecds \in Nat /\ n \in Nat /\ n + 1 \in 0..MaxRecds
  BY ConstantsAssumption
<1> SUFFICES ASSUME NEW col, col = NewColumn
             PROVE  Kept(inp, col, Append(<<>>, n + 1), c, n + 1)
  OBVIOUS
<1>2. /\ col \in Written /\ col.valid = n /\ col.bgn \in Nat /\ col.bgn <= n
      /\ Len(col.recds) = n - col.bgn
      /\ \A i \in 1..Len(col.recds) : col.recds[i] = 0
  BY <1>1, NewColumnType
<1>3. col.recds \in Seq(0..MaxRecds)
  BY <1>2, WrittenFields
<1>4. col.recds \o Append(<<>>, n + 1) = Append(col.recds, n + 1)
  <2>1. ASSUME NEW s \in Seq(0..MaxRecds), NEW x \in 0..MaxRecds
        PROVE  s \o Append(<<>>, x) = Append(s, x)
    <3>1. <<>> \in Seq(0..MaxRecds) /\ s \o <<>> = s
      BY EmptySeq, ConcatEmptySeq
    <3> QED BY <3>1, ConcatAppend
  <2> QED BY <1>1, <1>3, <2>1
<1>5. /\ Len(Append(<<>>, n + 1)) = 1
      /\ \A i \in 1..Len(col.recds) : Append(col.recds, n + 1)[i] = col.recds[i]
      /\ Append(col.recds, n + 1)[Len(col.recds) + 1] = n + 1
  BY <1>1, <1>3, AppendProperties
<1> SUFFICES ASSUME NEW a, a = Append(col.recds, n + 1), NEW l, l = Len(col.recds),
                    NEW b \in Nat, b = col.bgn
             PROVE  Kept(inp, col, Append(<<>>, n + 1), c, n + 1)
  BY <1>2
<1>6. l = n - b /\ b <= n
  BY <1>2
<1>7. ASSUME NEW r \in b..n PROVE a[r - b + 1] = Item(inp, c, r)
  <2>1. CASE r < n
    <3>1. r - b + 1 \in 1..l /\ r + 1 \in 1..n
      BY <1>1, <1>6, <2>1, SMTT(30)
    <3>2. Item(inp, c, r) = 0
      BY <3>1 DEF Item
    <3> QED BY <1>2, <1>5, <3>1, <3>2, SMTT(30)
  <2>2. a[n - b + 1] = Item(inp, c, n)
    BY <1>5, <1>6 DEF Item
  <2>3. r < n \/ r = n
    BY <1>1
  <2> QED BY <2>1, <2>2, <2>3
<1>8. ASSUME NEW r \in 0..n, Item(inp, c, r) # 0 PROVE r >= n
  <2>1. ASSUME r < n PROVE FALSE
    <3>1. r + 1 \in 1..n
      BY <1>1, <2>1
    <3> QED BY <1>8, <3>1 DEF Item
  <2> QED BY <1>1, <2>1
<1>9. End(col) + 1 = n + 1 /\ (n + 1) - 1 = n
  BY <1>1, <1>2 DEF End
<1>10. col.bgn <= col.valid /\ col.valid < n + 1
  BY <1>1, <1>2
<1>11. \A r \in col.bgn..n : (col.recds \o Append(<<>>, n + 1))[r - col.bgn + 1] = Item(inp, c, r)
  BY <1>4, <1>7
<1>12. \A r \in 0..n : Item(inp, c, r) # 0 => r >= col.valid
  BY <1>2, <1>8
<1>13. End(col) + Len(Append(<<>>, n + 1)) = n + 1
  BY <1>5, <1>9
<1> QED BY <1>9, <1>10, <1>11, <1>12, <1>13 DEF Kept

\* What a column has kept can be read back by record id.
LEMMA KeptHolds ==
  ASSUME NEW inp, NEW n \in Nat, NEW col \in Written, NEW c, Kept(inp, col, <<>>, c, n)
  PROVE  /\ End(col) = n /\ col.bgn \in Nat /\ col.valid \in Nat
         /\ col.bgn <= col.valid /\ col.valid < n
         /\ \A r \in col.bgn..(n - 1) : ItemOf(col, r) = Item(inp, c, r)
         /\ \A r \in 0..(n - 1) : Item(inp, c, r) # 0 => r >= col.valid
<1>1. /\ col.valid \in Nat /\ col.bgn \in Nat /\ col.recds \in Seq(0..MaxRecds) /\ End(col) \in Nat
  BY WrittenFields
<1>2. col.recds \o <<>> = col.recds
  BY <1>1, ConcatEmptySeq
<1>3. End(col) + Len(<<>>) = n /\ Len(<<>>) = 0
  BY EmptySeq DEF Kept
<1>4. End(col) = n
  BY <1>1, <1>3
<1> QED BY <1>1, <1>2, <1>4 DEF Kept, ItemOf

-----------------------------------------------------------------------------
(* Columns in files: their tails, and the records that no CABInfo counts.  *)

\* The same of a column in files, whose tail CAB may be damaged.
KeptButTail(inp, col, c, n) ==
  /\ col.bgn <= col.valid /\ col.valid < n
  /\ End(col) = n
  /\ \A r \in col.bgn..(n - 1) :
       ItemOf(col, r) = Item(inp, c, r) \/ (ItemOf(col, r) = Garbage /\ r \in TailRecds(col))
  /\ \A r \in 0..(n - 1) : Item(inp, c, r) # 0 => r >= col.valid

\* What holds of every column in files, and of every writer, whatever was lost: it
\* begins with a CAB, it is damaged in its tail CAB only, and a record that no CABInfo
\* counts has come with a CAB of nulls and records behind it.
Sound(col) ==
  /\ col.bgn % RecdCap = 0
  /\ \A i \in 1..Len(col.recds) : col.recds[i] = Garbage => col.bgn + i > TailBgn(col)
  /\ col.uncounted # {} => HasNullCAB(col)

\* The position of a record among the items of a column.
LEMMA Positions ==
  ASSUME NEW col \in Column
  PROVE  /\ \A r \in col.bgn..(End(col) - 1) :
              /\ r \in Nat /\ r - col.bgn + 1 \in 1..Len(col.recds)
              /\ col.bgn + (r - col.bgn + 1) = r + 1
         /\ \A i \in 1..Len(col.recds) :
              /\ col.bgn + i - 1 \in col.bgn..(End(col) - 1)
              /\ (col.bgn + i - 1) - col.bgn + 1 = i
<1>1. col.bgn \in Nat /\ Len(col.recds) \in Nat
  BY ColumnFields
<1>2. \A b, l \in Nat : \A r \in b..(b + l - 1) :
        r \in Nat /\ r - b + 1 \in 1..l /\ b + (r - b + 1) = r + 1
  OBVIOUS
<1>3. \A b, l \in Nat : \A i \in 1..l :
        b + i - 1 \in b..(b + l - 1) /\ (b + i - 1) - b + 1 = i
  OBVIOUS
<1>4. End(col) = col.bgn + Len(col.recds)
  BY DEF End
<1> DEFINE b == col.bgn
           l == Len(col.recds)
<1>5. b \in Nat /\ l \in Nat /\ End(col) = b + l
  BY <1>1, <1>4
<1> HIDE DEF b, l
<1>6. /\ \A r \in b..(End(col) - 1) : r \in Nat /\ r - b + 1 \in 1..l /\ b + (r - b + 1) = r + 1
      /\ \A i \in 1..l : b + i - 1 \in b..(End(col) - 1) /\ (b + i - 1) - b + 1 = i
  BY <1>2, <1>3, <1>5
<1> QED BY <1>6 DEF b, l

\* What a writer has kept, its files keep.
LEMMA KeptInFiles ==
  ASSUME NEW inp, NEW n \in Nat, NEW col \in Written, NEW c, Kept(inp, col, <<>>, c, n)
  PROVE  KeptButTail(inp, col, c, n)
BY KeptHolds DEF KeptButTail

\* A column whose tail is not damaged has all its items.
LEMMA Undamaged ==
  ASSUME NEW col \in Column, Sound(col), ~TailIsDamaged(col)
  PROVE  col \in Written
<1>1. /\ col.recds \in Seq(Garbage..MaxRecds) /\ Len(col.recds) \in Nat /\ col.bgn \in Nat
      /\ End(col) \in Nat
  BY ColumnFields
<1>2. ASSUME NEW i \in 1..Len(col.recds) PROVE col.recds[i] # Garbage
  <2> DEFINE r == col.bgn + i - 1
  <2>1. r \in col.bgn..(End(col) - 1) /\ r - col.bgn + 1 = i
    BY Positions
  <2>2. ASSUME col.recds[i] = Garbage PROVE FALSE
    <3>1. col.bgn + i > TailBgn(col)
      BY <2>2 DEF Sound
    <3>2. TailBgn(col) \in Nat
      BY <1>1, AlignBegin DEF TailBgn
    <3>3. r \in TailRecds(col)
      BY <1>1, <2>1, <3>1, <3>2 DEF TailRecds
    <3>4. ItemOf(col, r) = Garbage
      BY <2>1, <2>2 DEF ItemOf
    <3> QED BY <3>3, <3>4 DEF TailIsDamaged
  <2> QED BY <2>2
<1>3. col.recds \in Seq(0..MaxRecds)
  <2>1. ASSUME NEW x \in Garbage..MaxRecds, x # Garbage PROVE x \in 0..MaxRecds
    BY <2>1, ConstantsAssumption DEF Garbage
  <2>2. \A i \in 1..Len(col.recds) : col.recds[i] \in Garbage..MaxRecds
    BY <1>1, ElementOfSeq
  <2>3. \A i \in 1..Len(col.recds) : col.recds[i] \in 0..MaxRecds
    BY <1>2, <2>1, <2>2
  <2>4. ASSUME NEW n \in Nat, NEW s \in [1..n -> Garbage..MaxRecds],
               \A i \in 1..n : s[i] \in 0..MaxRecds
        PROVE  s \in Seq(0..MaxRecds)
    <3>1. s \in [1..n -> 0..MaxRecds]
      BY <2>4
    <3> QED BY <3>1, SeqDef
  <2>5. col.recds \in [1..Len(col.recds) -> Garbage..MaxRecds]
    BY <1>1, LenProperties
  <2> QED BY <1>1, <2>3, <2>4, <2>5
<1> QED BY <1>3 DEF Column, Written

\* So what its files keep, a writer opened for it has kept.
LEMMA KeptAgain ==
  ASSUME NEW inp, NEW n \in Nat, NEW col \in Written, NEW c, KeptButTail(inp, col, c, n)
  PROVE  Kept(inp, col, <<>>, c, n)
<1>1. /\ col \in Column /\ col.recds \in Seq(0..MaxRecds) /\ col.bgn \in Nat
      /\ End(col) \in Nat /\ End(col) = n
  BY WrittenFields DEF KeptButTail
<1>2. col.recds \o <<>> = col.recds /\ Len(<<>>) = 0
  BY <1>1, ConcatEmptySeq, EmptySeq
<1>3. ASSUME NEW r \in col.bgn..(n - 1) PROVE col.recds[r - col.bgn + 1] = Item(inp, c, r)
  <2>1. r - col.bgn + 1 \in 1..Len(col.recds)
    BY <1>1, Positions
  <2>2. col.recds[r - col.bgn + 1] \in 0..MaxRecds
    BY <1>1, <2>1, ElementOfSeq
  <2>3. col.recds[r - col.bgn + 1] # Garbage
    BY <2>2 DEF Garbage
  <2> QED BY <2>3 DEF KeptButTail, ItemOf
<1>4. End(col) + Len(<<>>) = n
  BY <1>1, <1>2
<1> QED BY <1>2, <1>3, <1>4 DEF KeptButTail, Kept

\* Records that come or go behind the n-th do not matter.
LEMMA KeptButTailFirst ==
  ASSUME NEW inp, NEW jnp, NEW n \in Nat, \A i \in 1..n : jnp[i] = inp[i],
         NEW col \in Column, NEW c, KeptButTail(inp, col, c, n)
  PROVE  KeptButTail(jnp, col, c, n)
<1>1. \A r \in 0..(n - 1) : Item(jnp, c, r) = Item(inp, c, r)
  BY DEF Item
<1>2. col.bgn \in Nat
  BY ColumnFields
<1>3. \A r \in col.bgn..(n - 1) : r \in 0..(n - 1)
  BY <1>2
<1> QED BY <1>1, <1>3 DEF KeptButTail

\* A CAB of nulls with records behind it is not in the tail, and stays one.
LEMMA NullCABKept ==
  ASSUME NEW col \in Column, Sound(col), HasNullCAB(col),
         NEW new \in Column, new.bgn = col.bgn, End(col) <= End(new),
         \A i \in 1..Len(col.recds) : col.bgn + i <= TailBgn(col) => new.recds[i] = col.recds[i]
  PROVE  HasNullCAB(new)
<1>1. PICK b \in col.bgn..(End(col) - RecdCap - 1) : b % RecdCap = 0 /\ AllNull(col, b)
  BY DEF HasNullCAB
<1>2. /\ End(col) \in Nat /\ End(new) \in Nat /\ col.bgn \in Nat /\ RecdCap \in Nat \ {0}
      /\ TailBgn(col) \in Nat
  BY ColumnFields, ConstantsAssumption, AlignBegin DEF TailBgn
<1>3. b \in Nat /\ b + RecdCap < End(col) /\ b + RecdCap < End(new) /\ b >= col.bgn
  BY <1>1, <1>2
<1>4. b + RecdCap <= TailBgn(col)
  <2>1. (b + RecdCap) % RecdCap = 0 /\ b + RecdCap \in Nat /\ b + RecdCap <= End(col)
    BY <1>1, <1>2, <1>3, NextAligned
  <2> QED BY <1>2, <2>1, AlignBegin DEF TailBgn
<1>5. ASSUME NEW r \in b..(b + RecdCap - 1) PROVE ItemOf(new, r) = 0
  <2>1. r < End(col) /\ r \in col.bgn..(End(col) - 1)
    BY <1>2, <1>3
  <2>2. ItemOf(col, r) = 0
    BY <1>1, <2>1 DEF AllNull
  <2>3. r - col.bgn + 1 \in 1..Len(col.recds) /\ col.bgn + (r - col.bgn + 1) = r + 1
    BY <2>1, Positions
  <2>4. r + 1 <= TailBgn(col)
    BY <1>2, <1>3, <1>4
  <2> QED BY <2>2, <2>3, <2>4 DEF ItemOf
<1>6. b \in new.bgn..(End(new) - RecdCap - 1)
  BY <1>2, <1>3
<1> QED BY <1>1, <1>5, <1>6 DEF HasNullCAB, AllNull

\* Items appended to a writer leave it sound.
LEMMA SoundFlush ==
  ASSUME NEW col \in Written, Sound(col), NEW new \in Written,
         new.bgn = col.bgn, new.uncounted = col.uncounted, End(col) <= End(new),
         \A i \in 1..Len(col.recds) : new.recds[i] = col.recds[i]
  PROVE  Sound(new)
<1>1. \A i \in 1..Len(new.recds) : new.recds[i] # Garbage
  <2>1. new.recds \in Seq(0..MaxRecds)
    BY WrittenFields
  <2>2. \A i \in 1..Len(new.recds) : new.recds[i] \in 0..MaxRecds
    BY <2>1, ElementOfSeq
  <2> QED BY <2>2 DEF Garbage
<1>2. col \in Column /\ new \in Column
  BY WrittenFields
<1>3. HasNullCAB(col) => HasNullCAB(new)
  BY <1>2, NullCABKept
<1> QED BY <1>1, <1>3 DEF Sound

\* The column when another block was stored over its tail.
LEMMA DamagedFields ==
  ASSUME NEW col \in Column
  PROVE  /\ Damaged(col) \in Column
         /\ Damaged(col).bgn = col.bgn /\ Damaged(col).valid = col.valid
         /\ Damaged(col).uncounted = col.uncounted
         /\ Len(Damaged(col).recds) = Len(col.recds)
         /\ End(Damaged(col)) = End(col)
         /\ TailBgn(Damaged(col)) = TailBgn(col)
         /\ TailRecds(Damaged(col)) = TailRecds(col)
         /\ \A i \in 1..Len(col.recds) :
              Damaged(col).recds[i] = IF col.bgn + i > TailBgn(col) THEN Garbage ELSE col.recds[i]
<1>1. /\ col.recds \in Seq(Garbage..MaxRecds) /\ Len(col.recds) \in Nat
      /\ \A i \in 1..Len(col.recds) : col.recds[i] \in Garbage..MaxRecds
  BY ColumnFields, ElementOfSeq
<1> DEFINE item(i) == IF col.bgn + i > TailBgn(col) THEN Garbage ELSE col.recds[i]
           s == [i \in 1..Len(col.recds) |-> item(i)]
<1>2. Damaged(col) = [col EXCEPT !.recds = s]
  BY DEF Damaged
<1>3. \A i \in 1..Len(col.recds) : item(i) \in Garbage..MaxRecds
  BY <1>1, ConstantsAssumption DEF Garbage
<1> HIDE DEF item
<1>4. s \in Seq(Garbage..MaxRecds) /\ Len(s) = Len(col.recds)
  <2> SUFFICES ASSUME NEW l \in Nat, l = Len(col.recds),
                      NEW t, t = [i \in 1..l |-> item(i)]
               PROVE  t \in Seq(Garbage..MaxRecds) /\ Len(t) = l
    BY <1>1
  <2>1. t \in [1..l -> Garbage..MaxRecds]
    BY <1>3
  <2>2. t \in Seq(Garbage..MaxRecds)
    BY <2>1, SeqDef
  <2>3. DOMAIN t = 1..Len(t) /\ DOMAIN t = 1..l /\ Len(t) \in Nat
    BY <2>1, <2>2, LenProperties
  <2> QED BY <2>2, <2>3
<1>5. \A i \in 1..Len(col.recds) : s[i] = item(i)
  OBVIOUS
<1> HIDE DEF s
<1>6. /\ Damaged(col) \in Column /\ Damaged(col).recds = s
      /\ Damaged(col).bgn = col.bgn /\ Damaged(col).valid = col.valid
      /\ Damaged(col).uncounted = col.uncounted
  BY <1>2, <1>4 DEF Column
<1>7. End(Damaged(col)) = End(col)
  BY <1>4, <1>6 DEF End
<1> QED BY <1>4, <1>5, <1>6, <1>7 DEF item, TailBgn, TailRecds

\* It has lost its tail, and no more.
LEMMA DamagedKept ==
  ASSUME NEW inp, NEW n \in Nat, NEW col \in Column, NEW c, KeptButTail(inp, col, c, n)
  PROVE  KeptButTail(inp, Damaged(col), c, n)
<1> SUFFICES ASSUME NEW new, new = Damaged(col) PROVE KeptButTail(inp, new, c, n)
  OBVIOUS
<1>1. /\ new.bgn = col.bgn /\ new.valid = col.valid /\ End(new) = End(col)
      /\ TailRecds(new) = TailRecds(col)
      /\ \A i \in 1..Len(col.recds) :
           new.recds[i] = IF col.bgn + i > TailBgn(col) THEN Garbage ELSE col.recds[i]
  BY DamagedFields
<1>2. /\ col.bgn \in Nat /\ End(col) \in Nat /\ TailBgn(col) \in Nat /\ End(col) = n
  BY ColumnFields, AlignBegin DEF TailBgn, KeptButTail
<1>3. ASSUME NEW r \in col.bgn..(n - 1)
      PROVE  ItemOf(new, r) = ItemOf(col, r) \/ (ItemOf(new, r) = Garbage /\ r \in TailRecds(col))
  <2>1. r - col.bgn + 1 \in 1..Len(col.recds) /\ col.bgn + (r - col.bgn + 1) = r + 1
    BY <1>2, Positions
  <2>2. CASE r + 1 > TailBgn(col)
    <3>1. ItemOf(new, r) = Garbage
      BY <1>1, <2>1, <2>2 DEF ItemOf
    <3>2. r \in TailRecds(col)
      BY <1>2, <2>2 DEF TailRecds
    <3> QED BY <3>1, <3>2
  <2>3. CASE ~(r + 1 > TailBgn(col))
    BY <1>1, <2>1, <2>3 DEF ItemOf
  <2> QED BY <2>2, <2>3
<1>4. ASSUME NEW r \in col.bgn..(n - 1)
      PROVE  ItemOf(new, r) = Item(inp, c, r) \/ (ItemOf(new, r) = Garbage /\ r \in TailRecds(new))
  BY <1>1, <1>3 DEF KeptButTail
<1> QED BY <1>1, <1>4 DEF KeptButTail

\* A column stays sound when a block is stored over its tail CAB.
LEMMA DamagedSound ==
  ASSUME NEW col \in Column, Sound(col)
  PROVE  Sound(Damaged(col))
<1> SUFFICES ASSUME NEW new \in Column, new = Damaged(col) PROVE Sound(new)
  BY DamagedFields
<1>1. /\ new.bgn = col.bgn /\ new.uncounted = col.uncounted /\ Len(new.recds) = Len(col.recds)
      /\ End(new) = End(col) /\ TailBgn(new) = TailBgn(col)
      /\ \A i \in 1..Len(col.recds) :
           new.recds[i] = IF col.bgn + i > TailBgn(col) THEN Garbage ELSE col.recds[i]
  BY DamagedFields
<1>2. /\ col.bgn \in Nat /\ End(col) \in Nat /\ TailBgn(col) \in Nat
  BY ColumnFields, AlignBegin DEF TailBgn
<1>3. HasNullCAB(col) => HasNullCAB(new)
  <2>1. ASSUME NEW i \in 1..Len(col.recds), col.bgn + i <= TailBgn(col)
        PROVE  new.recds[i] = col.recds[i]
    BY <1>1, <1>2, <2>1
  <2>2. End(col) <= End(new)
    BY <1>1, <1>2
  <2> QED BY <1>1, <2>1, <2>2, NullCABKept
<1> QED BY <1>1, <1>3 DEF Sound

\* A writer that is closed: records that no CABInfo counts are in a CAB of nulls.
LEMMA ClosedSound ==
  ASSUME NEW col \in Written, Sound(col), NEW old,
         old = Partial \/ (old \in Column /\ old.bgn = col.bgn)
  PROVE  /\ [col EXCEPT !.uncounted = Uncounted(old, col)] \in Written
         /\ Sound([col EXCEPT !.uncounted = Uncounted(old, col)])
<1> DEFINE u   == Uncounted(old, col)
           new == [col EXCEPT !.uncounted = u]
           from == Counted(old, col)
           last == CalcAlignBegin(End(col) - 1, RecdCap)
<1>1. /\ col \in Column /\ col.bgn \in Nat /\ End(col) \in Nat /\ col.uncounted \in SUBSET Nat
      /\ RecdCap \in Nat \ {0}
  BY WrittenFields, ConstantsAssumption
<1>2. from \in Nat /\ from >= col.bgn
  <2>1. CASE old = Partial
    BY <1>1, <2>1 DEF Counted
  <2>2. CASE old \in Column /\ old.bgn = col.bgn
    <3>1. old # Partial /\ End(old) \in Nat /\ End(old) = old.bgn + Len(old.recds)
          /\ Len(old.recds) \in Nat
      BY <2>2, NamesAssumption, ColumnFields DEF End
    <3>2. Counted(old, col) = old.bgn + Len(old.recds)
      BY <3>1 DEF Counted
    <3> QED BY <1>1, <2>2, <3>1, <3>2
  <2> QED BY <2>1, <2>2
<1>3. u = col.uncounted \cup {r \in from..(last - 1) : AllNull(col, CalcAlignBegin(r, RecdCap))}
  BY DEF Uncounted
<1> HIDE DEF u, from, last
<1>4. u \in SUBSET Nat
  BY <1>1, <1>2, <1>3
<1>5. /\ new \in Written /\ new.recds = col.recds /\ new.bgn = col.bgn /\ new.uncounted = u
      /\ End(new) = End(col)
  BY <1>4 DEF Written, End
<1> HIDE DEF new
<1>6. ASSUME u # {} PROVE HasNullCAB(col)
  <2>1. CASE col.uncounted # {}
    BY <2>1 DEF Sound
  <2>2. CASE col.uncounted = {}
    <3>1. PICK r \in from..(last - 1) : AllNull(col, CalcAlignBegin(r, RecdCap))
      BY <1>3, <1>6, <2>2
    <3>2. End(col) # 0
      <4>1. ASSUME End(col) = 0 PROVE FALSE
        <5>1. last = CalcAlignBegin(-1, RecdCap)
          BY <4>1 DEF last
        <5>2. (-1) \div RecdCap < 0
          BY <1>1
        <5>3. ((-1) \div RecdCap) * RecdCap <= 0
          BY <1>1, <5>2
        <5> QED BY <1>2, <3>1, <5>1, <5>3 DEF CalcAlignBegin
      <4> QED BY <4>1
    <3> DEFINE m == End(col) - 1
               b == CalcAlignBegin(r, RecdCap)
    <3>3. m \in Nat /\ r \in Nat
      BY <1>1, <1>2, <3>1, <3>2
    <3>4. /\ last \in Nat /\ last <= m
          /\ \A k \in Nat : k % RecdCap = 0 /\ k < last => k + RecdCap <= last
      BY <3>3, AlignBegin DEF last
    <3>5. b \in Nat /\ b <= r /\ b % RecdCap = 0
          /\ \A k \in Nat : k % RecdCap = 0 /\ k <= r => k <= b
      BY <3>3, AlignBegin
    <3> HIDE DEF b, m
    <3>6. b >= col.bgn
      BY <1>1, <1>2, <3>1, <3>5 DEF Sound
    <3>7. b < last
      BY <3>1, <3>3, <3>4, <3>5
    <3>8. b + RecdCap <= m
      <4>1. b + RecdCap <= last
        BY <3>4, <3>5, <3>7
      <4> QED BY <1>1, <3>3, <3>4, <3>5, <4>1
    <3>9. b \in col.bgn..(End(col) - RecdCap - 1)
      BY <1>1, <3>5, <3>6, <3>8 DEF m
    <3> QED BY <3>1, <3>5, <3>9 DEF HasNullCAB, b
  <2> QED BY <2>1, <2>2
<1>7. HasNullCAB(col) => HasNullCAB(new)
  <2>1. new \in Column
    BY <1>5, WrittenFields
  <2> QED BY <1>1, <1>5, <2>1, NullCABKept
<1>8. Sound(new)
  BY <1>5, <1>6, <1>7 DEF Sound, TailBgn
<1> QED BY <1>5, <1>8 DEF new, u

-----------------------------------------------------------------------------
(* The inductive invariant.                                                *)

Rows    == UNION {[cs -> 0..MaxRecds] : cs \in SUBSET Columns}
Scanner == [path : SUBSET Columns, cur : SUBSET Columns, reinit : SUBSET Nat, recd_idx : Nat,
            rows : Seq(Rows), cap : Nat, used : Nat, num : Nat, dbl : BOOLEAN,
            filling : BOOLEAN, out : Seq(Rows)]

\* No session has the collection open, and none is being closed.
AtRest == phase \in {"idle", "scanning", "hanging", "died"}

\* What a session has in its writers and in its buffers.
SessionInv ==
  /\ closed_num <= Len(input) /\ Len(input) <= MaxRecds
  /\ phase \in {"open", "closing"} =>
       /\ tree # NoTree /\ root_cnt = Len(input) - closed_num
       /\ Leaves(schema_file) \subseteq Leaves(tree)
  /\ phase \notin {"open", "closing"} => Len(input) = closed_num
  /\ AtRest => tree \in {NoTree, schema_file}
  /\ phase = "open" => /\ \A c \in Leaves(tree) : col_wts[c] # NoColumn
                       /\ \A c \in Columns \ Leaves(tree) : txt_buf[c] = <<>>
  /\ phase = "closing" => /\ tree = schema_file /\ batch = 0
                          /\ \A c \in Leaves(tree) : col_wts[c] # NoColumn \/ HasFooter(c)
  /\ batch = 0 => \A c \in Columns : txt_buf[c] = <<>>

\* The files have kept the records of the sessions closed, but for damaged tails.
FilesKeep ==
  /\ founders \subseteq Leaves(schema_file)
  /\ \A c \in founders : KeptButTail(input, files[c], c, closed_num)

\* The writers and the buffers have kept all records, and the first session made
\* every column that there is.
WritersKeep ==
  /\ founders \subseteq Leaves(tree)
  /\ closed_num = 0 => /\ Leaves(tree) \subseteq founders
                       /\ \A r \in 1..Len(input) : input[r] \subseteq Leaves(tree)
  /\ phase = "open" =>
       \A c \in founders : /\ Kept(input, col_wts[c], txt_buf[c], c, Len(input))
                           /\ closed_num = 0 => files[c] = Partial
  /\ phase = "closing" =>
       \A c \in founders :
         IF col_wts[c] # NoColumn THEN Kept(input, col_wts[c], <<>>, c, Len(input))
                                  ELSE KeptButTail(input, files[c], c, Len(input))

\* While no session has been lost in a close, what the founders hold.
FoundersInv ==
  /\ Len(input) = 0 => founders = {}
  /\ ~torn =>
     /\ AtRest \/ phase = "open" =>
          /\ \A c \in Leaves(schema_file) : HasFooter(c)
          /\ closed_num = 0 => Leaves(schema_file) = {}
     /\ AtRest \/ (phase = "open" /\ closed_num > 0) => FilesKeep
     /\ phase \in {"open", "closing"} => WritersKeep

\* What the files and the writers are, whatever was lost.  A column has both only
\* while a session is at it, and then they begin with the same record.
SoundInv ==
  /\ \A c \in Columns : HasFooter(c) => Sound(files[c])
  /\ \A c \in Columns : col_wts[c] # NoColumn =>
       /\ col_wts[c] \in Written /\ Sound(col_wts[c])
       /\ files[c] = Partial \/ (files[c] \in Column /\ files[c].bgn = col_wts[c].bgn)

\* The buffer of a scan.
ScanInv ==
  /\ phase \in {"idle", "open", "closing", "died"} => scan = NoScan
  /\ scan.cur \subseteq scan.path /\ scan.num <= Len(scan.rows) /\ Len(scan.rows) <= RowCap
  /\ scan.used <= scan.cap /\ BufferCap <= scan.cap
  /\ scan.rows = <<>> => scan.used = 0
  /\ scan.filling => scan.num = 0
  /\ phase = "scanning" => /\ scan.path # {} /\ scan.path \subseteq Leaves(tree)
                           /\ \A c \in scan.path : HasFooter(c)

\* The record with id r, as far as it is in the columns of path.
RowOf(path, inp, r) == [c \in path \cap inp[r + 1] |-> r + 1]

\* How far a scan with so many rows ahead is, and which columns it reads next.
Position(path, cur, reinit, idx, ahead, out) ==
  /\ idx <= closed_num /\ idx = Len(out) + ahead
  /\ \A k \in 1..Len(out) : out[k] = RowOf(path, input, k - 1)
  /\ reinit = {v \in {files[c].valid : c \in path} : v >= idx}
  /\ \A c \in path : /\ files[c].valid < idx => c \in cur
                     /\ c \in cur => files[c].valid <= idx

\* The rows buffered are the last ones before idx.
Buffered(path, rows, idx) ==
  \A k \in 1..Len(rows) : rows[k] = RowOf(path, input, idx - Len(rows) + k - 1)

\* Where a scan of founders is, and what it has returned.
PositionInv ==
  phase = "scanning" /\ ~torn /\ scan.path \subseteq founders =>
    /\ Position(scan.path, scan.cur, scan.reinit, scan.recd_idx,
                IF scan.filling THEN Len(scan.rows) ELSE scan.num, scan.out)
    /\ Buffered(scan.path, scan.rows, scan.recd_idx)

\* The types of what sessions and their history keep.
SessionTypeOK ==
  /\ tree \in Seq(Columns) \cup {NoTree} /\ schema_file \in Seq(Columns)
  /\ files \in [Columns -> Column \cup {NoColumn, Partial}]
  /\ phase \in {"idle", "open", "closing", "scanning", "hanging", "died", "undefined"}
  /\ col_wts \in [Columns -> Column \cup {NoColumn}]
  /\ txt_buf \in [Columns -> Seq(0..MaxRecds)]
  /\ root_cnt \in 0..MaxRecds /\ batch \in 0..BatchCap
  /\ input \in Seq(SUBSET Columns) /\ closed_num \in 0..MaxRecds
  /\ founders \subseteq Columns /\ torn \in BOOLEAN /\ opens \in 0..MaxOpens

IInv ==
  /\ SessionTypeOK /\ scan \in Scanner
  /\ SessionInv /\ FoundersInv /\ SoundInv /\ ScanInv /\ PositionInv
  /\ SchemaCoversFiles /\ StopsHaveCause

\* The fields of a scan have their types.
LEMMA ScanFields ==
  ASSUME scan \in Scanner
  PROVE  /\ scan.path \subseteq Columns /\ scan.cur \subseteq Columns /\ scan.reinit \subseteq Nat
         /\ scan.recd_idx \in Nat /\ scan.rows \in Seq(Rows) /\ scan.cap \in Nat
         /\ scan.used \in Nat /\ scan.num \in Nat /\ scan.dbl \in BOOLEAN
         /\ scan.filling \in BOOLEAN /\ scan.out \in Seq(Rows)
         /\ Len(scan.rows) \in Nat /\ Len(scan.out) \in Nat
<1>1. scan.rows \in Seq(Rows) /\ scan.out \in Seq(Rows)
  BY DEF Scanner
<1>2. Len(scan.rows) \in Nat /\ Len(scan.out) \in Nat
  BY <1>1, LenProperties
<1> HIDE DEF Rows
<1> QED BY <1>1, <1>2 DEF Scanner

\* The type invariant is a part of the inductive one.
LEMMA Typed ==
  ASSUME SessionTypeOK, scan \in Scanner, ScanInv
  PROVE  TypeOK
<1>1. /\ scan.path \subseteq Columns /\ scan.cap \in Nat /\ scan.used \in Nat /\ scan.num \in Nat
      /\ Len(scan.rows) \in Nat
  BY ScanFields
<1>2. /\ scan.cur \subseteq scan.path /\ scan.num <= Len(scan.rows) /\ Len(scan.rows) <= RowCap
      /\ scan.used <= scan.cap
  BY DEF ScanInv
<1>3. scan.num \in 0..Len(scan.rows) /\ Room \in 0..scan.cap
  BY <1>1, <1>2 DEF Room
<1> QED BY <1>1, <1>2, <1>3 DEF TypeOK, SessionTypeOK

\* Nothing is scanned at first.
LEMMA NoScanType ==
  /\ NoScan \in Scanner /\ NoScan.rows = <<>> /\ Len(NoScan.rows) = 0
  /\ NoScan.num = 0 /\ NoScan.used = 0 /\ NoScan.cap = BufferCap /\ NoScan.filling = FALSE
<1>1. <<>> \in Seq(Rows) /\ Len(<<>>) = 0
  BY EmptySeq
<1>2. NoScan \in Scanner
  BY <1>1, ConstantsAssumption DEF NoScan, Scanner
<1> QED BY <1>1, <1>2 DEF NoScan

\* The invariant holds at first.
LEMMA InitInv == Init => IInv
<1> SUFFICES ASSUME Init PROVE IInv
  OBVIOUS
<1>1. /\ <<>> \in Seq(Columns) /\ <<>> \in Seq(SUBSET Columns) /\ <<>> \in Seq(0..MaxRecds)
      /\ Len(<<>>) = 0
  BY EmptySeq
<1>2. Leaves(schema_file) = {}
  BY <1>1 DEF Init, Leaves
<1>3. SessionTypeOK
  <2>1. /\ tree = NoTree /\ schema_file \in Seq(Columns) /\ input \in Seq(SUBSET Columns)
        /\ txt_buf \in [Columns -> Seq(0..MaxRecds)]
    BY <1>1 DEF Init
  <2>2. /\ files \in [Columns -> Column \cup {NoColumn, Partial}]
        /\ col_wts \in [Columns -> Column \cup {NoColumn}]
    BY DEF Init
  <2>3. /\ phase = "idle" /\ root_cnt \in 0..MaxRecds /\ batch \in 0..BatchCap
        /\ closed_num \in 0..MaxRecds /\ founders = {} /\ torn = FALSE /\ opens \in 0..MaxOpens
    BY ConstantsAssumption DEF Init
  <2> QED BY <2>1, <2>2, <2>3 DEF SessionTypeOK
<1>4. scan \in Scanner /\ scan = NoScan
  BY NoScanType DEF Init
<1>5. SessionInv
  BY <1>1, ConstantsAssumption DEF Init, SessionInv, AtRest
<1>6. FoundersInv
  BY <1>2 DEF Init, FoundersInv, FilesKeep, AtRest
<1>7. ScanInv
  <2>1. NoScan.cur \subseteq NoScan.path
    BY DEF NoScan
  <2> QED BY <1>4, <2>1, NoScanType, ConstantsAssumption DEF Init, ScanInv
<1>8. PositionInv /\ SchemaCoversFiles /\ StopsHaveCause /\ SoundInv
  BY DEF Init, PositionInv, SchemaCoversFiles, StopsHaveCause, SoundInv, HasFooter
<1> QED BY <1>3, <1>4, <1>5, <1>6, <1>7, <1>8 DEF IInv

-----------------------------------------------------------------------------
(* Parser sessions keep it.                                                *)

\* The steps of sessions leave the scanner alone.
LEMMA SessionStep ==
  ASSUME IInv, scan' = scan, phase \in {"idle", "open", "closing"},
         phase' \notin {"scanning", "hanging"}
  PROVE  /\ scan' \in Scanner /\ ScanInv' /\ PositionInv'
         /\ phase' \notin {"undefined", "died"} => StopsHaveCause'
<1>1. scan = NoScan /\ scan \in Scanner /\ ScanInv
  BY DEF IInv, ScanInv
<1>2. ScanInv'
  BY <1>1 DEF ScanInv, NoScan
<1> QED BY <1>1, <1>2 DEF PositionInv, StopsHaveCause

\* The tree of a table that no session has open is the saved one.
LEMMA DefinedTree ==
  ASSUME IInv, AtRest
  PROVE  GetDefinedTree = schema_file /\ schema_file \in Seq(Columns) /\ schema_file # NoTree
<1>1. tree \in {NoTree, schema_file} /\ schema_file \in Seq(Columns)
  BY DEF IInv, SessionInv, SessionTypeOK
<1> QED BY <1>1, NamesAssumption DEF GetDefinedTree

\* Of several leaves that do not open one is the first.
LEMMA FirstThatFails ==
  ASSUME NEW t \in Seq(Columns), NEW c \in Leaves(t), ~CanAppend(c)
  PROVE  \E i \in 1..Len(t) : ~CanAppend(t[i]) /\ \A j \in 1..(i - 1) : CanAppend(t[j])
<1> DEFINE failing == {i \in 1..Len(t) : ~CanAppend(t[i])}
<1>1. failing \in SUBSET Nat /\ failing # {} /\ Len(t) \in Nat
  BY LenProperties DEF Leaves
<1>2. PICK i \in failing : \A j \in failing : i <= j
  <2> HIDE DEF failing
  <2> QED BY <1>1, LeastNumber
<1>3. ASSUME NEW j \in 1..(i - 1) PROVE CanAppend(t[j])
  <2>1. j \in 1..Len(t) /\ ~(i <= j)
    BY <1>1, <1>2
  <2> QED BY <1>2, <2>1
<1> QED BY <1>2, <1>3

\* A session that does not open has a cause.
LEMMA OpeningStops ==
  ASSUME IInv, OpenParser, phase' # "open"
  PROVE  StopsHaveCause' /\ phase' \in {"died", "undefined"} /\ col_wts' = col_wts
<1>1. /\ phase = "idle" /\ AtRest /\ tree' = schema_file /\ schema_file \in Seq(Columns)
      /\ files' = files /\ torn' = torn
  <2>1. phase = "idle" /\ AtRest
    BY DEF OpenParser, AtRest
  <2> QED BY <2>1, DefinedTree DEF OpenParser
<1>2. CASE phase' = "died"
  <2>1. DiesOpening(schema_file) /\ col_wts' = col_wts
    BY <1>1, <1>2 DEF OpenParser
  <2>2. PICK i \in 1..Len(schema_file) : TailTooLong(schema_file[i])
    BY <2>1 DEF DiesOpening
  <2>3. \E c \in Leaves(schema_file) : TailUsed(c, files[c]) > TailBufferCap
    BY <2>2 DEF TailTooLong, Leaves
  <2> QED BY <1>1, <1>2, <2>1, <2>3 DEF StopsHaveCause
<1>3. CASE phase' # "died"
  <2>1. /\ phase' = "undefined" /\ col_wts' = col_wts /\ ~DiesOpening(schema_file)
        /\ \E c \in Leaves(schema_file) : ~CanAppend(c)
    BY <1>1, <1>3 DEF OpenParser
  <2>2. PICK i \in 1..Len(schema_file) : ~CanAppend(schema_file[i])
                                         /\ \A j \in 1..(i - 1) : CanAppend(schema_file[j])
    BY <1>1, <2>1, FirstThatFails
  <2> DEFINE c == schema_file[i]
  <2>3. c \in Leaves(schema_file) /\ ~TailTooLong(c) /\ ~CanAppend(c)
    BY <2>1, <2>2 DEF DiesOpening, Leaves
  <2> HIDE DEF c
  <2>4. ~torn => HasFooter(c)
    BY <1>1, <2>3 DEF IInv, FoundersInv
  <2>5. torn \/ (HasFooter(c) /\ TailIsDamaged(files[c]))
    BY <2>3, <2>4 DEF CanAppend
  <2>6. torn' \/ \E d \in Leaves(tree') : HasFooter(d)' /\ TailIsDamaged(files'[d])
    BY <1>1, <2>3, <2>5 DEF HasFooter
  <2> QED BY <2>1, <2>6 DEF StopsHaveCause
<1> QED BY <1>2, <1>3

\* A session opens.
LEMMA OpenParserInv == IInv /\ OpenParser => IInv'
<1> SUFFICES ASSUME IInv, OpenParser PROVE IInv'
  OBVIOUS
<1>1. /\ phase = "idle" /\ AtRest
      /\ tree' = schema_file /\ schema_file \in Seq(Columns) /\ schema_file # NoTree
      /\ root_cnt' = 0 /\ batch' = 0 /\ txt_buf' = [c \in Columns |-> <<>>]
      /\ scan' = scan
      /\ schema_file' = schema_file /\ files' = files /\ input' = input
      /\ closed_num' = closed_num /\ founders' = founders /\ torn' = torn
  <2>1. phase = "idle" /\ AtRest
    BY DEF OpenParser, AtRest
  <2> QED BY <2>1, DefinedTree DEF OpenParser
<1>2. /\ SessionTypeOK /\ SessionInv /\ FoundersInv /\ SoundInv /\ SchemaCoversFiles
      /\ Len(input) = closed_num /\ closed_num \in Nat
  BY <1>1 DEF IInv, SessionInv, SessionTypeOK
<1>3. Leaves(schema_file) \subseteq Columns
  BY <1>1, LeavesOfConcat
<1>4. <<>> \in Seq(0..MaxRecds)
  BY EmptySeq
<1>5. SchemaCoversFiles'
  BY <1>1, <1>2 DEF SchemaCoversFiles, HasFooter
<1>6. CASE phase' # "open"
  <2>1. StopsHaveCause' /\ phase' \in {"died", "undefined"} /\ col_wts' = col_wts
    BY <1>6, OpeningStops
  <2>2. SessionTypeOK'
    BY <1>1, <1>2, <1>4, <2>1, ConstantsAssumption DEF SessionTypeOK, OpenParser
  <2>3. SessionInv'
    BY <1>1, <1>2, <2>1 DEF SessionInv
  <2>4. FoundersInv'
    <3>1. \A c : HasFooter(c)' = HasFooter(c)
      BY <1>1 DEF HasFooter
    <3>2. FilesKeep' = FilesKeep
      BY <1>1 DEF FilesKeep
    <3>3. /\ Len(input) = 0 => founders = {}
          /\ ~torn => /\ \A c \in Leaves(schema_file) : HasFooter(c)
                      /\ closed_num = 0 => Leaves(schema_file) = {}
                      /\ FilesKeep
      BY <1>1, <1>2 DEF FoundersInv
    <3> QED BY <1>1, <2>1, <3>1, <3>2, <3>3 DEF FoundersInv, AtRest
  <2>5. SoundInv'
    BY <1>1, <1>2, <2>1 DEF SoundInv, HasFooter
  <2>6. scan' \in Scanner /\ ScanInv' /\ PositionInv'
    BY <1>1, <2>1, SessionStep
  <2> QED BY <1>5, <2>1, <2>2, <2>3, <2>4, <2>5, <2>6 DEF IInv
<1>7. CASE phase' = "open"
  <2>1. /\ \A c \in Leaves(schema_file) : CanAppend(c)
        /\ col_wts' = [c \in Columns |-> IF c \in Leaves(schema_file) THEN files[c] ELSE NoColumn]
    BY <1>1, <1>7 DEF OpenParser
  <2>2. ASSUME NEW c \in Leaves(schema_file)
        PROVE  /\ HasFooter(c) /\ files[c] \in Column /\ files[c] \in Written /\ Sound(files[c])
               /\ files[c] # NoColumn
    <3>1. c \in Columns /\ HasFooter(c) /\ ~TailIsDamaged(files[c])
      BY <1>3, <2>1 DEF CanAppend
    <3>2. files[c] \in Column /\ Sound(files[c])
      BY <1>2, <3>1 DEF SessionTypeOK, SoundInv, HasFooter
    <3> QED BY <3>1, <3>2, Undamaged DEF HasFooter
  <2>3. SessionTypeOK'
    <3>1. col_wts' \in [Columns -> Column \cup {NoColumn}]
      BY <2>1, <2>2
    <3> QED BY <1>1, <1>2, <1>4, <1>7, <3>1, ConstantsAssumption DEF SessionTypeOK, OpenParser
  <2>4. SessionInv'
    BY <1>1, <1>2, <1>3, <1>7, <2>1, <2>2 DEF SessionInv, AtRest
  <2>5. FoundersInv'
    <3>1. Len(input) = 0 => founders = {}
      BY <1>2 DEF FoundersInv
    <3> SUFFICES ASSUME ~torn PROVE FoundersInv'
      BY <1>1, <3>1 DEF FoundersInv
    <3>2. FilesKeep /\ (closed_num = 0 => Leaves(schema_file) = {})
      BY <1>1, <1>2 DEF FoundersInv
    <3>3. FilesKeep'
      BY <1>1, <3>2 DEF FilesKeep
    <3>4. WritersKeep'
      <4>1. founders \subseteq Leaves(schema_file)
        BY <3>2 DEF FilesKeep
      <4>2. closed_num = 0 => founders = {} /\ \A r \in 1..Len(input) : FALSE
        BY <1>2, <3>1
      <4>3. ASSUME NEW c \in founders
            PROVE  Kept(input, col_wts'[c], txt_buf'[c], c, Len(input))
        <5>1. c \in Columns /\ col_wts'[c] = files[c] /\ txt_buf'[c] = <<>> /\ files[c] \in Written
          BY <1>1, <1>3, <2>1, <2>2, <4>1
        <5>2. KeptButTail(input, files[c], c, closed_num)
          BY <3>2 DEF FilesKeep
        <5> QED BY <1>2, <5>1, <5>2, KeptAgain
      <4> QED BY <1>1, <1>7, <3>2, <4>1, <4>2, <4>3 DEF WritersKeep
    <3>5. (\A c \in Leaves(schema_file) : HasFooter(c))'
      BY <1>1, <2>2 DEF HasFooter
    <3> QED BY <1>1, <1>7, <3>1, <3>2, <3>3, <3>4, <3>5 DEF FoundersInv, AtRest
  <2>6. SoundInv'
    <3>1. \A c \in Columns : HasFooter(c)' => Sound(files'[c])
      BY <1>1, <1>2 DEF SoundInv, HasFooter
    <3>2. ASSUME NEW c \in Columns, col_wts'[c] # NoColumn
          PROVE  /\ col_wts'[c] \in Written /\ Sound(col_wts'[c])
                 /\ files'[c] \in Column /\ files'[c].bgn = col_wts'[c].bgn
      <4>1. c \in Leaves(schema_file) /\ col_wts'[c] = files[c]
        BY <2>1, <3>2
      <4> QED BY <1>1, <2>2, <4>1
    <3> QED BY <3>1, <3>2 DEF SoundInv
  <2>7. scan' \in Scanner /\ ScanInv' /\ PositionInv' /\ StopsHaveCause'
    BY <1>1, <1>7, SessionStep
  <2> QED BY <1>5, <2>3, <2>4, <2>5, <2>6, <2>7 DEF IInv
<1> QED BY <1>6, <1>7

\* What a session in its records has: a writer for each leaf, of the right kind.
LEMMA OpenFacts ==
  ASSUME IInv, phase = "open"
  PROVE  /\ tree \in Seq(Columns) /\ Leaves(tree) \subseteq Columns
         /\ Leaves(schema_file) \subseteq Leaves(tree)
         /\ \A c \in Leaves(tree) : col_wts[c] \in Written
         /\ \A c \in Columns : txt_buf[c] \in Seq(0..MaxRecds)
         /\ \A c \in Columns \ Leaves(tree) : txt_buf[c] = <<>>
         /\ root_cnt = Len(input) - closed_num
         /\ Len(input) \in Nat /\ closed_num \in Nat /\ closed_num <= Len(input)
         /\ Len(input) <= MaxRecds
         /\ scan = NoScan
<1>1. tree # NoTree /\ tree \in Seq(Columns)
  BY DEF IInv, SessionTypeOK, SessionInv
<1>2. Leaves(tree) \subseteq Columns
  BY <1>1, LeavesOfConcat
<1>3. \A c \in Leaves(tree) : col_wts[c] \in Written
  BY <1>2 DEF IInv, SoundInv, SessionInv
<1>4. input \in Seq(SUBSET Columns) /\ closed_num \in Nat
  BY DEF IInv, SessionTypeOK
<1>5. Len(input) \in Nat
  BY <1>4, LenProperties
<1>6. \A c \in Columns : txt_buf[c] \in Seq(0..MaxRecds)
  BY DEF IInv, SessionTypeOK
<1>7. scan = NoScan
  BY DEF IInv, ScanInv
<1> QED BY <1>1, <1>2, <1>3, <1>4, <1>5, <1>6, <1>7 DEF IInv, SessionInv

\* A batch goes to the writers.
LEMMA FlushInv == IInv /\ Flush => IInv'
<1> SUFFICES ASSUME IInv, Flush PROVE IInv'
  OBVIOUS
<1>1. /\ phase = "open" /\ phase' = "open" /\ tree' = tree /\ schema_file' = schema_file
      /\ files' = files /\ root_cnt' = root_cnt /\ scan' = scan /\ batch' = 0
      /\ txt_buf' = [c \in Columns |-> <<>>]
      /\ input' = input /\ closed_num' = closed_num /\ founders' = founders
      /\ torn' = torn /\ opens' = opens
  BY DEF Flush, FlushBuffers, history
<1>2. col_wts' = [c \in Columns |->
                    IF c \in Leaves(tree)
                    THEN [col_wts[c] EXCEPT !.recds = @ \o txt_buf[c]]
                    ELSE col_wts[c]]
  BY DEF Flush, FlushBuffers
<1>3. SessionTypeOK /\ SessionInv /\ FoundersInv /\ SoundInv /\ SchemaCoversFiles
  BY DEF IInv
<1>4. <<>> \in Seq(0..MaxRecds)
  BY EmptySeq
<1>5. ASSUME NEW c \in Leaves(tree)
      PROVE  /\ col_wts'[c] = [col_wts[c] EXCEPT !.recds = @ \o txt_buf[c]]
             /\ col_wts'[c] \in Written /\ col_wts'[c] \in Column /\ Sound(col_wts'[c])
             /\ col_wts'[c].bgn = col_wts[c].bgn
  <2>1. /\ c \in Columns /\ col_wts[c] \in Written /\ txt_buf[c] \in Seq(0..MaxRecds)
        /\ col_wts[c].recds \in Seq(0..MaxRecds) /\ col_wts[c].bgn \in Nat
        /\ Len(col_wts[c].recds) \in Nat /\ Len(txt_buf[c]) \in Nat
    BY <1>1, OpenFacts, WrittenFields, LenProperties
  <2> SUFFICES ASSUME NEW old \in Written, old = col_wts[c], Sound(old),
                      NEW new, new = [old EXCEPT !.recds = @ \o txt_buf[c]]
               PROVE  /\ new \in Written /\ new \in Column /\ Sound(new)
                      /\ new.bgn = old.bgn
    <3>1. Sound(col_wts[c])
      BY <1>3, <2>1, NamesAssumption, WrittenFields DEF SoundInv
    <3> QED BY <1>2, <2>1, <3>1
  <2> DEFINE items == old.recds \o txt_buf[c]
  <2>2. /\ items \in Seq(0..MaxRecds) /\ Len(items) = Len(old.recds) + Len(txt_buf[c])
        /\ \A i \in 1..Len(old.recds) : items[i] = old.recds[i]
    <3>1. ASSUME NEW s \in Seq(0..MaxRecds), NEW t \in Seq(0..MaxRecds)
          PROVE  /\ s \o t \in Seq(0..MaxRecds) /\ Len(s \o t) = Len(s) + Len(t)
                 /\ \A i \in 1..Len(s) : (s \o t)[i] = s[i]
      <4>1. Len(s) \in Nat /\ Len(t) \in Nat
        BY LenProperties
      <4>2. \A i \in 1..Len(s) : i \in 1..(Len(s) + Len(t)) /\ i <= Len(s)
        BY <4>1
      <4> QED BY <4>2, ConcatProperties
    <3> QED BY <2>1, <3>1
  <2> HIDE DEF items
  <2>3. /\ new \in Written /\ new.recds = items /\ new.bgn = old.bgn
        /\ new.uncounted = old.uncounted
    BY <2>2 DEF Written, items
  <2>4. End(old) <= End(new)
    <3>1. \A b, l, m \in Nat : b + l <= b + (l + m)
      OBVIOUS
    <3>2. End(old) = old.bgn + Len(old.recds)
      BY DEF End
    <3>3. End(new) = old.bgn + (Len(old.recds) + Len(txt_buf[c]))
      BY <2>2, <2>3 DEF End
    <3> QED BY <2>1, <3>1, <3>2, <3>3
  <2>5. \A i \in 1..Len(old.recds) : new.recds[i] = old.recds[i]
    BY <2>2, <2>3
  <2>6. Sound(new)
    BY <2>3, <2>4, <2>5, SoundFlush
  <2> QED BY <2>3, <2>6, WrittenFields
<1>6. SessionTypeOK'
  <2>1. col_wts' \in [Columns -> Column \cup {NoColumn}]
    BY <1>2, <1>3, <1>5 DEF SessionTypeOK
  <2> QED BY <1>1, <1>3, <1>4, <2>1, ConstantsAssumption DEF SessionTypeOK
<1>7. SessionInv'
  <2>1. \A c \in Leaves(tree) : col_wts'[c] # NoColumn
    BY <1>5, NamesAssumption
  <2> QED BY <1>1, <1>3, <2>1 DEF SessionInv, AtRest
<1>8. FoundersInv'
  <2>1. Len(input) = 0 => founders = {}
    BY <1>3 DEF FoundersInv
  <2> SUFFICES ASSUME ~torn PROVE FoundersInv'
    BY <1>1, <2>1 DEF FoundersInv
  <2>2. /\ \A c \in Leaves(schema_file) : HasFooter(c)
        /\ closed_num = 0 => Leaves(schema_file) = {}
        /\ closed_num > 0 => FilesKeep
        /\ WritersKeep
    BY <1>1, <1>3 DEF FoundersInv
  <2>3. FilesKeep' = FilesKeep /\ \A c : HasFooter(c)' = HasFooter(c)
    BY <1>1 DEF FilesKeep, HasFooter
  <2>4. WritersKeep'
    <3>1. ASSUME NEW c \in founders
          PROVE  Kept(input, col_wts'[c], txt_buf'[c], c, Len(input))
      <4>1. c \in Leaves(tree) /\ Kept(input, col_wts[c], txt_buf[c], c, Len(input))
        BY <1>1, <2>2 DEF WritersKeep
      <4>2. /\ c \in Columns /\ col_wts[c] \in Written /\ txt_buf[c] \in Seq(0..MaxRecds)
            /\ Len(input) \in Nat
        BY <1>1, <4>1, OpenFacts
      <4>3. Kept(input, [col_wts[c] EXCEPT !.recds = @ \o txt_buf[c]], <<>>, c, Len(input))
        BY <4>1, <4>2, KeptFlush
      <4> QED BY <1>1, <1>5, <4>1, <4>2, <4>3
    <3> QED BY <1>1, <2>2, <3>1 DEF WritersKeep
  <2> QED BY <1>1, <2>1, <2>2, <2>3, <2>4 DEF FoundersInv, AtRest
<1>9. scan' \in Scanner /\ ScanInv' /\ PositionInv' /\ StopsHaveCause'
  BY <1>1, SessionStep
<1>10. SchemaCoversFiles'
  BY <1>1, <1>3 DEF SchemaCoversFiles, HasFooter
<1>11. SoundInv'
  <2>1. \A c \in Columns : HasFooter(c)' => Sound(files'[c])
    BY <1>1, <1>3 DEF SoundInv, HasFooter
  <2>2. ASSUME NEW c \in Columns, col_wts'[c] # NoColumn
        PROVE  /\ col_wts'[c] \in Written /\ Sound(col_wts'[c])
               /\ files[c] = Partial \/ (files[c] \in Column /\ files[c].bgn = col_wts'[c].bgn)
    <3>1. CASE c \in Leaves(tree)
      <4>1. col_wts[c] # NoColumn
        BY <1>1, <1>3, <3>1 DEF SessionInv
      <4> QED BY <1>3, <1>5, <3>1, <4>1 DEF SoundInv
    <3>2. CASE c \notin Leaves(tree)
      <4>1. col_wts'[c] = col_wts[c]
        BY <1>2, <3>2
      <4> QED BY <1>3, <2>2, <4>1 DEF SoundInv
    <3> QED BY <3>1, <3>2
  <2> QED BY <1>1, <2>1, <2>2 DEF SoundInv
<1> QED BY <1>6, <1>7, <1>8, <1>9, <1>10, <1>11 DEF IInv

\* The tree is saved, and with it the names of all columns of the session.
LEMMA CloseSchemaInv == IInv /\ CloseSchema => IInv'
<1> SUFFICES ASSUME IInv, CloseSchema PROVE IInv'
  OBVIOUS
<1>1. /\ phase = "open" /\ phase' = "closing" /\ tree' = tree /\ schema_file' = tree
      /\ files' = files /\ root_cnt' = root_cnt /\ scan' = scan /\ batch = 0 /\ batch' = batch
      /\ txt_buf' = txt_buf /\ col_wts' = col_wts
      /\ input' = input /\ closed_num' = closed_num /\ founders' = founders
      /\ torn' = torn /\ opens' = opens
  BY DEF CloseSchema, BeginClose, history, sessionVars
<1>2. SessionTypeOK /\ SessionInv /\ FoundersInv /\ SoundInv /\ SchemaCoversFiles
  BY DEF IInv
<1>3. /\ tree \in Seq(Columns) /\ Leaves(tree) \subseteq Columns
      /\ Leaves(schema_file) \subseteq Leaves(tree)
  BY <1>1, OpenFacts
<1>4. SessionTypeOK'
  BY <1>1, <1>2, <1>3 DEF SessionTypeOK
<1>5. SessionInv'
  BY <1>1, <1>2 DEF SessionInv, AtRest, HasFooter
<1>6. FoundersInv'
  <2>1. Len(input) = 0 => founders = {}
    BY <1>2 DEF FoundersInv
  <2> SUFFICES ASSUME ~torn PROVE FoundersInv'
    BY <1>1, <2>1 DEF FoundersInv
  <2>2. WritersKeep
    BY <1>1, <1>2 DEF FoundersInv
  <2>3. ASSUME NEW c \in founders
        PROVE  /\ Kept(input, col_wts[c], <<>>, c, Len(input))
               /\ col_wts[c] # NoColumn
    <3>1. c \in Leaves(tree) /\ Kept(input, col_wts[c], txt_buf[c], c, Len(input))
      BY <1>1, <2>2 DEF WritersKeep
    <3>2. txt_buf[c] = <<>> /\ col_wts[c] # NoColumn
      BY <1>1, <1>2, <1>3, <3>1 DEF SessionInv
    <3> QED BY <3>1, <3>2
  <2>4. WritersKeep'
    BY <1>1, <2>2, <2>3 DEF WritersKeep
  <2> QED BY <1>1, <2>1, <2>4 DEF FoundersInv, AtRest
<1>7. scan' \in Scanner /\ ScanInv' /\ PositionInv' /\ StopsHaveCause'
  BY <1>1, SessionStep
<1>8. SchemaCoversFiles'
  BY <1>1, <1>2, <1>3 DEF SchemaCoversFiles, HasFooter
<1>9. SoundInv'
  BY <1>1, <1>2 DEF SoundInv, HasFooter
<1> QED BY <1>4, <1>5, <1>6, <1>7, <1>8, <1>9 DEF IInv

\* What a session that is being closed has left to close.
LEMMA ClosingFacts ==
  ASSUME IInv, phase = "closing"
  PROVE  /\ tree = schema_file /\ tree \in Seq(Columns) /\ Leaves(tree) \subseteq Columns
         /\ batch = 0 /\ input \in Seq(SUBSET Columns)
         /\ Len(input) \in Nat /\ closed_num \in Nat /\ closed_num <= Len(input)
         /\ Len(input) <= MaxRecds
         /\ \A c \in Leaves(tree) : col_wts[c] \in Written \/ (col_wts[c] = NoColumn /\ HasFooter(c))
<1>1. tree = schema_file /\ schema_file \in Seq(Columns) /\ batch = 0
  BY DEF IInv, SessionTypeOK, SessionInv
<1>2. Leaves(tree) \subseteq Columns
  BY <1>1, LeavesOfConcat
<1>3. input \in Seq(SUBSET Columns) /\ closed_num \in Nat
  BY DEF IInv, SessionTypeOK
<1>4. Len(input) \in Nat
  BY <1>3, LenProperties
<1>5. \A c \in Leaves(tree) : col_wts[c] \in Written \/ (col_wts[c] = NoColumn /\ HasFooter(c))
  BY <1>2 DEF IInv, SoundInv, SessionInv
<1> QED BY <1>1, <1>2, <1>3, <1>4, <1>5 DEF IInv, SessionInv

\* One writer is closed, and its files hold what it had.
LEMMA CloseColumnInv == IInv /\ CloseColumn => IInv'
<1> SUFFICES ASSUME IInv, CloseColumn PROVE IInv'
  OBVIOUS
<1>1. /\ phase = "closing" /\ phase' = "closing" /\ tree' = tree /\ schema_file' = schema_file
      /\ root_cnt' = root_cnt /\ scan' = scan /\ batch' = batch /\ txt_buf' = txt_buf
      /\ input' = input /\ closed_num' = closed_num /\ founders' = founders
      /\ torn' = torn /\ opens' = opens
  BY DEF CloseColumn, history
<1>2. SessionTypeOK /\ SessionInv /\ FoundersInv /\ SoundInv /\ SchemaCoversFiles
  BY DEF IInv
<1>3. PICK d \in Leaves(tree) : /\ col_wts[d] # NoColumn
                                /\ files' = [files EXCEPT ![d] = ClosedColumn(d)]
                                /\ col_wts' = [col_wts EXCEPT ![d] = NoColumn]
  <2>1. \A d \in NextToClose : d \in Leaves(tree) /\ col_wts[d] # NoColumn
    BY DEF NextToClose, OpenWriters, Leaves
  <2> QED BY <2>1 DEF CloseColumn
<1>4. /\ Leaves(tree) \subseteq Columns /\ Leaves(schema_file) = Leaves(tree) /\ d \in Columns
      /\ col_wts[d] \in Written
  BY <1>1, <1>3, ClosingFacts
<1> SUFFICES ASSUME NEW new, new = ClosedColumn(d) PROVE IInv'
  OBVIOUS
<1>5. new \in Written /\ new \in Column /\ Sound(new)
  <2>1. /\ Sound(col_wts[d])
        /\ files[d] = Partial \/ (files[d] \in Column /\ files[d].bgn = col_wts[d].bgn)
    BY <1>2, <1>3, <1>4 DEF SoundInv
  <2> QED BY <1>4, <2>1, ClosedSound, WrittenFields DEF ClosedColumn
<1>6. /\ files'[d] = new /\ col_wts'[d] = NoColumn
      /\ \A c \in Columns \ {d} : files'[c] = files[c] /\ col_wts'[c] = col_wts[c]
      /\ \A c \in Columns : HasFooter(c) => HasFooter(c)'
      /\ HasFooter(d)'
  BY <1>2, <1>3, <1>4, <1>5, NamesAssumption DEF SessionTypeOK, HasFooter
<1>7. SessionTypeOK'
  BY <1>1, <1>2, <1>3, <1>4, <1>5 DEF SessionTypeOK
<1>8. SessionInv'
  <2>1. \A c \in Leaves(tree) : col_wts'[c] # NoColumn \/ HasFooter(c)'
    BY <1>1, <1>2, <1>4, <1>6 DEF SessionInv
  <2> QED BY <1>1, <1>2, <2>1 DEF SessionInv, AtRest
<1>9. FoundersInv'
  <2>1. Len(input) = 0 => founders = {}
    BY <1>2 DEF FoundersInv
  <2> SUFFICES ASSUME ~torn PROVE FoundersInv'
    BY <1>1, <2>1 DEF FoundersInv
  <2>2. WritersKeep /\ founders \subseteq Leaves(tree)
    BY <1>1, <1>2 DEF FoundersInv, WritersKeep
  <2>3. ASSUME NEW c \in founders
        PROVE  IF col_wts'[c] # NoColumn THEN Kept(input, col_wts'[c], <<>>, c, Len(input))
                                         ELSE KeptButTail(input, files'[c], c, Len(input))
    <3>1. /\ c \in Columns
          /\ IF col_wts[c] # NoColumn THEN Kept(input, col_wts[c], <<>>, c, Len(input))
                                      ELSE KeptButTail(input, files[c], c, Len(input))
      BY <1>1, <1>4, <2>2 DEF WritersKeep
    <3>2. CASE c # d
      BY <1>6, <3>1, <3>2
    <3>3. CASE c = d
      <4>1. Kept(input, col_wts[d], <<>>, d, Len(input)) /\ Len(input) \in Nat
        BY <1>1, <1>3, <3>1, <3>3, ClosingFacts
      <4>2. KeptButTail(input, col_wts[d], d, Len(input))
        BY <1>4, <4>1, KeptInFiles
      <4>3. KeptButTail(input, new, d, Len(input))
        <5>1. new.recds = col_wts[d].recds /\ new.bgn = col_wts[d].bgn /\ new.valid = col_wts[d].valid
          BY <1>4 DEF ClosedColumn, Written
        <5> QED BY <4>2, <5>1 DEF KeptButTail, End, ItemOf, TailRecds, TailBgn
      <4> QED BY <1>6, <3>3, <4>3
    <3> QED BY <3>2, <3>3
  <2>4. WritersKeep'
    BY <1>1, <2>2, <2>3 DEF WritersKeep
  <2> QED BY <1>1, <2>1, <2>4 DEF FoundersInv, AtRest
<1>10. scan' \in Scanner /\ ScanInv' /\ PositionInv' /\ StopsHaveCause'
  BY <1>1, SessionStep
<1>11. SchemaCoversFiles'
  BY <1>1, <1>2, <1>4, <1>6 DEF SchemaCoversFiles, HasFooter
<1>12. SoundInv'
  <2>1. ASSUME NEW c \in Columns, HasFooter(c)' PROVE Sound(files'[c])
    <3>1. CASE c = d
      BY <1>5, <1>6, <3>1
    <3>2. CASE c # d
      <4>1. files'[c] = files[c] /\ HasFooter(c)
        BY <1>6, <2>1, <3>2 DEF HasFooter
      <4> QED BY <1>2, <4>1 DEF SoundInv
    <3> QED BY <3>1, <3>2
  <2>2. ASSUME NEW c \in Columns, col_wts'[c] # NoColumn
        PROVE  files'[c] = files[c] /\ col_wts'[c] = col_wts[c]
    BY <1>6, <2>2
  <2> QED BY <1>2, <2>1, <2>2 DEF SoundInv
<1> QED BY <1>7, <1>8, <1>9, <1>10, <1>11, <1>12 DEF IInv

\* The session is over: its records are among those of closed sessions.
LEMMA CloseParserInv == IInv /\ CloseParser => IInv'
<1> SUFFICES ASSUME IInv, CloseParser PROVE IInv'
  OBVIOUS
<1>1. /\ phase = "closing" /\ phase' = "idle" /\ tree' = tree /\ schema_file' = schema_file
      /\ files' = files /\ col_wts' = col_wts
      /\ root_cnt' = 0 /\ scan' = scan /\ batch' = batch /\ txt_buf' = txt_buf
      /\ input' = input /\ closed_num' = Len(input) /\ founders' = founders
      /\ torn' = torn /\ opens' = opens
  BY DEF CloseParser
<1>2. SessionTypeOK /\ SessionInv /\ FoundersInv /\ SoundInv /\ SchemaCoversFiles
  BY DEF IInv
<1>3. /\ tree = schema_file /\ Len(input) \in 0..MaxRecds /\ closed_num <= Len(input)
      /\ closed_num \in Nat /\ Len(input) \in Nat
  BY <1>1, ClosingFacts, ConstantsAssumption
<1>4. \A c \in Leaves(tree) : col_wts[c] = NoColumn /\ HasFooter(c)
  <2>1. \A i \in 1..Len(tree) : col_wts[tree[i]] = NoColumn
    BY DEF CloseParser, OpenWriters
  <2>2. \A c \in Leaves(tree) : col_wts[c] = NoColumn
    BY <2>1 DEF Leaves
  <2> QED BY <1>1, <1>2, <2>2 DEF SessionInv
<1>5. SessionTypeOK'
  BY <1>1, <1>2, <1>3, ConstantsAssumption DEF SessionTypeOK
<1>6. SessionInv'
  BY <1>1, <1>2, <1>3 DEF SessionInv, AtRest
<1>7. FoundersInv'
  <2>1. Len(input) = 0 => founders = {}
    BY <1>2 DEF FoundersInv
  <2> SUFFICES ASSUME ~torn PROVE FoundersInv'
    BY <1>1, <2>1 DEF FoundersInv
  <2>2. WritersKeep /\ founders \subseteq Leaves(tree)
    BY <1>1, <1>2 DEF FoundersInv, WritersKeep
  <2>3. Len(input) = 0 => Leaves(tree) = {}
    BY <1>3, <2>1, <2>2 DEF WritersKeep
  <2>4. \A c \in founders : KeptButTail(input, files[c], c, Len(input))
    BY <1>1, <1>4, <2>2 DEF WritersKeep
  <2>5. FilesKeep'
    BY <1>1, <1>3, <2>2, <2>4 DEF FilesKeep
  <2>6. \A c \in Leaves(tree) : HasFooter(c)'
    BY <1>1, <1>4 DEF HasFooter
  <2> QED BY <1>1, <1>3, <2>1, <2>3, <2>5, <2>6 DEF FoundersInv, AtRest
<1>8. scan' \in Scanner /\ ScanInv' /\ PositionInv' /\ StopsHaveCause'
  BY <1>1, SessionStep
<1>9. SchemaCoversFiles'
  BY <1>1, <1>2 DEF SchemaCoversFiles, HasFooter
<1>10. SoundInv'
  BY <1>1, <1>2 DEF SoundInv, HasFooter
<1> QED BY <1>5, <1>6, <1>7, <1>8, <1>9, <1>10 DEF IInv

\* The process stops: what the files hold is what the closed sessions left there, but
\* for tail CABs that were stored over.
LEMMA CrashInv == IInv /\ Crash => IInv'
<1> SUFFICES ASSUME IInv, Crash PROVE IInv'
  OBVIOUS
<1>1. /\ phase # "undefined" /\ phase' = "idle" /\ tree' = NoTree
      /\ schema_file' = schema_file
      /\ col_wts' = [c \in Columns |-> NoColumn] /\ txt_buf' = [c \in Columns |-> <<>>]
      /\ root_cnt' = 0 /\ scan' = NoScan /\ batch' = 0
      /\ closed_num' = closed_num /\ opens' = opens
      /\ torn' = (torn \/ phase = "closing")
      /\ founders' = IF closed_num = 0 THEN {} ELSE founders
  BY DEF Crash
<1>2. SessionTypeOK /\ SessionInv /\ FoundersInv /\ SoundInv /\ SchemaCoversFiles
  BY DEF IInv
<1>3. /\ input \in Seq(SUBSET Columns) /\ closed_num \in Nat /\ closed_num <= Len(input)
      /\ Len(input) \in Nat
  BY <1>2, LenProperties DEF SessionTypeOK, SessionInv
<1>4. /\ input' \in Seq(SUBSET Columns) /\ Len(input') = closed_num
      /\ \A i \in 1..closed_num : input'[i] = input[i]
  <2>1. input' = SubSeq(input, 1, closed_num)
    BY DEF Crash
  <2>2. \A i \in 1..closed_num : input[i] \in SUBSET Columns
    BY <1>3, ElementOfSeq
  <2>3. /\ SubSeq(input, 1, closed_num) \in Seq(SUBSET Columns)
        /\ Len(SubSeq(input, 1, closed_num))
             = IF 1 <= closed_num THEN closed_num - 1 + 1 ELSE 0
        /\ \A i \in 1..(closed_num - 1 + 1) : SubSeq(input, 1, closed_num)[i] = input[1 + i - 1]
    BY <1>3, <2>2, SubSeqProperties
  <2> QED BY <1>3, <2>1, <2>3
<1>5. <<>> \in Seq(0..MaxRecds)
  BY EmptySeq
<1>6. /\ files' \in [Columns -> Column \cup {NoColumn, Partial}]
      /\ \A c \in Columns : /\ HasFooter(c)' = HasFooter(c)
                            /\ files'[c] # files[c] => /\ HasFooter(c)
                                                       /\ files'[c] = Damaged(files[c])
  <2>1. PICK half \in HalfDone :
          files' = [c \in Columns |-> IF Overwritten(c, half) THEN Damaged(files[c]) ELSE files[c]]
    BY DEF Crash
  <2>2. ASSUME NEW c \in Columns
        PROVE  /\ files'[c] \in Column \cup {NoColumn, Partial}
               /\ HasFooter(c)' = HasFooter(c)
               /\ files'[c] # files[c] => HasFooter(c) /\ files'[c] = Damaged(files[c])
    <3>1. files[c] \in Column \cup {NoColumn, Partial}
      BY <1>2 DEF SessionTypeOK
    <3>2. CASE Overwritten(c, half)
      <4>1. files'[c] = Damaged(files[c]) /\ HasFooter(c)
        BY <2>1, <3>2 DEF Overwritten
      <4>2. Damaged(files[c]) \in Column
        BY <3>1, <4>1, DamagedFields DEF HasFooter
      <4>3. HasFooter(c)'
        BY <4>1, <4>2, NamesAssumption DEF HasFooter
      <4> QED BY <4>1, <4>2, <4>3
    <3>3. CASE ~Overwritten(c, half)
      <4>1. files'[c] = files[c]
        BY <2>1, <3>3
      <4> QED BY <3>1, <4>1 DEF HasFooter
    <3> QED BY <3>2, <3>3
  <2> QED BY <2>1, <2>2
<1>7. SessionTypeOK'
  <2>1. /\ col_wts' \in [Columns -> Column \cup {NoColumn}]
        /\ txt_buf' \in [Columns -> Seq(0..MaxRecds)]
    BY <1>1, <1>5
  <2>2. /\ root_cnt' \in 0..MaxRecds /\ batch' \in 0..BatchCap /\ founders' \subseteq Columns
        /\ torn' \in BOOLEAN
    BY <1>1, <1>2, ConstantsAssumption DEF SessionTypeOK
  <2> QED BY <1>1, <1>2, <1>4, <1>6, <2>1, <2>2 DEF SessionTypeOK
<1>8. SessionInv'
  <2>1. closed_num <= MaxRecds
    BY <1>2 DEF SessionTypeOK
  <2> QED BY <1>1, <1>3, <1>4, <2>1 DEF SessionInv, AtRest
<1>9. FoundersInv'
  <2>1. Len(input') = 0 => founders' = {}
    BY <1>1, <1>4
  <2> SUFFICES ASSUME ~torn, phase # "closing" PROVE FoundersInv'
    BY <1>1, <2>1 DEF FoundersInv
  <2>2. AtRest \/ phase = "open"
    BY <1>1, <1>2 DEF AtRest, SessionTypeOK
  <2>3. /\ \A c \in Leaves(schema_file) : HasFooter(c)
        /\ closed_num = 0 => Leaves(schema_file) = {}
        /\ closed_num # 0 => FilesKeep
    BY <1>1, <1>2, <1>3, <2>2 DEF FoundersInv
  <2>4. Leaves(schema_file) \subseteq Columns
    BY <1>2, LeavesOfConcat DEF SessionTypeOK
  <2>5. \A c \in Leaves(schema_file) : HasFooter(c)'
    BY <1>6, <2>3, <2>4
  <2>6. FilesKeep'
    <3>1. CASE closed_num = 0
      BY <1>1, <3>1 DEF FilesKeep
    <3>2. CASE closed_num # 0
      <4>1. FilesKeep /\ founders' = founders
        BY <1>1, <2>3, <3>2
      <4>2. ASSUME NEW c \in founders PROVE KeptButTail(input', files'[c], c, closed_num)
        <5>1. c \in Leaves(schema_file) /\ c \in Columns
          BY <1>2, <4>1 DEF FilesKeep, SessionTypeOK
        <5>2. files[c] \in Column /\ KeptButTail(input, files[c], c, closed_num)
          BY <1>2, <2>3, <4>1, <5>1 DEF FilesKeep, SessionTypeOK, HasFooter
        <5>3. KeptButTail(input', files[c], c, closed_num)
          BY <1>3, <1>4, <5>2, KeptButTailFirst
        <5>4. KeptButTail(input', Damaged(files[c]), c, closed_num)
          BY <1>3, <5>2, <5>3, DamagedKept
        <5> QED BY <1>6, <5>1, <5>3, <5>4
      <4> QED BY <1>1, <4>1, <4>2 DEF FilesKeep
    <3> QED BY <3>1, <3>2
  <2> QED BY <1>1, <2>1, <2>3, <2>5, <2>6 DEF FoundersInv
<1>10. scan' \in Scanner /\ ScanInv' /\ PositionInv' /\ StopsHaveCause'
  <2>1. NoScan.cur \subseteq NoScan.path
    BY DEF NoScan
  <2>2. ScanInv'
    <3> HIDE DEF NoScan
    <3> QED BY <1>1, <2>1, NoScanType, ConstantsAssumption DEF ScanInv
  <2> QED BY <1>1, <2>2, NoScanType DEF PositionInv, StopsHaveCause
<1>11. SchemaCoversFiles'
  BY <1>1, <1>2, <1>6 DEF SchemaCoversFiles
<1>12. SoundInv'
  <2>1. ASSUME NEW c \in Columns, HasFooter(c)' PROVE Sound(files'[c])
    <3>1. HasFooter(c) /\ (files'[c] = files[c] \/ files'[c] = Damaged(files[c]))
      BY <1>6, <2>1
    <3>2. files[c] \in Column /\ Sound(files[c])
      BY <1>2, <3>1 DEF SessionTypeOK, SoundInv, HasFooter
    <3> QED BY <3>1, <3>2, DamagedSound
  <2> QED BY <1>1, <2>1 DEF SoundInv
<1> QED BY <1>7, <1>8, <1>9, <1>10, <1>11, <1>12 DEF IInv

\* A record is parsed: one item more for every column of the session, old or new.
LEMMA ParseRecordInv == IInv /\ ParseRecord => IInv'
<1> SUFFICES ASSUME IInv, ParseRecord PROVE IInv'
  OBVIOUS
<1>1. PICK cs \in SUBSET Columns : \E fresh \in Orders(cs \ Leaves(tree)) : Generate(cs, fresh)
  BY DEF ParseRecord
<1>2. PICK fresh \in Orders(cs \ Leaves(tree)) : Generate(cs, fresh)
  BY <1>1
<1> SUFFICES ASSUME NEW n, n = Len(input), NEW L, L = Leaves(tree) PROVE IInv'
  OBVIOUS
<1>3. /\ phase = "open" /\ phase' = "open" /\ schema_file' = schema_file /\ scan' = scan
      /\ batch < BatchCap /\ batch' = batch + 1 /\ n < MaxRecds
      /\ root_cnt' = root_cnt + 1 /\ tree' = tree \o fresh
      /\ input' = Append(input, cs) /\ closed_num' = closed_num /\ torn' = torn /\ opens' = opens
  BY <1>2 DEF Generate, GenerateItems
<1>4. /\ col_wts' = [c \in Columns |-> IF c \in Leaves(fresh) THEN NewColumn ELSE col_wts[c]]
      /\ files' = [c \in Columns |-> IF c \in Leaves(fresh) THEN Partial ELSE files[c]]
      /\ txt_buf' = [c \in Columns |->
                       IF c \in cs THEN Append(txt_buf[c], n + 1)
                       ELSE IF c \in L \ cs THEN Append(txt_buf[c], 0)
                       ELSE txt_buf[c]]
      /\ founders' = IF closed_num = 0 THEN founders \cup Leaves(fresh) ELSE founders
  BY <1>2 DEF Generate, GenerateItems
<1>5. SessionTypeOK /\ SessionInv /\ FoundersInv /\ SoundInv /\ SchemaCoversFiles
  BY DEF IInv
<1>6. /\ tree \in Seq(Columns) /\ L \subseteq Columns /\ Leaves(schema_file) \subseteq L
      /\ n \in Nat /\ closed_num \in Nat /\ closed_num <= n /\ n <= MaxRecds
      /\ root_cnt = n - closed_num
  BY <1>3, OpenFacts
<1>7. /\ \A c \in L : col_wts[c] \in Written /\ col_wts[c] \in Column
      /\ \A c \in Columns : txt_buf[c] \in Seq(0..MaxRecds)
      /\ \A c \in Columns \ L : txt_buf[c] = <<>>
  BY <1>3, OpenFacts, WrittenFields
<1>8. fresh \in Seq(Columns) /\ Leaves(fresh) = cs \ L
  <2>1. cs \ Leaves(tree) \in SUBSET Columns
    OBVIOUS
  <2> QED BY <2>1, OrderedLeaves
<1>9. tree' \in Seq(Columns) /\ Leaves(tree') = L \cup cs
  BY <1>3, <1>6, <1>8, LeavesOfConcat
<1>10. /\ input \in Seq(SUBSET Columns) /\ input' \in Seq(SUBSET Columns) /\ Len(input') = n + 1
       /\ \A i \in 1..n : input'[i] = input[i]
       /\ input'[n + 1] = cs
  BY <1>3, <1>5, AppendProperties DEF SessionTypeOK
<1>11. MaxRecds \in Nat /\ n \in 0..(MaxRecds - 1) /\ n + 1 \in 0..MaxRecds /\ 0 \in 0..MaxRecds
  <2>1. \A m, k \in Nat : k < m => k \in 0..(m - 1) /\ k + 1 \in 0..m /\ 0 \in 0..m
    OBVIOUS
  <2>2. MaxRecds \in Nat /\ n \in Nat /\ n < MaxRecds
    BY <1>3, <1>6, ConstantsAssumption
  <2> QED BY <2>1, <2>2
<1>12. NewColumn \in Written /\ NewColumn \in Column /\ Sound(NewColumn)
  <2>1. root_cnt' = (n - closed_num) + 1 /\ n - closed_num \in Nat
    BY <1>3, <1>6
  <2>2. /\ NewColumn \in Written /\ NewColumn.bgn % RecdCap = 0 /\ NewColumn.uncounted = {}
        /\ \A i \in 1..Len(NewColumn.recds) : NewColumn.recds[i] = 0
    BY <2>1, NewColumnType
  <2> HIDE DEF Garbage
  <2>3. 0 # Garbage
    BY DEF Garbage
  <2> QED BY <2>2, <2>3, WrittenFields DEF Sound
<1>13. SessionTypeOK'
  <2>1. col_wts' \in [Columns -> Column \cup {NoColumn}]
    BY <1>4, <1>5, <1>12 DEF SessionTypeOK
  <2>2. files' \in [Columns -> Column \cup {NoColumn, Partial}]
    BY <1>4, <1>5 DEF SessionTypeOK
  <2>3. txt_buf' \in [Columns -> Seq(0..MaxRecds)]
    <3>1. \A c \in Columns : /\ Append(txt_buf[c], n + 1) \in Seq(0..MaxRecds)
                             /\ Append(txt_buf[c], 0) \in Seq(0..MaxRecds)
      BY <1>7, <1>11, AppendProperties
    <3> QED BY <1>4, <1>7, <3>1
  <2>4. founders' \subseteq Columns
    BY <1>4, <1>5, <1>8 DEF SessionTypeOK
  <2>5. root_cnt' \in 0..MaxRecds /\ batch' \in 0..BatchCap
    <3>1. \A m, k, o \in Nat : o <= k /\ k < m => (k - o) + 1 \in 0..m
      OBVIOUS
    <3>2. root_cnt' = (n - closed_num) + 1 /\ n < MaxRecds
      BY <1>3, <1>6
    <3>3. root_cnt' \in 0..MaxRecds
      BY <1>6, <1>11, <3>1, <3>2
    <3>4. batch \in Nat /\ BatchCap \in Nat
      BY <1>5, ConstantsAssumption DEF SessionTypeOK
    <3>5. batch + 1 \in 0..BatchCap
      BY <1>3, <3>4
    <3> QED BY <1>3, <3>3, <3>5
  <2> QED BY <1>3, <1>5, <1>9, <1>10, <2>1, <2>2, <2>3, <2>4, <2>5 DEF SessionTypeOK
<1>14. SessionInv'
  <2>1. \A c \in L \cup cs : col_wts'[c] # NoColumn
    BY <1>4, <1>6, <1>7, <1>8, <1>12, NamesAssumption
  <2>2. \A c \in Columns \ (L \cup cs) : txt_buf'[c] = <<>>
    BY <1>4, <1>7
  <2>3. /\ closed_num <= n + 1 /\ n + 1 <= MaxRecds /\ root_cnt' = (n + 1) - closed_num
        /\ batch' # 0
    <3>1. \A m, k, o \in Nat : o <= k /\ k < m => /\ o <= k + 1 /\ k + 1 <= m
                                                 /\ (k - o) + 1 = (k + 1) - o
      OBVIOUS
    <3>2. batch \in Nat
      BY <1>5, ConstantsAssumption DEF SessionTypeOK
    <3>3. batch + 1 # 0
      BY <3>2
    <3> QED BY <1>3, <1>6, <1>11, <3>1, <3>3
  <2>4. tree' # NoTree
    BY <1>9, NamesAssumption
  <2> QED BY <1>3, <1>6, <1>9, <1>10, <2>1, <2>2, <2>3, <2>4 DEF SessionInv, AtRest
<1>15. SchemaCoversFiles'
  BY <1>3, <1>4, <1>5 DEF SchemaCoversFiles, HasFooter
<1>16. scan' \in Scanner /\ ScanInv' /\ PositionInv' /\ StopsHaveCause'
  BY <1>3, SessionStep
<1>17. FoundersInv'
  <2>1. Len(input') # 0
    BY <1>6, <1>10
  <2> SUFFICES ASSUME ~torn PROVE FoundersInv'
    BY <1>3, <2>1 DEF FoundersInv
  <2>2. /\ \A c \in Leaves(schema_file) : HasFooter(c)
        /\ closed_num = 0 => Leaves(schema_file) = {}
        /\ closed_num > 0 => FilesKeep
        /\ WritersKeep
    BY <1>3, <1>5 DEF FoundersInv
  <2>3. \A c \in L : files'[c] = files[c] /\ col_wts'[c] = col_wts[c]
    BY <1>4, <1>6, <1>8
  <2>4. \A c \in Leaves(schema_file) : HasFooter(c)'
    BY <1>6, <2>2, <2>3 DEF HasFooter
  <2>5. ASSUME closed_num > 0 PROVE FilesKeep'
    <3>1. FilesKeep /\ founders' = founders
      BY <1>4, <1>6, <2>2, <2>5
    <3>2. ASSUME NEW c \in founders PROVE KeptButTail(input', files'[c], c, closed_num)
      <4>1. c \in Leaves(schema_file) /\ c \in L /\ c \in Columns
        BY <1>6, <3>1 DEF FilesKeep
      <4>2. files[c] \in Column /\ KeptButTail(input, files[c], c, closed_num)
        BY <1>5, <2>2, <3>1, <4>1 DEF FilesKeep, SessionTypeOK, HasFooter
      <4>3. \A i \in 1..closed_num : input'[i] = input[i]
        BY <1>6, <1>10
      <4> QED BY <1>6, <2>3, <4>1, <4>2, <4>3, KeptButTailFirst
    <3> QED BY <1>3, <3>1, <3>2 DEF FilesKeep
  <2>6. /\ founders \subseteq L /\ (closed_num = 0 => L \subseteq founders)
        /\ closed_num = 0 => \A r \in 1..n : input[r] \subseteq L
        /\ \A c \in founders : /\ Kept(input, col_wts[c], txt_buf[c], c, n)
                               /\ closed_num = 0 => files[c] = Partial
    BY <1>3, <2>2 DEF WritersKeep
  <2>7. ASSUME NEW c \in founders'
        PROVE  /\ Kept(input', col_wts'[c], txt_buf'[c], c, n + 1)
               /\ closed_num = 0 => files'[c] = Partial
    <3>1. CASE c \in L
      <4>1. c \in founders /\ c \in Columns
        BY <1>4, <1>6, <1>8, <2>6, <2>7, <3>1
      <4>2. /\ col_wts[c] \in Written /\ txt_buf[c] \in Seq(0..MaxRecds)
            /\ Kept(input', col_wts[c], txt_buf[c], c, n)
        BY <1>6, <1>7, <1>10, <2>6, <3>1, <4>1, KeptFirst
      <4>3. CASE c \in cs
        <5>1. txt_buf'[c] = Append(txt_buf[c], n + 1) /\ n + 1 = Item(input', c, n)
          BY <1>4, <1>10, <4>1, <4>3 DEF Item
        <5> QED BY <1>6, <1>11, <2>3, <2>6, <3>1, <4>1, <4>2, <5>1, KeptAppend
      <4>4. CASE c \notin cs
        <5>1. txt_buf'[c] = Append(txt_buf[c], 0) /\ 0 = Item(input', c, n)
          BY <1>4, <1>10, <3>1, <4>1, <4>4 DEF Item
        <5> QED BY <1>6, <1>11, <2>3, <2>6, <3>1, <4>1, <4>2, <5>1, KeptAppend
      <4> QED BY <4>3, <4>4
    <3>2. CASE c \notin L
      <4>1. closed_num = 0 /\ c \in cs \ L /\ c \in Columns
        BY <1>4, <1>8, <2>6, <2>7, <3>2
      <4>2. /\ col_wts'[c] = NewColumn /\ files'[c] = Partial
            /\ txt_buf'[c] = Append(<<>>, n + 1)
        BY <1>4, <1>7, <1>8, <4>1
      <4>3. /\ c \in input'[n + 1] /\ root_cnt' = n + 1
            /\ \A r \in 1..n : c \notin input'[r]
        BY <1>3, <1>6, <1>10, <2>6, <4>1
      <4>4. Kept(input', NewColumn, Append(<<>>, n + 1), c, n + 1)
        BY <1>11, <4>3, KeptNew
      <4> QED BY <4>2, <4>4
    <3> QED BY <3>1, <3>2
  <2>8. WritersKeep'
    <3>1. founders' \subseteq L \cup cs
      BY <1>4, <1>8, <2>6
    <3>2. ASSUME closed_num = 0
          PROVE  L \cup cs \subseteq founders' /\ \A r \in 1..(n + 1) : input'[r] \subseteq L \cup cs
      <4>1. L \cup cs \subseteq founders'
        BY <1>4, <1>8, <2>6, <3>2
      <4>2. ASSUME NEW r \in 1..(n + 1) PROVE input'[r] \subseteq L \cup cs
        <5>1. r \in 1..n \/ r = n + 1
          BY <1>6
        <5> QED BY <1>10, <2>6, <3>2, <5>1
      <4> QED BY <4>1, <4>2
    <3> QED BY <1>3, <1>9, <1>10, <2>7, <3>1, <3>2 DEF WritersKeep
  <2> QED BY <1>3, <2>1, <2>2, <2>4, <2>5, <2>8 DEF FoundersInv, AtRest
<1>18. SoundInv'
  <2>1. ASSUME NEW c \in Columns, c \in Leaves(fresh)
        PROVE  files'[c] = Partial /\ col_wts'[c] = NewColumn /\ ~HasFooter(c)'
    BY <1>4, <2>1 DEF HasFooter
  <2>2. ASSUME NEW c \in Columns, c \notin Leaves(fresh)
        PROVE  files'[c] = files[c] /\ col_wts'[c] = col_wts[c] /\ HasFooter(c)' = HasFooter(c)
    BY <1>4, <2>2 DEF HasFooter
  <2>3. ASSUME NEW c \in Columns, HasFooter(c)' PROVE Sound(files'[c])
    BY <1>5, <2>1, <2>2, <2>3 DEF SoundInv
  <2>4. ASSUME NEW c \in Columns, col_wts'[c] # NoColumn
        PROVE  /\ col_wts'[c] \in Written /\ Sound(col_wts'[c])
               /\ files'[c] = Partial \/ (files'[c] \in Column /\ files'[c].bgn = col_wts'[c].bgn)
    <3>1. CASE c \in Leaves(fresh)
      BY <1>12, <2>1, <3>1
    <3>2. CASE c \notin Leaves(fresh)
      BY <1>5, <2>2, <2>4, <3>2 DEF SoundInv
    <3> QED BY <3>1, <3>2
  <2> QED BY <2>3, <2>4 DEF SoundInv
<1> QED BY <1>13, <1>14, <1>15, <1>16, <1>17, <1>18 DEF IInv

-----------------------------------------------------------------------------
(* Scans keep it.                                                          *)

\* The steps of scans leave the columns and what is known of them alone.
LEMMA ScanFrame ==
  ASSUME IInv, phase \in {"idle", "scanning"},
         phase' \in {"idle", "scanning", "hanging", "undefined"},
         UNCHANGED <<schema_file, files, sessionVars, history>>, tree' \in {tree, schema_file}
  PROVE  SessionTypeOK' /\ SessionInv' /\ FoundersInv' /\ SchemaCoversFiles' /\ SoundInv'
<1>1. SessionTypeOK /\ SessionInv /\ FoundersInv /\ SchemaCoversFiles /\ SoundInv
  BY DEF IInv
<1>2. /\ schema_file' = schema_file /\ files' = files /\ col_wts' = col_wts /\ txt_buf' = txt_buf
      /\ root_cnt' = root_cnt /\ batch' = batch /\ input' = input /\ closed_num' = closed_num
      /\ founders' = founders /\ torn' = torn /\ opens' = opens
  BY DEF sessionVars, history
<1>3. SessionTypeOK'
  BY <1>1, <1>2 DEF SessionTypeOK
<1>4. SessionInv'
  BY <1>1, <1>2 DEF SessionInv, AtRest, HasFooter
<1>5. FoundersInv'
  <2>1. FilesKeep' = FilesKeep /\ \A c : HasFooter(c)' = HasFooter(c)
    BY <1>2 DEF FilesKeep, HasFooter
  <2> QED BY <1>1, <1>2, <2>1 DEF FoundersInv, AtRest
<1>6. SchemaCoversFiles' /\ SoundInv'
  BY <1>1, <1>2 DEF SchemaCoversFiles, SoundInv, HasFooter
<1> QED BY <1>3, <1>4, <1>5, <1>6

\* What a scan that is opened finds.
LEMMA ToOpenScan ==
  ASSUME NEW path, IInv, OpenScan(path)
  PROVE  /\ phase = "idle" /\ AtRest /\ tree' = schema_file
         /\ UNCHANGED <<schema_file, files, sessionVars, history>>
         /\ path \subseteq Leaves(schema_file)
<1>1. phase = "idle" /\ AtRest
  BY DEF OpenScan, AtRest
<1> QED BY <1>1, DefinedTree DEF OpenScan

\* Files without a footer were lost in a close.
LEMMA ScanOfTornFilesInv ==
  ASSUME NEW path, IInv, OpenScan(path), phase' # "scanning"
  PROVE  IInv'
<1>1. phase' = "undefined" /\ scan' = scan /\ \E c \in path : ~HasFooter(c)
  BY DEF OpenScan
<1>2. SessionTypeOK' /\ SessionInv' /\ FoundersInv' /\ SchemaCoversFiles' /\ SoundInv'
  BY <1>1, ToOpenScan, ScanFrame
<1>3. torn
  BY <1>1, ToOpenScan DEF IInv, FoundersInv
<1>4. torn'
  BY <1>3, ToOpenScan DEF history
<1>5. scan' \in Scanner /\ ScanInv' /\ PositionInv'
  BY <1>1, ToOpenScan, SessionStep
<1>6. StopsHaveCause'
  BY <1>1, <1>4 DEF StopsHaveCause
<1> QED BY <1>2, <1>5, <1>6 DEF IInv

\* A scan opens.
LEMMA OpenScanInv ==
  ASSUME NEW path \in (SUBSET Columns) \ {{}}, IInv, OpenScan(path), phase' = "scanning"
  PROVE  IInv'
<1>1. /\ phase = "idle" /\ phase' = "scanning" /\ tree' = schema_file
      /\ UNCHANGED <<schema_file, files, sessionVars, history>>
      /\ path \subseteq Leaves(schema_file) /\ \A c \in path : HasFooter(c)
      /\ scan' = [NoScan EXCEPT !.path = path,
                                !.cur = {c \in path : files[c].valid <= 0},
                                !.reinit = {files[c].valid : c \in path}]
  <2>1. phase' # "undefined"
    OBVIOUS
  <2>2. /\ \A c \in path : HasFooter(c)
        /\ scan' = [NoScan EXCEPT !.path = path,
                                  !.cur = {c \in path : files[c].valid <= 0},
                                  !.reinit = {files[c].valid : c \in path}]
    BY <2>1, Zenon DEF OpenScan
  <2> QED BY <2>2, ToOpenScan
<1>2. SessionTypeOK' /\ SessionInv' /\ FoundersInv' /\ SchemaCoversFiles' /\ SoundInv'
  BY <1>1, ScanFrame
<1>3. SessionTypeOK /\ SessionInv
  BY DEF IInv
<1>4. \A c \in path : HasFooter(c) /\ files[c] \in Column /\ files[c].valid \in Nat
  <2>1. ASSUME NEW c \in path PROVE HasFooter(c) /\ files[c] \in Column
    BY <1>1, <1>3 DEF HasFooter, SessionTypeOK
  <2> QED BY <2>1, ColumnFields
<1>5. /\ scan'.path = path /\ scan'.cur = {c \in path : files[c].valid <= 0}
      /\ scan'.reinit = {files[c].valid : c \in path}
      /\ scan'.recd_idx = 0 /\ scan'.rows = <<>> /\ scan'.cap = BufferCap /\ scan'.used = 0
      /\ scan'.num = 0 /\ scan'.filling = FALSE /\ scan'.out = <<>>
  BY <1>1 DEF NoScan
<1>6. Len(<<>>) = 0
  BY EmptySeq
<1>7. scan' \in Scanner
  <2>1. {files[c].valid : c \in path} \in SUBSET Nat /\ {c \in path : files[c].valid <= 0} \in SUBSET Columns
    BY <1>4
  <2>2. NoScan \in Scanner
    BY NoScanType
  <2> DEFINE cur == {c \in path : files[c].valid <= 0}
             reinit == {files[c].valid : c \in path}
  <2>3. scan' = [NoScan EXCEPT !.path = path, !.cur = cur, !.reinit = reinit]
    BY <1>1
  <2>4. cur \in SUBSET Columns /\ reinit \in SUBSET Nat /\ path \in SUBSET Columns
    BY <2>1
  <2> HIDE DEF cur, reinit
  <2> QED BY <2>2, <2>3, <2>4 DEF Scanner
<1>8. ScanInv'
  <2>1. \A c \in path : HasFooter(c)'
    BY <1>1, <1>4 DEF HasFooter
  <2>2. scan'.cur \subseteq scan'.path /\ scan'.path # {}
    <3>1. path # {}
      BY Zenon
    <3>2. {c \in path : files[c].valid <= 0} \subseteq path
      BY Zenon
    <3> QED BY <1>5, <3>1, <3>2
  <2>3. /\ scan'.num <= Len(scan'.rows) /\ Len(scan'.rows) <= RowCap
        /\ scan'.used <= scan'.cap /\ BufferCap <= scan'.cap
    BY <1>5, <1>6, ConstantsAssumption
  <2>4. path \subseteq Leaves(tree')
    BY <1>1
  <2> QED BY <1>1, <1>5, <2>1, <2>2, <2>3, <2>4 DEF ScanInv
<1>9. PositionInv'
  <2>1. closed_num' = closed_num /\ files' = files /\ closed_num \in Nat
    BY <1>1, <1>3 DEF history, SessionTypeOK
  <2>2. scan'.reinit = {v \in {files[c].valid : c \in path} : v >= 0}
    BY <1>4, <1>5
  <2>3. \A c \in path : /\ files[c].valid < 0 => c \in scan'.cur
                        /\ c \in scan'.cur => files[c].valid <= 0
    BY <1>4, <1>5
  <2>4. Position(scan.path, scan.cur, scan.reinit, scan.recd_idx, 0, scan.out)'
    BY <1>5, <1>6, <2>1, <2>2, <2>3 DEF Position
  <2>5. Buffered(scan.path, scan.rows, scan.recd_idx)'
    BY <1>5, <1>6 DEF Buffered
  <2> QED BY <1>5, <2>4, <2>5 DEF PositionInv
<1>10. StopsHaveCause'
  BY <1>1 DEF StopsHaveCause
<1> QED BY <1>2, <1>7, <1>8, <1>9, <1>10 DEF IInv

\* What is known when a scan goes on.
LEMMA ScanningFacts ==
  ASSUME IInv, phase = "scanning"
  PROVE  /\ \A c \in scan.path : HasFooter(c) /\ files[c] \in Column
         /\ scan.path # {} /\ scan.path \subseteq Leaves(tree) /\ scan.cur \subseteq scan.path
         /\ scan.num <= Len(scan.rows) /\ Len(scan.rows) <= RowCap
         /\ scan.used <= scan.cap /\ BufferCap <= scan.cap
         /\ scan.rows = <<>> => scan.used = 0
         /\ scan.filling => scan.num = 0
         /\ closed_num \in Nat /\ Len(input) = closed_num
         /\ scan \in Scanner
<1>1. SessionTypeOK /\ SessionInv /\ ScanInv /\ scan \in Scanner
  BY DEF IInv
<1>2. ASSUME NEW c \in scan.path PROVE HasFooter(c) /\ files[c] \in Column
  BY <1>1, ScanFields DEF ScanInv, SessionTypeOK, HasFooter
<1> QED BY <1>1, <1>2 DEF ScanInv, SessionInv, SessionTypeOK

\* The buffer is emptied for the next rows.
LEMMA BeginBufferInv == IInv /\ BeginBuffer => IInv'
<1> SUFFICES ASSUME IInv, BeginBuffer PROVE IInv'
  OBVIOUS
<1>1. /\ phase = "scanning" /\ phase' = "scanning" /\ tree' = tree
      /\ UNCHANGED <<schema_file, files, sessionVars, history>>
      /\ scan.filling = FALSE /\ scan.num = 0
  BY DEF BeginBuffer, Scanning
<1>2. SessionTypeOK' /\ SessionInv' /\ FoundersInv' /\ SchemaCoversFiles' /\ SoundInv'
  BY <1>1, ScanFrame
<1>3. PICK cap \in Nat : /\ scan.cap <= cap
                         /\ scan' = [scan EXCEPT !.rows = <<>>, !.used = 0, !.filling = TRUE,
                                                 !.dbl = FALSE, !.cap = cap]
  <2> DEFINE new == IF scan.dbl THEN 2 * scan.cap ELSE scan.cap
  <2>1. scan.cap \in Nat
    BY <1>1, ScanningFacts, ScanFields
  <2>2. new \in Nat /\ scan.cap <= new
    BY <2>1
  <2>3. scan' = [scan EXCEPT !.rows = <<>>, !.used = 0, !.filling = TRUE, !.dbl = FALSE,
                             !.cap = new]
    BY DEF BeginBuffer
  <2> HIDE DEF new
  <2> QED BY <2>2, <2>3, Zenon
<1>4. <<>> \in Seq(Rows) /\ Len(<<>>) = 0
  BY EmptySeq
<1>5. scan \in Scanner
  BY <1>1, ScanningFacts
<1>6. scan' \in Scanner
  <2> HIDE DEF Rows
  <2> QED BY <1>3, <1>4, <1>5 DEF Scanner
<1>7. /\ scan'.path = scan.path /\ scan'.cur = scan.cur /\ scan'.reinit = scan.reinit
      /\ scan'.recd_idx = scan.recd_idx /\ scan'.rows = <<>> /\ scan'.cap = cap
      /\ scan'.used = 0 /\ scan'.num = 0 /\ scan'.filling = TRUE /\ scan'.out = scan.out
  <2> HIDE DEF Rows
  <2> QED BY <1>1, <1>3, <1>5 DEF Scanner
<1>8. ScanInv'
  <2>1. \A c \in scan.path : HasFooter(c)'
    BY <1>1, ScanningFacts DEF HasFooter
  <2>2. BufferCap <= scan.cap /\ scan.cap \in Nat
    BY <1>1, <1>5, ScanningFacts, ScanFields
  <2>3. BufferCap <= cap
    BY <1>3, <2>2, ConstantsAssumption
  <2> QED BY <1>1, <1>4, <1>7, <2>1, <2>3, ScanningFacts, ConstantsAssumption DEF ScanInv
<1>9. PositionInv'
  <2>1. PositionInv
    BY DEF IInv
  <2>2. /\ closed_num' = closed_num /\ files' = files /\ input' = input /\ founders' = founders
        /\ torn' = torn
    BY <1>1 DEF history
  <2> SUFFICES ASSUME ~torn, scan.path \subseteq founders PROVE PositionInv'
    BY <1>7, <2>2 DEF PositionInv
  <2>3. Position(scan.path, scan.cur, scan.reinit, scan.recd_idx, 0, scan.out)'
    <3>1. Position(scan.path, scan.cur, scan.reinit, scan.recd_idx, 0, scan.out)
      BY <1>1, <2>1 DEF PositionInv
    <3> QED BY <1>7, <2>2, <3>1 DEF Position
  <2>4. Buffered(scan.path, scan.rows, scan.recd_idx)'
    BY <1>4, <1>7 DEF Buffered
  <2> QED BY <1>4, <1>7, <2>3, <2>4 DEF PositionInv
<1>10. StopsHaveCause'
  BY <1>1 DEF StopsHaveCause
<1> QED BY <1>2, <1>6, <1>8, <1>9, <1>10 DEF IInv

\* The rows assembled are there to be returned.
LEMMA EndBufferInv == IInv /\ EndBuffer => IInv'
<1> SUFFICES ASSUME IInv, EndBuffer PROVE IInv'
  OBVIOUS
<1>1. /\ phase = "scanning" /\ phase' = "scanning" /\ tree' = tree
      /\ UNCHANGED <<schema_file, files, sessionVars, history>>
      /\ scan.filling = TRUE
      /\ scan' = [scan EXCEPT !.filling = FALSE, !.num = Len(scan.rows), !.dbl = NeedsRoom]
  BY DEF EndBuffer, Scanning
<1>2. SessionTypeOK' /\ SessionInv' /\ FoundersInv' /\ SchemaCoversFiles' /\ SoundInv'
  BY <1>1, ScanFrame
<1>3. scan \in Scanner /\ Len(scan.rows) \in Nat /\ NeedsRoom \in BOOLEAN
  BY <1>1, ScanningFacts, ScanFields DEF NeedsRoom
<1>4. scan' \in Scanner
  <2> HIDE DEF Rows, NeedsRoom
  <2> QED BY <1>1, <1>3 DEF Scanner
<1>5. /\ scan'.path = scan.path /\ scan'.cur = scan.cur /\ scan'.reinit = scan.reinit
      /\ scan'.recd_idx = scan.recd_idx /\ scan'.rows = scan.rows /\ scan'.cap = scan.cap
      /\ scan'.used = scan.used /\ scan'.num = Len(scan.rows) /\ scan'.filling = FALSE
      /\ scan'.out = scan.out
  <2> HIDE DEF Rows, NeedsRoom
  <2> QED BY <1>1, <1>3 DEF Scanner
<1>6. ScanInv'
  <2>1. \A c \in scan.path : HasFooter(c)'
    BY <1>1, ScanningFacts DEF HasFooter
  <2> QED BY <1>1, <1>3, <1>5, <2>1, ScanningFacts DEF ScanInv
<1>7. PositionInv'
  <2>1. PositionInv
    BY DEF IInv
  <2>2. /\ closed_num' = closed_num /\ files' = files /\ input' = input /\ founders' = founders
        /\ torn' = torn
    BY <1>1 DEF history
  <2> SUFFICES ASSUME ~torn, scan.path \subseteq founders PROVE PositionInv'
    BY <1>5, <2>2 DEF PositionInv
  <2>3. Position(scan.path, scan.cur, scan.reinit, scan.recd_idx, Len(scan.rows), scan.out)'
    <3>1. Position(scan.path, scan.cur, scan.reinit, scan.recd_idx, Len(scan.rows), scan.out)
      BY <1>1, <2>1 DEF PositionInv
    <3> QED BY <1>5, <2>2, <3>1, Zenon DEF Position
  <2>4. Buffered(scan.path, scan.rows, scan.recd_idx)'
    BY <1>1, <1>5, <2>1, <2>2 DEF PositionInv, Buffered
  <2> QED BY <1>5, <2>3, <2>4 DEF PositionInv
<1>8. StopsHaveCause'
  BY <1>1 DEF StopsHaveCause
<1> QED BY <1>2, <1>4, <1>6, <1>7, <1>8 DEF IInv

\* The scan is over.
LEMMA CloseScanInv == IInv /\ CloseScan => IInv'
<1> SUFFICES ASSUME IInv, CloseScan PROVE IInv'
  OBVIOUS
<1>1. /\ phase = "scanning" /\ phase' = "idle" /\ tree' = tree /\ scan' = NoScan
      /\ UNCHANGED <<schema_file, files, sessionVars, history>>
  BY DEF CloseScan, NoNext, Scanning
<1>2. SessionTypeOK' /\ SessionInv' /\ FoundersInv' /\ SchemaCoversFiles' /\ SoundInv'
  BY <1>1, ScanFrame
<1>3. ScanInv'
  <2>1. NoScan.cur \subseteq NoScan.path
    BY DEF NoScan
  <2> HIDE DEF NoScan
  <2> QED BY <1>1, <2>1, NoScanType, ConstantsAssumption DEF ScanInv
<1>4. PositionInv' /\ StopsHaveCause'
  BY <1>1 DEF PositionInv, StopsHaveCause
<1> QED BY <1>1, <1>2, <1>3, <1>4, NoScanType DEF IInv

\* The columns read are among those scanned.
LEMMA CurrentScanned ==
  ASSUME IInv, phase = "scanning"
  PROVE  CurrentColumns \subseteq scan.path
<1>1. scan.cur \subseteq scan.path
  BY ScanningFacts
<1>2. {c \in scan.path : files[c].valid <= scan.recd_idx} \subseteq scan.path
  BY Zenon
<1> QED BY <1>1, <1>2 DEF CurrentColumns

\* A column with a record has an item for it.
LEMMA ItemReadType ==
  ASSUME IInv, phase = "scanning", NEW c \in CurrentColumns, HasRecord(c)
  PROVE  /\ c \in scan.path /\ files[c] \in Column /\ HasFooter(c)
         /\ scan.recd_idx \in files[c].bgn..(End(files[c]) - 1)
         /\ scan.recd_idx - files[c].bgn + 1 \in 1..Len(files[c].recds)
         /\ files[c].bgn + (scan.recd_idx - files[c].bgn + 1) = scan.recd_idx + 1
         /\ ItemRead(c) = files[c].recds[scan.recd_idx - files[c].bgn + 1]
         /\ ItemRead(c) \in Garbage..MaxRecds
<1>1. c \in scan.path /\ files[c] \in Column /\ HasFooter(c) /\ scan.recd_idx \in Nat
  BY CurrentScanned, ScanningFacts, ScanFields
<1>2. files[c].bgn \in Nat /\ files[c].recds \in Seq(Garbage..MaxRecds) /\ End(files[c]) \in Nat
  BY <1>1, ColumnFields
<1>3. scan.recd_idx \in files[c].bgn..(End(files[c]) - 1)
  BY <1>1, <1>2 DEF HasRecord
<1>4. /\ scan.recd_idx - files[c].bgn + 1 \in 1..Len(files[c].recds)
      /\ files[c].bgn + (scan.recd_idx - files[c].bgn + 1) = scan.recd_idx + 1
  BY <1>1, <1>3, Positions
<1>5. ItemRead(c) = files[c].recds[scan.recd_idx - files[c].bgn + 1]
  BY DEF ItemRead, ItemOf
<1>6. ItemRead(c) \in Garbage..MaxRecds
  BY <1>2, <1>4, <1>5, ElementOfSeq
<1> QED BY <1>1, <1>3, <1>4, <1>5, <1>6

\* The row assembled has an item of each column that is read.
LEMMA NextRowType ==
  ASSUME IInv, phase = "scanning", \A c \in CurrentColumns : IsReadable(c)
  PROVE  NextRow \in Rows /\ RowLength(NextRow) \in Nat
<1> DEFINE cur == CurrentColumns
           some == {k \in cur : ItemRead(k) # 0}
<1>1. cur \subseteq Columns
  BY CurrentScanned, ScanningFacts, ScanFields
<1>2. ASSUME NEW c \in cur PROVE ItemRead(c) \in 0..MaxRecds
  <2>1. HasRecord(c) /\ ItemRead(c) # Garbage
    BY DEF IsReadable
  <2>2. ItemRead(c) \in Garbage..MaxRecds
    BY <2>1, ItemReadType
  <2> QED BY <2>1, <2>2, ConstantsAssumption DEF Garbage
<1>3. NextRow = [c \in some |-> ItemRead(c)]
  BY DEF NextRow, Assembled
<1> HIDE DEF cur
<1>4. some \in SUBSET Columns /\ some \subseteq cur
  BY <1>1
<1>5. \A c \in some : ItemRead(c) \in 0..MaxRecds
  BY <1>2, <1>4
<1> HIDE DEF some
<1>6. NextRow \in [some -> 0..MaxRecds] /\ DOMAIN NextRow = some
  BY <1>3, <1>5
<1>7. Cardinality(some) \in Nat
  BY <1>4, ConstantsAssumption, FS_Subset, FS_CardinalityType
<1> QED BY <1>4, <1>6, <1>7 DEF Rows, RowLength

\* A scan of founders knows where it is.
LEMMA FounderScan ==
  ASSUME IInv, phase = "scanning", ~torn, scan.path \subseteq founders
  PROVE  /\ Position(scan.path, scan.cur, scan.reinit, scan.recd_idx,
                     IF scan.filling THEN Len(scan.rows) ELSE scan.num, scan.out)
         /\ Buffered(scan.path, scan.rows, scan.recd_idx)
         /\ \A c \in scan.path :
              /\ End(files[c]) = closed_num /\ files[c].bgn \in Nat /\ files[c].valid \in Nat
              /\ files[c].bgn <= files[c].valid /\ files[c].valid < closed_num
              /\ \A r \in files[c].bgn..(closed_num - 1) :
                   ItemOf(files[c], r) \in {Item(input, c, r), Garbage}
              /\ \A r \in 0..(closed_num - 1) : Item(input, c, r) # 0 => r >= files[c].valid
<1>1. PositionInv /\ FilesKeep
  BY DEF IInv, FoundersInv, AtRest
<1>2. ASSUME NEW c \in scan.path
      PROVE  /\ KeptButTail(input, files[c], c, closed_num)
             /\ files[c].bgn \in Nat /\ files[c].valid \in Nat
  BY <1>1, ScanningFacts, ColumnFields DEF FilesKeep
<1>3. \A c \in scan.path :
        /\ End(files[c]) = closed_num /\ files[c].bgn \in Nat /\ files[c].valid \in Nat
        /\ files[c].bgn <= files[c].valid /\ files[c].valid < closed_num
        /\ \A r \in files[c].bgn..(closed_num - 1) :
             ItemOf(files[c], r) \in {Item(input, c, r), Garbage}
        /\ \A r \in 0..(closed_num - 1) : Item(input, c, r) # 0 => r >= files[c].valid
  BY <1>2 DEF KeptButTail
<1> QED BY <1>1, <1>3 DEF PositionInv

\* The columns it reads next are those whose first value is not ahead.
LEMMA CurrentOfFounders ==
  ASSUME IInv, phase = "scanning", ~torn, scan.path \subseteq founders
  PROVE  CurrentColumns = {c \in scan.path : files[c].valid <= scan.recd_idx}
<1>1. /\ scan.reinit = {v \in {files[c].valid : c \in scan.path} : v >= scan.recd_idx}
      /\ \A c \in scan.path : /\ files[c].valid < scan.recd_idx => c \in scan.cur
                              /\ c \in scan.cur => files[c].valid <= scan.recd_idx
      /\ \A c \in scan.path : files[c].valid \in Nat
  BY FounderScan DEF Position
<1>2. scan.cur \subseteq scan.path /\ scan.recd_idx \in Nat
  BY ScanningFacts, ScanFields
<1>3. CASE \E v \in scan.reinit : v <= scan.recd_idx
  BY <1>3 DEF CurrentColumns
<1>4. CASE ~\E v \in scan.reinit : v <= scan.recd_idx
  <2>1. CurrentColumns = scan.cur
    BY <1>4 DEF CurrentColumns
  <2>2. ASSUME NEW c \in scan.path PROVE files[c].valid # scan.recd_idx
    <3>1. ASSUME files[c].valid = scan.recd_idx PROVE FALSE
      <4>1. files[c].valid \in scan.reinit
        BY <1>1, <1>2, <3>1
      <4> QED BY <1>2, <1>4, <3>1, <4>1
    <3> QED BY <3>1
  <2>3. \A c \in scan.path : c \in scan.cur <=> files[c].valid <= scan.recd_idx
    BY <1>1, <1>2, <2>2
  <2> QED BY <1>2, <2>1, <2>3
<1> QED BY <1>3, <1>4

\* The row it assembles is what the next record has in the columns scanned.
LEMMA NextRowOfFounders ==
  ASSUME IInv, phase = "scanning", ~torn, scan.path \subseteq founders,
         \A c \in CurrentColumns : IsReadable(c)
  PROVE  NextRow = RowOf(scan.path, input, scan.recd_idx) /\ scan.recd_idx < closed_num
<1> SUFFICES ASSUME NEW n, n = closed_num, NEW r, r = scan.recd_idx, NEW path, path = scan.path
             PROVE  NextRow = RowOf(path, input, r) /\ r < n
  OBVIOUS
<1>1. n \in Nat /\ r \in Nat /\ path # {}
  BY ScanningFacts, ScanFields
<1>2. \A c \in path :
        /\ End(files[c]) = n /\ files[c].bgn \in Nat /\ files[c].valid \in Nat
        /\ files[c].bgn <= files[c].valid /\ files[c].valid < n
        /\ \A q \in files[c].bgn..(n - 1) : ItemOf(files[c], q) \in {Item(input, c, q), Garbage}
        /\ \A q \in 0..(n - 1) : Item(input, c, q) # 0 => q >= files[c].valid
  BY FounderScan
<1>3. CurrentColumns = {c \in path : files[c].valid <= r}
  BY CurrentOfFounders
<1>4. r < n
  <2>1. PICK c \in path : TRUE
    BY <1>1
  <2>2. CASE files[c].valid <= r
    <3>1. HasRecord(c)
      BY <1>3, <2>2 DEF IsReadable
    <3> QED BY <1>2, <3>1 DEF HasRecord
  <2>3. CASE ~(files[c].valid <= r)
    BY <1>1, <1>2, <2>3
  <2> QED BY <2>2, <2>3
<1> DEFINE item(c) == ItemOf(files[c], r)
           some == {k \in CurrentColumns : item(k) # 0}
<1>5. ASSUME NEW c \in CurrentColumns PROVE item(c) = Item(input, c, r)
  <2>1. c \in path /\ files[c].valid <= r
    BY <1>3
  <2>2. r \in files[c].bgn..(n - 1)
    BY <1>1, <1>2, <1>4, <2>1
  <2>3. item(c) # Garbage
    BY DEF IsReadable, ItemRead
  <2> QED BY <1>2, <2>1, <2>2, <2>3
<1>6. ASSUME NEW c \in path, c \in input[r + 1] PROVE c \in CurrentColumns
  <2>1. Item(input, c, r) # 0 /\ r \in 0..(n - 1)
    BY <1>1, <1>4, <1>6 DEF Item
  <2>2. files[c].valid <= r
    BY <1>1, <1>2, <2>1
  <2> QED BY <1>3, <2>2
<1>7. NextRow = [c \in some |-> item(c)]
  BY DEF NextRow, Assembled, ItemRead
<1> HIDE DEF item
<1>8. some = path \cap input[r + 1]
  <2>1. ASSUME NEW c \in some PROVE c \in path /\ c \in input[r + 1]
    BY <1>1, <1>3, <1>5 DEF Item
  <2>2. ASSUME NEW c \in path, c \in input[r + 1] PROVE c \in some
    BY <1>1, <1>5, <1>6, <2>2 DEF Item
  <2> HIDE DEF some
  <2> QED BY <2>1, <2>2
<1>9. \A c \in some : item(c) = r + 1
  BY <1>5, <1>8 DEF Item
<1> HIDE DEF some
<1> QED BY <1>4, <1>7, <1>8, <1>9 DEF RowOf

\* A row behind those buffered.
LEMMA BufferedAppend ==
  ASSUME NEW path, NEW rows \in Seq(Rows), NEW row \in Rows, NEW r \in Nat,
         Buffered(path, rows, r), row = RowOf(path, input, r)
  PROVE  Buffered(path, Append(rows, row), r + 1)
<1>1. /\ Len(Append(rows, row)) = Len(rows) + 1
      /\ \A k \in 1..Len(rows) : Append(rows, row)[k] = rows[k]
      /\ Append(rows, row)[Len(rows) + 1] = row
      /\ Len(rows) \in Nat
  BY AppendProperties, LenProperties
<1> SUFFICES ASSUME NEW new, \A k \in 1..Len(rows) : new[k] = rows[k], new[Len(rows) + 1] = row,
                    NEW l \in Nat, l = Len(rows), Len(new) = l + 1
             PROVE  Buffered(path, new, r + 1)
  BY <1>1
<1>2. ASSUME NEW k \in 1..(l + 1)
      PROVE  new[k] = RowOf(path, input, r + 1 - (l + 1) + k - 1)
  <2>1. r + 1 - (l + 1) + k - 1 = r - l + k - 1 /\ (k \in 1..l \/ k = l + 1)
    OBVIOUS
  <2>2. CASE k \in 1..l
    <3>1. rows[k] = RowOf(path, input, r - l + k - 1)
      BY <2>2 DEF Buffered
    <3> QED BY <2>1, <2>2, <3>1
  <2>3. CASE k = l + 1
    <3>1. r - l + k - 1 = r
      BY <2>3
    <3> QED BY <2>1, <2>3, <3>1
  <2> QED BY <2>1, <2>2, <2>3
<1> QED BY <1>2 DEF Buffered

\* What the assembling of a row changes has the types of the fields.
LEMMA ScannerStep ==
  ASSUME NEW s \in Scanner, NEW cur \in SUBSET Columns, NEW reinit \in SUBSET Nat,
         NEW idx \in Nat, NEW rows \in Seq(Rows), NEW used \in Nat
  PROVE  [s EXCEPT !.cur = cur, !.reinit = reinit, !.recd_idx = idx, !.rows = rows,
                   !.used = used] \in Scanner
BY DEF Scanner

\* A row is assembled.
LEMMA AssembleNextInv == IInv /\ AssembleNext => IInv'
<1> SUFFICES ASSUME IInv, AssembleNext PROVE IInv'
  OBVIOUS
<1> SUFFICES ASSUME NEW cur, cur = CurrentColumns, NEW row, row = NextRow,
                    NEW len, len = RowLength(NextRow),
                    NEW reinit, reinit = {v \in scan.reinit : v > scan.recd_idx}
             PROVE  IInv'
  OBVIOUS
<1>1. /\ phase = "scanning" /\ phase' = "scanning" /\ tree' = tree
      /\ UNCHANGED <<schema_file, files, sessionVars, history>>
      /\ scan.filling = TRUE /\ Len(scan.rows) # RowCap
      /\ len <= Room /\ \A c \in cur : IsReadable(c)
      /\ scan' = [scan EXCEPT !.cur = cur, !.reinit = reinit, !.recd_idx = @ + 1,
                              !.rows = Append(@, row), !.used = @ + len]
  BY DEF AssembleNext, ReadsNext, Scanning, RowsFull
<1>2. SessionTypeOK' /\ SessionInv' /\ FoundersInv' /\ SchemaCoversFiles' /\ SoundInv'
  BY <1>1, ScanFrame
<1>3. row \in Rows /\ len \in Nat
  BY <1>1, NextRowType
<1>4. /\ scan \in Scanner /\ scan.cap \in Nat /\ scan.used \in Nat /\ scan.recd_idx \in Nat
      /\ scan.rows \in Seq(Rows) /\ Len(scan.rows) \in Nat /\ Len(scan.out) \in Nat
      /\ scan.reinit \subseteq Nat /\ scan.path \subseteq Columns
  BY <1>1, ScanningFacts, ScanFields
<1>5. cur \subseteq scan.path
  <2>1. scan.cur \subseteq scan.path
    BY <1>1, ScanningFacts
  <2>2. {c \in scan.path : files[c].valid <= scan.recd_idx} \subseteq scan.path
    BY Zenon
  <2> QED BY <2>1, <2>2 DEF CurrentColumns
<1>6. /\ Append(scan.rows, row) \in Seq(Rows) /\ Append(scan.rows, row) # <<>>
      /\ Len(Append(scan.rows, row)) = Len(scan.rows) + 1
      /\ \A k \in 1..Len(scan.rows) : Append(scan.rows, row)[k] = scan.rows[k]
      /\ Append(scan.rows, row)[Len(scan.rows) + 1] = row
  BY <1>3, <1>4, AppendProperties
<1>7. reinit \subseteq Nat
  BY <1>4
<1>8. scan' \in Scanner
  <2>1. scan.recd_idx + 1 \in Nat /\ scan.used + len \in Nat /\ cur \subseteq Columns
    BY <1>3, <1>4, <1>5
  <2>2. scan' = [scan EXCEPT !.cur = cur, !.reinit = reinit, !.recd_idx = scan.recd_idx + 1,
                             !.rows = Append(scan.rows, row), !.used = scan.used + len]
    BY <1>1
  <2> DEFINE rows == Append(scan.rows, row)
             idx == scan.recd_idx + 1
             used == scan.used + len
  <2>3. scan' = [scan EXCEPT !.cur = cur, !.reinit = reinit, !.recd_idx = idx,
                             !.rows = rows, !.used = used]
    BY <2>2
  <2>4. rows \in Seq(Rows) /\ idx \in Nat /\ used \in Nat
    BY <1>6, <2>1
  <2>5. scan \in Scanner /\ cur \in SUBSET Columns /\ reinit \in SUBSET Nat
    BY <1>4, <1>7, <2>1
  <2> HIDE DEF rows, idx, used
  <2>6. [scan EXCEPT !.cur = cur, !.reinit = reinit, !.recd_idx = idx, !.rows = rows,
                     !.used = used] \in Scanner
    BY <2>4, <2>5, ScannerStep, Zenon
  <2> QED BY <2>3, <2>6, Zenon
<1>9. /\ scan'.path = scan.path /\ scan'.cur = cur /\ scan'.reinit = reinit
      /\ scan'.recd_idx = scan.recd_idx + 1 /\ scan'.rows = Append(scan.rows, row)
      /\ scan'.cap = scan.cap /\ scan'.used = scan.used + len /\ scan'.num = scan.num
      /\ scan'.filling = TRUE /\ scan'.out = scan.out
  <2> HIDE DEF Rows
  <2> QED BY <1>1, <1>4 DEF Scanner
<1>10. ScanInv'
  <2>1. \A c \in scan.path : HasFooter(c)'
    BY <1>1, ScanningFacts DEF HasFooter
  <2>2. scan.used + len <= scan.cap /\ Len(scan.rows) + 1 <= RowCap
    <3>1. Room = scan.cap - scan.used /\ Len(scan.rows) <= RowCap
      BY <1>1, ScanningFacts DEF Room
    <3>2. len <= scan.cap - scan.used /\ RowCap \in Nat
      BY <1>1, <3>1, ConstantsAssumption
    <3>3. \A a, b, c \in Nat : a <= b - c => c + a <= b
      OBVIOUS
    <3>4. \A a, b \in Nat : a <= b /\ a # b => a + 1 <= b
      OBVIOUS
    <3> QED BY <1>1, <1>3, <1>4, <3>1, <3>2, <3>3, <3>4
  <2>3. /\ scan.num = 0 /\ scan.path # {} /\ BufferCap <= scan.cap
        /\ scan.path \subseteq Leaves(tree)
    BY <1>1, ScanningFacts
  <2>4. 0 <= Len(scan.rows) + 1
    BY <1>4
  <2>5. scan'.cur \subseteq scan'.path /\ scan'.num <= Len(scan'.rows)
    BY <1>5, <1>6, <1>9, <2>3, <2>4
  <2>6. /\ Len(scan'.rows) <= RowCap /\ scan'.used <= scan'.cap /\ BufferCap <= scan'.cap
        /\ scan'.rows # <<>> /\ scan'.num = 0
    BY <1>6, <1>9, <2>2, <2>3
  <2>7. /\ scan'.path # {} /\ scan'.path \subseteq Leaves(tree')
        /\ \A c \in scan'.path : HasFooter(c)'
    BY <1>1, <1>9, <2>1, <2>3
  <2> QED BY <1>1, <2>5, <2>6, <2>7 DEF ScanInv
<1>11. PositionInv'
  <2>1. /\ closed_num' = closed_num /\ files' = files /\ input' = input /\ founders' = founders
        /\ torn' = torn /\ closed_num \in Nat
    BY <1>1, ScanningFacts DEF history
  <2> SUFFICES ASSUME ~torn, scan.path \subseteq founders PROVE PositionInv'
    BY <1>9, <2>1 DEF PositionInv
  <2> SUFFICES ASSUME NEW r \in Nat, r = scan.recd_idx, NEW l \in Nat, l = Len(scan.rows),
                      NEW rows, rows = Append(scan.rows, row), NEW path, path = scan.path
               PROVE  PositionInv'
    BY <1>4
  <2>2. /\ Position(path, scan.cur, scan.reinit, r, l, scan.out)
        /\ Buffered(path, scan.rows, r)
        /\ \A c \in path : files[c].valid \in Nat
    BY <1>1, FounderScan
  <2>3. row = RowOf(path, input, r) /\ r < closed_num
    BY <1>1, NextRowOfFounders
  <2>4. cur = {c \in path : files[c].valid <= r}
    BY <1>1, CurrentOfFounders
  <2>5. Position(path, cur, reinit, r + 1, l + 1, scan.out)
    <3>1. r + 1 <= closed_num /\ r + 1 = Len(scan.out) + (l + 1)
      <4>1. r = Len(scan.out) + l
        BY <2>2 DEF Position
      <4>2. \A a, b \in Nat : (a + b) + 1 = a + (b + 1)
        OBVIOUS
      <4>3. \A a, b \in Nat : a < b => a + 1 <= b
        OBVIOUS
      <4>4. r + 1 <= closed_num
        BY <2>1, <2>3, <4>3
      <4>5. r + 1 = Len(scan.out) + (l + 1)
        BY <1>4, <4>1, <4>2, ZenonT(30)
      <4> QED BY <4>4, <4>5
    <3>2. \A k \in 1..Len(scan.out) : scan.out[k] = RowOf(path, input, k - 1)
      BY <2>2 DEF Position
    <3>3. reinit = {v \in {files[c].valid : c \in path} : v >= r + 1}
      <4> DEFINE valids == {files[c].valid : c \in path}
      <4>1. valids \subseteq Nat
        BY <2>2
      <4>2. scan.reinit = {v \in valids : v >= r}
        BY <2>2 DEF Position
      <4> HIDE DEF valids
      <4>3. \A v \in Nat : v >= r /\ v > r <=> v >= r + 1
        OBVIOUS
      <4>4. reinit = {v \in valids : v >= r + 1}
        BY <4>1, <4>2, <4>3
      <4> QED BY <4>4 DEF valids
    <3>4. \A c \in path : /\ files[c].valid < r + 1 => c \in cur
                          /\ c \in cur => files[c].valid <= r + 1
      BY <2>2, <2>4
    <3> QED BY <3>1, <3>2, <3>3, <3>4 DEF Position
  <2>6. Buffered(path, rows, r + 1)
    BY <1>3, <1>4, <2>2, <2>3, BufferedAppend
  <2>7. Position(scan.path, scan.cur, scan.reinit, scan.recd_idx, Len(scan.rows), scan.out)'
    <3>1. /\ scan'.path = path /\ scan'.cur = cur /\ scan'.reinit = reinit
          /\ scan'.recd_idx = r + 1 /\ Len(scan'.rows) = l + 1 /\ scan'.out = scan.out
      BY <1>6, <1>9
    <3> QED BY <2>1, <2>5, <3>1, Zenon DEF Position
  <2>8. Buffered(scan.path, scan.rows, scan.recd_idx)'
    BY <1>9, <2>1, <2>6, Zenon DEF Buffered
  <2> QED BY <1>9, <2>7, <2>8 DEF PositionInv
<1>12. StopsHaveCause'
  BY <1>1 DEF StopsHaveCause
<1> QED BY <1>2, <1>8, <1>10, <1>11, <1>12 DEF IInv

\* A scan that breaks off leaves all else as it was.
LEMMA ScanBreaksInv ==
  ASSUME IInv, NEW outcome \in {"undefined", "hanging"}, ScanBreaks(outcome), StopsHaveCause'
  PROVE  IInv'
<1>1. /\ phase = "scanning" /\ phase' = outcome /\ tree' = tree /\ scan' = scan
      /\ UNCHANGED <<schema_file, files, sessionVars, history>>
  BY DEF ScanBreaks, ReadsNext, Scanning
<1>2. SessionTypeOK' /\ SessionInv' /\ FoundersInv' /\ SchemaCoversFiles' /\ SoundInv'
  BY <1>1, ScanFrame
<1>3. scan \in Scanner /\ ScanInv
  BY DEF IInv
<1>4. ScanInv' /\ PositionInv'
  BY <1>1, <1>3 DEF ScanInv, PositionInv
<1> QED BY <1>1, <1>2, <1>3, <1>4 DEF IInv

\* A row does not fit, and the code goes on with no memory for a part of it.
LEMMA RowTooLongInv == IInv /\ RowTooLong => IInv'
<1> SUFFICES ASSUME IInv, RowTooLong PROVE IInv'
  OBVIOUS
<1>1. /\ phase = "scanning" /\ phase' = "undefined" /\ files' = files /\ scan' = scan
      /\ ~RowsFull /\ ~NeedsRoom /\ ScanBreaks("undefined")
      /\ RowLength(NextRow) > Room /\ \A c \in CurrentColumns : IsReadable(c)
  BY DEF RowTooLong, ScanBreaks, ReadsNext, Scanning
<1>2. StopsHaveCause'
  <2>1. scan # NoScan
    BY <1>1, ScanningFacts DEF NoScan
  <2>2. RowLength(NextRow) > RecdMaxLen
    <3>1. RowLength(NextRow) \in Nat /\ Room \in Int
      BY <1>1, NextRowType, ScanningFacts, ScanFields DEF Room
    <3>2. ~(Room < RecdMaxLen)
      BY <1>1 DEF NeedsRoom
    <3> QED BY <1>1, <3>1, <3>2, ConstantsAssumption
  <2>3. RowLength(NextRow)' = RowLength(NextRow)
    BY <1>1 DEF RowLength, NextRow, Assembled, ItemRead, CurrentColumns
  <2>4. NoScan' = NoScan
    BY DEF NoScan
  <2> QED BY <1>1, <2>1, <2>2, <2>3, <2>4 DEF StopsHaveCause
<1> QED BY <1>1, <1>2, ScanBreaksInv

\* A block is decoded that is not the column's: it is in a tail CAB.
LEMMA ReadDamagedInv == IInv /\ ReadDamaged => IInv'
<1> SUFFICES ASSUME IInv, ReadDamaged PROVE IInv'
  OBVIOUS
<1>1. /\ phase = "scanning" /\ phase' = "undefined" /\ tree' = tree /\ files' = files
      /\ ScanBreaks("undefined")
  BY DEF ReadDamaged, ScanBreaks, ReadsNext, Scanning
<1>2. PICK c \in CurrentColumns : HasRecord(c) /\ ItemRead(c) = Garbage
  BY DEF ReadDamaged
<1> DEFINE col == files[c]
           i   == scan.recd_idx - col.bgn + 1
<1>3. /\ c \in scan.path /\ col \in Column /\ HasFooter(c)
      /\ scan.recd_idx \in col.bgn..(End(col) - 1)
      /\ i \in 1..Len(col.recds) /\ col.bgn + i = scan.recd_idx + 1
      /\ ItemRead(c) = col.recds[i]
  BY <1>1, <1>2, ItemReadType
<1>4. c \in Leaves(tree) /\ c \in Columns
  BY <1>1, <1>3, ScanningFacts, ScanFields
<1>5. scan.recd_idx + 1 > TailBgn(col)
  <2>1. Sound(col)
    BY <1>3, <1>4 DEF IInv, SoundInv
  <2>2. col.recds[i] = Garbage
    BY <1>2, <1>3
  <2> QED BY <1>3, <2>1, <2>2 DEF Sound
<1>6. TailIsDamaged(col)
  <2>1. End(col) \in Nat /\ TailBgn(col) \in Nat /\ scan.recd_idx \in Nat
    BY <1>1, <1>3, ColumnFields, AlignBegin, ScanningFacts, ScanFields DEF TailBgn
  <2>2. scan.recd_idx \in TailRecds(col)
    BY <1>3, <1>5, <2>1 DEF TailRecds
  <2>3. ItemOf(col, scan.recd_idx) = Garbage
    BY <1>2 DEF ItemRead
  <2> QED BY <2>2, <2>3 DEF TailIsDamaged
<1> HIDE DEF col, i
<1>7. StopsHaveCause'
  <2>1. c \in Leaves(tree') /\ HasFooter(c)' /\ TailIsDamaged(files'[c])
    BY <1>1, <1>3, <1>4, <1>6 DEF HasFooter, col
  <2> QED BY <1>1, <2>1 DEF StopsHaveCause
<1> QED BY <1>1, <1>7, ScanBreaksInv

\* The search for a CAB goes on forever: no CABInfo counts the record.
LEMMA SearchForeverInv == IInv /\ SearchForever => IInv'
<1> SUFFICES ASSUME IInv, SearchForever PROVE IInv'
  OBVIOUS
<1>1. /\ phase = "scanning" /\ phase' = "hanging" /\ files' = files /\ scan' = scan
      /\ ScanBreaks("hanging")
  BY DEF SearchForever, ScanBreaks, ReadsNext, Scanning
<1>2. PICK c \in CurrentColumns : HasRecord(c) /\ ~IsCounted(c)
  BY DEF SearchForever
<1>3. c \in scan.path /\ HasFooter(c) /\ c \in Columns
  BY <1>1, <1>2, ItemReadType, ScanningFacts, ScanFields
<1>4. files[c].uncounted # {}
  BY <1>2 DEF IsCounted
<1>5. HasNullCAB(files[c])
  BY <1>3, <1>4 DEF IInv, SoundInv, Sound
<1>6. StopsHaveCause'
  BY <1>1, <1>3, <1>5 DEF StopsHaveCause
<1> QED BY <1>1, <1>6, ScanBreaksInv

\* A row is returned.
LEMMA GetNextInv == IInv /\ GetNext => IInv'
<1> SUFFICES ASSUME IInv, GetNext PROVE IInv'
  OBVIOUS
<1> SUFFICES ASSUME NEW row, row = scan.rows[Len(scan.rows) - scan.num + 1] PROVE IInv'
  OBVIOUS
<1>1. /\ phase = "scanning" /\ phase' = "scanning" /\ tree' = tree
      /\ UNCHANGED <<schema_file, files, sessionVars, history>>
      /\ scan.filling = FALSE /\ scan.num > 0
      /\ scan' = [scan EXCEPT !.num = @ - 1, !.out = Append(@, row)]
  BY DEF GetNext, Scanning
<1>2. SessionTypeOK' /\ SessionInv' /\ FoundersInv' /\ SchemaCoversFiles' /\ SoundInv'
  BY <1>1, ScanFrame
<1>3. /\ scan \in Scanner /\ scan.num \in Nat /\ scan.recd_idx \in Nat
      /\ scan.rows \in Seq(Rows) /\ Len(scan.rows) \in Nat
      /\ scan.out \in Seq(Rows) /\ Len(scan.out) \in Nat /\ scan.num <= Len(scan.rows)
  BY <1>1, ScanningFacts, ScanFields
<1>4. row \in Rows /\ scan.num - 1 \in Nat /\ Len(scan.rows) - scan.num + 1 \in 1..Len(scan.rows)
  <2>1. scan.num - 1 \in Nat /\ Len(scan.rows) - scan.num + 1 \in 1..Len(scan.rows)
    BY <1>1, <1>3
  <2> QED BY <1>3, <2>1, ElementOfSeq
<1>5. /\ Append(scan.out, row) \in Seq(Rows) /\ Len(Append(scan.out, row)) = Len(scan.out) + 1
      /\ \A k \in 1..Len(scan.out) : Append(scan.out, row)[k] = scan.out[k]
      /\ Append(scan.out, row)[Len(scan.out) + 1] = row
  BY <1>3, <1>4, AppendProperties, SMTT(30)
<1>6. scan' \in Scanner
  <2> HIDE DEF Rows
  <2> QED BY <1>1, <1>3, <1>4, <1>5 DEF Scanner
<1>7. /\ scan'.path = scan.path /\ scan'.cur = scan.cur /\ scan'.reinit = scan.reinit
      /\ scan'.recd_idx = scan.recd_idx /\ scan'.rows = scan.rows /\ scan'.cap = scan.cap
      /\ scan'.used = scan.used /\ scan'.num = scan.num - 1 /\ scan'.filling = FALSE
      /\ scan'.out = Append(scan.out, row)
  <2> HIDE DEF Rows
  <2> QED BY <1>1, <1>3 DEF Scanner
<1>8. ScanInv'
  <2>1. \A c \in scan.path : HasFooter(c)'
    BY <1>1, ScanningFacts DEF HasFooter
  <2>2. scan.num - 1 <= Len(scan.rows)
    BY <1>3
  <2> QED BY <1>1, <1>7, <2>1, <2>2, ScanningFacts DEF ScanInv
<1>9. PositionInv'
  <2>1. /\ closed_num' = closed_num /\ files' = files /\ input' = input /\ founders' = founders
        /\ torn' = torn
    BY <1>1 DEF history
  <2> SUFFICES ASSUME ~torn, scan.path \subseteq founders PROVE PositionInv'
    BY <1>7, <2>1 DEF PositionInv
  <2> SUFFICES ASSUME NEW r \in Nat, r = scan.recd_idx, NEW l \in Nat, l = Len(scan.rows),
                      NEW m \in Nat, m = scan.num, NEW o \in Nat, o = Len(scan.out),
                      NEW out, out = Append(scan.out, row), NEW path, path = scan.path
               PROVE  PositionInv'
    BY <1>3
  <2>2. Position(path, scan.cur, scan.reinit, r, m, scan.out) /\ Buffered(path, scan.rows, r)
    BY <1>1, FounderScan
  <2>3. r = o + m
    BY <2>2 DEF Position
  <2>4. row = RowOf(path, input, o)
    <3>1. row = RowOf(path, input, r - l + (l - m + 1) - 1)
      BY <1>4, <2>2 DEF Buffered
    <3>2. (o + m) - l + (l - m + 1) - 1 = o
      BY SMTT(30)
    <3>3. r - l + (l - m + 1) - 1 = o
      BY <2>3, <3>2
    <3> QED BY <3>1, <3>3
  <2>5. Position(path, scan.cur, scan.reinit, r, m - 1, out)
    <3>1. r = Len(out) + (m - 1)
      <4>1. Len(out) = o + 1
        BY <1>5
      <4>2. \A a, b \in Nat : a + b = (a + 1) + (b - 1)
        OBVIOUS
      <4> QED BY <2>3, <4>1, <4>2
    <3>2. ASSUME NEW k \in 1..Len(out) PROVE out[k] = RowOf(path, input, k - 1)
      <4>1. k \in 1..o \/ k = o + 1
        BY <1>5
      <4>2. CASE k \in 1..o
        BY <1>5, <2>2, <4>2 DEF Position
      <4>3. CASE k = o + 1
        <5>1. k - 1 = o
          BY <4>3
        <5> QED BY <1>5, <2>4, <4>3, <5>1
      <4> QED BY <4>1, <4>2, <4>3
    <3> QED BY <2>2, <3>1, <3>2 DEF Position
  <2>6. Position(scan.path, scan.cur, scan.reinit, scan.recd_idx, scan.num, scan.out)'
    BY <1>7, <2>1, <2>5, Zenon DEF Position
  <2>7. Buffered(scan.path, scan.rows, scan.recd_idx)'
    BY <1>7, <2>1, <2>2, Zenon DEF Buffered
  <2> QED BY <1>7, <2>6, <2>7 DEF PositionInv
<1>10. StopsHaveCause'
  BY <1>1 DEF StopsHaveCause
<1> QED BY <1>2, <1>6, <1>8, <1>9, <1>10 DEF IInv

-----------------------------------------------------------------------------
(* The theorems.                                                           *)

\* Every step keeps the invariant.
LEMMA NextInv == IInv /\ [Next]_vars => IInv'
<1> SUFFICES ASSUME IInv, [Next]_vars PROVE IInv'
  OBVIOUS
<1>1. CASE OpenParser
  BY <1>1, OpenParserInv
<1>2. CASE ParseRecord
  BY <1>2, ParseRecordInv
<1>3. CASE Flush
  BY <1>3, FlushInv
<1>4. CASE CloseSchema
  BY <1>4, CloseSchemaInv
<1>5. CASE CloseColumn
  BY <1>5, CloseColumnInv
<1>6. CASE CloseParser
  BY <1>6, CloseParserInv
<1>7. CASE Crash
  BY <1>7, CrashInv
<1>8. CASE \E path \in (SUBSET Columns) \ {{}} : OpenScan(path)
  BY <1>8, OpenScanInv, ScanOfTornFilesInv
<1>9. CASE BeginBuffer
  BY <1>9, BeginBufferInv
<1>10. CASE AssembleNext
  BY <1>10, AssembleNextInv
<1>11. CASE RowTooLong
  BY <1>11, RowTooLongInv
<1>12. CASE EndBuffer
  BY <1>12, EndBufferInv
<1>13. CASE GetNext
  BY <1>13, GetNextInv
<1>14. CASE CloseScan
  BY <1>14, CloseScanInv
<1>15. CASE ReadDamaged
  BY <1>15, ReadDamagedInv
<1>16. CASE SearchForever
  BY <1>16, SearchForeverInv
<1>17. CASE UNCHANGED vars
  <2>1. /\ tree' = tree /\ schema_file' = schema_file /\ files' = files /\ phase' = phase
        /\ col_wts' = col_wts /\ txt_buf' = txt_buf /\ root_cnt' = root_cnt /\ batch' = batch
        /\ scan' = scan /\ input' = input /\ closed_num' = closed_num
        /\ founders' = founders /\ torn' = torn /\ opens' = opens
    BY <1>17 DEF vars, sessionVars, history
  <2>2. /\ SessionTypeOK' /\ scan' \in Scanner /\ SchemaCoversFiles' /\ SoundInv'
        /\ \A c : HasFooter(c)' = HasFooter(c)
    BY <2>1 DEF IInv, SessionTypeOK, SchemaCoversFiles, SoundInv, HasFooter
  <2>3. SessionInv' /\ ScanInv'
    BY <2>1, <2>2 DEF IInv, SessionInv, ScanInv, AtRest
  <2>4. FilesKeep' = FilesKeep /\ WritersKeep' = WritersKeep
    BY <2>1 DEF FilesKeep, WritersKeep
  <2>5. FoundersInv'
    BY <2>1, <2>2, <2>4 DEF IInv, FoundersInv, AtRest
  <2>6. PositionInv'
    BY <2>1 DEF IInv, PositionInv, Position, Buffered
  <2>7. RowLength(NextRow)' = RowLength(NextRow) /\ NoScan' = NoScan
    BY <2>1 DEF RowLength, NextRow, Assembled, ItemRead, CurrentColumns, NoScan
  <2>8. StopsHaveCause'
    BY <2>1, <2>2, <2>7 DEF IInv, StopsHaveCause
  <2> QED BY <2>2, <2>3, <2>5, <2>6, <2>8 DEF IInv
<1> QED BY <1>1, <1>2, <1>3, <1>4, <1>5, <1>6, <1>7, <1>8, <1>9, <1>10, <1>11, <1>12, <1>13,
           <1>14, <1>15, <1>16, <1>17 DEF Next

\* The invariant holds for any number of columns, sessions, records and crashes.
THEOREM Invariance == Spec => []IInv
<1> QED BY InitInv, NextInv, PTL DEF Spec

\* The fields of sessions and scans keep their types; a scan never uses more of its
\* buffer than there is (Buffer.h).
THEOREM Types == Spec => []TypeOK
<1>1. IInv => TypeOK
  BY Typed DEF IInv
<1> QED BY <1>1, Invariance, PTL

\* No column that was ever closed is created again: the SchemaTree is saved before
\* the columns are closed (~ColumnParser), so its file names them all.
THEOREM SchemaCovers == Spec => []SchemaCoversFiles
<1>1. IInv => SchemaCoversFiles
  BY DEF IInv
<1> QED BY <1>1, Invariance, PTL

\* Sessions and scans stop for the causes named and for no other.  A session fails to
\* open when one was lost while it was closing, when a tail CAB was stored over, or when
\* the copy of a tail finds no room (CABAppender.cpp:105-112); a scan breaks off at such
\* a tail or at a row beyond recd_max_len, and hangs only when one of its columns has a
\* CAB of nulls with records behind (CABLayouter.cpp:43, CABReader_inline.h:196-204).
THEOREM Causes == Spec => []StopsHaveCause
<1>1. IInv => StopsHaveCause
  BY DEF IInv
<1> QED BY <1>1, Invariance, PTL

\* The columns of the first session hold exactly their values at the ids of their
\* records, whatever sessions, and crashes outside a close, come after it: of the files
\* these can cost the partly filled tail CAB, and a session's writers hold all of it.
THEOREM FoundersHold == Spec => []FoundersHoldInput
<1>1. IInv => FoundersHoldInput
  <2> SUFFICES ASSUME IInv, ~torn, NEW c \in founders
               PROVE  /\ phase \notin {"closing", "undefined"} /\ HasFooter(c)
                           => HoldsButTail(files[c], c, closed_num)
                      /\ phase = "open" /\ batch = 0 => Holds(col_wts[c], c, Len(input))
    BY DEF FoundersHoldInput
  <2>1. /\ SessionTypeOK /\ SessionInv /\ FoundersInv /\ c \in Columns
        /\ closed_num \in Nat /\ Len(input) \in Nat
    BY LenProperties DEF IInv, SessionTypeOK
  <2>2. ASSUME phase \notin {"closing", "undefined"}, HasFooter(c)
        PROVE  HoldsButTail(files[c], c, closed_num)
    <3>1. ~(phase = "open" /\ closed_num = 0)
      BY <2>1, <2>2 DEF FoundersInv, WritersKeep, HasFooter
    <3>2. AtRest \/ (phase = "open" /\ closed_num > 0)
      BY <2>1, <2>2, <3>1 DEF AtRest, SessionTypeOK
    <3>3. KeptButTail(input, files[c], c, closed_num)
      BY <2>1, <3>2 DEF FoundersInv, FilesKeep
    <3> QED BY <3>3 DEF KeptButTail, HoldsButTail, Expected, Item
  <2>3. ASSUME phase = "open", batch = 0 PROVE Holds(col_wts[c], c, Len(input))
    <3>1. c \in Leaves(tree) /\ Kept(input, col_wts[c], txt_buf[c], c, Len(input))
      BY <2>1, <2>3 DEF FoundersInv, WritersKeep
    <3>2. txt_buf[c] = <<>>
      BY <2>1, <2>3 DEF SessionInv
    <3>3. col_wts[c] \in Written
      BY <2>3, <3>1, OpenFacts
    <3> SUFFICES ASSUME NEW col \in Written, NEW n \in Nat, Kept(input, col, <<>>, c, n)
                 PROVE  Holds(col, c, n)
      BY <2>1, <3>1, <3>2, <3>3
    <3>4. /\ End(col) = n
          /\ \A r \in col.bgn..(n - 1) : ItemOf(col, r) = Item(input, c, r)
          /\ \A r \in 0..(n - 1) : Item(input, c, r) # 0 => r >= col.valid
      BY KeptHolds
    <3> QED BY <3>4 DEF Holds, Expected, Item
  <2> QED BY <2>2, <2>3
<1> QED BY <1>1, Invariance, PTL

\* In the middle of a batch too, every column of a session has an item for every
\* record: what is written and what is buffered add up (generateByField).
THEOREM ColumnsEndTogetherInSession == Spec => []SessionColumnsEndTogether
<1>1. IInv => SessionColumnsEndTogether
  <2> SUFFICES ASSUME IInv, phase = "open", ~torn, NEW c \in Leaves(tree),
                      c \in founders \/ closed_num = 0
               PROVE  End(col_wts[c]) + Len(txt_buf[c]) = Len(input)
    BY DEF SessionColumnsEndTogether
  <2>1. WritersKeep
    BY DEF IInv, FoundersInv
  <2>2. Kept(input, col_wts[c], txt_buf[c], c, Len(input))
    BY <2>1 DEF WritersKeep
  <2> QED BY <2>2 DEF Kept
<1> QED BY <1>1, Invariance, PTL

\* A scan of columns of the first session returns the records parsed, in order and
\* with their values, and all of them if it comes to its end, whatever the sizes of its
\* buffer (getNext, bufferMore).
THEOREM ScansMatch == Spec => []ScanMatchesInput
<1>1. IInv => ScanMatchesInput
  <2> SUFFICES ASSUME IInv, phase = "scanning", ~torn, scan.path \subseteq founders
               PROVE  /\ Len(scan.out) <= closed_num
                      /\ \A r \in 0..(Len(scan.out) - 1) :
                           scan.out[r + 1] = [c \in scan.path \cap input[r + 1] |-> r + 1]
                      /\ NoNext => Len(scan.out) = closed_num
    BY DEF ScanMatchesInput
  <2> SUFFICES ASSUME NEW o \in Nat, o = Len(scan.out), NEW n \in Nat, n = closed_num,
                      NEW i \in Nat, i = scan.recd_idx,
                      NEW ahead \in Nat,
                      ahead = IF scan.filling THEN Len(scan.rows) ELSE scan.num
               PROVE  /\ o <= n
                      /\ \A r \in 0..(o - 1) :
                           scan.out[r + 1] = [c \in scan.path \cap input[r + 1] |-> r + 1]
                      /\ NoNext => o = n
    BY ScanningFacts, ScanFields
  <2>1. /\ i <= n /\ i = o + ahead
        /\ \A k \in 1..o : scan.out[k] = RowOf(scan.path, input, k - 1)
        /\ \A c \in scan.path :
             /\ End(files[c]) = n /\ files[c].bgn \in Nat /\ files[c].valid \in Nat
             /\ files[c].bgn <= files[c].valid /\ files[c].valid < n
    BY FounderScan DEF Position
  <2>2. o <= n
    BY <2>1
  <2>3. ASSUME NEW r \in 0..(o - 1)
        PROVE  scan.out[r + 1] = [c \in scan.path \cap input[r + 1] |-> r + 1]
    <3>1. r + 1 \in 1..o /\ (r + 1) - 1 = r
      OBVIOUS
    <3>2. scan.out[r + 1] = RowOf(scan.path, input, r)
      BY <2>1, <3>1
    <3> QED BY <3>2 DEF RowOf
  <2>4. ASSUME NoNext PROVE o = n
    <3>1. scan.filling = TRUE /\ scan.rows = <<>> /\ (NeedsRoom \/ ScanEnded)
      BY <2>4 DEF NoNext, Scanning
    <3>2. ~NeedsRoom
      <4>1. scan.used = 0 /\ BufferCap <= scan.cap /\ scan.cap \in Nat
        BY <3>1, ScanningFacts, ScanFields
      <4>2. ~(Room < RecdMaxLen)
        BY <4>1, ConstantsAssumption DEF Room
      <4> QED BY <4>2 DEF NeedsRoom
    <3>3. PICK c \in CurrentColumns : ~HasRecord(c)
      BY <3>1, <3>2 DEF ScanEnded
    <3>4. c \in scan.path /\ files[c].valid <= i
      BY <3>3, CurrentOfFounders
    <3>5. ~(i >= files[c].bgn /\ i < n)
      BY <2>1, <3>3, <3>4 DEF HasRecord
    <3>6. i = n
      BY <2>1, <3>4, <3>5
    <3>7. ahead = 0
      BY <3>1, EmptySeq
    <3> QED BY <2>1, <3>6, <3>7
  <2> QED BY <2>2, <2>3, <2>4
<1> QED BY <1>1, Invariance, PTL

=============================================================================
