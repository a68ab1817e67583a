------------------------- MODULE RecordInputProofs -------------------------
(***************************************************************************)
(* Theorems about the way from text to records (module RecordInput), for   *)
(* any texts, sizes of batches and buffers.                                *)
(*                                                                         *)
(* A record is made of whatever its tree holds when the batch is complete, *)
(* so the invariant follows the trees: between batches they are empty,     *)
(* within one the i-th holds the fields of the i-th text, and the one tree *)
(* of insert_parser holds the fields of texts refused since the last       *)
(* record.  With it goes an account of the texts: each is in a record, in  *)
(* the batch, or refused.  A second part of the invariant says how often   *)
(* lines that were cut have doubled the buffer.                            *)
(***************************************************************************)
EXTENDS RecordInput, SequenceTheorems, FiniteSetTheorems, NatInduction

-----------------------------------------------------------------------------
(* The fields of a text and the record made of a tree.                     *)

\* A function on 1..n is a sequence of length n.
LEMMA FunctionSeq ==
  ASSUME NEW S, NEW n \in Nat, NEW f \in [1..n -> S]
  PROVE  f \in Seq(S) /\ Len(f) = n
<1>1. f \in Seq(S)
  BY SeqDef
<1>2. DOMAIN f = 1..Len(f) /\ Len(f) \in Nat /\ DOMAIN f = 1..n
  BY <1>1, LenProperties
<1> QED BY <1>1, <1>2

\* A text puts its fields into a tree, and behind them one that it left unset.
LEMMA FieldsOfText ==
  ASSUME NEW id \in 1..MaxTexts, NEW t \in Text, NEW b \in Nat
  PROVE  /\ FieldsOf(id, t, b) \in Seq(Field)
         /\ Len(FieldsOf(id, t, b)) = t.fields + IF t.unset THEN 1 ELSE 0
         /\ \A k \in 1..Len(FieldsOf(id, t, b)) :
              /\ FieldsOf(id, t, b)[k].of = id /\ FieldsOf(id, t, b)[k].buf = b
              /\ FieldsOf(id, t, b)[k].set <=> k <= t.fields
<1> DEFINE n == t.fields
           s == [of |-> id, set |-> TRUE, buf |-> b]
           a == [k \in 1..n |-> s]
           u == [of |-> id, set |-> FALSE, buf |-> b]
           z == IF t.unset THEN <<u>> ELSE <<>>
<1>1. n \in Nat /\ t.unset \in BOOLEAN
  BY DEF Text
<1>2. s \in Field /\ u \in Field
  BY DEF Field
<1>3. s.of = id /\ s.buf = b /\ s.set = TRUE /\ u.of = id /\ u.buf = b /\ u.set = FALSE
  OBVIOUS
<1> HIDE DEF n, s, u
<1>4. a \in Seq(Field) /\ Len(a) = n
  <2>1. a \in [1..n -> Field]
    BY <1>2
  <2> QED BY <1>1, <2>1, FunctionSeq
<1>5. \A k \in 1..n : a[k] = s
  OBVIOUS
<1>6. /\ z \in Seq(Field) /\ Len(z) = IF t.unset THEN 1 ELSE 0
      /\ \A k \in 1..Len(z) : z[k] = u
  BY <1>2, EmptySeq
<1> HIDE DEF a, z
<1>7. /\ a \o z \in Seq(Field) /\ Len(a \o z) = n + Len(z) /\ Len(z) \in Nat
      /\ \A k \in 1..(n + Len(z)) : (a \o z)[k] = IF k <= n THEN a[k] ELSE z[k - n]
  BY <1>4, <1>6, ConcatProperties, LenProperties
<1>8. ASSUME NEW k \in 1..(n + Len(z))
      PROVE  (a \o z)[k].of = id /\ (a \o z)[k].buf = b /\ ((a \o z)[k].set <=> k <= n)
  <2>1. CASE k <= n
    <3>1. k \in 1..n
      BY <1>1, <1>7, <2>1
    <3> QED BY <1>3, <1>5, <1>7, <2>1, <3>1
  <2>2. CASE ~(k <= n)
    <3>1. k - n \in 1..Len(z)
      BY <1>1, <1>7, <2>2
    <3> QED BY <1>3, <1>6, <1>7, <2>2, <3>1
  <2> QED BY <2>1, <2>2
<1>9. FieldsOf(id, t, b) = a \o z
  BY DEF FieldsOf, a, z, s, u, n
<1> QED BY <1>6, <1>7, <1>8, <1>9 DEF n

\* Where a record has the fields of its own text.
Own(r) == {k \in 1..Len(r.fields) : r.fields[k] = r.of}

\* What a record keeps of a tree: the fields of the text, once each, and those
\* that were in the tree before.
LEMMA RecordOfTree ==
  ASSUME NEW id \in 1..MaxTexts, NEW t \in Text, NEW b \in Nat, NEW old \in Seq(Field), NEW r,
         \A k \in 1..Len(old) : old[k].of # id,
         Writable(old \o FieldsOf(id, t, b)),
         r = Record(id, t, old \o FieldsOf(id, t, b))
  PROVE  /\ r.of = id /\ r.own = t.fields /\ r.fields \in Seq(1..MaxTexts)
         /\ Cardinality(Own(r)) = t.fields
         /\ \A k \in 1..Len(r.fields) :
              r.fields[k] # id => k \in 1..Len(old) /\ r.fields[k] = old[k].of
         /\ ~t.unset
<1> DEFINE f == FieldsOf(id, t, b)
           l == Len(old)
           n == t.fields
           tree == old \o f
           of == [k \in 1..Len(tree) |-> tree[k].of]
<1>1. /\ f \in Seq(Field) /\ Len(f) = n + (IF t.unset THEN 1 ELSE 0)
      /\ \A k \in 1..Len(f) : f[k].of = id /\ (f[k].set <=> k <= n)
  BY FieldsOfText
<1>2. n \in Nat /\ t.unset \in BOOLEAN /\ l \in Nat
  BY LenProperties DEF Text
<1> HIDE DEF f, l, n
<1>3. /\ tree \in Seq(Field) /\ Len(tree) = l + Len(f)
      /\ \A k \in 1..(l + Len(f)) : tree[k] = IF k <= l THEN old[k] ELSE f[k - l]
  BY <1>1, ConcatProperties DEF l
<1>4. ~t.unset /\ Len(f) = n
  <2>1. ASSUME t.unset PROVE FALSE
    <3>1. Len(f) = n + 1 /\ l + (n + 1) \in 1..(l + Len(f)) /\ ~(l + (n + 1) <= l)
          /\ (l + (n + 1)) - l = n + 1
      BY <1>1, <1>2, <2>1
    <3>2. tree[l + (n + 1)] = f[n + 1] /\ ~f[n + 1].set
      BY <1>1, <1>2, <1>3, <3>1
    <3>3. \A k \in 1..Len(tree) : tree[k].set
      BY DEF Writable, f
    <3> QED BY <1>3, <3>1, <3>2, <3>3
  <2> QED BY <1>1, <1>2, <2>1
<1>5. Len(tree) = l + n
  BY <1>3, <1>4
<1>6. of \in Seq(1..MaxTexts) /\ Len(of) = l + n
  <2>1. \A k \in 1..Len(tree) : tree[k].of \in 1..MaxTexts
    <3>1. \A k \in 1..Len(tree) : tree[k] \in Field
      BY <1>3, ElementOfSeq
    <3> QED BY <3>1 DEF Field
  <2>2. of \in [1..(l + n) -> 1..MaxTexts]
    BY <1>5, <2>1
  <2>3. l + n \in Nat
    BY <1>2
  <2> HIDE DEF of
  <2> QED BY <2>2, <2>3, FunctionSeq
<1>7. \A k \in 1..(l + n) : of[k] = IF k <= l THEN old[k].of ELSE id
  <2> SUFFICES ASSUME NEW k \in 1..(l + n) PROVE of[k] = IF k <= l THEN old[k].of ELSE id
    OBVIOUS
  <2>1. of[k] = tree[k].of
    BY <1>5
  <2>2. CASE k <= l
    BY <1>3, <1>4, <2>1, <2>2
  <2>3. CASE ~(k <= l)
    <3>1. k - l \in 1..Len(f)
      BY <1>2, <1>4, <2>3
    <3>2. tree[k] = f[k - l]
      BY <1>3, <1>4, <2>3
    <3> QED BY <1>1, <2>1, <2>3, <3>1, <3>2
  <2> QED BY <2>2, <2>3
<1> HIDE DEF of
<1>8. {k \in 1..Len(of) : of[k] = id} = (l + 1)..(l + n)
  <2>1. ASSUME NEW k \in 1..(l + n) PROVE of[k] = id <=> k \in (l + 1)..(l + n)
    <3>1. CASE k <= l
      <4>1. k \in 1..Len(old) /\ k \notin (l + 1)..(l + n)
        BY <1>2, <3>1 DEF l
      <4> QED BY <1>7, <3>1, <4>1
    <3>2. CASE ~(k <= l)
      BY <1>2, <1>7, <3>2
    <3> QED BY <3>1, <3>2
  <2>2. (l + 1)..(l + n) \subseteq 1..(l + n)
    BY <1>2
  <2> QED BY <1>6, <2>1, <2>2
<1>9. Cardinality((l + 1)..(l + n)) = n
  <2>1. l + 1 \in Int /\ l + n \in Int
    BY <1>2
  <2>2. Cardinality((l + 1)..(l + n)) = IF l + 1 > l + n THEN 0 ELSE (l + n) - (l + 1) + 1
    BY <2>1, FS_Interval
  <2> QED BY <1>2, <2>2
<1>10. \A k \in 1..Len(of) : of[k] # id => k \in 1..l /\ of[k] = old[k].of
  BY <1>2, <1>6, <1>7
<1>11. r.of = id /\ r.own = n /\ r.fields = of
  <2>1. r = [of |-> id, own |-> n, fields |-> of]
    BY DEF Record, n, of, f
  <2> QED BY <2>1
<1> HIDE DEF tree
<1>12. n = t.fields /\ l = Len(old)
  BY DEF n, l
<1>13. Cardinality(Own(r)) = n
  BY <1>8, <1>9, <1>11 DEF Own
<1> QED BY <1>4, <1>6, <1>10, <1>11, <1>12, <1>13

-----------------------------------------------------------------------------
(* The invariant.                                                          *)

Piece == [of : 1..MaxTexts, text : Text, whole : Text]
Rec   == [of : 1..MaxTexts, own : Nat, fields : Seq(1..MaxTexts)]

Ids(s) == {s[i].of : i \in 1..Len(s)}
LastId == IF out = <<>> THEN 0 ELSE out[Len(out)].of

Typing ==
  /\ mode \in {"idle", "read", "parse", "insert"} \cup Stopped
  /\ rnum \in Indexes /\ cap \in Nat /\ used \in Nat /\ used <= cap /\ buf \in Nat
  /\ batch \in Seq(Piece) /\ Len(batch) <= rnum
  /\ rest \in Nat /\ eof \in BOOLEAN /\ pidx \in 1..(BatchSize + 1)
  /\ trees \in [Indexes -> Seq(Field)]
  /\ given \in Seq(Texts) /\ Len(given) <= MaxTexts
  /\ cutting \subseteq 1..Len(given) /\ rejected \subseteq 1..Len(given)
  /\ out \in Seq(Rec)
  /\ \A i \in 1..Len(out) : out[i].of \in 1..Len(given)

\* The texts of a batch are the last ones given, as they were if no line was cut.
BatchInv ==
  /\ rest > 0 => cutting # {}
  /\ \A i \in 1..Len(batch) :
       /\ batch[i].of \in (Len(given) - Len(batch) + 1)..Len(given)
       /\ batch[i].text = given[batch[i].of] \/ cutting # {}

\* Reading a stream, every text is in a record or in the batch, the records are
\* whole batches, and a tree is empty until its text of the batch is parsed.
TreesFollowBatch ==
  \A i \in Indexes :
    trees[i] = IF mode = "parse" /\ i < pidx THEN FieldsOf(batch[i].of, batch[i].text, buf)
               ELSE <<>>
ReadInv ==
  mode \in {"read", "parse"} =>
    /\ rejected = {}
    /\ 1..Len(given) \subseteq Ids(out) \cup Ids(batch)
    /\ cutting = {} => Len(given) = Len(out) + Len(batch)
    /\ \E q \in Nat : Len(out) = q * rnum
    /\ TreesFollowBatch
    /\ mode = "parse" => pidx <= Len(batch) + 1 /\ batch # <<>>

\* Inserting, the texts without a record are the refused ones, and what the tree
\* holds are fields of texts refused since the last record.
LeftBehind(f) ==
  /\ f.of \in rejected /\ f.of > LastId /\ f.buf <= buf
  /\ ~f.set => given[f.of].unset
InsertInv ==
  mode = "insert" =>
    /\ batch = <<>>
    /\ Missing = rejected
    /\ \A k \in 1..Len(trees[1]) : LeftBehind(trees[1][k])

IdleInv ==
  mode = "idle" =>
    /\ given = <<>> /\ out = <<>> /\ batch = <<>>
    /\ rejected = {} /\ cutting = {}
    /\ trees = [i \in Indexes |-> <<>>]

\* MixOnlyAfterRejection of one record, prev the text of the one before.
MixAt(r, prev, refused) ==
  /\ Cardinality(Own(r)) = r.own
  /\ \A k \in 1..Len(r.fields) :
       r.fields[k] # r.of => r.fields[k] \in refused /\ r.fields[k] \in (prev + 1)..(r.of - 1)
Before(s, i) == IF i = 1 THEN 0 ELSE s[i - 1].of
MixInv == \A i \in 1..Len(out) : MixAt(out[i], Before(out, i), rejected)

IInv ==
  /\ Typing /\ BatchInv /\ ReadInv /\ InsertInv /\ IdleInv
  /\ MixInv /\ LossStaysInBatch /\ StopsHaveCauses

LEMMA MixByRecord == MixInv <=> MixOnlyAfterRejection
<1>1. ASSUME NEW r, NEW prev
      PROVE  MixAt(r, prev, rejected) <=>
               LET own == {k \in 1..Len(r.fields) : r.fields[k] = r.of}
               IN  /\ Cardinality(own) = r.own
                   /\ \A k \in (1..Len(r.fields)) \ own :
                        r.fields[k] \in rejected /\ r.fields[k] \in (prev + 1)..(r.of - 1)
  BY DEF MixAt, Own
<1>2. ASSUME NEW i \in 1..Len(out)
      PROVE  MixAt(out[i], Before(out, i), rejected) <=>
               LET r    == out[i]
                   prev == IF i = 1 THEN 0 ELSE out[i - 1].of
                   own  == {k \in 1..Len(r.fields) : r.fields[k] = r.of}
               IN  /\ Cardinality(own) = r.own
                   /\ \A k \in (1..Len(r.fields)) \ own :
                        r.fields[k] \in rejected /\ r.fields[k] \in (prev + 1)..(r.of - 1)
  BY <1>1 DEF Before
<1> QED BY <1>2 DEF MixInv, MixOnlyAfterRejection

\* The records made so far stay as good as they were.
LEMMA MixExtends ==
  ASSUME NEW old \in Seq(Rec), NEW new \in Seq(Rec), NEW ref, NEW more, ref \subseteq more,
         \A i \in 1..Len(old) : MixAt(old[i], Before(old, i), ref),
         \A i \in 1..Len(new) : MixAt(new[i], Before(old \o new, Len(old) + i), more)
  PROVE  \A i \in 1..Len(old \o new) : MixAt((old \o new)[i], Before(old \o new, i), more)
<1> DEFINE s == old \o new
           l == Len(old)
           m == Len(new)
<1>1. l \in Nat /\ m \in Nat /\ Len(s) = l + m
      /\ \A i \in 1..(l + m) : s[i] = IF i <= l THEN old[i] ELSE new[i - l]
  BY ConcatProperties, LenProperties
<1> HIDE DEF s, l, m
<1> SUFFICES ASSUME NEW i \in 1..Len(s) PROVE MixAt(s[i], Before(s, i), more)
  BY DEF s
<1>2. CASE i <= l
  <2>1. i \in 1..l /\ s[i] = old[i]
    BY <1>1, <1>2
  <2>2. Before(s, i) = Before(old, i)
    <3>1. CASE i = 1
      BY <3>1 DEF Before
    <3>2. CASE i # 1
      <4>1. i - 1 \in 1..(l + m) /\ i - 1 <= l
        BY <1>1, <2>1, <3>2
      <4> QED BY <1>1, <3>2, <4>1 DEF Before
    <3> QED BY <3>1, <3>2
  <2>3. MixAt(s[i], Before(s, i), ref)
    BY <2>1, <2>2 DEF l
  <2> QED BY <2>3 DEF MixAt
<1>3. CASE ~(i <= l)
  <2>1. i - l \in 1..m /\ s[i] = new[i - l] /\ l + (i - l) = i
    BY <1>1, <1>3
  <2>2. MixAt(new[i - l], Before(s, l + (i - l)), more)
    BY <2>1 DEF l, m, s
  <2> QED BY <2>1, <2>2
<1> QED BY <1>2, <1>3

\* The invariant holds at the start.
LEMMA InitInv == ASSUME Init PROVE IInv
<1> USE RecordInputAssumption
<1>1. 1 \in Indexes /\ Len(<<>>) = 0 /\ 1..0 = {}
  BY DEF Indexes
<1>2. trees \in [Indexes -> Seq(Field)]
  BY EmptySeq DEF Init, Indexes
<1>3. Typing
  <2>1. /\ rnum \in Indexes /\ cap \in Nat /\ used \in Nat /\ used <= cap /\ buf \in Nat
        /\ rest \in Nat /\ eof \in BOOLEAN /\ pidx \in 1..(BatchSize + 1)
    <3>1. 1 \in 1..(BatchSize + 1) /\ BufferCap \in Nat /\ 0 <= BufferCap
      OBVIOUS
    <3> QED BY <1>1, <3>1 DEF Init
  <2>4. mode \in {"idle", "read", "parse", "insert"} \cup Stopped
    BY DEF Init
  <2>2. /\ batch \in Seq(Piece) /\ Len(batch) <= rnum
        /\ given \in Seq(Texts) /\ Len(given) <= MaxTexts
        /\ out \in Seq(Rec) /\ Len(out) = 0
    BY <1>1, EmptySeq DEF Init
  <2>3. cutting \subseteq 1..Len(given) /\ rejected \subseteq 1..Len(given)
    BY DEF Init
  <2> QED BY <1>1, <1>2, <2>1, <2>2, <2>3, <2>4 DEF Typing
<1>4. BatchInv /\ ReadInv /\ InsertInv /\ IdleInv /\ MixInv
  BY <1>1 DEF Init, BatchInv, ReadInv, InsertInv, IdleInv, MixInv, Indexes
<1>5. LossStaysInBatch /\ StopsHaveCauses
  BY DEF Init, LossStaysInBatch, StopsHaveCauses
<1> QED BY <1>3, <1>4, <1>5 DEF IInv

\* A parser is opened.
LEMMA OpenStep == ASSUME IInv, OpenFile \/ OpenAll \/ OpenInsert PROVE IInv'
<1> USE RecordInputAssumption
<1>1. PICK m \in {"read", "insert"}, n \in Indexes : Open(m, n)
  BY DEF OpenFile, OpenAll, OpenInsert, Indexes
<1>2. /\ mode = "idle" /\ mode' = m /\ rnum' = n
      /\ UNCHANGED <<cap, used, buf, batch, rest, eof, pidx, trees, given, cutting, rejected, out>>
  BY <1>1 DEF Open, bufferVars, inputVars
<1>3. /\ given = <<>> /\ out = <<>> /\ batch = <<>> /\ rejected = {} /\ cutting = {}
      /\ trees = [i \in Indexes |-> <<>>]
  BY <1>2 DEF IInv, IdleInv
<1>4. Len(<<>>) = 0 /\ 1..0 = {} /\ 1 \in Indexes
  BY DEF Indexes
<1>5. Typing'
  BY <1>2, <1>3, <1>4 DEF IInv, Typing, Indexes
<1>6. BatchInv'
  BY <1>2, <1>3, <1>4 DEF IInv, BatchInv
<1>7. ReadInv'
  <2>1. TreesFollowBatch' /\ mode' # "parse"
    BY <1>2, <1>3 DEF TreesFollowBatch
  <2>2. Len(out') = 0 * rnum'
    BY <1>2, <1>3, <1>4 DEF Indexes
  <2> QED BY <1>2, <1>3, <1>4, <2>1, <2>2 DEF ReadInv
<1>8. InsertInv'
  <2>1. Missing' = {} /\ rejected' = {}
    BY <1>2, <1>3, <1>4 DEF Missing
  <2> QED BY <1>2, <1>3, <1>4, <2>1 DEF InsertInv
<1>9. IdleInv' /\ MixInv' /\ LossStaysInBatch' /\ StopsHaveCauses'
  BY <1>2, <1>3, <1>4 DEF IdleInv, MixInv, LossStaysInBatch, StopsHaveCauses
<1> QED BY <1>5, <1>6, <1>7, <1>8, <1>9 DEF IInv

-----------------------------------------------------------------------------
(* Reading a stream.                                                       *)

\* What a line that is cut parses to is the outcome of a text.
LEMMA PrefixIsText == ASSUME NEW t \in Text, NEW p \in LinePrefixes(t) PROVE p \in Text
<1> DEFINE S == {BrokenOff(t, n, u) : n \in 0..t.fields, u \in BOOLEAN}
<1>1. ASSUME NEW n \in 0..t.fields, NEW u \in BOOLEAN PROVE BrokenOff(t, n, u) \in Text
  <2>1. n \in Nat
    BY DEF Text
  <2> QED BY <2>1 DEF Text, BrokenOff
<1>2. \A n \in 0..t.fields, u \in BOOLEAN : BrokenOff(t, n, u) \in Text
  BY <1>1
<1>3. S \subseteq Text
  BY <1>2
<1>4. LinePrefixes(t) = {t} \cup IF t.ret = "abort" THEN {} ELSE S
  BY DEF LinePrefixes
<1> HIDE DEF S
<1> QED BY <1>3, <1>4

\* A line or what is left of one is taken into the batch.
LEMMA TakeLineStep ==
  ASSUME IInv, CanRead,
         NEW id, NEW t \in Text, NEW len \in Nat, NEW c \in Nat, c >= cap,
         NEW before \in Seq(Piece), Len(before) = Len(batch),
         given' \in Seq(Texts), Len(given') <= MaxTexts, id = Len(given'), id >= 1,
         Len(given') = Len(given) \/ (Len(given') = Len(given) + 1 /\ rest = 0),
         \A i \in 1..Len(given) : given'[i] = given[i],
         \A i \in 1..Len(batch) : before[i].of = batch[i].of,
         before = batch \/ cutting # {},
         (t = given'[id] /\ Len(given') = Len(given) + 1) \/ cutting # {},
         TakeLine(id, t, len, c, before)
  PROVE  IInv'
<1> USE RecordInputAssumption
<1> DEFINE l == Len(batch)
           g == Len(given)
           h == Len(given')
<1>1. mode = "read" /\ l < rnum /\ Typing /\ BatchInv /\ ReadInv /\ MixInv
  BY DEF CanRead, IInv
<1>2. l \in Nat /\ g \in Nat /\ h \in Nat /\ rnum \in Nat /\ id \in 1..MaxTexts
  BY <1>1, LenProperties DEF Typing, Indexes
<1>3. UNCHANGED <<mode, rnum, buf, eof, pidx, trees, rejected, out>>
  BY DEF TakeLine
<1>4. PICK p \in Text :
        /\ batch' = Append(before, [of |-> id, text |-> p, whole |-> t])
        /\ p = t \/ cutting' # {}
        /\ cutting' = cutting \/ cutting' = cutting \cup {id}
        /\ rest' \in Nat /\ (rest' > 0 => cutting' # {})
        /\ cap' \in Nat /\ used' \in Nat /\ used' <= cap'
  <2> DEFINE room == c - used
  <2>1. cap \in Nat /\ used \in Nat /\ used <= cap /\ room \in Nat /\ cap' = c
    BY <1>1 DEF Typing, TakeLine
  <2>2. CASE /\ len <= room /\ used' = used + len /\ rest' = 0
             /\ batch' = Append(before, [of |-> id, text |-> t, whole |-> t])
             /\ UNCHANGED cutting
    <3>1. used' \in Nat /\ used' <= cap'
      BY <2>1, <2>2
    <3> QED BY <2>1, <2>2, <3>1
  <2>3. CASE /\ len > room /\ room >= 2
             /\ used' = used + room - 1 /\ rest' = len - (room - 1)
             /\ \E p \in LinePrefixes(t) :
                  batch' = Append(before, [of |-> id, text |-> p, whole |-> t])
             /\ cutting' = cutting \cup {id}
    <3>1. used' \in Nat /\ used' <= cap' /\ rest' \in Nat
      BY <2>1, <2>3
    <3>2. PICK p \in LinePrefixes(t) :
            batch' = Append(before, [of |-> id, text |-> p, whole |-> t])
      BY <2>3
    <3>3. p \in Text
      BY PrefixIsText
    <3>4. cutting' # {} /\ cutting' = cutting \cup {id}
      BY <2>3
    <3> QED BY <2>1, <3>1, <3>2, <3>3, <3>4
  <2> QED BY <2>2, <2>3 DEF TakeLine
<1> DEFINE piece == [of |-> id, text |-> p, whole |-> t]
<1>5. piece \in Piece /\ piece.of = id /\ piece.text = p
  BY <1>2 DEF Piece
<1> HIDE DEF piece
<1>6. /\ batch' \in Seq(Piece) /\ Len(batch') = l + 1
      /\ \A i \in 1..l : batch'[i] = before[i]
      /\ batch'[l + 1] = piece
  BY <1>4, <1>5, AppendProperties DEF piece
<1> HIDE DEF l, g, h
<1>7. 1..h = 1..g \cup {id} \/ 1..h = 1..g
  BY <1>2 DEF g, h
<1>8. g <= h /\ h <= g + 1 /\ (h = g + 1 => rest = 0)
  BY <1>2 DEF g, h
<1>9. Typing'
  <2>1. 1..g \subseteq 1..h /\ id \in 1..h
    BY <1>2, <1>7, <1>8 DEF h
  <2>2. cutting' \subseteq 1..h /\ rejected' \subseteq 1..h
    BY <1>1, <1>3, <1>4, <2>1 DEF Typing, g
  <2>3. Len(batch') <= rnum'
    BY <1>1, <1>2, <1>3, <1>6
  <2>4. \A i \in 1..Len(out') : out'[i].of \in 1..h
    BY <1>1, <1>3, <2>1 DEF Typing, g
  <2>5. Indexes' = Indexes /\ Piece' = Piece /\ Rec' = Rec /\ Field' = Field /\ Stopped' = Stopped
    BY DEF Indexes, Piece, Rec, Field, Stopped
  <2> QED BY <1>1, <1>3, <1>4, <1>6, <2>2, <2>3, <2>4, <2>5 DEF Typing, h
<1>10. BatchInv'
  <2> SUFFICES ASSUME NEW i \in 1..(l + 1)
               PROVE  /\ batch'[i].of \in (h - (l + 1) + 1)..h
                      /\ batch'[i].text = given'[batch'[i].of] \/ cutting' # {}
    BY <1>4, <1>6 DEF BatchInv, h
  <2>1. CASE i \in 1..l
    <3>1. batch'[i] = before[i] /\ before[i].of = batch[i].of
      BY <1>6, <2>1 DEF l
    <3>2. batch[i].of \in (g - l + 1)..g /\ (batch[i].text = given[batch[i].of] \/ cutting # {})
      BY <1>1, <2>1 DEF BatchInv, l, g
    <3>3. batch[i].of \in (h - (l + 1) + 1)..h
      <4>1. \A a : a \in (g - l + 1)..g => a \in (h - (l + 1) + 1)..h
        BY <1>2, <1>8
      <4> QED BY <3>2, <4>1
    <3>4. batch[i].of \in 1..g
      <4>1. batch[i] \in Piece
        BY <1>1, <2>1, ElementOfSeq DEF Typing, l
      <4>2. batch[i].of \in 1..MaxTexts
        BY <4>1 DEF Piece
      <4> QED BY <1>2, <3>2, <4>2
    <3>5. given'[batch[i].of] = given[batch[i].of]
      BY <3>4 DEF g
    <3> QED BY <1>4, <3>1, <3>2, <3>3, <3>5
  <2>2. CASE i = l + 1
    <3>1. id \in (h - (l + 1) + 1)..h
      BY <1>2 DEF h
    <3> QED BY <1>4, <1>5, <1>6, <2>2, <3>1
  <2> QED BY <1>2, <2>1, <2>2
<1>11. ReadInv'
  <2>1. /\ rejected = {} /\ 1..g \subseteq Ids(out) \cup Ids(batch)
        /\ cutting = {} => g = Len(out) + l
        /\ \E q \in Nat : Len(out) = q * rnum
        /\ TreesFollowBatch
    BY <1>1 DEF ReadInv, g, l
  <2>2. Ids(batch) \subseteq Ids(batch') /\ id \in Ids(batch')
    <3>1. \A i \in 1..l : batch[i].of = batch'[i].of /\ i \in 1..Len(batch')
      BY <1>2, <1>6 DEF l
    <3>2. l + 1 \in 1..Len(batch') /\ batch'[l + 1].of = id
      BY <1>2, <1>5, <1>6
    <3>3. Ids(batch) \subseteq Ids(batch')
      BY <3>1 DEF Ids, l
    <3> QED BY <3>2, <3>3 DEF Ids
  <2>3. 1..h \subseteq Ids(out') \cup Ids(batch')
    BY <1>3, <1>7, <2>1, <2>2
  <2>4. cutting' = {} => h = Len(out') + Len(batch')
    <3>1. cutting' = {} => cutting = {} /\ h = g + 1
      BY <1>4 DEF g, h
    <3>2. Len(out) \in Nat
      BY <1>1, LenProperties DEF Typing
    <3> QED BY <1>2, <1>3, <1>6, <2>1, <3>1, <3>2
  <2>5. TreesFollowBatch'
    BY <1>1, <1>3, <2>1 DEF TreesFollowBatch, Indexes
  <2> QED BY <1>1, <1>3, <2>1, <2>3, <2>4, <2>5 DEF ReadInv, h
<1>12. InsertInv' /\ IdleInv' /\ LossStaysInBatch' /\ StopsHaveCauses'
  BY <1>1, <1>3 DEF InsertInv, IdleInv, LossStaysInBatch, StopsHaveCauses
<1>13. MixInv'
  BY <1>1, <1>3 DEF MixInv
<1> QED BY <1>9, <1>10, <1>11, <1>12, <1>13 DEF IInv

\* A new line.
LEMMA ReadLineStep == ASSUME IInv, NEW t \in Texts, ReadLine(t) PROVE IInv'
<1> USE RecordInputAssumption
<1>1. /\ CanRead /\ rest = 0 /\ Len(given) < MaxTexts /\ given' = Append(given, t)
      /\ TakeLine(Len(given) + 1, t, t.len, Grown(cap, t.len), batch)
  BY DEF ReadLine
<1>2. given \in Seq(Texts) /\ batch \in Seq(Piece) /\ cap \in Nat /\ t \in Text
  BY DEF IInv, Typing
<1>3. /\ given' \in Seq(Texts) /\ Len(given') = Len(given) + 1 /\ Len(given) \in Nat
      /\ \A i \in 1..Len(given) : given'[i] = given[i]
      /\ given'[Len(given) + 1] = t
  BY <1>1, <1>2, AppendProperties, LenProperties
<1>4. t.len \in Nat
  BY <1>2 DEF Text
<1>5. Grown(cap, t.len) \in Nat /\ Grown(cap, t.len) >= cap
  BY <1>2 DEF Grown
<1>6. Len(given') <= MaxTexts /\ Len(given) + 1 = Len(given') /\ Len(given) + 1 >= 1
  BY <1>1, <1>3
<1> HIDE DEF Grown
<1>7. \A i \in 1..Len(batch) : batch[i].of = batch[i].of
  OBVIOUS
<1> QED BY <1>1, <1>2, <1>3, <1>4, <1>5, <1>6, <1>7, TakeLineStep

\* What is left of a line that was cut.
LEMMA ReadRestStep == ASSUME IInv, NEW t \in Texts, ReadRest(t) PROVE IInv'
<1> USE RecordInputAssumption
<1> DEFINE mend(i) == IF i = Len(batch) THEN [batch[i] EXCEPT !.text = batch[i].whole]
                      ELSE batch[i]
           before == [i \in 1..Len(batch) |-> mend(i)]
<1>1. /\ CanRead /\ rest > 0 /\ given' = given
      /\ TakeLine(Len(given), t, rest, 2 * cap, before)
  BY DEF ReadRest
<1>2. /\ given \in Seq(Texts) /\ batch \in Seq(Piece) /\ cap \in Nat /\ t \in Text
      /\ rest \in Nat /\ Len(given) <= MaxTexts /\ cutting \subseteq 1..Len(given) /\ cutting # {}
  BY <1>1 DEF IInv, Typing, BatchInv
<1>3. Len(batch) \in Nat /\ Len(given) \in Nat /\ Len(given) >= 1
  <2>1. Len(batch) \in Nat /\ Len(given) \in Nat
    BY <1>2, LenProperties
  <2>2. PICK i \in 1..Len(given) : TRUE
    BY <1>2
  <2> QED BY <2>1, <2>2
<1>4. \A i \in 1..Len(batch) : mend(i) \in Piece /\ mend(i).of = batch[i].of
  <2> SUFFICES ASSUME NEW i \in 1..Len(batch)
               PROVE  mend(i) \in Piece /\ mend(i).of = batch[i].of
    OBVIOUS
  <2>1. batch[i] \in Piece
    BY <1>2, ElementOfSeq
  <2> QED BY <2>1 DEF Piece
<1>5. \A i \in 1..Len(batch) : before[i].of = batch[i].of
  BY <1>4
<1>6. before \in Seq(Piece) /\ Len(before) = Len(batch)
  <2>1. before \in [1..Len(batch) -> Piece]
    BY <1>4
  <2> HIDE DEF before
  <2> QED BY <1>3, <2>1, FunctionSeq
<1>7. 2 * cap \in Nat /\ 2 * cap >= cap
  BY <1>2
<1> HIDE DEF before
<1>8. /\ \A i \in 1..Len(given) : given'[i] = given[i]
      /\ given' \in Seq(Texts) /\ Len(given') <= MaxTexts /\ Len(given) = Len(given')
  BY <1>1, <1>2
<1>9. /\ CanRead /\ TakeLine(Len(given), t, rest, 2 * cap, before)
      /\ cutting # {} /\ rest \in Nat /\ t \in Text
  BY <1>1, <1>2
<1>10. Len(given') = Len(given) \/ (Len(given') = Len(given) + 1 /\ rest = 0)
  BY <1>8
<1>11. before = batch \/ cutting # {}
  BY <1>9
<1>12. (t = given'[Len(given)] /\ Len(given') = Len(given) + 1) \/ cutting # {}
  BY <1>9
<1> QED BY <1>3, <1>5, <1>6, <1>7, <1>8, <1>9, <1>10, <1>11, <1>12, TakeLineStep, Zenon

\* The stream ends, or the batch is read.
LEMMA EndOfStreamStep == ASSUME IInv, EndOfStream PROVE IInv'
<1>1. /\ UNCHANGED <<mode, rnum, cap, used, buf, batch, rest, pidx, trees, given, cutting,
                     rejected, out>>
      /\ eof' \in BOOLEAN /\ mode = "read"
  BY DEF EndOfStream, CanRead, bufferVars
<1>2. Typing'
  BY <1>1 DEF IInv, Typing, Indexes
<1>3. BatchInv' /\ InsertInv' /\ IdleInv' /\ MixInv' /\ LossStaysInBatch' /\ StopsHaveCauses'
  BY <1>1 DEF IInv, BatchInv, InsertInv, IdleInv, MixInv, LossStaysInBatch, StopsHaveCauses
<1>4. ReadInv'
  BY <1>1 DEF IInv, ReadInv, TreesFollowBatch, Ids, Indexes
<1> QED BY <1>2, <1>3, <1>4 DEF IInv

LEMMA BatchReadStep == ASSUME IInv, BatchRead PROVE IInv'
<1> USE RecordInputAssumption
<1>1. /\ mode = "read" /\ mode' = (IF batch = <<>> THEN "ended" ELSE "parse") /\ pidx' = 1
      /\ UNCHANGED <<rnum, cap, used, buf, batch, rest, eof, trees, given, cutting, rejected, out>>
      /\ Typing /\ BatchInv /\ ReadInv /\ MixInv
  BY DEF BatchRead, bufferVars, IInv
<1>2. Typing'
  <2>1. 1 \in 1..(BatchSize + 1)
    OBVIOUS
  <2> QED BY <1>1, <2>1 DEF Typing, Indexes, Stopped
<1>3. BatchInv' /\ InsertInv' /\ IdleInv' /\ MixInv' /\ StopsHaveCauses'
  BY <1>1 DEF BatchInv, InsertInv, IdleInv, MixInv, StopsHaveCauses
<1>4. LossStaysInBatch'
  <2>1. CASE mode' = "ended"
    <3>1. batch = <<>> /\ rejected = {} /\ 1..Len(given) \subseteq Ids(out) \cup Ids(batch)
      BY <1>1, <2>1 DEF ReadInv
    <3>2. Ids(batch) = {}
      <4>1. Len(batch) = 0
        BY <3>1
      <4> QED BY <4>1 DEF Ids
    <3>3. Missing = {}
      BY <3>1, <3>2 DEF Missing, Ids
    <3> QED BY <1>1, <2>1, <3>1, <3>3 DEF LossStaysInBatch, Missing
  <2>2. CASE mode' # "ended"
    BY <1>1, <2>2 DEF LossStaysInBatch
  <2> QED BY <2>1, <2>2
<1>5. ReadInv'
  <2> SUFFICES ASSUME mode' = "parse" PROVE ReadInv'
    BY <1>1 DEF ReadInv
  <2>1. batch # <<>> /\ 1 <= Len(batch) + 1
    BY <1>1, LenProperties DEF Typing
  <2>2. TreesFollowBatch'
    <3>1. \A i \in Indexes : ~(i < 1) /\ trees[i] = <<>>
      BY <1>1 DEF ReadInv, TreesFollowBatch, Indexes
    <3> QED BY <1>1, <3>1 DEF TreesFollowBatch, Indexes
  <2>3. /\ rejected' = {} /\ 1..Len(given') \subseteq Ids(out') \cup Ids(batch')
        /\ cutting' = {} => Len(given') = Len(out') + Len(batch')
        /\ \E q \in Nat : Len(out') = q * rnum'
    BY <1>1 DEF ReadInv
  <2> QED BY <1>1, <2>1, <2>2, <2>3 DEF ReadInv
<1> QED BY <1>2, <1>3, <1>4, <1>5 DEF IInv

-----------------------------------------------------------------------------
(* Parsing a batch and generating its records.                             *)

\* A text of the batch is one that was given.
LEMMA BatchTexts ==
  ASSUME Typing, BatchInv, NEW i \in 1..Len(batch)
  PROVE  /\ batch[i] \in Piece /\ batch[i].of \in 1..Len(given) /\ batch[i].text \in Text
         /\ batch[i].of \in 1..MaxTexts
         /\ batch[i].of \in (Len(given) - rnum + 1)..Len(given)
         /\ batch[i].text = given[batch[i].of] \/ cutting # {}
<1>1. batch[i] \in Piece
  BY ElementOfSeq DEF Typing
<1>2. batch[i].of \in 1..MaxTexts /\ batch[i].text \in Text
  BY <1>1 DEF Piece
<1>3. batch[i].of \in (Len(given) - Len(batch) + 1)..Len(given)
  BY DEF BatchInv
<1>4. Len(batch) \in Nat /\ Len(given) \in Nat /\ Len(batch) <= rnum /\ rnum \in Nat
  BY RecordInputAssumption, LenProperties DEF Typing, Indexes
<1>5. batch[i].of \in 1..Len(given) /\ batch[i].of \in (Len(given) - rnum + 1)..Len(given)
  <2>1. MaxTexts \in Nat
    BY RecordInputAssumption
  <2>2. \A a \in 1..MaxTexts : a \in (Len(given) - Len(batch) + 1)..Len(given)
          => a \in 1..Len(given) /\ a \in (Len(given) - rnum + 1)..Len(given)
    BY <1>4, <2>1
  <2> QED BY <1>2, <1>3, <2>2
<1> QED BY <1>1, <1>2, <1>5 DEF BatchInv

LEMMA ParseTextStep == ASSUME IInv, ParseText PROVE IInv'
<1> USE RecordInputAssumption
<1> DEFINE piece == batch[pidx]
           new == FieldsOf(piece.of, piece.text, buf)
<1>1. /\ mode = "parse" /\ pidx <= rnum /\ pidx <= Len(batch)
      /\ trees' = [trees EXCEPT ![pidx] = @ \o new]
      /\ mode' = CASE piece.text.ret = "abort" -> "died"
                   [] piece.text.ret = "fail"  -> "failed"
                   [] OTHER                    -> "parse"
      /\ pidx' = pidx + 1
      /\ UNCHANGED <<rnum, cap, used, buf, batch, rest, eof, given, cutting, rejected, out>>
  BY DEF ParseText, MoreToParse, bufferVars
<1>2. Typing /\ BatchInv /\ ReadInv /\ MixInv
  BY DEF IInv
<1>3. /\ pidx \in Nat /\ rnum \in Nat /\ rnum <= BatchSize /\ Len(batch) \in Nat /\ Len(batch) <= rnum
      /\ pidx >= 1 /\ pidx \in Indexes /\ pidx \in 1..Len(batch) /\ buf \in Nat
  <2>1. pidx \in 1..(BatchSize + 1) /\ rnum \in 1..BatchSize /\ Len(batch) <= rnum /\ buf \in Nat
    BY <1>2 DEF Typing, Indexes
  <2>2. Len(batch) \in Nat
    BY <1>2, LenProperties DEF Typing
  <2> QED BY <1>1, <2>1, <2>2 DEF Indexes
<1>4. /\ piece.of \in 1..Len(given) /\ piece.text \in Text /\ piece.of \in 1..MaxTexts
      /\ piece.text = given[piece.of] \/ cutting # {}
  BY <1>2, <1>3, BatchTexts
<1>5. new \in Seq(Field)
  BY <1>3, <1>4, FieldsOfText
<1>6. trees[pidx] = <<>>
  BY <1>2, <1>1, <1>3 DEF ReadInv, TreesFollowBatch
<1>7. trees' = [trees EXCEPT ![pidx] = new]
  <2>1. <<>> \o new = new
    BY <1>5, ConcatEmptySeq
  <2> QED BY <1>1, <1>6, <2>1
<1> HIDE DEF piece, new
<1>8. mode' \in {"died", "failed", "parse"}
  BY <1>1
<1>9. Typing'
  <2>1. trees' \in [Indexes -> Seq(Field)]
    BY <1>2, <1>5, <1>7 DEF Typing
  <2>2. pidx' \in 1..(BatchSize + 1)
    BY <1>1, <1>3
  <2> QED BY <1>1, <1>2, <1>8, <2>1, <2>2 DEF Typing, Indexes, Stopped
<1>10. BatchInv' /\ InsertInv' /\ IdleInv' /\ MixInv'
  BY <1>1, <1>2, <1>8 DEF BatchInv, InsertInv, IdleInv, MixInv
<1>11. ReadInv'
  <2> SUFFICES ASSUME mode' = "parse" PROVE ReadInv'
    BY <1>8 DEF ReadInv
  <2>1. ASSUME NEW i \in Indexes
        PROVE  trees'[i] = IF i < pidx' THEN FieldsOf(batch[i].of, batch[i].text, buf) ELSE <<>>
    <3>1. i \in Nat
      BY DEF Indexes
    <3>2. trees[i] = IF i < pidx THEN FieldsOf(batch[i].of, batch[i].text, buf) ELSE <<>>
      BY <1>1, <1>2 DEF ReadInv, TreesFollowBatch
    <3>3. CASE i = pidx
      <4>1. trees'[i] = new
        BY <1>2, <1>7, <3>3 DEF Typing
      <4>3. i < pidx'
        BY <1>1, <1>3, <3>3
      <4>2. new = FieldsOf(batch[i].of, batch[i].text, buf)
        BY <3>3 DEF new, piece
      <4> QED BY <4>1, <4>2, <4>3
    <3>4. CASE i # pidx
      <4>1. trees'[i] = trees[i]
        BY <1>2, <1>7, <3>4 DEF Typing
      <4>2. i < pidx' <=> i < pidx
        BY <1>1, <1>3, <3>1, <3>4
      <4> QED BY <3>2, <4>1, <4>2
    <3> QED BY <3>3, <3>4
  <2>2. TreesFollowBatch'
    BY <1>1, <2>1 DEF TreesFollowBatch, Indexes
  <2>3. /\ rejected' = {} /\ 1..Len(given') \subseteq Ids(out') \cup Ids(batch')
        /\ cutting' = {} => Len(given') = Len(out') + Len(batch')
        /\ \E q \in Nat : Len(out') = q * rnum'
        /\ batch' # <<>>
    BY <1>1, <1>2 DEF ReadInv
  <2>4. pidx' <= Len(batch') + 1
    BY <1>1, <1>3
  <2> QED BY <2>2, <2>3, <2>4 DEF ReadInv
<1>12. LossStaysInBatch'
  <2> SUFFICES ASSUME mode' = "failed"
               PROVE  Missing' \subseteq (Len(given) - rnum + 1)..Len(given)
    BY <1>1, <1>8 DEF LossStaysInBatch
  <2>1. Missing' \subseteq Ids(batch)
    <3>1. 1..Len(given) \subseteq Ids(out) \cup Ids(batch)
      BY <1>1, <1>2 DEF ReadInv
    <3>2. Missing' = (1..Len(given)) \ Ids(out)
      BY <1>1 DEF Missing, Ids
    <3> QED BY <3>1, <3>2
  <2>2. Ids(batch) \subseteq (Len(given) - rnum + 1)..Len(given)
    BY <1>2, BatchTexts DEF Ids
  <2> QED BY <2>1, <2>2
<1>13. StopsHaveCauses'
  <2> SUFFICES ASSUME mode' = "died"
               PROVE  (\E i \in 1..Len(given) : given[i].ret = "abort" \/ given[i].unset)
                      \/ cutting # {}
    BY <1>1, <1>8 DEF StopsHaveCauses
  <2>1. piece.text.ret = "abort"
    BY <1>1
  <2> QED BY <1>4, <2>1
<1> QED BY <1>9, <1>10, <1>11, <1>12, <1>13 DEF IInv

\* A number of texts that is whole batches and m more is no multiple of the batch.
LEMMA Remainder ==
  ASSUME NEW n \in Nat, NEW q \in Nat, NEW b \in Nat \ {0}, NEW m \in 0..(b - 1), n = q * b + m
  PROVE  n % b = m
<1>1. n = b * (n \div b) + (n % b) /\ n % b \in 0..(b - 1) /\ n \div b \in Nat
  OBVIOUS
<1>2. ASSUME NEW d \in Nat, NEW r \in 0..(b - 1), q * b + m = b * d + r PROVE m = r
  BY <1>2
<1> QED BY <1>1, <1>2

\* parseAll comes to a tree for which the stream had no line.
LEMMA ParseNothingStep == ASSUME IInv, ParseNothing PROVE IInv'
<1> USE RecordInputAssumption
<1>1. /\ mode = "parse" /\ pidx <= rnum /\ pidx > Len(batch) /\ mode' = "died"
      /\ UNCHANGED <<rnum, cap, used, buf, batch, rest, eof, pidx, trees, given, cutting,
                     rejected, out>>
      /\ Typing /\ BatchInv /\ ReadInv /\ MixInv
  BY DEF ParseNothing, MoreToParse, bufferVars, inputVars, IInv
<1>2. Typing'
  BY <1>1 DEF Typing, Indexes, Stopped
<1>3. BatchInv' /\ ReadInv' /\ InsertInv' /\ IdleInv' /\ MixInv' /\ LossStaysInBatch'
  BY <1>1 DEF BatchInv, ReadInv, InsertInv, IdleInv, MixInv, LossStaysInBatch
<1>4. ASSUME cutting = {} PROVE rnum > 1 /\ Len(given) % rnum # 0
  <2>1. PICK q \in Nat : Len(out) = q * rnum
    BY <1>1 DEF ReadInv
  <2>2. Len(given) = Len(out) + Len(batch) /\ batch # <<>>
    BY <1>1, <1>4 DEF ReadInv
  <2>3. /\ Len(batch) \in Nat /\ Len(batch) # 0 /\ Len(given) \in Nat
        /\ rnum \in Nat \ {0} /\ pidx \in Nat
    BY <1>1, <2>2, LenProperties, EmptySeq DEF Typing, Indexes
  <2>4. Len(batch) \in 0..(rnum - 1) /\ rnum > 1
    BY <1>1, <2>3
  <2>5. Len(given) % rnum = Len(batch)
    BY <2>1, <2>2, <2>3, <2>4, Remainder
  <2> QED BY <2>3, <2>4, <2>5
<1>5. StopsHaveCauses'
  BY <1>1, <1>4 DEF StopsHaveCauses
<1> QED BY <1>2, <1>3, <1>5 DEF IInv

\* The record of the i-th text of a batch has the fields of that text only.
LEMMA GeneratedRecord ==
  ASSUME Typing, BatchInv, NEW i \in 1..Len(batch),
         NEW tree, tree = FieldsOf(batch[i].of, batch[i].text, buf), Writable(tree),
         NEW r, r = Record(batch[i].of, batch[i].text, tree)
  PROVE  /\ r \in Rec /\ r.of = batch[i].of
         /\ \A prev, refused : MixAt(r, prev, refused)
<1> DEFINE id == batch[i].of
           t == batch[i].text
           none == <<>>
<1>1. id \in 1..MaxTexts /\ t \in Text /\ buf \in Nat
  BY BatchTexts DEF Typing
<1>2. /\ none \o FieldsOf(id, t, buf) = FieldsOf(id, t, buf)
      /\ none \in Seq(Field) /\ 1..Len(none) = {}
  BY <1>1, FieldsOfText, ConcatEmptySeq, EmptySeq
<1> HIDE DEF id, t, none
<1>3. tree = FieldsOf(id, t, buf) /\ r = Record(id, t, tree)
  BY DEF id, t
<1>4. /\ \A k \in 1..Len(none) : none[k].of # id
      /\ Writable(none \o FieldsOf(id, t, buf))
      /\ r = Record(id, t, none \o FieldsOf(id, t, buf))
  BY <1>2, <1>3
<1>5. /\ r.of = id /\ r.own = t.fields /\ r.fields \in Seq(1..MaxTexts)
      /\ Cardinality(Own(r)) = t.fields
      /\ \A k \in 1..Len(r.fields) : r.fields[k] # id => k \in 1..Len(none)
  <2>1. none \in Seq(Field)
    BY <1>2
  <2>2. /\ r.of = id /\ r.own = t.fields /\ r.fields \in Seq(1..MaxTexts)
        /\ Cardinality(Own(r)) = t.fields
        /\ \A k \in 1..Len(r.fields) :
             r.fields[k] # id => k \in 1..Len(none) /\ r.fields[k] = none[k].of
    BY <1>1, <1>4, <2>1, RecordOfTree
  <2> QED BY <2>2
<1>6. r = [of |-> r.of, own |-> r.own, fields |-> r.fields]
  BY <1>3 DEF Record
<1>7. t.fields \in Nat
  BY <1>1 DEF Text
<1>8. r \in Rec
  BY <1>1, <1>5, <1>6, <1>7 DEF Rec
<1>9. \A k \in 1..Len(r.fields) : r.fields[k] = id
  BY <1>2, <1>5
<1> QED BY <1>5, <1>8, <1>9 DEF MixAt, id

LEMMA GenerateBatchStep == ASSUME IInv, GenerateBatch PROVE IInv'
<1> USE RecordInputAssumption
<1> DEFINE new == Generated
<1>1. /\ mode = "parse" /\ ~(pidx <= rnum)
      /\ batch' = <<>> /\ used' = 0
      /\ UNCHANGED <<rnum, cap, buf, rest, eof, pidx, given, cutting, rejected>>
      /\ Typing /\ BatchInv /\ ReadInv /\ MixInv
  BY DEF GenerateBatch, MoreToParse, UsedAfterClear, IInv
<1>2. /\ rnum \in Nat \ {0} /\ rnum \in 1..BatchSize /\ Len(batch) = rnum
      /\ 1..rnum \subseteq Indexes /\ pidx \in Nat
  <2>1. rnum \in 1..BatchSize /\ pidx \in Nat /\ Len(batch) \in Nat /\ Len(batch) <= rnum
    BY <1>1, LenProperties DEF Typing, Indexes
  <2>2. pidx <= Len(batch) + 1
    BY <1>1 DEF ReadInv
  <2> QED BY <1>1, <2>1, <2>2 DEF Indexes
<1>3. \A i \in 1..rnum : trees[i] = FieldsOf(batch[i].of, batch[i].text, buf)
  <2> SUFFICES ASSUME NEW i \in 1..rnum
               PROVE  trees[i] = FieldsOf(batch[i].of, batch[i].text, buf)
    OBVIOUS
  <2>1. i < pidx /\ i \in Indexes
    BY <1>1, <1>2
  <2> QED BY <1>1, <2>1 DEF ReadInv, TreesFollowBatch
<1>4. /\ batch' \in Seq(Piece) /\ Len(batch') = 0 /\ Len(batch') <= rnum'
      /\ used' \in Nat /\ used' <= cap'
  BY <1>1, <1>2, EmptySeq DEF Typing
<1>5. BatchInv'
  BY <1>1, <1>4 DEF BatchInv
<1>6. CASE \A i \in 1..rnum : Writable(trees[i])
  <2>1. out' = out \o new /\ trees' = Cleared(trees) /\ mode' = "read"
    BY <1>1, <1>6 DEF GenerateBatch, MoreToParse
  <2>2. ASSUME NEW i \in 1..rnum
        PROVE  /\ new[i] \in Rec /\ new[i].of = batch[i].of
               /\ \A prev, refused : MixAt(new[i], prev, refused)
    <3>1. new[i] = Record(batch[i].of, batch[i].text, trees[i])
      BY DEF Generated
    <3>2. trees[i] = FieldsOf(batch[i].of, batch[i].text, buf) /\ Writable(trees[i])
      BY <1>3, <1>6
    <3> QED BY <1>1, <1>2, <3>1, <3>2, GeneratedRecord
  <2>3. new \in Seq(Rec) /\ Len(new) = rnum
    <3>1. new \in [1..rnum -> Rec]
      BY <2>2 DEF Generated
    <3> HIDE DEF new
    <3> QED BY <1>2, <3>1, FunctionSeq
  <2> HIDE DEF new
  <2>4. /\ out \in Seq(Rec) /\ Len(out) \in Nat /\ out' \in Seq(Rec)
        /\ Len(out') = Len(out) + rnum
        /\ \A i \in 1..(Len(out) + rnum) : out'[i] = IF i <= Len(out) THEN out[i] ELSE new[i - Len(out)]
    BY <1>1, <2>1, <2>3, ConcatProperties, LenProperties DEF Typing
  <2>5. trees' = [i \in Indexes |-> <<>>]
    BY <1>1, <2>1 DEF Cleared, Typing
  <2>6. \A i \in 1..rnum : batch[i].of \in 1..Len(given)
    BY <1>1, <1>2, BatchTexts
  <2>7. Typing'
    <3>1. trees' \in [Indexes -> Seq(Field)]
      BY <2>5, EmptySeq
    <3>2. \A i \in 1..Len(out') : out'[i].of \in 1..Len(given')
      <4> SUFFICES ASSUME NEW i \in 1..Len(out') PROVE out'[i].of \in 1..Len(given)
        BY <1>1
      <4>1. CASE i <= Len(out)
        <5>1. i \in 1..Len(out) /\ out'[i] = out[i]
          BY <2>4, <4>1
        <5> QED BY <1>1, <5>1 DEF Typing
      <4>2. CASE ~(i <= Len(out))
        <5>1. i - Len(out) \in 1..rnum /\ out'[i] = new[i - Len(out)]
          BY <1>2, <2>4, <4>2
        <5> QED BY <2>2, <2>6, <5>1
      <4> QED BY <4>1, <4>2
    <3> QED BY <1>1, <1>4, <2>1, <2>4, <3>1, <3>2 DEF Typing, Indexes
  <2>8. Ids(out) \cup Ids(batch) \subseteq Ids(out')
    <3>1. ASSUME NEW i \in 1..Len(out) PROVE out[i].of \in Ids(out')
      <4>1. i \in 1..Len(out') /\ out'[i] = out[i]
        BY <1>2, <2>4
      <4> QED BY <4>1 DEF Ids
    <3>2. ASSUME NEW i \in 1..Len(batch) PROVE batch[i].of \in Ids(out')
      <4>1. /\ Len(out) + i \in 1..Len(out') /\ ~(Len(out) + i <= Len(out))
            /\ (Len(out) + i) - Len(out) = i /\ i \in 1..rnum
        BY <1>2, <2>4
      <4>2. out'[Len(out) + i] = new[i]
        BY <2>4, <4>1
      <4> QED BY <2>2, <4>1, <4>2 DEF Ids
    <3> QED BY <3>1, <3>2 DEF Ids
  <2>9. ReadInv'
    <3>1. 1..Len(given') \subseteq Ids(out') \cup Ids(batch')
      BY <1>1, <2>8 DEF ReadInv
    <3>2. cutting' = {} => Len(given') = Len(out') + Len(batch')
      BY <1>1, <1>2, <1>4, <2>4 DEF ReadInv
    <3>3. PICK q \in Nat : Len(out) = q * rnum
      BY <1>1 DEF ReadInv
    <3>4. q + 1 \in Nat /\ Len(out') = (q + 1) * rnum'
      <4>1. \A a, b \in Nat : (a + 1) * b = a * b + b
        OBVIOUS
      <4> QED BY <1>1, <1>2, <2>4, <3>3, <4>1
    <3>5. TreesFollowBatch'
      BY <2>1, <2>5 DEF TreesFollowBatch
    <3>6. rejected' = {}
      BY <1>1 DEF ReadInv
    <3> QED BY <2>1, <3>1, <3>2, <3>4, <3>5, <3>6 DEF ReadInv
  <2>10. MixInv'
    <3>1. /\ \A i \in 1..Len(out) : MixAt(out[i], Before(out, i), rejected)
          /\ \A i \in 1..Len(new) : MixAt(new[i], Before(out \o new, Len(out) + i), rejected)
      BY <1>1, <2>2, <2>3 DEF MixInv
    <3> QED BY <1>1, <2>1, <2>3, <2>4, <3>1, MixExtends DEF MixInv
  <2>11. InsertInv' /\ IdleInv' /\ LossStaysInBatch' /\ StopsHaveCauses'
    BY <2>1 DEF InsertInv, IdleInv, LossStaysInBatch, StopsHaveCauses
  <2> QED BY <1>5, <2>7, <2>9, <2>10, <2>11 DEF IInv
<1>7. CASE ~ \A i \in 1..rnum : Writable(trees[i])
  <2>1. mode' = "died" /\ out' = out /\ trees' = trees
    BY <1>1, <1>7 DEF GenerateBatch, MoreToParse
  <2>2. Typing'
    BY <1>1, <1>4, <2>1 DEF Typing, Indexes, Stopped
  <2>3. ReadInv' /\ InsertInv' /\ IdleInv' /\ MixInv' /\ LossStaysInBatch'
    BY <1>1, <2>1 DEF ReadInv, InsertInv, IdleInv, MixInv, LossStaysInBatch
  <2>4. StopsHaveCauses'
    <3>1. PICK i \in 1..rnum : ~Writable(trees[i])
      BY <1>7
    <3>2. /\ batch[i].of \in 1..Len(given) /\ batch[i].of \in 1..MaxTexts /\ batch[i].text \in Text
          /\ batch[i].text = given[batch[i].of] \/ cutting # {}
      BY <1>1, <1>2, BatchTexts
    <3>3. batch[i].text.unset
      <4>1. ASSUME ~batch[i].text.unset PROVE Writable(trees[i])
        <5> DEFINE id == batch[i].of
                   t == batch[i].text
        <5>1. id \in 1..MaxTexts /\ t \in Text /\ buf \in Nat /\ ~t.unset
              /\ trees[i] = FieldsOf(id, t, buf)
          BY <1>1, <1>3, <3>2, <4>1 DEF Typing
        <5> HIDE DEF id, t
        <5>2. t.fields \in Nat
          BY <5>1 DEF Text
        <5>3. \A k \in 1..Len(trees[i]) : trees[i][k].set
          <6>1. Len(trees[i]) = t.fields
            BY <5>1, <5>2, FieldsOfText
          <6>2. \A k \in 1..Len(trees[i]) : trees[i][k].set <=> k <= t.fields
            BY <5>1, FieldsOfText
          <6> QED BY <5>2, <6>1, <6>2
        <5> QED BY <5>3 DEF Writable
      <4> QED BY <3>1, <4>1
    <3>4. (\E j \in 1..Len(given) : given[j].unset) \/ cutting # {}
      BY <3>2, <3>3
    <3> QED BY <1>1, <2>1, <3>4 DEF StopsHaveCauses
  <2> QED BY <1>5, <2>2, <2>3, <2>4 DEF IInv
<1> QED BY <1>6, <1>7

-----------------------------------------------------------------------------
(* Inserting strings.                                                      *)

\* The text parsed is the one handed in, or one at a wrong offset, which begins
\* no field that it does not complete.
LEMMA ParsedText ==
  ASSUME NEW t \in Texts, NEW p \in Parsed(t), used \in Nat
  PROVE  p \in Text /\ (p = t \/ (used >= OffsetLimit /\ ~p.unset))
<1> USE RecordInputAssumption
<1>1. t \in Text
  OBVIOUS
<1>2. CASE used < OffsetLimit
  BY <1>1, <1>2 DEF Parsed
<1>3. CASE ~(used < OffsetLimit)
  <2>1. PICK r \in {"done", "end", "fail", "abort"} :
          p = [t EXCEPT !.fields = 0, !.unset = FALSE, !.ret = r]
    BY <1>3 DEF Parsed
  <2>2. p \in Text /\ ~p.unset
    BY <1>1, <2>1 DEF Text
  <2>3. used >= OffsetLimit
    BY <1>3
  <2> QED BY <2>2, <2>3
<1> QED BY <1>2, <1>3

\* Each field of a tree was there before or is one of the text's.
LEMMA FieldOfTree ==
  ASSUME NEW old \in Seq(Field), NEW new \in Seq(Field), NEW k \in 1..Len(old \o new)
  PROVE  \/ k \in 1..Len(old) /\ (old \o new)[k] = old[k]
         \/ \E j \in 1..Len(new) : (old \o new)[k] = new[j]
<1> DEFINE l == Len(old)
           m == Len(new)
<1>1. l \in Nat /\ m \in Nat /\ Len(old \o new) = l + m
      /\ \A i \in 1..(l + m) : (old \o new)[i] = IF i <= l THEN old[i] ELSE new[i - l]
  BY ConcatProperties, LenProperties
<1> HIDE DEF l, m
<1>2. CASE k <= l
  <2>1. k \in 1..l /\ (old \o new)[k] = old[k]
    BY <1>1, <1>2
  <2> QED BY <2>1 DEF l
<1>3. CASE ~(k <= l)
  <2>1. k - l \in 1..m /\ (old \o new)[k] = new[k - l]
    BY <1>1, <1>3
  <2> QED BY <2>1 DEF m
<1> QED BY <1>2, <1>3

LEMMA LastIdRange == ASSUME Typing PROVE LastId \in 0..Len(given)
<1>1. Len(given) \in Nat /\ Len(out) \in Nat /\ out \in Seq(Rec)
  BY LenProperties DEF Typing
<1>2. CASE out = <<>>
  BY <1>1, <1>2 DEF LastId
<1>3. CASE out # <<>>
  <2>1. Len(out) \in 1..Len(out)
    BY <1>1, <1>3, EmptySeq
  <2>2. out[Len(out)].of \in 1..Len(given)
    BY <2>1 DEF Typing
  <2> QED BY <1>1, <1>3, <2>2 DEF LastId
<1> QED BY <1>2, <1>3

LEMMA CloseInsertStep == ASSUME IInv, CloseInsert PROVE IInv'
<1>1. /\ mode = "insert" /\ mode' = "ended"
      /\ UNCHANGED <<rnum, cap, used, buf, batch, rest, eof, pidx, trees, given, cutting,
                     rejected, out>>
      /\ Typing /\ BatchInv /\ InsertInv /\ MixInv
  BY DEF CloseInsert, bufferVars, inputVars, IInv
<1>2. Typing'
  BY <1>1 DEF Typing, Indexes, Stopped
<1>3. BatchInv' /\ ReadInv' /\ InsertInv' /\ IdleInv' /\ MixInv' /\ StopsHaveCauses'
  BY <1>1 DEF BatchInv, ReadInv, InsertInv, IdleInv, MixInv, StopsHaveCauses
<1>4. Missing' = rejected'
  BY <1>1 DEF InsertInv, Missing
<1>5. LossStaysInBatch'
  BY <1>1, <1>4 DEF LossStaysInBatch
<1> QED BY <1>2, <1>3, <1>5 DEF IInv

LEMMA InsertStep == ASSUME IInv, NEW t \in Texts, Insert(t) PROVE IInv'
<1> USE RecordInputAssumption
<1> DEFINE id == Len(given) + 1
           old == trees[1]
<1>1. /\ mode = "insert" /\ Len(given) < MaxTexts /\ given' = Append(given, t)
      /\ AppendOneRecd(t.len)
      /\ UNCHANGED <<rnum, batch, rest, eof, pidx, cutting>>
      /\ Typing /\ BatchInv /\ InsertInv /\ MixInv
  BY DEF Insert, inputVars, IInv
<1>2. PICK p \in Parsed(t) :
        LET tree  == old \o FieldsOf(id, p, buf')
            moved == \E k \in 1..Len(tree) : tree[k].buf # buf'
        IN  \/ /\ p.ret = "abort"
               /\ mode' = "died"
               /\ UNCHANGED <<trees, rejected, out>>
            \/ /\ p.ret = "fail"
               /\ trees' = [trees EXCEPT ![1] = tree]
               /\ rejected' = rejected \cup {id}
               /\ UNCHANGED <<mode, out>>
            \/ /\ p.ret \in {"done", "end"} /\ ~moved /\ Writable(tree)
               /\ out' = Append(out, Record(id, p, tree))
               /\ trees' = Cleared([trees EXCEPT ![1] = tree])
               /\ UNCHANGED <<mode, rejected>>
            \/ /\ p.ret \in {"done", "end"} /\ (moved \/ ~Writable(tree))
               /\ mode' = IF moved THEN "undefined" ELSE "died"
               /\ UNCHANGED <<trees, rejected, out>>
  BY DEF Insert
<1> DEFINE new == FieldsOf(id, p, buf')
           tree == old \o new
<1>3. /\ given \in Seq(Texts) /\ Len(given) \in Nat /\ id \in 1..MaxTexts /\ 1 \in Indexes
      /\ MaxTexts \in Nat /\ rejected \subseteq 1..Len(given)
  BY <1>1, LenProperties DEF Typing, Indexes
<1>4. /\ given' \in Seq(Texts) /\ Len(given') = id /\ given'[id] = t
      /\ \A i \in 1..Len(given) : given'[i] = given[i]
  BY <1>1, <1>3, AppendProperties
<1>5. /\ cap' \in Nat /\ used' \in Nat /\ used' <= cap' /\ used' > used
      /\ buf' \in Nat /\ buf' >= buf /\ buf \in Nat
  <2>1. t.len \in Nat \ {0} /\ cap \in Nat /\ used \in Nat /\ used <= cap /\ buf \in Nat
    BY <1>1 DEF Typing, Text
  <2>2. /\ used' = used + t.len /\ cap' = Reserved(t.len)
        /\ buf' \in {buf} \cup (IF cap' = cap THEN {} ELSE {buf + 1})
    BY <1>1 DEF AppendOneRecd
  <2>3. Reserved(t.len) \in Nat /\ used + t.len <= Reserved(t.len)
    BY <2>1 DEF Reserved
  <2>4. buf' = buf \/ buf' = buf + 1
    BY <2>2
  <2> QED BY <2>1, <2>2, <2>3, <2>4
<1>6. p \in Text /\ (p = t \/ (used >= OffsetLimit /\ ~p.unset)) /\ used \in Nat
  BY <1>1, ParsedText DEF Typing
<1>7. /\ new \in Seq(Field)
      /\ \A k \in 1..Len(new) :
           /\ new[k].of = id /\ new[k].buf = buf'
           /\ ~new[k].set => p.unset
  <2>1. /\ FieldsOf(id, p, buf') \in Seq(Field)
        /\ Len(FieldsOf(id, p, buf')) = p.fields + IF p.unset THEN 1 ELSE 0
        /\ \A k \in 1..Len(FieldsOf(id, p, buf')) :
             /\ FieldsOf(id, p, buf')[k].of = id /\ FieldsOf(id, p, buf')[k].buf = buf'
             /\ FieldsOf(id, p, buf')[k].set <=> k <= p.fields
    BY <1>3, <1>5, <1>6, FieldsOfText
  <2> HIDE DEF id
  <2>2. p.fields \in Nat /\ p.unset \in BOOLEAN
    BY <1>6 DEF Text
  <2> QED BY <2>1, <2>2
<1>8. old \in Seq(Field) /\ \A k \in 1..Len(old) : LeftBehind(old[k])
  BY <1>1, <1>3 DEF Typing, InsertInv
<1> HIDE DEF new, old
<1>9. tree \in Seq(Field)
  BY <1>7, <1>8, ConcatProperties
<1>9a. \A k \in 1..Len(tree) : tree[k].buf \in Nat
  <2> HIDE DEF tree
  <2>1. \A k \in 1..Len(tree) : tree[k] \in Field
    BY <1>9, ElementOfSeq
  <2> QED BY <2>1 DEF Field
<1>10. ASSUME NEW k \in 1..Len(tree)
       PROVE  \/ k \in 1..Len(old) /\ tree[k] = old[k] /\ LeftBehind(tree[k])
              \/ tree[k].of = id /\ tree[k].buf = buf' /\ (~tree[k].set => p.unset)
  <2>1. CASE k \in 1..Len(old) /\ tree[k] = old[k]
    BY <1>8, <2>1
  <2>2. CASE \E j \in 1..Len(new) : tree[k] = new[j]
    BY <1>7, <2>2
  <2> QED BY <1>7, <1>8, <2>1, <2>2, FieldOfTree
<1>11. LastId \in 0..Len(given)
  BY <1>1, LastIdRange
<1>12. p.unset => (p = t /\ given'[id].unset)
  BY <1>4, <1>6
<1>13. 1..id = 1..Len(given) \cup {id} /\ id \notin 1..Len(given) /\ id > LastId
  BY <1>3, <1>11
<1>14. \/ /\ p.ret = "abort" /\ mode' = "died"
          /\ UNCHANGED <<trees, rejected, out>>
       \/ /\ p.ret = "fail" /\ mode' = mode
          /\ trees' = [trees EXCEPT ![1] = tree]
          /\ rejected' = rejected \cup {id} /\ out' = out
       \/ /\ mode' = mode /\ Writable(tree)
          /\ out' = Append(out, Record(id, p, tree))
          /\ trees' = Cleared([trees EXCEPT ![1] = tree])
          /\ rejected' = rejected
       \/ /\ mode' = "died" /\ ~Writable(tree)
          /\ UNCHANGED <<trees, rejected, out>>
       \/ /\ mode' = "undefined" /\ \E k \in 1..Len(tree) : tree[k].buf # buf'
          /\ UNCHANGED <<trees, rejected, out>>
  BY <1>2, Zenon DEF new
<1>15. BatchInv'
  <2>1. batch = <<>> /\ Len(batch) = 0
    BY <1>1 DEF InsertInv
  <2> QED BY <1>1, <2>1 DEF BatchInv
<1>16. ASSUME mode' \in {"insert", "died", "undefined"}, trees' \in [Indexes -> Seq(Field)],
              rejected' \subseteq 1..id, out' \in Seq(Rec),
              \A i \in 1..Len(out') : out'[i].of \in 1..id
       PROVE  Typing'
  <2>1. cutting' \subseteq 1..Len(given')
    BY <1>1, <1>4, <1>13 DEF Typing
  <2>2. Len(given') <= MaxTexts
    BY <1>3, <1>4
  <2> HIDE DEF id
  <2>3. mode' \in {"idle", "read", "parse", "insert"} \cup Stopped
    BY <1>16 DEF Stopped
  <2>4. /\ rnum' \in Indexes' /\ batch' \in Seq(Piece') /\ Len(batch') <= rnum'
        /\ rest' \in Nat /\ eof' \in BOOLEAN /\ pidx' \in 1..(BatchSize + 1)
    BY <1>1 DEF Typing
  <2> QED BY <1>4, <1>5, <1>16, <2>1, <2>2, <2>3, <2>4 DEF Typing
<1>17. ASSUME UNCHANGED <<trees, rejected, out>>, mode' \in {"died", "undefined"}, StopsHaveCauses'
       PROVE  IInv'
  <2>1. Typing'
    <3>1. rejected \subseteq 1..id /\ \A i \in 1..Len(out) : out[i].of \in 1..id
      BY <1>1, <1>13 DEF Typing
    <3> HIDE DEF id
    <3> QED BY <1>1, <1>16, <1>17, <3>1 DEF Typing
  <2>2. ReadInv' /\ InsertInv' /\ IdleInv' /\ MixInv' /\ LossStaysInBatch'
    BY <1>1, <1>17 DEF ReadInv, InsertInv, IdleInv, MixInv, LossStaysInBatch
  <2> QED BY <1>15, <1>17, <2>1, <2>2 DEF IInv
\* The text is no object.
<1>18. CASE /\ p.ret = "abort" /\ mode' = "died"
            /\ UNCHANGED <<trees, rejected, out>>
  <2>1. CASE p = t
    <3>1. id \in 1..Len(given') /\ given'[id].ret = "abort"
      BY <1>3, <1>4, <1>18, <2>1
    <3> QED BY <1>17, <1>18, <3>1 DEF StopsHaveCauses
  <2>2. CASE p # t
    <3>1. used' > OffsetLimit
      BY <1>5, <1>6, <2>2
    <3> QED BY <1>17, <1>18, <3>1 DEF StopsHaveCauses
  <2> QED BY <2>1, <2>2
\* A field without a name is looked up.
<1>19. CASE /\ mode' = "died" /\ ~Writable(tree)
            /\ UNCHANGED <<trees, rejected, out>>
  <2>1. PICK k \in 1..Len(tree) : ~tree[k].set
    BY <1>19 DEF Writable
  <2>2. \E i \in 1..Len(given') : given'[i].unset
    <3>1. CASE LeftBehind(tree[k])
      <4>1. tree[k].of \in 1..Len(given) /\ given[tree[k].of].unset
        BY <1>3, <2>1, <3>1 DEF LeftBehind
      <4>2. tree[k].of \in 1..Len(given')
        BY <1>4, <1>13, <4>1
      <4> QED BY <1>4, <4>1, <4>2
    <3>2. CASE ~tree[k].set => p.unset
      <4>1. id \in 1..Len(given')
        BY <1>3, <1>4
      <4> QED BY <1>12, <2>1, <3>2, <4>1
    <3> QED BY <1>10, <3>1, <3>2
  <2> QED BY <1>17, <1>19, <2>2 DEF StopsHaveCauses
\* A field of a refused text is in memory that has moved.
<1>20. CASE /\ mode' = "undefined" /\ \E k \in 1..Len(tree) : tree[k].buf # buf'
            /\ UNCHANGED <<trees, rejected, out>>
  <2>1. PICK k \in 1..Len(tree) : tree[k].buf # buf'
    BY <1>20
  <2>2. k \in 1..Len(old) /\ tree[k] = old[k] /\ LeftBehind(tree[k])
    BY <1>10, <2>1
  <2>3. tree[k].buf \in Nat
    BY <1>9a
  <2>4. rejected # {} /\ buf' > 0
    BY <1>5, <2>1, <2>2, <2>3 DEF LeftBehind
  <2> QED BY <1>17, <1>20, <2>4 DEF StopsHaveCauses
\* The text is refused and its fields stay in the tree.
<1>21. CASE /\ p.ret = "fail" /\ mode' = mode
            /\ trees' = [trees EXCEPT ![1] = tree]
            /\ rejected' = rejected \cup {id} /\ out' = out
  <2>1. Typing'
    <3>1. /\ rejected' \subseteq 1..id /\ \A i \in 1..Len(out) : out[i].of \in 1..id
      BY <1>1, <1>13, <1>21 DEF Typing
    <3>2. trees' \in [Indexes -> Seq(Field)] /\ out' \in Seq(Rec)
      BY <1>1, <1>3, <1>9, <1>21 DEF Typing
    <3> HIDE DEF id, tree
    <3> QED BY <1>1, <1>16, <1>21, <3>1, <3>2
  <2>2. LastId' = LastId /\ trees'[1] = tree
    BY <1>1, <1>3, <1>21 DEF LastId, Typing
  <2>3. Missing' = rejected'
    <3>1. Missing = (1..Len(given)) \ Ids(out) /\ Missing' = (1..id) \ Ids(out)
      BY <1>4, <1>21 DEF Missing, Ids
    <3>2. id \notin Ids(out)
      BY <1>1, <1>13 DEF Ids, Typing
    <3> HIDE DEF id
    <3> QED BY <1>1, <1>13, <1>21, <3>1, <3>2 DEF InsertInv
  <2>4. ASSUME NEW k \in 1..Len(tree), NEW f, f = tree[k]
        PROVE  /\ f.of \in rejected' /\ f.of > LastId' /\ f.buf <= buf'
               /\ ~f.set => given'[f.of].unset
    <3>1. f.buf \in Nat
      BY <1>9a, <2>4
    <3>2. CASE LeftBehind(f)
      <4>1. f.of \in 1..Len(given) /\ f.of > LastId /\ f.of \in rejected
        BY <1>3, <3>2 DEF LeftBehind
      <4>2. f.buf <= buf'
        BY <1>5, <3>1, <3>2 DEF LeftBehind
      <4>3. ~f.set => given'[f.of].unset
        BY <1>4, <3>2, <4>1 DEF LeftBehind
      <4> QED BY <1>21, <2>2, <4>1, <4>2, <4>3
    <3>3. CASE f.of = id /\ f.buf = buf' /\ (~f.set => p.unset)
      <4>1. f.of \in rejected' /\ f.of > LastId'
        BY <1>13, <1>21, <2>2, <3>3
      <4>2. f.buf <= buf'
        BY <1>5, <3>3
      <4>3. ~f.set => given'[f.of].unset
        BY <1>12, <3>3
      <4> QED BY <4>1, <4>2, <4>3
    <3> QED BY <1>10, <2>4, <3>2, <3>3
  <2>5. InsertInv'
    <3> HIDE DEF tree
    <3>1. \A k \in 1..Len(trees'[1]) :
            /\ trees'[1][k].of \in rejected' /\ trees'[1][k].of > LastId'
            /\ trees'[1][k].buf <= buf'
            /\ ~trees'[1][k].set => given'[trees'[1][k].of].unset
      BY <2>2, <2>4
    <3>2. batch' = <<>>
      BY <1>1 DEF InsertInv
    <3> QED BY <2>3, <3>1, <3>2 DEF InsertInv, LeftBehind
  <2>6. MixInv'
    <3>1. \A r, prev : MixAt(r, prev, rejected) => MixAt(r, prev, rejected')
      BY <1>21 DEF MixAt
    <3> QED BY <1>1, <1>21, <3>1 DEF MixInv
  <2>7. ReadInv' /\ IdleInv' /\ LossStaysInBatch' /\ StopsHaveCauses'
    BY <1>1, <1>21 DEF ReadInv, IdleInv, LossStaysInBatch, StopsHaveCauses
  <2> QED BY <1>15, <2>1, <2>5, <2>6, <2>7 DEF IInv
\* The tree becomes a record.
<1>22. CASE /\ mode' = mode /\ Writable(tree)
            /\ out' = Append(out, Record(id, p, tree))
            /\ trees' = Cleared([trees EXCEPT ![1] = tree])
            /\ rejected' = rejected
  <2> DEFINE r == Record(id, p, tree)
  <2>1. \A k \in 1..Len(old) : old[k].of # id
    BY <1>3, <1>8, <1>13 DEF LeftBehind
  <2>2. /\ r.of = id /\ r.own = p.fields /\ r.fields \in Seq(1..MaxTexts)
        /\ Cardinality(Own(r)) = p.fields
        /\ \A k \in 1..Len(r.fields) :
             r.fields[k] # id => k \in 1..Len(old) /\ r.fields[k] = old[k].of
    <3> HIDE DEF id
    <3>1. Writable(old \o FieldsOf(id, p, buf')) /\ r = Record(id, p, old \o FieldsOf(id, p, buf'))
      BY <1>22 DEF new
    <3> HIDE DEF r
    <3>2. id \in 1..MaxTexts /\ p \in Text /\ buf' \in Nat /\ old \in Seq(Field)
      BY <1>3, <1>5, <1>6, <1>8
    <3> QED BY <2>1, <3>1, <3>2, RecordOfTree
  <2>3. r \in Rec
    <3>1. r = [of |-> r.of, own |-> r.own, fields |-> r.fields]
      BY DEF Record
    <3>2. p.fields \in Nat
      BY <1>6 DEF Text
    <3> HIDE DEF r, id
    <3> QED BY <1>3, <2>2, <3>1, <3>2 DEF Rec
  <2>4. MixAt(r, LastId, rejected)
    <3>1. ASSUME NEW k \in 1..Len(r.fields), r.fields[k] # id
          PROVE  r.fields[k] \in rejected /\ r.fields[k] \in (LastId + 1)..(id - 1)
      <4>1. k \in 1..Len(old) /\ r.fields[k] = old[k].of
        BY <2>2, <3>1
      <4>2. old[k].of \in rejected /\ old[k].of > LastId /\ old[k].of \in 1..Len(given)
        BY <1>3, <1>8, <4>1 DEF LeftBehind
      <4>3. \A a \in 1..Len(given) : a > LastId => a \in (LastId + 1)..(id - 1)
        BY <1>3, <1>11
      <4> QED BY <4>1, <4>2, <4>3
    <3> HIDE DEF r, id
    <3> QED BY <2>2, <3>1 DEF MixAt
  <2> HIDE DEF r, tree
  <2>5. /\ out \in Seq(Rec) /\ Len(out) \in Nat /\ out' = out \o <<r>>
        /\ out' = Append(out, r) /\ out' \in Seq(Rec) /\ Len(out') = Len(out) + 1
        /\ \A i \in 1..Len(out) : out'[i] = out[i]
        /\ out'[Len(out) + 1] = r
    <3>1. out \in Seq(Rec) /\ Len(out) \in Nat /\ out' = Append(out, r)
      BY <1>1, <1>22, LenProperties DEF Typing, r
    <3> QED BY <2>3, <3>1, AppendProperties, AppendIsConcat
  <2>6. trees' = [i \in Indexes |-> <<>>] /\ 1 \in Indexes
    BY <1>1, <1>3, <1>22 DEF Cleared, Typing
  <2>7. Typing'
    <3>1. \A i \in 1..Len(out') : out'[i].of \in 1..id
      <4> SUFFICES ASSUME NEW i \in 1..Len(out') PROVE out'[i].of \in 1..id
        OBVIOUS
      <4>1. CASE i \in 1..Len(out)
        BY <1>1, <1>13, <2>5, <4>1 DEF Typing
      <4>2. CASE i = Len(out) + 1
        BY <1>13, <2>2, <2>5, <4>2
      <4>3. i \in 1..Len(out) \/ i = Len(out) + 1
        BY <2>5
      <4> QED BY <4>1, <4>2, <4>3
    <3>2. trees' \in [Indexes -> Seq(Field)]
      BY <2>6, EmptySeq
    <3>3. rejected' \subseteq 1..id
      BY <1>3, <1>13, <1>22
    <3> HIDE DEF id
    <3> QED BY <1>1, <1>16, <1>22, <2>5, <3>1, <3>2, <3>3
  <2>8. Ids(out') = Ids(out) \cup {id}
    <3> HIDE DEF id
    <3>1. \A i \in 1..Len(out) : out'[i].of = out[i].of /\ i \in 1..Len(out')
      BY <2>5
    <3>2. Len(out) + 1 \in 1..Len(out') /\ out'[Len(out) + 1].of = id
      BY <2>2, <2>5
    <3>3. \A i \in 1..Len(out') : i \in 1..Len(out) \/ i = Len(out) + 1
      BY <2>5
    <3>4. Ids(out) \subseteq Ids(out')
      BY <3>1 DEF Ids
    <3>5. id \in Ids(out')
      BY <3>2 DEF Ids
    <3>6. Ids(out') \subseteq Ids(out) \cup {id}
      BY <3>1, <3>2, <3>3 DEF Ids
    <3> QED BY <3>4, <3>5, <3>6
  <2>9. Missing' = rejected'
    <3>1. Missing = (1..Len(given)) \ Ids(out) /\ Missing' = (1..id) \ Ids(out')
      BY <1>4 DEF Missing, Ids
    <3> HIDE DEF id
    <3> QED BY <1>1, <1>13, <1>22, <2>8, <3>1 DEF InsertInv
  <2>10. InsertInv'
    <3>1. trees'[1] = <<>> /\ Len(<<>>) = 0
      BY <2>6
    <3> QED BY <1>1, <1>22, <2>9, <3>1 DEF InsertInv
  <2>11. MixInv'
    <3>1. <<r>> \in Seq(Rec) /\ Len(<<r>>) = 1 /\ <<r>>[1] = r
      BY <2>3
    <3>2. Before(out \o <<r>>, Len(out) + 1) = LastId
      <4>1. CASE out = <<>>
        BY <4>1 DEF Before, LastId
      <4>2. CASE out # <<>>
        <5>1. Len(out) + 1 # 1 /\ Len(out) \in 1..Len(out) /\ (Len(out) + 1) - 1 = Len(out)
          BY <2>5, <4>2, EmptySeq
        <5>2. (out \o <<r>>)[Len(out)] = out[Len(out)]
          BY <2>5, <5>1
        <5> QED BY <4>2, <5>1, <5>2 DEF Before, LastId
      <4> QED BY <4>1, <4>2
    <3>3. \A i \in 1..Len(<<r>>) : MixAt(<<r>>[i], Before(out \o <<r>>, Len(out) + i), rejected)
      BY <2>4, <3>1, <3>2
    <3>4. \A i \in 1..Len(out) : MixAt(out[i], Before(out, i), rejected)
      BY <1>1 DEF MixInv
    <3>5. \A i \in 1..Len(out \o <<r>>) :
            MixAt((out \o <<r>>)[i], Before(out \o <<r>>, i), rejected)
      <4> DEFINE one == <<r>>
      <4>1. one \in Seq(Rec)
        BY <3>1
      <4> HIDE DEF one
      <4>2. \A i \in 1..Len(one) : MixAt(one[i], Before(out \o one, Len(out) + i), rejected)
        BY <3>3 DEF one
      <4>3. \A i \in 1..Len(out \o one) : MixAt((out \o one)[i], Before(out \o one, i), rejected)
        BY <2>5, <3>4, <4>1, <4>2, MixExtends
      <4> QED BY <4>3 DEF one
    <3> QED BY <1>22, <2>5, <3>5 DEF MixInv
  <2>12. ReadInv' /\ IdleInv' /\ LossStaysInBatch' /\ StopsHaveCauses'
    BY <1>1, <1>22 DEF ReadInv, IdleInv, LossStaysInBatch, StopsHaveCauses
  <2> QED BY <1>15, <2>7, <2>10, <2>11, <2>12 DEF IInv
<1> HIDE DEF tree, id
<1> QED BY <1>14, <1>18, <1>19, <1>20, <1>21, <1>22

-----------------------------------------------------------------------------
(* The theorems.                                                           *)

\* Every step of the parser keeps the invariant.
LEMMA StepInv == ASSUME IInv, [Next]_vars PROVE IInv'
<1>1. CASE OpenFile \/ OpenAll \/ OpenInsert
  BY <1>1, OpenStep
<1>2. CASE \E t \in Texts : ReadLine(t)
  BY <1>2, ReadLineStep
<1>3. CASE \E t \in Texts : ReadRest(t)
  BY <1>3, ReadRestStep
<1>4. CASE EndOfStream
  BY <1>4, EndOfStreamStep
<1>5. CASE BatchRead
  BY <1>5, BatchReadStep
<1>6. CASE ParseText
  BY <1>6, ParseTextStep
<1>7. CASE ParseNothing
  BY <1>7, ParseNothingStep
<1>8. CASE GenerateBatch
  BY <1>8, GenerateBatchStep
<1>9. CASE \E t \in Texts : Insert(t)
  BY <1>9, InsertStep
<1>10. CASE CloseInsert
  BY <1>10, CloseInsertStep
<1>11. CASE UNCHANGED vars
  <2>1. UNCHANGED <<mode, rnum, cap, used, buf, batch, rest, eof, pidx, trees, given, cutting,
                    rejected, out>>
    BY <1>11 DEF vars, bufferVars, inputVars
  <2>2. Typing' /\ BatchInv'
    BY <2>1 DEF IInv, Typing, BatchInv
  <2>3. ReadInv'
    <3>1. TreesFollowBatch' = TreesFollowBatch
      BY <2>1 DEF TreesFollowBatch
    <3> QED BY <2>1, <3>1 DEF IInv, ReadInv
  <2>4. InsertInv' /\ IdleInv' /\ MixInv' /\ LossStaysInBatch' /\ StopsHaveCauses'
    BY <2>1 DEF IInv, InsertInv, LeftBehind, LastId, Missing, IdleInv, MixInv,
                LossStaysInBatch, StopsHaveCauses
  <2> QED BY <2>2, <2>3, <2>4 DEF IInv
<1> QED BY <1>1, <1>2, <1>3, <1>4, <1>5, <1>6, <1>7, <1>8, <1>9, <1>10, <1>11 DEF Next

\* The trees, the batch and the account of the texts fit together in every state
\* of a parser.
THEOREM Invariance == Spec => []IInv
<1>1. Init => IInv
  BY InitInv
<1>2. IInv /\ [Next]_vars => IInv'
  BY StepInv
<1> QED BY <1>1, <1>2, PTL DEF Spec

\* The parser's variables keep their types and ranges.
THEOREM Types == Spec => []TypeOK
<1>1. IInv => TypeOK
  <2> SUFFICES ASSUME IInv PROVE TypeOK
    OBVIOUS
  <2>1. Typing
    BY DEF IInv
  <2> QED BY <2>1 DEF Typing, TypeOK
<1> QED BY <1>1, Invariance, PTL

\* A record has all fields of its text, once, and besides them only fields of
\* texts that insert_parser refused since the record before: the one tree it
\* parses into is cleared by generate alone (ColumnParser::parseOne).
THEOREM ForeignFieldsWereRefused == Spec => []MixOnlyAfterRejection
<1>1. IInv => MixOnlyAfterRejection
  BY MixByRecord DEF IInv
<1> QED BY <1>1, Invariance, PTL

\* A parser that ends has a record of every text it did not refuse, and one that
\* stops at a syntax error has lost texts of its last batch only.
THEOREM LossIsBounded == Spec => []LossStaysInBatch
<1>1. IInv => LossStaysInBatch
  BY DEF IInv
<1> QED BY <1>1, Invariance, PTL

\* The process dies or uses freed memory for the named reasons only.
THEOREM CausesOfStops == Spec => []StopsHaveCauses
<1>1. IInv => StopsHaveCauses
  BY DEF IInv
<1> QED BY <1>1, Invariance, PTL

-----------------------------------------------------------------------------
(* Which lines are cut.                                                    *)

EarlierIn(s, id) == {c \in s : c < id}

\* Each line that was cut has doubled the buffer, the last one when what is left
\* of it is read; parseOne finds the buffer empty.
CutInv ==
  /\ rest > 0 => Len(given) \in cutting
  /\ BufferCap * 2^Cardinality(cutting) <= IF rest > 0 THEN 2 * cap ELSE cap
  /\ mode \in {"idle", "insert"} => rest = 0 /\ cutting = {}
  /\ mode = "idle" => used = 0
  /\ rnum = 1 /\ mode = "read" /\ batch = <<>> => used = 0
  /\ rnum = 1 =>
       \A id \in cutting : given[id].len > BufferCap * 2^Cardinality(EarlierIn(cutting, id))

\* The lines cut are finitely many, and one more counts one more.
LEMMA CutCount ==
  ASSUME Typing
  PROVE  /\ IsFiniteSet(cutting) /\ Cardinality(cutting) \in Nat
         /\ 2^Cardinality(cutting) \in Nat \ {0}
         /\ \A id : id \notin cutting =>
              2^Cardinality(cutting \cup {id}) = 2 * 2^Cardinality(cutting)
<1>1. IsFiniteSet(1..Len(given)) /\ cutting \subseteq 1..Len(given)
  <2>1. Len(given) \in Nat
    BY LenProperties DEF Typing
  <2> QED BY <2>1, FS_Interval DEF Typing
<1>2. IsFiniteSet(cutting) /\ Cardinality(cutting) \in Nat
  BY <1>1, FS_Subset, FS_CardinalityType
<1>3. ASSUME NEW id, id \notin cutting
      PROVE  Cardinality(cutting \cup {id}) = Cardinality(cutting) + 1
  BY <1>2, <1>3, FS_AddElement
<1>4. ASSUME NEW n \in Nat PROVE 2^n \in Nat \ {0} /\ 2^(n + 1) = 2 * 2^n
  BY Powers
<1> QED BY <1>2, <1>3, <1>4

LEMMA ReadLineCut == ASSUME IInv, CutInv, NEW t \in Texts, ReadLine(t) PROVE CutInv'
<1> USE RecordInputAssumption
<1> DEFINE g == Len(given)
           pow == 2^Cardinality(cutting)
<1>1. /\ mode = "read" /\ Len(batch) < rnum /\ rest = 0 /\ given' = Append(given, t)
      /\ TakeLine(g + 1, t, t.len, Grown(cap, t.len), batch)
      /\ Typing /\ cap \in Nat /\ used \in Nat /\ used <= cap /\ batch \in Seq(Piece)
  BY DEF ReadLine, CanRead, IInv, Typing
<1>2. /\ UNCHANGED <<mode, rnum>> /\ cap' = Grown(cap, t.len) /\ batch' # <<>>
      /\ \/ rest' = 0 /\ cutting' = cutting
         \/ /\ t.len > Grown(cap, t.len) - used
            /\ rest' > 0 /\ cutting' = cutting \cup {g + 1}
  <2>1. Grown(cap, t.len) \in Nat /\ t.len \in Nat
    BY <1>1 DEF Grown, Text
  <2>2. ASSUME NEW p PROVE Append(batch, p) # <<>>
    <3>1. Len(Append(batch, p)) = Len(batch) + 1 /\ Len(batch) \in Nat
      BY <1>1, LenProperties, AppendIsConcat
    <3>2. Len(<<>>) = 0
      OBVIOUS
    <3> QED BY <3>1, <3>2
  <2>3. \E p : batch' = Append(batch, p)
    BY <1>1 DEF TakeLine
  <2> HIDE DEF g
  <2>4. /\ UNCHANGED <<mode, rnum>> /\ cap' = Grown(cap, t.len)
        /\ \/ rest' = 0 /\ cutting' = cutting
           \/ /\ t.len > Grown(cap, t.len) - used
              /\ Grown(cap, t.len) - used >= 2
              /\ rest' = t.len - (Grown(cap, t.len) - used - 1)
              /\ cutting' = cutting \cup {g + 1}
    BY <1>1 DEF TakeLine
  <2>5. t.len > Grown(cap, t.len) - used =>
          t.len - (Grown(cap, t.len) - used - 1) > 0
    BY <1>1, <2>1
  <2> QED BY <2>2, <2>3, <2>4, <2>5
<1>3. /\ g \in Nat /\ Len(given') = g + 1 /\ given'[g + 1] = t
      /\ \A i \in 1..g : given'[i] = given[i]
      /\ cutting \subseteq 1..g /\ g + 1 \notin cutting
  <2>1. given \in Seq(Texts) /\ cutting \subseteq 1..g
    BY <1>1 DEF Typing
  <2> QED BY <1>1, <2>1, AppendProperties, LenProperties
<1>4. pow \in Nat \ {0} /\ 2^Cardinality(cutting \cup {g + 1}) = 2 * pow
  BY <1>1, <1>3, CutCount
<1> HIDE DEF g, pow
<1>5. /\ BufferCap * pow <= cap /\ BufferCap * pow \in Nat /\ BufferCap * pow >= 2
      /\ BufferCap * (2 * pow) = 2 * (BufferCap * pow)
  <2>1. BufferCap * pow <= cap
    BY <1>1 DEF CutInv, pow
  <2>2. \A a \in Nat \ {0, 1}, b \in Nat \ {0} : a * b \in Nat /\ a * b >= 2 /\ a * (2 * b) = 2 * (a * b)
    OBVIOUS
  <2> QED BY <1>4, <2>1, <2>2
<1>6. cap' \in Nat /\ cap' >= cap
  BY <1>1, <1>2 DEF Grown
<1>7. BufferCap * 2^Cardinality(cutting') <= IF rest' > 0 THEN 2 * cap' ELSE cap'
  <2>1. CASE rest' = 0 /\ cutting' = cutting
    <3>1. 2^Cardinality(cutting') = pow
      BY <2>1 DEF pow
    <3> QED BY <1>1, <1>5, <1>6, <2>1, <3>1
  <2>2. CASE rest' > 0 /\ cutting' = cutting \cup {g + 1}
    <3>1. 2^Cardinality(cutting') = 2 * pow
      BY <1>4, <2>2
    <3> QED BY <1>1, <1>5, <1>6, <2>2, <3>1
  <2> QED BY <1>2, <2>1, <2>2
<1>8. rest' > 0 => Len(given') \in cutting'
  BY <1>2, <1>3
<1>9. ASSUME rnum' = 1, NEW id \in cutting'
      PROVE  given'[id].len > BufferCap * 2^Cardinality(EarlierIn(cutting', id))
  <2>1. CASE id \in cutting
    <3>1. id \in 1..g /\ id < g + 1
      BY <1>3, <2>1
    <3>2. EarlierIn(cutting', id) = EarlierIn(cutting, id)
      <4>1. \A c : c \in EarlierIn(cutting', id) <=> c \in EarlierIn(cutting, id)
        BY <1>2, <1>3, <3>1 DEF EarlierIn
      <4> QED BY <4>1
    <3> QED BY <1>2, <1>3, <1>9, <2>1, <3>1, <3>2 DEF CutInv
  <2>2. CASE id \notin cutting
    <3>1. id = g + 1 /\ t.len > Grown(cap, t.len) - used
      BY <1>2, <2>2
    <3>2. used = 0
      <4>1. Len(batch) = 0
        BY <1>1, <1>2, <1>9, LenProperties
      <4>2. batch = <<>>
        BY <1>1, <4>1, EmptySeq
      <4> QED BY <1>1, <1>2, <1>9, <4>2 DEF CutInv
    <3>3. Grown(cap, t.len) = cap
      BY <1>1, <1>5, <3>2 DEF Grown
    <3>4. t.len > BufferCap * pow
      <4>1. t.len \in Nat
        BY <1>1 DEF Text
      <4> QED BY <1>1, <1>5, <3>1, <3>2, <3>3, <4>1
    <3>5. EarlierIn(cutting', id) = cutting
      <4>1. ASSUME NEW c PROVE c \in EarlierIn(cutting', id) <=> c \in cutting
        <5>1. c \in cutting => c \in cutting' /\ c < id
          BY <1>2, <1>3, <3>1
        <5>2. c \in cutting' /\ c < id => c \in cutting
          BY <1>2, <1>3, <3>1
        <5> QED BY <5>1, <5>2 DEF EarlierIn
      <4> QED BY <4>1
    <3> QED BY <1>3, <3>1, <3>4, <3>5 DEF pow
  <2> QED BY <2>1, <2>2
<1> QED BY <1>1, <1>2, <1>7, <1>8, <1>9 DEF CutInv

LEMMA ReadRestCut == ASSUME IInv, CutInv, NEW t \in Texts, ReadRest(t) PROVE CutInv'
<1> USE RecordInputAssumption
<1> DEFINE mend(i) == IF i = Len(batch) THEN [batch[i] EXCEPT !.text = batch[i].whole]
                      ELSE batch[i]
           before == [i \in 1..Len(batch) |-> mend(i)]
           pow == 2^Cardinality(cutting)
<1>1. /\ mode = "read" /\ rest > 0 /\ given' = given
      /\ TakeLine(Len(given), t, rest, 2 * cap, before)
      /\ Typing /\ cap \in Nat /\ rest \in Nat
  BY DEF ReadRest, CanRead, IInv, Typing
<1>2. Len(given) \in cutting /\ BufferCap * pow <= 2 * cap
  BY <1>1 DEF CutInv
<1>3. /\ UNCHANGED <<mode, rnum>> /\ cap' = 2 * cap /\ cutting' = cutting
      /\ \E p : batch' = Append(before, p)
  <2> HIDE DEF before
  <2> QED BY <1>1, <1>2 DEF TakeLine
<1>4. batch' # <<>>
  <2>1. Len(batch) \in Nat
    BY <1>1, LenProperties DEF Typing
  <2>2. before \in Seq({mend(i) : i \in 1..Len(batch)})
    <3>1. before \in [1..Len(batch) -> {mend(i) : i \in 1..Len(batch)}]
      OBVIOUS
    <3> HIDE DEF before, mend
    <3> QED BY <2>1, <3>1, FunctionSeq
  <2> HIDE DEF before, mend
  <2>3. PICK p : batch' = Append(before, p)
    BY <1>3
  <2> DEFINE S == {mend(i) : i \in 1..Len(batch)} \cup {p}
  <2>4. before \in Seq(S) /\ p \in S
    BY <2>2, SeqDef
  <2> HIDE DEF S
  <2>5. Len(Append(before, p)) = Len(before) + 1 /\ Len(before) \in Nat
    BY <2>4, AppendProperties, LenProperties
  <2> QED BY <2>3, <2>5, EmptySeq
<1>5. pow \in Nat \ {0}
  BY <1>1, CutCount
<1>6. BufferCap * pow <= IF rest' > 0 THEN 2 * cap' ELSE cap'
  <2> HIDE DEF pow
  <2>1. BufferCap * pow \in Nat
    BY <1>5
  <2> QED BY <1>1, <1>2, <1>3, <2>1
<1>7. \A id : EarlierIn(cutting', id) = EarlierIn(cutting, id)
  BY <1>3
<1> QED BY <1>1, <1>2, <1>3, <1>4, <1>6, <1>7 DEF CutInv

LEMMA InitCut == ASSUME Init PROVE CutInv
<1> USE RecordInputAssumption
<1>1. cutting = {} /\ rest = 0 /\ used = 0 /\ cap = BufferCap /\ mode = "idle"
  BY DEF Init
<1>2. 2^Cardinality(cutting) = 1
  BY <1>1, FS_EmptySet, Powers
<1>3. BufferCap * 1 <= IF rest > 0 THEN 2 * cap ELSE cap
  BY <1>1
<1> QED BY <1>1, <1>2, <1>3 DEF CutInv

\* Steps that cut nothing and give no text.
LEMMA OtherCut ==
  ASSUME CutInv,
         UNCHANGED <<rnum, rest, cap, cutting, given>>,
         mode' \in {"idle", "insert"} => mode \in {"idle", "insert"},
         mode' = "idle" => mode = "idle" /\ used' = used,
         mode' = "read" =>
           \/ used' = 0
           \/ mode = "read" /\ used' = used /\ batch' = batch
  PROVE  CutInv'
<1>1. \A id : EarlierIn(cutting', id) = EarlierIn(cutting, id)
  OBVIOUS
<1> QED BY <1>1 DEF CutInv

LEMMA OpenCut == ASSUME IInv, CutInv, OpenFile \/ OpenAll \/ OpenInsert PROVE CutInv'
<1> USE RecordInputAssumption
<1>1. PICK m \in {"read", "insert"}, n \in Indexes : Open(m, n)
  BY DEF OpenFile, OpenAll, OpenInsert, Indexes
<1>2. /\ mode = "idle" /\ mode' = m
      /\ UNCHANGED <<cap, used, batch, rest, given, cutting>>
  BY <1>1 DEF Open, bufferVars, inputVars
<1>3. cutting = {} /\ rest = 0 /\ used = 0
  BY <1>2 DEF CutInv
<1> QED BY <1>2, <1>3 DEF CutInv

\* insert_parser reads no lines.
LEMMA InsertCut == ASSUME IInv, CutInv, NEW t \in Texts, Insert(t) PROVE CutInv'
<1> USE RecordInputAssumption
<1>1. /\ mode = "insert" /\ mode' \notin {"idle", "read"}
      /\ UNCHANGED <<rest, cutting>>
      /\ cap' = Reserved(t.len)
  <2>1. mode' \in {"insert", "died", "undefined"}
    BY DEF Insert
  <2> QED BY <2>1 DEF Insert, inputVars, AppendOneRecd
<1>2. cutting = {} /\ rest = 0
  BY <1>1 DEF CutInv
<1>3. cap \in Nat /\ used \in Nat /\ t.len \in Nat
  BY DEF IInv, Typing, Text
<1>4. cap' \in Nat /\ cap' >= cap
  BY <1>1, <1>3 DEF Reserved
<1>5. 2^Cardinality(cutting) = 1
  BY <1>2, FS_EmptySet, Powers
<1>6. BufferCap * 1 <= cap
  BY <1>2, <1>5 DEF CutInv
<1>7. BufferCap * 2^Cardinality(cutting') <= cap'
  <2>1. 2^Cardinality(cutting') = 1
    BY <1>1, <1>5
  <2>2. BufferCap * 1 <= cap'
    BY <1>3, <1>4, <1>6
  <2> QED BY <2>1, <2>2
<1> QED BY <1>1, <1>2, <1>7 DEF CutInv

LEMMA StepCut == ASSUME IInv, CutInv, [Next]_vars PROVE CutInv'
<1>1. CASE OpenFile \/ OpenAll \/ OpenInsert
  BY <1>1, OpenCut
<1>2. CASE \E t \in Texts : ReadLine(t)
  BY <1>2, ReadLineCut
<1>3. CASE \E t \in Texts : ReadRest(t)
  BY <1>3, ReadRestCut
<1>4. CASE \E t \in Texts : Insert(t)
  BY <1>4, InsertCut
<1>5. CASE GenerateBatch
  <2>1. /\ mode' \notin {"idle", "insert"} /\ used' = 0
        /\ UNCHANGED <<rnum, rest, cap, cutting, given>>
    BY <1>5 DEF GenerateBatch, UsedAfterClear
  <2> QED BY <2>1, OtherCut
<1>6. CASE EndOfStream \/ BatchRead \/ ParseText \/ ParseNothing \/ CloseInsert
  <2>1. /\ UNCHANGED <<rnum, rest, cap, cutting, given, used, batch>>
        /\ mode' \notin {"idle", "insert"} /\ (mode' = "read" => mode = "read")
    <3>1. CASE EndOfStream
      BY <3>1 DEF EndOfStream, CanRead, bufferVars
    <3>2. CASE BatchRead
      BY <3>2 DEF BatchRead, bufferVars
    <3>3. CASE ParseText
      BY <3>3 DEF ParseText, bufferVars
    <3>4. CASE ParseNothing
      BY <3>4 DEF ParseNothing, bufferVars, inputVars
    <3>5. CASE CloseInsert
      BY <3>5 DEF CloseInsert, bufferVars, inputVars
    <3> QED BY <1>6, <3>1, <3>2, <3>3, <3>4, <3>5
  <2> QED BY <2>1, OtherCut
<1>7. CASE UNCHANGED vars
  <2>1. UNCHANGED <<rnum, rest, cap, cutting, given, used, batch, mode>>
    BY <1>7 DEF vars, bufferVars, inputVars
  <2> QED BY <2>1, OtherCut
<1> QED BY <1>1, <1>2, <1>3, <1>4, <1>5, <1>6, <1>7 DEF Next

\* parse_file cuts only lines longer than the buffer it began with, doubled for
\* every line cut before: in a file of one record per line the buffer is empty
\* when a line is read (JSONRecordReader::readLine).
THEOREM OnlyLongLinesCut == Spec => []CutsNeedLongLines
<1>1. Init => IInv /\ CutInv
  BY InitInv, InitCut
<1>2. (IInv /\ CutInv) /\ [Next]_vars => (IInv /\ CutInv)'
  BY StepInv, StepCut
<1>3. IInv /\ CutInv => CutsNeedLongLines
  BY Zenon DEF CutInv, CutsNeedLongLines, EarlierIn
<1> QED BY <1>1, <1>2, <1>3, PTL DEF Spec

=============================================================================
