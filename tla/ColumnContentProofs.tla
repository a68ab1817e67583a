------------------------ MODULE ColumnContentProofs ------------------------
(***************************************************************************)
(* What the files and the writer of ColumnFile hold, for all values of its *)
(* constants: nothing accepted is lost, changed or reordered.              *)
(*                                                                         *)
(* ContentInv is inductive on top of the invariants of ColumnFileProofs.   *)
(* It follows an item from memory to disk: the counters count the buffered *)
(* items, so that a flush stores what a reader will expect; the finished   *)
(* CABs followed by the buffer are the log; and as long as a rewritten     *)
(* tail can still be taken for the one that was closed, it is read as it   *)
(* was.                                                                    *)
(*                                                                         *)
(* The files then implement a log (module ColumnLog).  What a reader of    *)
(* the files finds is the durable log, except while a partly filled tail   *)
(* has been overwritten and no longer has the length that the .info file   *)
(* tells: then it is the durable log without its last group of RecdCap     *)
(* records.  GroupInv adds to ContentInv what this takes: that CABs begin  *)
(* where groups of records begin, that what is durable is a prefix of the  *)
(* log, and that a tail is overwritten at most once.                       *)
(***************************************************************************)
EXTENDS ColumnFileProofs, FiniteSetTheorems, NatInduction

-----------------------------------------------------------------------------
(* Concatenation of blocks.                                                *)

\* f is the function that Concatenated(b, n) builds.
Builds(f, b, n) ==
  f = [i \in 0..n |-> IF i = 0 THEN <<>> ELSE f[i - 1] \o b[i]]

\* What Builds says of the values.
LEMMA BuildsValues ==
  ASSUME NEW b, NEW n \in Nat, NEW f, Builds(f, b, n)
  PROVE  /\ DOMAIN f = 0..n
         /\ f[0] = <<>>
         /\ \A i \in 1..n : f[i] = f[i - 1] \o b[i]
<1> DEFINE body(i) == IF i = 0 THEN <<>> ELSE f[i - 1] \o b[i]
<1>1. f = [i \in 0..n |-> body(i)]
  BY DEF Builds
<1>2. DOMAIN f = 0..n /\ \A i \in 0..n : f[i] = body(i)
  <2> HIDE DEF body
  <2> QED BY <1>1
<1>3. 0 \in 0..n /\ \A i \in 1..n : i \in 0..n /\ i # 0
  OBVIOUS
<1> QED BY <1>2, <1>3

\* There is such a function ...
LEMMA ConcatExists ==
  ASSUME NEW b, NEW n \in Nat
  PROVE  \E f : Builds(f, b, n)
<1> DEFINE T == {m \in Nat : \E f : Builds(f, b, m)}
<1>1. 0 \in T
  <2> DEFINE f == [i \in 0..0 |-> <<>>]
  <2>1. f = [i \in 0..0 |-> IF i = 0 THEN <<>> ELSE f[i - 1] \o b[i]]
    OBVIOUS
  <2> QED BY <2>1 DEF Builds
<1>2. ASSUME NEW m \in T PROVE m + 1 \in T
  <2>1. PICK f : Builds(f, b, m)
    OBVIOUS
  <2>2. /\ DOMAIN f = 0..m /\ f[0] = <<>>
        /\ \A i \in 1..m : f[i] = f[i - 1] \o b[i]
    BY <2>1, BuildsValues
  <2> DEFINE g == [i \in 0..(m + 1) |-> IF i = m + 1 THEN f[m] \o b[m + 1] ELSE f[i]]
             body(i) == IF i = 0 THEN <<>> ELSE g[i - 1] \o b[i]
  <2>3. ASSUME NEW i \in 0..(m + 1) PROVE g[i] = body(i)
    <3>1. CASE i = 0
      BY <2>2, <3>1
    <3>2. CASE i = m + 1
      <4>1. m \in Nat /\ m \in 0..(m + 1) /\ m + 1 \in 0..(m + 1) /\ m # m + 1 /\ m + 1 # 0
             /\ (m + 1) - 1 = m
        OBVIOUS
      <4>2. g[m + 1] = f[m] \o b[m + 1] /\ g[m] = f[m]
        BY <4>1
      <4> HIDE DEF g
      <4> QED BY <3>2, <4>1, <4>2
    <3>3. CASE i \in 1..m
      <4>1. g[i] = f[i] /\ i - 1 \in 0..m /\ i # 0
        BY <3>3
      <4>2. g[i - 1] = f[i - 1]
        BY <4>1
      <4> QED BY <2>2, <3>3, <4>1, <4>2
    <3> QED BY <3>1, <3>2, <3>3
  <2>4. g = [i \in 0..(m + 1) |-> body(i)]
    <3>1. g = [i \in 0..(m + 1) |-> g[i]]
      OBVIOUS
    <3> HIDE DEF g, body
    <3> QED BY <2>3, <3>1
  <2>5. Builds(g, b, m + 1)
    BY <2>4 DEF Builds
  <2> QED BY <2>5
<1>3. T = Nat
  <2> HIDE DEF T
  <2>1. T \subseteq Nat
    BY DEF T
  <2> QED BY <1>1, <1>2, <2>1, SetInduction
<1> QED BY <1>3

\* ... and only one, whatever the number of blocks it goes on to.
LEMMA ConcatUnique ==
  ASSUME NEW b, NEW m \in Nat, NEW n \in Nat, m <= n,
         NEW f, Builds(f, b, m), NEW g, Builds(g, b, n)
  PROVE  f[m] = g[m]
<1> DEFINE T == {k \in Nat : f[k] = g[k]}
<1>1. f[0] = <<>> /\ \A i \in 1..m : f[i] = f[i - 1] \o b[i]
  BY BuildsValues
<1>2. g[0] = <<>> /\ \A i \in 1..n : g[i] = g[i - 1] \o b[i]
  BY BuildsValues
<1>3. ASSUME NEW k \in Nat, k < m, k \in T PROVE k + 1 \in T
  <2>1. k + 1 \in 1..m /\ k + 1 \in 1..n /\ (k + 1) - 1 = k /\ f[k] = g[k]
    BY <1>3
  <2>2. f[k + 1] = f[k] \o b[k + 1]
    BY <1>1, <2>1
  <2>3. g[k + 1] = g[k] \o b[k + 1]
    BY <1>2, <2>1
  <2>4. f[k + 1] = g[k + 1]
    BY <2>1, <2>2, <2>3
  <2> QED BY <2>4
<1>4. 0 \in T
  BY <1>1, <1>2
<1>5. m \in T
  <2> HIDE DEF T
  <2> QED BY <1>3, <1>4, InductionUpTo
<1> QED BY <1>5

\* Concatenated adds one block after the other.
LEMMA ConcatenatedStep ==
  ASSUME NEW b, NEW n \in Nat
  PROVE  /\ Concatenated(b, 0) = <<>>
         /\ Concatenated(b, n + 1) = Concatenated(b, n) \o b[n + 1]
<1> DEFINE up(k) == CHOOSE f : Builds(f, b, k)
<1>1. ASSUME NEW k \in Nat PROVE Concatenated(b, k) = up(k)[k] /\ Builds(up(k), b, k)
  <2>1. Builds(up(k), b, k)
    BY ConcatExists
  <2>2. Concatenated(b, k) = up(k)[k]
    BY Zenon DEF Concatenated, Builds
  <2> QED BY <2>1, <2>2
<1> HIDE DEF up
<1>2. up(0)[0] = <<>>
  BY <1>1, BuildsValues
<1>3. up(n + 1)[n + 1] = up(n + 1)[n] \o b[n + 1]
  <2>1. n + 1 \in Nat /\ n + 1 \in 1..(n + 1) /\ (n + 1) - 1 = n
    OBVIOUS
  <2>2. \A i \in 1..(n + 1) : up(n + 1)[i] = up(n + 1)[i - 1] \o b[i]
    BY <1>1, <2>1, BuildsValues
  <2> QED BY <2>1, <2>2
<1>4. up(n)[n] = up(n + 1)[n]
  BY <1>1, ConcatUnique
<1>5. /\ Concatenated(b, 0) = up(0)[0] /\ Concatenated(b, n) = up(n)[n]
      /\ Concatenated(b, n + 1) = up(n + 1)[n + 1]
  BY <1>1
<1> QED BY <1>2, <1>3, <1>4, <1>5

\* It depends on the blocks it concatenates only ...
LEMMA ConcatenatedSame ==
  ASSUME NEW b, NEW c, NEW n \in Nat, \A i \in 1..n : b[i] = c[i]
  PROVE  Concatenated(b, n) = Concatenated(c, n)
<1> DEFINE T == {k \in Nat : Concatenated(b, k) = Concatenated(c, k)}
<1>1. 0 \in T
  BY ConcatenatedStep
<1>2. ASSUME NEW k \in Nat, k < n, k \in T PROVE k + 1 \in T
  <2>1. k + 1 \in 1..n /\ Concatenated(b, k) = Concatenated(c, k)
    BY <1>2
  <2>2. /\ Concatenated(b, k + 1) = Concatenated(b, k) \o b[k + 1]
        /\ Concatenated(c, k + 1) = Concatenated(c, k) \o c[k + 1]
    BY ConcatenatedStep
  <2>3. Concatenated(b, k + 1) = Concatenated(c, k + 1)
    BY <2>1, <2>2
  <2> QED BY <2>3
<1>3. n \in T
  <2> HIDE DEF T
  <2> QED BY <1>1, <1>2, InductionUpTo
<1> QED BY <1>3

\* ... and is a sequence of their items.
LEMMA ConcatenatedType ==
  ASSUME NEW S, NEW b, NEW n \in Nat, \A i \in 1..n : b[i] \in Seq(S)
  PROVE  Concatenated(b, n) \in Seq(S)
<1> DEFINE T == {k \in Nat : Concatenated(b, k) \in Seq(S)}
<1>1. 0 \in T
  BY ConcatenatedStep, EmptySeq
<1>2. ASSUME NEW k \in Nat, k < n, k \in T PROVE k + 1 \in T
  <2>1. k + 1 \in 1..n /\ Concatenated(b, k) \in Seq(S)
    BY <1>2
  <2>2. b[k + 1] \in Seq(S)
    BY <2>1
  <2>3. Concatenated(b, k) \o b[k + 1] \in Seq(S)
    BY <2>1, <2>2, ConcatProperties
  <2>4. Concatenated(b, k + 1) \in Seq(S)
    BY <2>3, ConcatenatedStep
  <2> QED BY <2>4
<1>3. n \in T
  <2> HIDE DEF T
  <2> QED BY <1>1, <1>2, InductionUpTo
<1> QED BY <1>3

-----------------------------------------------------------------------------
(* Counting items.                                                         *)

CountIn(is, G) == Cardinality({k \in DOMAIN is : is[k] \in G})

RecordItems  == {it \in ColumnItem : it.rep = 0}
NullItems    == {it \in ColumnItem : it.def < MaxDef}
TrivialItems == {it \in ColumnItem : it.def = 0 /\ it.rep = 0}

\* The counters of a CAB count the items it holds.
Counts(ii, is) ==
  /\ ii.item_num = Len(is)
  /\ ii.recd_num = RecordsIn(is)
  /\ ii.null_num = NullsIn(is)
  /\ ii.triv_num = TrivialsIn(is)

\* The counts of the model in one form.
LEMMA CountForms ==
  ASSUME NEW is \in Seq(ColumnItem)
  PROVE  /\ RecordsIn(is) = CountIn(is, RecordItems)
         /\ NullsIn(is) = CountIn(is, NullItems)
         /\ TrivialsIn(is) = CountIn(is, TrivialItems)
<1>1. \A k \in DOMAIN is : is[k] \in ColumnItem
  BY LenProperties
<1>2. {k \in DOMAIN is : is[k].rep = 0} = {k \in DOMAIN is : is[k] \in RecordItems}
  BY <1>1 DEF RecordItems
<1>3. {k \in DOMAIN is : is[k].def < MaxDef} = {k \in DOMAIN is : is[k] \in NullItems}
  BY <1>1 DEF NullItems
<1>4. {k \in DOMAIN is : is[k].def = 0 /\ is[k].rep = 0}
        = {k \in DOMAIN is : is[k] \in TrivialItems}
  BY <1>1 DEF TrivialItems
<1> QED BY <1>2, <1>3, <1>4 DEF RecordsIn, NullsIn, TrivialsIn, CountIn

\* A count is at most the length, and equal only if all are counted.
LEMMA CountBounds ==
  ASSUME NEW S, NEW is \in Seq(S), NEW G
  PROVE  /\ CountIn(is, G) \in Nat /\ CountIn(is, G) <= Len(is)
         /\ CountIn(is, G) = Len(is) => \A k \in 1..Len(is) : is[k] \in G
         /\ (\A k \in 1..Len(is) : is[k] \in G) => CountIn(is, G) = Len(is)
<1> DEFINE P == {k \in DOMAIN is : is[k] \in G}
<1>1. Len(is) \in Nat /\ DOMAIN is = 1..Len(is)
  BY LenProperties
<1>2. IsFiniteSet(1..Len(is)) /\ Cardinality(1..Len(is)) = Len(is)
  BY <1>1, FS_Interval, SMTT(20)
<1>3. P \in SUBSET (1..Len(is))
  BY <1>1
<1> HIDE DEF P
<1>4. /\ IsFiniteSet(P) /\ Cardinality(P) <= Cardinality(1..Len(is))
      /\ Cardinality(1..Len(is)) = Cardinality(P) => 1..Len(is) = P
  BY <1>2, <1>3, FS_Subset
<1>5. Cardinality(P) \in Nat
  BY <1>4, FS_CardinalityType
<1>6. CountIn(is, G) = Cardinality(P)
  BY DEF CountIn, P
<1>7. ASSUME CountIn(is, G) = Len(is), NEW k \in 1..Len(is) PROVE is[k] \in G
  <2>1. k \in P
    BY <1>2, <1>4, <1>6, <1>7
  <2> QED BY <2>1 DEF P
<1>8. ASSUME \A k \in 1..Len(is) : is[k] \in G PROVE CountIn(is, G) = Len(is)
  <2>1. P = 1..Len(is)
    BY <1>1, <1>8 DEF P
  <2> QED BY <1>2, <1>6, <2>1
<1> QED BY <1>2, <1>4, <1>5, <1>6, <1>7, <1>8

\* A wider class counts more.
LEMMA CountMonotonic ==
  ASSUME NEW S, NEW is \in Seq(S), NEW G, NEW H, G \subseteq H
  PROVE  CountIn(is, G) <= CountIn(is, H)
<1> DEFINE P == {k \in DOMAIN is : is[k] \in G}
           Q == {k \in DOMAIN is : is[k] \in H}
<1>1. Len(is) \in Nat /\ DOMAIN is = 1..Len(is)
  BY LenProperties
<1>2. IsFiniteSet(1..Len(is)) /\ Q \in SUBSET (1..Len(is)) /\ P \in SUBSET Q
  BY <1>1, FS_Interval, SMTT(20)
<1>3. IsFiniteSet(Q)
  <2> HIDE DEF P, Q
  <2> QED BY <1>2, FS_Subset
<1>4. Cardinality(P) <= Cardinality(Q)
  <2> HIDE DEF P, Q
  <2> QED BY <1>2, <1>3, FS_Subset
<1> QED BY <1>4 DEF CountIn

\* One more item is counted if it is of the class.
LEMMA CountAppend ==
  ASSUME NEW S, NEW is \in Seq(S), NEW it \in S, NEW G
  PROVE  CountIn(Append(is, it), G) = CountIn(is, G) + (IF it \in G THEN 1 ELSE 0)
<1> DEFINE js == Append(is, it)
           n  == Len(is)
           P  == {k \in DOMAIN is : is[k] \in G}
           Q  == {k \in DOMAIN js : js[k] \in G}
<1>1. /\ js \in Seq(S) /\ Len(js) = n + 1 /\ js[n + 1] = it
      /\ \A k \in 1..n : js[k] = is[k]
  BY AppendProperties
<1>2. n \in Nat /\ DOMAIN is = 1..n /\ DOMAIN js = 1..(n + 1)
  BY <1>1, LenProperties
<1> HIDE DEF js, n
<1>3. Q = IF it \in G THEN P \cup {n + 1} ELSE P
  BY <1>1, <1>2
<1>4. n + 1 \notin P /\ P \in SUBSET (1..n)
  BY <1>2
<1>5. IsFiniteSet(P) /\ Cardinality(P) \in Nat
  <2>1. IsFiniteSet(1..n)
    BY <1>2, FS_Interval
  <2> HIDE DEF P
  <2> QED BY <1>4, <2>1, FS_Subset, FS_CardinalityType
<1>6. CountIn(js, G) = Cardinality(Q) /\ CountIn(is, G) = Cardinality(P)
  BY DEF CountIn
<1> HIDE DEF P, Q
<1>7. Cardinality(P \cup {n + 1}) = Cardinality(P) + 1
  BY <1>4, <1>5, FS_AddElement
<1> QED BY <1>3, <1>5, <1>6, <1>7 DEF js

\* A CAB begins with counters of no items.
LEMMA CountsEmpty ==
  ASSUME NEW bgn
  PROVE  Counts(EmptyItemInfo(bgn), <<>>)
<1>1. RecordsIn(<<>>) = 0 /\ NullsIn(<<>>) = 0 /\ TrivialsIn(<<>>) = 0
  <2>1. /\ {k \in DOMAIN <<>> : <<>>[k].rep = 0} = {}
        /\ {k \in DOMAIN <<>> : <<>>[k].def < MaxDef} = {}
        /\ {k \in DOMAIN <<>> : <<>>[k].def = 0 /\ <<>>[k].rep = 0} = {}
    OBVIOUS
  <2> QED BY <2>1, FS_EmptySet DEF RecordsIn, NullsIn, TrivialsIn
<1> QED BY <1>1 DEF Counts, EmptyItemInfo

\* CABItemInfo::update keeps the counters true to the items.
LEMMA CountsUpdate ==
  ASSUME NEW ii \in ItemInfo, NEW is \in Seq(ColumnItem), NEW it \in ColumnItem,
         Counts(ii, is)
  PROVE  Counts(Update(ii, it), Append(is, it))
<1> DEFINE js == Append(is, it)
<1>1. js \in Seq(ColumnItem) /\ Len(js) = Len(is) + 1
  BY AppendProperties
<1>2. /\ CountIn(js, RecordItems) = CountIn(is, RecordItems) + (IF it \in RecordItems THEN 1 ELSE 0)
      /\ CountIn(js, NullItems) = CountIn(is, NullItems) + (IF it \in NullItems THEN 1 ELSE 0)
      /\ CountIn(js, TrivialItems) = CountIn(is, TrivialItems) + (IF it \in TrivialItems THEN 1 ELSE 0)
  BY CountAppend
<1> HIDE DEF js
<1>3. /\ RecordsIn(js) = RecordsIn(is) + (IF it.rep = 0 THEN 1 ELSE 0)
      /\ NullsIn(js) = NullsIn(is) + (IF it.def < MaxDef THEN 1 ELSE 0)
      /\ TrivialsIn(js) = TrivialsIn(is) + (IF it.def = 0 /\ it.rep = 0 THEN 1 ELSE 0)
  BY <1>1, <1>2, CountForms DEF RecordItems, NullItems, TrivialItems
<1> QED BY <1>1, <1>3 DEF Counts, Update, js

\* What counters that count a list say of each other.
LEMMA CountsFacts ==
  ASSUME NEW ii, NEW is \in Seq(ColumnItem), Counts(ii, is)
  PROVE  /\ ii.item_num \in Nat /\ ii.recd_num \in Nat /\ ii.null_num \in Nat /\ ii.triv_num \in Nat
         /\ ii.recd_num <= ii.item_num /\ ii.null_num <= ii.item_num
         /\ ii.triv_num <= ii.recd_num /\ ii.triv_num <= ii.null_num
         /\ ii.triv_num = ii.item_num => \A k \in 1..Len(is) : is[k] \in TrivialItems
         /\ ii.null_num = ii.item_num => \A k \in 1..Len(is) : is[k] \in NullItems
<1>1. TrivialItems \subseteq RecordItems /\ TrivialItems \subseteq NullItems
  BY ConstantsAssumption DEF TrivialItems, RecordItems, NullItems
<1>2. /\ ii.item_num = Len(is) /\ ii.recd_num = CountIn(is, RecordItems)
      /\ ii.null_num = CountIn(is, NullItems) /\ ii.triv_num = CountIn(is, TrivialItems)
  BY CountForms DEF Counts
<1>3. Len(is) \in Nat
  BY LenProperties
<1>4. /\ CountIn(is, TrivialItems) <= CountIn(is, RecordItems)
      /\ CountIn(is, TrivialItems) <= CountIn(is, NullItems)
  BY <1>1, CountMonotonic
<1>5. /\ CountIn(is, RecordItems) \in Nat /\ CountIn(is, RecordItems) <= Len(is)
      /\ CountIn(is, NullItems) \in Nat /\ CountIn(is, NullItems) <= Len(is)
      /\ CountIn(is, TrivialItems) \in Nat
  BY CountBounds
<1>6. /\ CountIn(is, TrivialItems) = Len(is) => \A k \in 1..Len(is) : is[k] \in TrivialItems
      /\ CountIn(is, NullItems) = Len(is) => \A k \in 1..Len(is) : is[k] \in NullItems
  BY CountBounds
<1> QED BY <1>2, <1>3, <1>4, <1>5, <1>6

-----------------------------------------------------------------------------
(* Reading blocks.                                                         *)

\* ReadBlock, of the block b.
ReadOf(b, ii) ==
  LET type == GetType(ii)
      Stored(k) ==
        CASE type = "trivial" -> Trivial
          [] type = "allnull" -> [b[k] EXCEPT !.val = Null]
          [] type = "crucial" -> b[k]
  IN  [k \in 1..ii.item_num |-> Stored(k)]

LEMMA ReadBlockOf ==
  ASSUME NEW info
  PROVE  ReadBlock(info) = ReadOf(disk[info.file_off], info.item)
  BY DEF ReadBlock, ReadOf

\* The items of trivial and of all-null CABs.
LEMMA NullItemsOfItem ==
  /\ Item \subseteq ColumnItem /\ Trivial \in Item
  /\ \A it \in Item : it \in TrivialItems => it = Trivial
  /\ \A it \in Item : it \in NullItems => [it EXCEPT !.val = Null] = it
<1>1. Trivial \in ColumnItem
  BY ConstantsAssumption DEF Trivial, ColumnItem
<1>2. Trivial \in Item
  BY <1>1, ConstantsAssumption DEF Item, Trivial
<1>3. \A it \in Item : it \in NullItems => it.val = Null
  BY DEF Item, NullItems, ColumnItem
<1>4. \A it \in Item : it \in NullItems => [it EXCEPT !.val = Null] = it
  BY <1>3 DEF Item, ColumnItem
<1>5. \A it \in Item : it \in TrivialItems => it = Trivial
  <2> SUFFICES ASSUME NEW it \in Item, it \in TrivialItems PROVE it = Trivial
    OBVIOUS
  <2>1. it.val = Null
    BY ConstantsAssumption DEF Item, TrivialItems, ColumnItem
  <2> QED BY <2>1 DEF Item, TrivialItems, ColumnItem, Trivial
<1> QED BY <1>2, <1>4, <1>5 DEF Item

\* A block that the counters count is read as it was stored.
LEMMA ReadCounted ==
  ASSUME NEW ii, NEW is \in Seq(Item), Counts(ii, is)
  PROVE  ReadOf(is, ii) = is
<1>1. is \in Seq(ColumnItem)
  BY NullItemsOfItem, SeqMonotonic
<1>2. /\ ii.item_num = Len(is) /\ Len(is) \in Nat
      /\ ii.triv_num = ii.item_num => \A k \in 1..Len(is) : is[k] \in TrivialItems
      /\ ii.null_num = ii.item_num => \A k \in 1..Len(is) : is[k] \in NullItems
      /\ ii.triv_num = ii.item_num => ii.null_num = ii.item_num
  <2>1. /\ ii.triv_num \in Nat /\ ii.null_num \in Nat /\ ii.item_num \in Nat
        /\ ii.triv_num <= ii.null_num /\ ii.null_num <= ii.item_num
    BY <1>1, CountsFacts
  <2> QED BY <1>1, <2>1, CountsFacts, LenProperties DEF Counts
<1>3. /\ \A k \in 1..Len(is) : is[k] \in Item
      /\ is = [k \in 1..Len(is) |-> is[k]]
  BY LenProperties, ElementOfSeq
<1> DEFINE Stored(k) ==
             CASE GetType(ii) = "trivial" -> Trivial
               [] GetType(ii) = "allnull" -> [is[k] EXCEPT !.val = Null]
               [] GetType(ii) = "crucial" -> is[k]
<1>4. ASSUME NEW k \in 1..Len(is) PROVE Stored(k) = is[k]
  <2>1. is[k] \in Item
    BY <1>3
  <2>2. CASE GetType(ii) = "trivial"
    <3>1. ii.triv_num = ii.item_num
      BY <2>2 DEF GetType
    <3>2. is[k] = Trivial
      BY <1>2, <2>1, <3>1, NullItemsOfItem
    <3> QED BY <2>2, <3>2
  <2>3. CASE GetType(ii) = "allnull"
    <3>1. ii.triv_num = ii.item_num \/ ii.null_num = ii.item_num
      BY <2>3 DEF GetType
    <3>2. [is[k] EXCEPT !.val = Null] = is[k]
      BY <1>2, <2>1, <3>1, NullItemsOfItem
    <3> QED BY <2>3, <3>2
  <2>4. CASE GetType(ii) = "crucial"
    BY <2>4
  <2>5. GetType(ii) \in {"trivial", "allnull", "crucial"}
    BY DEF GetType
  <2> QED BY <2>2, <2>3, <2>4, <2>5
<1>5. [k \in 1..Len(is) |-> Stored(k)] = [k \in 1..Len(is) |-> is[k]]
  <2> HIDE DEF Stored
  <2> QED BY <1>4
<1>6. ReadOf(is, ii) = [k \in 1..Len(is) |-> Stored(k)]
  BY <1>2 DEF ReadOf
<1> QED BY <1>3, <1>5, <1>6

\* What is read has the length the counters say and is made of items, as long
\* as there is a block of that length, or none is needed.
LEMMA ReadType ==
  ASSUME NEW ii, ii.item_num \in Nat, NEW b,
         GetType(ii) = "trivial" \/ (b \in Seq(ColumnItem) /\ Len(b) = ii.item_num)
  PROVE  ReadOf(b, ii) \in Seq(ColumnItem) /\ Len(ReadOf(b, ii)) = ii.item_num
<1> DEFINE Stored(k) ==
             CASE GetType(ii) = "trivial" -> Trivial
               [] GetType(ii) = "allnull" -> [b[k] EXCEPT !.val = Null]
               [] GetType(ii) = "crucial" -> b[k]
<1>1. ASSUME NEW k \in 1..ii.item_num PROVE Stored(k) \in ColumnItem
  <2>1. CASE GetType(ii) = "trivial"
    <3>1. Trivial \in ColumnItem
      BY NullItemsOfItem
    <3> QED BY <2>1, <3>1
  <2>2. CASE GetType(ii) = "allnull"
    <3>1. b[k] \in ColumnItem
      BY <2>2, ElementOfSeq
    <3>2. [b[k] EXCEPT !.val = Null] \in ColumnItem
      BY <3>1 DEF ColumnItem
    <3> QED BY <2>2, <3>2
  <2>3. CASE GetType(ii) = "crucial"
    <3>1. b[k] \in ColumnItem
      BY <2>3, ElementOfSeq
    <3> QED BY <2>3, <3>1
  <2>4. GetType(ii) \in {"trivial", "allnull", "crucial"}
    BY DEF GetType
  <2> QED BY <2>1, <2>2, <2>3, <2>4
<1>2. ReadOf(b, ii) = [k \in 1..ii.item_num |-> Stored(k)]
  BY DEF ReadOf
<1>3. ReadOf(b, ii) \in [1..ii.item_num -> ColumnItem]
  <2> HIDE DEF Stored
  <2> QED BY <1>1, <1>2
<1>4. ReadOf(b, ii) \in Seq(ColumnItem)
  BY <1>3, SeqDef
<1>5. Len(ReadOf(b, ii)) = ii.item_num
  BY <1>3, <1>4, LenProperties
<1> QED BY <1>4, <1>5

\* A trivial block is read without the file.
LEMMA ReadTrivial ==
  ASSUME NEW ii, GetType(ii) = "trivial", NEW b, NEW c
  PROVE  ReadOf(b, ii) = ReadOf(c, ii)
  BY DEF ReadOf

-----------------------------------------------------------------------------
(* Reading files.                                                          *)

\* BlockItems and Decoded, of the file content d.
BlockOf(d, is, i) ==
  IF is[i].strg_size # 0 THEN ReadOf(d[is[i].file_off], is[i].item)
  ELSE IF i < Len(is)
  THEN [k \in 1..(is[i + 1].item.bgn_recd - is[i].item.bgn_recd) |-> Trivial]
  ELSE <<>>

DecodedOf(d, is, n) == Concatenated([i \in 1..n |-> BlockOf(d, is, i)], n)

LEMMA DecodedForm ==
  ASSUME NEW is, NEW n
  PROVE  Decoded(is, n) = DecodedOf(disk, is, n)
  BY DEF Decoded, DecodedOf, BlockItems, BlockOf, ReadBlock, ReadOf

\* Decoding adds the items of one CAB after the other.
LEMMA DecodedStep ==
  ASSUME NEW d, NEW is, NEW n \in Nat
  PROVE  /\ DecodedOf(d, is, 0) = <<>>
         /\ DecodedOf(d, is, n + 1) = DecodedOf(d, is, n) \o BlockOf(d, is, n + 1)
<1> DEFINE b(m) == [i \in 1..m |-> BlockOf(d, is, i)]
<1>1. Concatenated(b(0), 0) = <<>>
  BY ConcatenatedStep
<1>2. Concatenated(b(n + 1), n + 1) = Concatenated(b(n + 1), n) \o b(n + 1)[n + 1]
  BY ConcatenatedStep
<1>3. b(n + 1)[n + 1] = BlockOf(d, is, n + 1)
  OBVIOUS
<1>4. \A i \in 1..n : b(n + 1)[i] = b(n)[i]
  OBVIOUS
<1> HIDE DEF b
<1>5. Concatenated(b(n + 1), n) = Concatenated(b(n), n)
  BY <1>4, ConcatenatedSame
<1> QED BY <1>1, <1>2, <1>3, <1>5 DEF DecodedOf, b

\* Files that agree on the first CABs decode to the same items.
LEMMA DecodedSame ==
  ASSUME NEW d, NEW is, NEW e, NEW js, NEW n \in Nat,
         \A i \in 1..n : BlockOf(d, is, i) = BlockOf(e, js, i)
  PROVE  DecodedOf(d, is, n) = DecodedOf(e, js, n)
<1> DEFINE b == [i \in 1..n |-> BlockOf(d, is, i)]
           c == [i \in 1..n |-> BlockOf(e, js, i)]
<1>1. \A i \in 1..n : b[i] = c[i]
  OBVIOUS
<1> HIDE DEF b, c
<1>2. Concatenated(b, n) = Concatenated(c, n)
  BY <1>1, ConcatenatedSame
<1> QED BY <1>2 DEF DecodedOf, b, c

\* Decoding gives a sequence of items.
LEMMA DecodedType ==
  ASSUME NEW d, NEW is, NEW n \in Nat,
         \A i \in 1..n : BlockOf(d, is, i) \in Seq(ColumnItem)
  PROVE  DecodedOf(d, is, n) \in Seq(ColumnItem)
<1> DEFINE b == [i \in 1..n |-> BlockOf(d, is, i)]
<1>1. \A i \in 1..n : b[i] \in Seq(ColumnItem)
  OBVIOUS
<1> HIDE DEF b
<1>2. Concatenated(b, n) \in Seq(ColumnItem)
  BY <1>1, ConcatenatedType
<1> QED BY <1>2 DEF DecodedOf, b

-----------------------------------------------------------------------------
(* The content of the files and of the writer.                             *)

\* What is read of the block are items, and the counters count them.
Sound(info) ==
  /\ ReadBlock(info) \in Seq(Item)
  /\ Counts(info.item, ReadBlock(info))

Writing == session \in {"open", "flushed"}

\* The finished CABs and the one in memory hold the log.
OpenContent ==
  session = "open" =>
    /\ items \in Seq(Item) /\ Counts(item_info, items)
    /\ \A i \in 1..(Len(infos) - 1) : Readable(infos[i])
    /\ log = Decoded(infos, Len(infos) - 1) \o items

\* After the last flush the CABs hold the log.
FlushedContent ==
  session = "flushed" =>
    /\ Cur.strg_size # 0 => Sound(Cur)
    /\ Cur.strg_size = 0 => Cur.item.recd_num = 0
    /\ \A i \in 1..Len(infos) : Readable(infos[i])
    /\ log = Decoded(infos, Len(infos))

\* The files hold what is durable: all but the tail always, the tail too when
\* nobody is writing, and also while somebody writes if it is full.
TailDecodes ==
  /\ Readable(TailInfo)
  /\ Decoded(info_file.infos, Len(info_file.infos)) = durable

FileContent ==
  IF info_file = NoFile THEN durable = <<>> /\ session # "damaged"
  ELSE /\ FilesDecode(Len(info_file.infos) - 1)
       /\ session \in {"closed", "died"} => TailDecodes
       /\ Writing /\ TailIsFull => TailDecodes
       /\ session = "damaged" => ~TailIsFull

\* The tail can be taken up again: its counters count what would be loaded,
\* whenever the block on disk could be taken for it.
TailContent ==
  info_file # NoFile =>
    /\ TailInfo.strg_size = 0 => TailInfo.item.recd_num = 0
    /\ TailInfo.strg_size # 0
         /\ (GetType(TailInfo.item) = "trivial" \/ Len(disk[TailInfo.file_off]) = TailInfo.item.item_num)
         => Sound(TailInfo)

\* The writer goes on behind a full tail ...
BehindTail ==
  Writing /\ info_file # NoFile /\ TailIsFull =>
    TailInfo.file_off + TailInfo.strg_size <= Cur.file_off

\* ... and on top of a partly filled one: it holds at least the items of the
\* tail, and when it has gone on to another CAB at the same offset, because the
\* tail then had nothing to store, the tail is trivial.
Grown(old, new) ==
  /\ old.item_num <= new.item_num
  /\ old.item_num = new.item_num => old = new
  /\ old.item_num - old.triv_num <= new.item_num - new.triv_num
  /\ old.item_num - old.null_num <= new.item_num - new.null_num
  /\ old.triv_num <= old.item_num /\ old.null_num <= old.item_num

AtTail ==
  session = "open" /\ info_file # NoFile /\ ~TailIsFull =>
    LET n == Len(info_file.infos)
    IN  /\ n <= Len(infos)
        /\ infos[n].file_off = TailInfo.file_off
        /\ Len(infos) = n => Grown(TailInfo.item, item_info)
        /\ n < Len(infos) /\ infos[n].strg_size = 0 => GetType(TailInfo.item) = "trivial"

ContentInv ==
  /\ OpenContent /\ FlushedContent
  /\ FileContent /\ TailContent
  /\ BehindTail /\ AtTail

-----------------------------------------------------------------------------
(* A flush.                                                                *)

\* The fields of a CABInfo.
LEMMA InfoFields ==
  ASSUME NEW is \in Seq(Info), NEW i \in 1..Len(is)
  PROVE  /\ is[i] \in Info /\ is[i].item \in ItemInfo
         /\ is[i].file_off \in Nat /\ is[i].strg_size \in Nat
         /\ is[i].item.bgn_recd \in Nat /\ is[i].item.recd_num \in Nat
         /\ is[i].item.item_num \in Nat /\ is[i].item.null_num \in Nat
         /\ is[i].item.triv_num \in Nat
<1>1. is[i] \in Info
  BY ElementOfSeq
<1>2. is[i].item \in ItemInfo /\ is[i].file_off \in Nat /\ is[i].strg_size \in Nat
  BY <1>1 DEF Info
<1> QED BY <1>1, <1>2 DEF ItemInfo

\* The types of the blocks of a file or writer.
LEMMA BlockType ==
  ASSUME TypeOK, NEW is \in Seq(Info), NEW i \in 1..Len(is),
         is[i].strg_size # 0 => is[i].file_off \in DOMAIN disk,
         Readable(is[i])
  PROVE  BlockOf(disk, is, i) \in Seq(ColumnItem)
<1>1. /\ is[i] \in Info /\ is[i].item.item_num \in Nat
      /\ is[i].item.bgn_recd \in Nat
  BY InfoFields
<1>2. CASE is[i].strg_size # 0
  <2> DEFINE b == disk[is[i].file_off]
  <2>1. b \in Seq(ColumnItem) /\ Len(b) = is[i].item.item_num
    BY <1>2 DEF TypeOK, Readable
  <2>2. ReadOf(b, is[i].item) \in Seq(ColumnItem)
    <3> HIDE DEF b
    <3> QED BY <1>1, <2>1, ReadType
  <2> QED BY <1>2, <2>2 DEF BlockOf
<1>3. CASE is[i].strg_size = 0 /\ i < Len(is)
  <2> DEFINE m == is[i + 1].item.bgn_recd - is[i].item.bgn_recd
  <2>1. m \in Int
    <3>1. i + 1 \in 1..Len(is)
      BY <1>3, LenProperties
    <3>2. is[i + 1].item.bgn_recd \in Nat
      BY <3>1, InfoFields
    <3> QED BY <1>1, <3>2
  <2> HIDE DEF m
  <2>2. Trivial \in ColumnItem
    BY NullItemsOfItem
  <2>3. [k \in 1..m |-> Trivial] \in Seq(ColumnItem)
    <3>1. CASE m \in Nat
      <4>1. [k \in 1..m |-> Trivial] \in [1..m -> ColumnItem]
        BY <2>2
      <4> QED BY <3>1, <4>1, SeqDef
    <3>2. CASE m \notin Nat
      <4>1. 1..m = 1..0
        BY <2>1, <3>2
      <4>2. [k \in 1..m |-> Trivial] \in [1..0 -> ColumnItem]
        BY <2>2, <4>1
      <4> QED BY <4>2, SeqDef
    <3> QED BY <3>1, <3>2
  <2> QED BY <1>3, <2>3 DEF BlockOf, m
<1>4. CASE is[i].strg_size = 0 /\ ~(i < Len(is))
  BY <1>4, EmptySeq DEF BlockOf
<1> QED BY <1>2, <1>3, <1>4

\* A flush leaves the blocks of the writer's finished CABs alone.
LEMMA FlushKeepsOwn ==
  ASSUME IInv, OrderInv, session = "open", NEW tail \in BOOLEAN,
         NEW i \in 1..(Len(infos) - 1), infos[i].strg_size # 0
  PROVE  /\ FlushedDisk(tail)[infos[i].file_off] = disk[infos[i].file_off]
         /\ infos[i].file_off \in DOMAIN disk
<1> DEFINE info == infos[i]
           n    == Len(infos)
<1>1. infos \in Seq(Info) /\ file_off \in Nat /\ file_off = infos[n].file_off
  BY DEF IInv, TypeOK, OpenInv, Cur
<1>2. i \in 1..n /\ n \in 1..n /\ i < n
  BY <1>1, LenProperties
<1>3. info \in Info
  BY <1>1, <1>2, ElementOfSeq
<1>4. info.file_off + info.strg_size <= file_off /\ info.file_off \in DOMAIN disk
  <2>1. Ordered(infos) /\ StoredBlocks(infos)
    BY DEF OrderInv
  <2>2. infos[i].file_off + infos[i].strg_size <= infos[n].file_off
    BY <1>2, <2>1 DEF Ordered
  <2> QED BY <1>1, <2>1, <2>2 DEF StoredBlocks
<1>5. info.file_off \in Nat /\ info.strg_size \in Nat /\ info.strg_size # 0
  BY <1>3 DEF Info
<1> HIDE DEF info
<1>6. info.file_off # file_off
  BY <1>1, <1>4, <1>5
<1>7. FlushedDisk(tail)[info.file_off] = disk[info.file_off]
  BY <1>4, <1>6 DEF FlushedDisk
<1> QED BY <1>4, <1>7 DEF info

\* The CAB that is flushed reads as the items it holds: those of its block, or
\* as many trivial ones as it has records.
LEMMA FlushedBlock ==
  ASSUME IInv, OrderInv, OpenContent, session = "open", NEW tail \in BOOLEAN,
         tail \/ item_info.recd_num = RecdCap,
         NEW ks \in Seq(Info), Len(infos) <= Len(ks),
         ks[Len(infos)] = FlushedInfo(tail),
         IF tail THEN Len(ks) = Len(infos)
                 ELSE /\ Len(infos) < Len(ks)
                      /\ ks[Len(infos) + 1].item.bgn_recd = item_info.bgn_recd + RecdCap
  PROVE  /\ BlockOf(FlushedDisk(tail), ks, Len(infos)) = items
         /\ FlushedInfo(tail).strg_size # 0 =>
              /\ FlushedDisk(tail)[file_off] = items
              /\ FlushedInfo(tail).file_off = file_off
              /\ FlushedInfo(tail).item = item_info
              /\ Len(items) = item_info.item_num
              /\ ReadOf(items, item_info) = items
<1> DEFINE n  == Len(infos)
           fi == FlushedInfo(tail)
<1>1. /\ TypeOK /\ WriterInv /\ OpenInv
      /\ item_info \in ItemInfo /\ items \in Seq(Item) /\ Counts(item_info, items)
      /\ RecdCap \in Nat \ {0}
  BY ConstantsAssumption DEF IInv, TypeOK, OpenContent
<1>2. /\ fi.file_off = file_off
      /\ fi.item.bgn_recd = item_info.bgn_recd
      /\ MergedUsed(item_info, tail) = 0 => fi.strg_size = 0
      /\ MergedUsed(item_info, tail) # 0 => fi.strg_size > 0 /\ fi.item = item_info
      /\ MergedUsed(item_info, tail) = 0 /\ tail => item_info.item_num = 0
      /\ fi.strg_size \in Nat
  BY <1>1, FlushedInfoOpen
<1>3. /\ ReadOf(items, item_info) = items
      /\ Len(items) = item_info.item_num
  BY <1>1, ReadCounted DEF Counts
<1>4. CASE MergedUsed(item_info, tail) # 0
  <2>1. FlushedDisk(tail)[file_off] = items
    BY <1>1, <1>4, FlushedDiskType
  <2> HIDE DEF fi
  <2>2. fi.strg_size # 0 /\ ks[n] = fi
    BY <1>2, <1>4 DEF fi
  <2>3. BlockOf(FlushedDisk(tail), ks, n) = items
    BY <1>2, <1>3, <1>4, <2>1, <2>2 DEF BlockOf
  <2> QED BY <1>2, <1>3, <1>4, <2>1, <2>3 DEF fi
<1>5. CASE MergedUsed(item_info, tail) = 0
  <2>1. fi.strg_size = 0 /\ ks[n] = fi
    BY <1>2, <1>5
  <2> HIDE DEF fi
  <2>2. CASE tail
    <3>1. items = <<>>
      BY <1>1, <1>2, <1>3, <1>5, <2>2, EmptySeq
    <3>2. ~(n < Len(ks))
      BY <2>2, LenProperties
    <3> QED BY <2>1, <3>1, <3>2 DEF BlockOf, fi
  <2>3. CASE ~tail
    <3>1. GetType(item_info) = "trivial"
      <4>1. /\ item_info.item_num \in Nat /\ item_info.recd_num \in Nat
            /\ item_info.recd_num <= item_info.item_num
            /\ item_info.recd_num = RecdCap
        BY <1>1, <2>3 DEF WriterInv, ItemInfo
      <4>2. item_info.item_num > 0
        BY <1>1, <4>1
      <4>3. GetType(item_info) \in {"trivial", "allnull", "crucial"}
        BY DEF GetType
      <4> QED BY <1>5, <2>3, <4>1, <4>2, <4>3 DEF MergedUsed
    <3>2. items \in Seq(ColumnItem)
      BY <1>1 DEF TypeOK
    <3>3. \A k \in 1..Len(items) : items[k] \in TrivialItems
      BY <1>1, <3>1, <3>2, CountsFacts DEF GetType
    <3>4. \A k \in 1..Len(items) : items[k] = Trivial
      BY <1>1, <3>3, NullItemsOfItem, ElementOfSeq
    <3>5. Len(items) = RecdCap
      <4>1. \A k \in 1..Len(items) : items[k] \in RecordItems
        BY <3>3 DEF TrivialItems, RecordItems
      <4>2. CountIn(items, RecordItems) = Len(items)
        BY <3>2, <4>1, CountBounds
      <4> QED BY <1>1, <2>3, <3>2, <4>2, CountForms DEF Counts
    <3>6. items = [k \in 1..RecdCap |-> Trivial]
      BY <1>1, <3>4, <3>5, LenProperties
    <3>7. /\ n < Len(ks) /\ fi.item.bgn_recd \in Nat
          /\ ks[n + 1].item.bgn_recd = fi.item.bgn_recd + RecdCap
      BY <1>1, <1>2, <2>3 DEF ItemInfo
    <3>8. ks[n + 1].item.bgn_recd - ks[n].item.bgn_recd = RecdCap
      BY <1>1, <2>1, <3>7
    <3>9. BlockOf(FlushedDisk(tail), ks, n)
            = [k \in 1..(ks[n + 1].item.bgn_recd - ks[n].item.bgn_recd) |-> Trivial]
      BY <2>1, <3>7 DEF BlockOf
    <3> QED BY <2>1, <3>6, <3>8, <3>9 DEF fi
  <2> QED BY <2>2, <2>3
<1> QED BY <1>4, <1>5

\* The CABs before it read as before, and so all CABs together as the log.
LEMMA FlushedLog ==
  ASSUME IInv, OrderInv, OpenContent, session = "open", NEW tail \in BOOLEAN,
         tail \/ item_info.recd_num = RecdCap,
         NEW ks \in Seq(Info), Len(infos) <= Len(ks),
         ks[Len(infos)] = FlushedInfo(tail),
         \A i \in 1..(Len(infos) - 1) : ks[i] = infos[i],
         IF tail THEN Len(ks) = Len(infos)
                 ELSE /\ Len(infos) < Len(ks)
                      /\ ks[Len(infos) + 1].item.bgn_recd = item_info.bgn_recd + RecdCap
  PROVE  /\ DecodedOf(FlushedDisk(tail), ks, Len(infos)) = log
         /\ DecodedOf(FlushedDisk(tail), ks, Len(infos) - 1) = DecodedOf(disk, infos, Len(infos) - 1)
         /\ \A i \in 1..Len(infos) :
              ks[i].strg_size # 0 =>
                Len(FlushedDisk(tail)[ks[i].file_off]) = ks[i].item.item_num
<1> DEFINE n  == Len(infos)
           d  == FlushedDisk(tail)
           fi == FlushedInfo(tail)
<1>1. /\ TypeOK /\ WriterInv /\ OpenInv
      /\ infos \in Seq(Info) /\ n \in Nat \ {0}
      /\ \A i \in 1..(n - 1) : Readable(infos[i])
      /\ log = Decoded(infos, n - 1) \o items
  BY EmptySeq DEF IInv, TypeOK, WriterInv, OpenContent
<1>2. /\ BlockOf(d, ks, n) = items
      /\ fi.strg_size # 0 => /\ d[file_off] = items /\ fi.file_off = file_off
                             /\ fi.item = item_info /\ Len(items) = item_info.item_num
  BY FlushedBlock
<1>3. ks[n].item.bgn_recd = infos[n].item.bgn_recd
  BY <1>1, FlushedInfoOpen DEF WriterInv, Cur
<1> HIDE DEF d, fi
<1>4. ASSUME NEW i \in 1..(n - 1)
      PROVE  /\ BlockOf(d, ks, i) = BlockOf(disk, infos, i)
             /\ ks[i].strg_size # 0 => Len(d[ks[i].file_off]) = ks[i].item.item_num
  <2>1. ks[i] = infos[i] /\ i < n /\ i < Len(ks)
    BY <1>1, LenProperties
  <2>2. CASE infos[i].strg_size # 0
    <3>1. d[infos[i].file_off] = disk[infos[i].file_off]
      BY <2>2, FlushKeepsOwn DEF d
    <3> QED BY <1>1, <2>1, <2>2, <3>1 DEF BlockOf, Readable
  <2>3. CASE infos[i].strg_size = 0
    <3>1. ks[i + 1].item.bgn_recd = infos[i + 1].item.bgn_recd
      <4>1. CASE i + 1 = n
        BY <1>3, <4>1
      <4>2. CASE i + 1 # n
        <5>1. i + 1 \in 1..(n - 1)
          BY <1>1, <4>2
        <5> QED BY <5>1
      <4> QED BY <4>1, <4>2
    <3> QED BY <2>1, <2>3, <3>1 DEF BlockOf
  <2> QED BY <2>2, <2>3
<1>5. DecodedOf(d, ks, n - 1) = DecodedOf(disk, infos, n - 1)
  <2>1. n - 1 \in Nat
    BY <1>1
  <2> QED BY <1>4, <2>1, DecodedSame
<1>6. DecodedOf(d, ks, n) = DecodedOf(d, ks, n - 1) \o BlockOf(d, ks, n)
  <2> DEFINE m == n - 1
  <2>1. m \in Nat /\ m + 1 = n
    BY <1>1
  <2>2. DecodedOf(d, ks, m + 1) = DecodedOf(d, ks, m) \o BlockOf(d, ks, m + 1)
    <3> HIDE DEF m
    <3> QED BY <2>1, DecodedStep
  <2> QED BY <2>1, <2>2
<1>7. DecodedOf(d, ks, n) = log
  BY <1>1, <1>2, <1>5, <1>6, DecodedForm
<1>8. ks[n].strg_size # 0 => Len(d[ks[n].file_off]) = ks[n].item.item_num
  BY <1>2 DEF fi
<1>9. \A i \in 1..n : i = n \/ i \in 1..(n - 1)
  BY <1>1
<1> QED BY <1>4, <1>5, <1>7, <1>8, <1>9 DEF d

\* The same file content decodes to the same items.
LEMMA FileKept ==
  ASSUME TypeOK, FileInv, info_file # NoFile, UNCHANGED <<info_file, durable>>,
         \A i \in 1..(Len(info_file.infos) - 1) :
           info_file.infos[i].strg_size # 0 =>
             disk'[info_file.infos[i].file_off] = disk[info_file.infos[i].file_off]
  PROVE  /\ FilesDecode(Len(info_file.infos) - 1) => FilesDecode(Len(info_file.infos) - 1)'
         /\ TailDecodes /\ (TailInfo.strg_size # 0 =>
                              disk'[TailInfo.file_off] = disk[TailInfo.file_off])
              => TailDecodes'
<1> DEFINE is == info_file.infos
           n  == Len(is)
<1>1. is \in Seq(Info) /\ n \in Nat \ {0} /\ TailInfo = is[n] /\ info_file' = info_file
  BY EmptySeq DEF TypeOK, FileInv, TailInfo
<1> HIDE DEF is, n
<1>2. ASSUME NEW i \in 1..n, is[i].strg_size # 0 => disk'[is[i].file_off] = disk[is[i].file_off]
      PROVE  BlockOf(disk', is, i) = BlockOf(disk, is, i)
  BY <1>2 DEF BlockOf
<1>3. \A i \in 1..(n - 1) : BlockOf(disk', is, i) = BlockOf(disk, is, i)
  <2>1. \A i \in 1..(n - 1) : i \in 1..n
    BY <1>1
  <2> QED BY <1>2, <2>1 DEF is, n
<1>4. DecodedOf(disk', is, n - 1) = DecodedOf(disk, is, n - 1)
  <2>1. n - 1 \in Nat
    BY <1>1
  <2> QED BY <1>3, <2>1, DecodedSame
<1>5. /\ \A m : Decoded(is, m) = DecodedOf(disk, is, m)
      /\ Decoded(is, n - 1)' = DecodedOf(disk', is, n - 1)
      /\ Decoded(is, n)' = DecodedOf(disk', is, n)
  <2>1. is' = is /\ n' = n
    BY <1>1 DEF is, n
  <2> QED BY <2>1, DecodedForm DEF Decoded, DecodedOf, BlockItems, BlockOf, ReadBlock, ReadOf
<1>6. Decoded(is, n - 1)' = Decoded(is, n - 1)
  BY <1>4, <1>5
<1>7. ASSUME FilesDecode(n - 1) PROVE FilesDecode(n - 1)'
  <2>1. is' = is /\ n' = n
    BY <1>1 DEF is, n
  <2>2. \A i \in 1..(n - 1) : Readable(is[i])'
    BY <1>1, <1>7, <2>1 DEF FilesDecode, Readable, is, n
  <2>3. Decoded(is, n - 1)' = SubSeq(durable, 1, Len(Decoded(is, n - 1)'))
    BY <1>6, <1>7 DEF FilesDecode, is
  <2> QED BY <1>1, <2>1, <2>2, <2>3 DEF FilesDecode, is
<1>8. ASSUME TailDecodes, TailInfo.strg_size # 0 => disk'[TailInfo.file_off] = disk[TailInfo.file_off]
      PROVE  TailDecodes'
  <2>1. \A i \in 1..n : BlockOf(disk', is, i) = BlockOf(disk, is, i)
    <3>1. n \in 1..n /\ \A i \in 1..n : i = n \/ i \in 1..(n - 1)
      BY <1>1
    <3>2. BlockOf(disk', is, n) = BlockOf(disk, is, n)
      BY <1>1, <1>2, <1>8, <3>1
    <3> QED BY <1>3, <3>1, <3>2
  <2>2. Decoded(is, n)' = Decoded(is, n)
    <3>1. n \in Nat
      BY <1>1
    <3> QED BY <1>5, <2>1, <3>1, DecodedSame
  <2>3. TailInfo' = TailInfo /\ is' = is /\ n' = n
    BY <1>1 DEF TailInfo, is, n
  <2> QED BY <1>8, <2>2, <2>3 DEF TailDecodes, Readable, is, n
<1> QED BY <1>7, <1>8 DEF is, n

\* What a flush does to the blocks of the file: at most the block of a partly
\* filled tail is written.
LEMMA FlushTail ==
  ASSUME IInv, OrderInv, ContentInv, session = "open", info_file # NoFile,
         NEW tail \in BOOLEAN, disk' = FlushedDisk(tail), TailInfo.strg_size # 0,
         disk'[TailInfo.file_off] # disk[TailInfo.file_off]
  PROVE  /\ ~TailIsFull
         /\ disk'[TailInfo.file_off] = items
         /\ GetType(TailInfo.item) = "trivial" \/
              (Len(infos) = Len(info_file.infos) /\ Grown(TailInfo.item, item_info))
<1> DEFINE T == TailInfo
           n == Len(info_file.infos)
<1>1. /\ TypeOK /\ WriterInv /\ OpenInv /\ FileInv
      /\ file_off = Cur.file_off /\ T.file_off \in DOMAIN disk
      /\ infos \in Seq(Info) /\ infos # <<>> /\ file_off \in Nat
  BY DEF IInv, TypeOK, WriterInv, OpenInv, FileInv, TailStored
<1>2. T.file_off \in Nat /\ T.strg_size \in Nat /\ n \in Nat \ {0}
  <2>1. info_file.infos \in Seq(Info) /\ info_file.infos # <<>>
    BY <1>1 DEF TypeOK, FileInv
  <2>2. n \in 1..n /\ n \in Nat \ {0}
    BY <2>1, LastInfo, LenProperties, EmptySeq
  <2> QED BY <2>1, <2>2, InfoFields DEF TailInfo
<1>3. T.file_off = file_off /\ disk'[T.file_off] = items
  BY <1>1 DEF FlushedDisk
<1>4. ~TailIsFull
  <2>1. ASSUME TailIsFull PROVE FALSE
    <3>1. T.file_off + T.strg_size <= Cur.file_off
      BY <2>1 DEF ContentInv, BehindTail, Writing
    <3> HIDE DEF T
    <3> QED BY <1>1, <1>2, <1>3, <3>1 DEF T
  <2> QED BY <2>1
<1>5. /\ n <= Len(infos) /\ infos[n].file_off = T.file_off
      /\ Len(infos) = n => Grown(T.item, item_info)
      /\ n < Len(infos) /\ infos[n].strg_size = 0 => GetType(T.item) = "trivial"
  BY <1>4 DEF ContentInv, AtTail
<1>6. ASSUME n < Len(infos) PROVE infos[n].strg_size = 0
  <2>1. n \in 1..Len(infos) /\ Len(infos) \in 1..Len(infos)
    BY <1>1, <1>2, <1>6, LenProperties
  <2>2. infos[n].file_off + infos[n].strg_size <= Cur.file_off
    BY <1>6, <2>1 DEF OrderInv, Ordered, Cur
  <2>3. infos[n].strg_size \in Nat
    BY <1>1, <2>1, InfoFields
  <2> HIDE DEF T, n
  <2> QED BY <1>1, <1>2, <1>3, <1>5, <2>2, <2>3
<1>7. Len(infos) \in Nat
  BY <1>1, LenProperties
<1> HIDE DEF n
<1> QED BY <1>2, <1>3, <1>4, <1>5, <1>6, <1>7 DEF n

\* The files after a flush.
LEMMA FlushFiles ==
  ASSUME IInv, OrderInv, ContentInv, session = "open", session' \in {"open", "flushed"},
         NEW tail \in BOOLEAN, disk' = FlushedDisk(tail), UNCHANGED <<info_file, durable>>
  PROVE  FileContent' /\ TailContent'
<1>1. CASE info_file = NoFile
  BY <1>1 DEF ContentInv, FileContent, TailContent
<1>2. CASE info_file # NoFile
  <2> DEFINE is == info_file.infos
             n  == Len(is)
  <2>1. /\ TypeOK /\ FileInv /\ OpenContent /\ FileContent /\ TailContent
        /\ TailInfo' = TailInfo /\ TailIsFull' = TailIsFull
        /\ info_file' = info_file
    BY DEF IInv, ContentInv, TailInfo, TailIsFull
  <2>2. \A i \in 1..(n - 1) :
          is[i].strg_size # 0 => disk'[is[i].file_off] = disk[is[i].file_off]
    BY <1>2, FlushKeepsFinished
  <2>3. /\ FilesDecode(n - 1)'
        /\ TailDecodes /\ (TailInfo.strg_size # 0 =>
                             disk'[TailInfo.file_off] = disk[TailInfo.file_off])
             => TailDecodes'
    BY <1>2, <2>1, <2>2, FileKept DEF FileContent
  <2>4. TailIsFull => TailDecodes'
    <3>1. TailIsFull => TailDecodes
      BY <1>2, <2>1 DEF FileContent, Writing
    <3>2. TailIsFull /\ TailInfo.strg_size # 0 =>
            disk'[TailInfo.file_off] = disk[TailInfo.file_off]
      BY <1>2, FlushTail
    <3> QED BY <2>3, <3>1, <3>2
  <2>5. FileContent'
    BY <1>2, <2>1, <2>3, <2>4 DEF FileContent
  <2>6. TailContent'
    <3> SUFFICES ASSUME TailInfo.strg_size # 0,
                        GetType(TailInfo.item) = "trivial"
                          \/ Len(disk'[TailInfo.file_off]) = TailInfo.item.item_num
                 PROVE  Sound(TailInfo)'
      BY <1>2, <2>1 DEF TailContent
    <3> DEFINE T == TailInfo
               b == disk'[TailInfo.file_off]
    <3>1. ReadBlock(TailInfo)' = ReadOf(b, T.item)
      BY <2>1 DEF ReadBlock, ReadOf
    <3>2. ReadBlock(T) = ReadOf(disk[T.file_off], T.item)
      BY ReadBlockOf
    <3>3. CASE b = disk[T.file_off]
      BY <1>2, <2>1, <3>1, <3>2, <3>3 DEF TailContent, Sound
    <3>4. CASE GetType(T.item) = "trivial"
      <4>1. ReadOf(b, T.item) = ReadOf(disk[T.file_off], T.item)
        BY <3>4, ReadTrivial
      <4> QED BY <1>2, <2>1, <3>1, <3>2, <3>4, <4>1 DEF TailContent, Sound
    <3>5. CASE b # disk[T.file_off] /\ GetType(T.item) # "trivial"
      <4>1. b = items /\ Grown(T.item, item_info)
        BY <1>2, <3>5, FlushTail
      <4>2. items \in Seq(Item) /\ Counts(item_info, items)
        BY <2>1 DEF OpenContent
      <4>3. T.item = item_info
        BY <3>5, <4>1, <4>2 DEF Grown, Counts
      <4>4. ReadOf(items, item_info) = items
        BY <4>2, ReadCounted
      <4> HIDE DEF b
      <4> QED BY <2>1, <3>1, <4>1, <4>2, <4>3, <4>4 DEF Sound
    <3> QED BY <3>3, <3>4, <3>5
  <2> QED BY <2>5, <2>6
<1> QED BY <1>1, <1>2

-----------------------------------------------------------------------------
(* The steps.                                                              *)

\* A step that changes neither the files nor whether somebody writes.
LEMMA FilesUntouched ==
  ASSUME UNCHANGED <<disk, info_file, durable>>
  PROVE  /\ TailContent => TailContent'
         /\ TailInfo' = TailInfo /\ (TailIsFull <=> TailIsFull')
         /\ TailDecodes => TailDecodes'
         /\ FilesDecode(Len(info_file.infos) - 1) => FilesDecode(Len(info_file.infos) - 1)'
<1> DEFINE is == info_file.infos
           n  == Len(is)
<1>1. /\ TailInfo' = TailInfo /\ (TailIsFull <=> TailIsFull') /\ is' = is /\ n' = n
      /\ disk' = disk /\ info_file' = info_file /\ durable' = durable
  BY DEF TailInfo, TailIsFull
<1>2. ReadBlock(TailInfo)' = ReadBlock(TailInfo)
  <2>1. ReadBlock(TailInfo)' = ReadOf(disk'[TailInfo'.file_off], TailInfo'.item)
    BY DEF ReadBlock, ReadOf
  <2> QED BY <1>1, <2>1, ReadBlockOf
<1>3. Decoded(is, n)' = Decoded(is, n) /\ Decoded(is, n - 1)' = Decoded(is, n - 1)
  <2>1. /\ Decoded(is, n)' = DecodedOf(disk', is', n')
        /\ Decoded(is, n - 1)' = DecodedOf(disk', is', n' - 1)
    BY DEF Decoded, DecodedOf, BlockItems, BlockOf, ReadBlock, ReadOf
  <2> HIDE DEF is, n
  <2> QED BY <1>1, <2>1, DecodedForm
<1>4. TailContent => TailContent'
  BY <1>1, <1>2 DEF TailContent, Sound
<1>5. TailDecodes => TailDecodes'
  BY <1>1, <1>3 DEF TailDecodes, Readable
<1>6. FilesDecode(n - 1) => FilesDecode(n - 1)'
  <2>1. (\A i \in 1..(n - 1) : Readable(is[i])) => (\A i \in 1..(n - 1) : Readable(is[i]))'
    BY <1>1 DEF Readable
  <2> HIDE DEF n
  <2> QED BY <1>1, <1>3, <2>1 DEF FilesDecode
<1> QED BY <1>1, <1>4, <1>5, <1>6

\* A new column.
LEMMA OpenWriteContent ==
  ASSUME IInv, ContentInv, NEW rbgn \in FirstRecds, OpenWrite(rbgn)
  PROVE  ContentInv'
<1>1. /\ session = "closed" /\ session' = "open" /\ info_file = NoFile /\ info_file' = NoFile
      /\ items' = <<>> /\ item_info' = EmptyItemInfo(recd_num')
      /\ log' = log /\ durable' = durable
      /\ Len(infos') = 1
  BY DEF OpenWrite, Open
<1>2. log' = <<>> /\ durable = <<>>
  BY <1>1 DEF IInv, LogInv, ContentInv, FileContent
<1>3. OpenContent'
  <2>1. Counts(item_info', items') /\ items' \in Seq(Item)
    BY <1>1, CountsEmpty, EmptySeq
  <2>2. (Decoded(infos, 0))' = <<>>
    BY ConcatenatedStep DEF Decoded
  <2>3. <<>> \o <<>> = <<>>
    BY EmptySeq, ConcatEmptySeq
  <2>4. Decoded(infos, Len(infos) - 1)' = <<>>
    BY <1>1, <2>2
  <2> QED BY <1>1, <1>2, <2>1, <2>3, <2>4 DEF OpenContent, Counts, RecordsIn, NullsIn, TrivialsIn
<1> QED BY <1>1, <1>2, <1>3
        DEF ContentInv, FlushedContent, FileContent, TailContent, BehindTail, AtTail, Writing

\* Going on behind a full or an empty tail.
LEMMA OpenAppendNextCABContent ==
  ASSUME IInv, OrderInv, ContentInv, OpenAppendNextCAB
  PROVE  /\ ContentInv'
         /\ DecodedOf(disk', infos', Len(info_file.infos)) = durable
<1> DEFINE is  == info_file.infos
           n   == Len(is)
           off == TailInfo.file_off + TailInfo.strg_size
<1>1. /\ session = "closed" /\ session' = "open" /\ info_file # NoFile /\ TailIsFull
      /\ UNCHANGED <<disk, info_file, durable, log>>
      /\ recd_num' = TailInfo.item.bgn_recd + TailInfo.item.recd_num
      /\ infos' = Append(is, NewInfo(off, recd_num'))
      /\ items' = <<>> /\ item_info' = EmptyItemInfo(recd_num')
  BY DEF OpenAppendNextCAB, OpenAppend, Open, fileVars
<1>2. /\ TypeOK /\ FileContent /\ TailContent /\ log = durable /\ durable \in Seq(Item)
      /\ is \in Seq(Info) /\ is # <<>>
  BY <1>1 DEF IInv, TypeOK, FileInv, LogInv, ContentInv
<1>3. /\ n \in Nat \ {0} /\ n \in 1..n /\ TailInfo = is[n]
      /\ TailInfo.file_off \in Nat /\ TailInfo.strg_size \in Nat
      /\ TailInfo.item.bgn_recd \in Nat /\ TailInfo.item.recd_num \in Nat
  <2>1. n \in Nat \ {0} /\ n \in 1..n
    BY <1>2, EmptySeq, LenProperties
  <2> QED BY <1>2, <2>1, InfoFields DEF TailInfo
<1>4. TailDecodes /\ FilesDecode(n - 1)
  BY <1>1, <1>2 DEF FileContent
<1> HIDE DEF is, n
<1>5. /\ NewInfo(off, recd_num') \in Info /\ NewInfo(off, recd_num').file_off = off
      /\ NewInfo(off, recd_num').item.bgn_recd = recd_num'
  <2>1. off \in Nat /\ recd_num' \in Nat
    <3>1. off \in Nat
      BY <1>3
    <3>2. TailInfo.item.bgn_recd + TailInfo.item.recd_num \in Nat
      BY <1>3
    <3> HIDE DEF off
    <3> QED BY <1>1, <3>1, <3>2
  <2>2. EmptyItemInfo(recd_num').bgn_recd = recd_num'
    BY DEF EmptyItemInfo
  <2> HIDE DEF off
  <2>3. /\ NewInfo(off, recd_num') \in Info /\ NewInfo(off, recd_num').file_off = off
        /\ NewInfo(off, recd_num').item = EmptyItemInfo(recd_num')
    BY <2>1, NewInfoType
  <2> QED BY <2>2, <2>3
<1> HIDE DEF off
<1>6. /\ infos' \in Seq(Info) /\ Len(infos') = n + 1
      /\ \A i \in 1..n : infos'[i] = is[i]
      /\ infos'[n + 1] = NewInfo(off, recd_num')
  BY <1>1, <1>2, <1>5, AppendProperties DEF n
<1>7. DecodedOf(disk', infos', n) = durable
  <2>1. ASSUME NEW i \in 1..n PROVE BlockOf(disk, infos', i) = BlockOf(disk, is, i)
    <3>1. infos'[i] = is[i] /\ i < Len(infos')
      BY <1>3, <1>6
    <3>2. CASE is[i].strg_size # 0
      BY <3>1, <3>2 DEF BlockOf
    <3>3. CASE is[i].strg_size = 0 /\ i # n
      <4>1. i + 1 \in 1..n /\ i < n
        BY <1>3, <3>3
      <4>2. infos'[i + 1] = is[i + 1]
        BY <1>6, <4>1
      <4> QED BY <3>1, <3>3, <4>1, <4>2 DEF BlockOf, n
    <3>4. CASE is[i].strg_size = 0 /\ i = n
      <4>1. TailInfo.item.recd_num = 0
        BY <1>1, <1>2, <1>3, <3>4 DEF TailContent
      <4>2. infos'[n + 1].item.bgn_recd - infos'[n].item.bgn_recd = 0
        BY <1>1, <1>3, <1>5, <1>6, <4>1
      <4>3. [k \in 1..0 |-> Trivial] = <<>>
        OBVIOUS
      <4>4. BlockOf(disk, infos', n) = <<>>
        BY <3>1, <3>4, <4>2, <4>3 DEF BlockOf
      <4>5. BlockOf(disk, is, n) = <<>>
        BY <1>3, <3>4 DEF BlockOf, n
      <4> QED BY <3>4, <4>4, <4>5
    <3> QED BY <3>2, <3>3, <3>4
  <2>2. DecodedOf(disk, infos', n) = DecodedOf(disk, is, n)
    BY <1>3, <2>1, DecodedSame
  <2>3. DecodedOf(disk, is, n) = durable
    BY <1>4, DecodedForm DEF TailDecodes, is, n
  <2> QED BY <1>1, <2>2, <2>3
<1>8. OpenContent'
  <2>1. Counts(item_info, items)' /\ items' \in Seq(Item)
    <3>1. Counts(EmptyItemInfo(recd_num'), <<>>)
      BY CountsEmpty
    <3> QED BY <1>1, <3>1, EmptySeq DEF Counts, RecordsIn, NullsIn, TrivialsIn
  <2>2. \A i \in 1..n : Readable(is[i])
    <3>1. \A i \in 1..n : i = n \/ i \in 1..(n - 1)
      BY <1>3
    <3> QED BY <1>3, <1>4, <3>1 DEF FilesDecode, TailDecodes, is
  <2>3. \A i \in 1..(Len(infos') - 1) : Readable(infos[i])'
    BY <1>1, <1>3, <1>6, <2>2 DEF Readable
  <2>4. Decoded(infos, Len(infos) - 1)' = DecodedOf(disk, infos', n)
    <3>1. (Len(infos) - 1)' = n
      BY <1>3, <1>6
    <3>2. Decoded(infos, Len(infos) - 1)' = DecodedOf(disk', infos', (Len(infos) - 1)')
      BY DEF Decoded, DecodedOf, BlockItems, BlockOf, ReadBlock, ReadOf
    <3> QED BY <1>1, <3>1, <3>2
  <2>5. log' = Decoded(infos, Len(infos) - 1)' \o items'
    BY <1>1, <1>2, <1>7, <2>4, ConcatEmptySeq
  <2> QED BY <2>1, <2>3, <2>5 DEF OpenContent
<1>9. BehindTail'
  <2>1. TailInfo' = TailInfo /\ Cur'.file_off = off
    BY <1>1, <1>5, <1>6 DEF TailInfo, Cur
  <2>2. off <= off
    BY <1>3 DEF off
  <2> QED BY <2>1, <2>2 DEF BehindTail, off
<1>10. FileContent' /\ TailContent' /\ AtTail'
  <2>1. TailContent' /\ TailDecodes' /\ FilesDecode(Len(info_file.infos) - 1)' /\ TailIsFull'
    BY <1>1, <1>2, <1>4, FilesUntouched DEF is, n
  <2> QED BY <1>1, <2>1 DEF FileContent, AtTail
<1> QED BY <1>1, <1>8, <1>9, <1>10, <1>7 DEF ContentInv, FlushedContent, n, is

\* Going on in a partly filled tail.
LEMMA OpenAppendTailContent ==
  ASSUME IInv, OrderInv, ContentInv, OpenAppendTail
  PROVE  ContentInv'
<1> DEFINE is == info_file.infos
           n  == Len(is)
<1>1. /\ session = "closed" /\ session' = "open" /\ info_file # NoFile /\ ~TailIsFull
      /\ UNCHANGED <<disk, info_file, durable, log>>
      /\ infos' = is
      /\ items' = ReadBlock(TailInfo) /\ item_info' = TailInfo.item
  BY DEF OpenAppendTail, ReopenTail, OpenAppend, Open, fileVars
<1>2. /\ TypeOK /\ FileInv /\ FileContent /\ TailContent /\ log = durable
      /\ is \in Seq(Info) /\ is # <<>>
  BY <1>1 DEF IInv, TypeOK, FileInv, LogInv, ContentInv
<1>3. /\ n \in Nat \ {0} /\ n \in 1..n /\ TailInfo = is[n]
      /\ TailInfo.item.item_num \in Nat /\ TailInfo.item.triv_num \in Nat
      /\ TailInfo.item.null_num \in Nat
  <2>1. n \in Nat \ {0} /\ n \in 1..n
    BY <1>2, EmptySeq, LenProperties
  <2> QED BY <1>2, <2>1, InfoFields DEF TailInfo
<1>4. TailDecodes /\ FilesDecode(n - 1)
  BY <1>1, <1>2 DEF FileContent
<1>5. TailInfo.strg_size # 0
  <2>1. TailInfo.item.recd_num \in Nat /\ TailInfo.item.recd_num <= RecdCap
    BY <1>1, <1>2, <1>3, InfoFields DEF FileInv, ChainOK, TailInfo
  <2>2. TailInfo.item.recd_num \notin {0, RecdCap}
    BY <1>1, <2>1, FullOrEmpty, ConstantsAssumption DEF TailIsFull
  <2> QED BY <1>1, <1>2, <2>2 DEF FileInv, TailStored
<1>6. Sound(TailInfo)
  BY <1>1, <1>2, <1>4, <1>5 DEF TailContent, TailDecodes, Readable
<1> HIDE DEF is, n
<1>7. OpenContent'
  <2>1. Counts(item_info, items)' /\ items' \in Seq(Item)
    BY <1>1, <1>6 DEF Sound, Counts, RecordsIn, NullsIn, TrivialsIn
  <2>2. \A i \in 1..(Len(infos') - 1) : Readable(infos[i])'
    BY <1>1, <1>4 DEF Readable, FilesDecode, is, n
  <2>3. Decoded(infos, Len(infos) - 1)' = DecodedOf(disk, is, n - 1)
    <3>1. Decoded(infos, Len(infos) - 1)' = DecodedOf(disk', infos', (Len(infos) - 1)')
      BY DEF Decoded, DecodedOf, BlockItems, BlockOf, ReadBlock, ReadOf
    <3> QED BY <1>1, <3>1 DEF n
  <2>4. DecodedOf(disk, is, n) = DecodedOf(disk, is, n - 1) \o BlockOf(disk, is, n)
    <3> DEFINE m == n - 1
    <3>1. m \in Nat /\ m + 1 = n
      BY <1>3
    <3>2. DecodedOf(disk, is, m + 1) = DecodedOf(disk, is, m) \o BlockOf(disk, is, m + 1)
      <4> HIDE DEF m
      <4> QED BY <3>1, DecodedStep
    <3> QED BY <3>1, <3>2
  <2>5. BlockOf(disk, is, n) = ReadBlock(TailInfo)
    BY <1>3, <1>5, ReadBlockOf DEF BlockOf
  <2>6. DecodedOf(disk, is, n) = durable
    BY <1>4, DecodedForm DEF TailDecodes, is, n
  <2> QED BY <1>1, <1>2, <2>1, <2>2, <2>3, <2>4, <2>5, <2>6 DEF OpenContent
<1>8. /\ TailContent' /\ FilesDecode(Len(info_file.infos) - 1)'
      /\ TailInfo' = TailInfo /\ ~TailIsFull'
  BY <1>1, <1>2, <1>4, FilesUntouched DEF is, n
<1>9. FileContent' /\ BehindTail'
  BY <1>1, <1>8 DEF FileContent, BehindTail
<1>10. AtTail'
  <2>1. Grown(TailInfo.item, TailInfo.item)
    <3>1. ReadBlock(TailInfo) \in Seq(ColumnItem)
      BY <1>6, NullItemsOfItem, SeqMonotonic DEF Sound
    <3>2. /\ TailInfo.item.null_num <= TailInfo.item.item_num
          /\ TailInfo.item.triv_num <= TailInfo.item.null_num
      BY <1>6, <3>1, CountsFacts DEF Sound
    <3> QED BY <1>3, <3>2 DEF Grown
  <2>2. n <= n /\ ~(n < n)
    BY <1>3
  <2>3. /\ infos' = is /\ (info_file.infos)' = is /\ Len(is) = n
        /\ TailInfo' = TailInfo /\ item_info' = TailInfo.item /\ TailInfo = is[n]
    BY <1>1, <1>3, <1>8 DEF is, n
  <2> QED BY <2>1, <2>2, <2>3 DEF AtTail
<1> QED BY <1>1, <1>7, <1>8, <1>9, <1>10 DEF ContentInv, FlushedContent

\* An item more in the CAB in memory.
LEMMA WriteInCABContent ==
  ASSUME IInv, OrderInv, ContentInv, NEW it \in Item, WriteInCAB(it)
  PROVE  ContentInv'
<1> DEFINE n == Len(infos)
<1>1. /\ session = "open" /\ session' = "open"
      /\ UNCHANGED <<disk, info_file, durable, infos>>
      /\ item_info' = Update(item_info, it) /\ items' = Append(items, it)
      /\ log' = Append(log, it)
  BY DEF WriteInCAB, CanWrite, fileVars
<1>2. /\ TypeOK /\ WriterInv /\ OpenContent /\ infos \in Seq(Info) /\ n \in Nat \ {0}
      /\ it \in ColumnItem /\ item_info \in ItemInfo
      /\ items \in Seq(Item) /\ items \in Seq(ColumnItem) /\ log \in Seq(Item)
      /\ Counts(item_info, items) /\ log = Decoded(infos, n - 1) \o items
      /\ \A i \in 1..(n - 1) : Readable(infos[i])
  BY <1>1, EmptySeq DEF IInv, TypeOK, WriterInv, ContentInv, OpenContent, Item
<1> HIDE DEF n
<1>3. OpenContent'
  <2>1. Counts(item_info, items)' /\ items' \in Seq(Item)
    <3>1. Counts(Update(item_info, it), Append(items, it))
      BY <1>2, CountsUpdate
    <3> QED BY <1>1, <1>2, <3>1, AppendProperties DEF Counts, RecordsIn, NullsIn, TrivialsIn
  <2>2. \A i \in 1..(Len(infos') - 1) : Readable(infos[i])'
    BY <1>1, <1>2 DEF Readable, n
  <2>3. Decoded(infos, Len(infos) - 1)' = DecodedOf(disk, infos, n - 1)
    <3>1. Decoded(infos, Len(infos) - 1)' = DecodedOf(disk', infos', (Len(infos) - 1)')
      BY DEF Decoded, DecodedOf, BlockItems, BlockOf, ReadBlock, ReadOf
    <3> QED BY <1>1, <3>1 DEF n
  <2>4. DecodedOf(disk, infos, n - 1) \in Seq(ColumnItem)
    <3>1. ASSUME NEW i \in 1..(n - 1) PROVE BlockOf(disk, infos, i) \in Seq(ColumnItem)
      <4>1. i \in 1..Len(infos) /\ Readable(infos[i])
        BY <1>2 DEF n
      <4>2. infos[i].strg_size # 0 => infos[i].file_off \in DOMAIN disk
        BY <1>1 DEF OrderInv, StoredBlocks, n
      <4> QED BY <1>2, <4>1, <4>2, BlockType
    <3>2. n - 1 \in Nat
      BY <1>2
    <3> QED BY <3>1, <3>2, DecodedType
  <2>5. Append(DecodedOf(disk, infos, n - 1) \o items, it)
          = DecodedOf(disk, infos, n - 1) \o Append(items, it)
    <3> DEFINE D == DecodedOf(disk, infos, n - 1)
    <3> HIDE DEF D
    <3>1. D \in Seq(ColumnItem) /\ D \o items \in Seq(ColumnItem) /\ <<it>> \in Seq(ColumnItem)
      BY <1>2, <2>4, ConcatProperties DEF D
    <3>2. Append(D \o items, it) = (D \o items) \o <<it>> /\ Append(items, it) = items \o <<it>>
      BY <1>2, <3>1, AppendIsConcat
    <3>3. (D \o items) \o <<it>> = D \o (items \o <<it>>)
      BY <1>2, <3>1, ConcatAssociative, SMTT(20)
    <3> QED BY <3>2, <3>3 DEF D
  <2>6. log' = Decoded(infos, Len(infos) - 1)' \o items'
    BY <1>1, <1>2, <2>3, <2>5, DecodedForm
  <2> QED BY <2>1, <2>2, <2>6 DEF OpenContent
<1>4. FileContent' /\ TailContent' /\ BehindTail'
  <2>1. /\ TailContent => TailContent'
        /\ TailInfo' = TailInfo /\ (TailIsFull <=> TailIsFull')
        /\ TailDecodes => TailDecodes'
        /\ FilesDecode(Len(info_file.infos) - 1) => FilesDecode(Len(info_file.infos) - 1)'
    BY <1>1, FilesUntouched
  <2>2. /\ info_file' = info_file /\ durable' = durable /\ Cur' = Cur
    BY <1>1 DEF Cur
  <2> QED BY <1>1, <2>1, <2>2 DEF ContentInv, FileContent, BehindTail, Writing
<1>5. AtTail'
  <2> SUFFICES ASSUME info_file # NoFile, ~TailIsFull
               PROVE  LET m == Len(info_file.infos)
                      IN  /\ m <= Len(infos)
                          /\ infos[m].file_off = TailInfo.file_off
                          /\ Len(infos) = m => Grown(TailInfo.item, item_info')
                          /\ m < Len(infos) /\ infos[m].strg_size = 0 => GetType(TailInfo.item) = "trivial"
    <3>1. /\ TailInfo' = TailInfo /\ (TailIsFull <=> TailIsFull')
          /\ info_file' = info_file /\ infos' = infos
      BY <1>1, FilesUntouched
    <3> QED BY <3>1 DEF AtTail
  <2>1. ASSUME Grown(TailInfo.item, item_info) PROVE Grown(TailInfo.item, item_info')
    <3>1. TailInfo.item \in ItemInfo
      <4>1. info_file.infos \in Seq(Info) /\ info_file.infos # <<>>
        BY DEF IInv, TypeOK, FileInv
      <4>2. Len(info_file.infos) \in 1..Len(info_file.infos)
        BY <4>1, LastInfo
      <4> QED BY <4>1, <4>2, InfoFields DEF TailInfo
    <3> DEFINE old == TailInfo.item
               new == Update(item_info, it)
    <3>2. /\ old.item_num \in Nat /\ old.triv_num \in Nat /\ old.null_num \in Nat
          /\ item_info.item_num \in Nat /\ item_info.triv_num \in Nat /\ item_info.null_num \in Nat
      BY <1>2, <3>1 DEF ItemInfo
    <3>3. /\ new.item_num = item_info.item_num + 1
          /\ new.triv_num = item_info.triv_num + (IF it.def = 0 /\ it.rep = 0 THEN 1 ELSE 0)
          /\ new.null_num = item_info.null_num + (IF it.def < MaxDef THEN 1 ELSE 0)
      BY DEF Update
    <3>4. new.triv_num \in {item_info.triv_num, item_info.triv_num + 1}
      BY <3>2, <3>3
    <3>5. new.null_num \in {item_info.null_num, item_info.null_num + 1}
      BY <3>2, <3>3
    <3> HIDE DEF old, new
    <3>6. /\ old.item_num <= item_info.item_num
          /\ old.item_num - old.triv_num <= item_info.item_num - item_info.triv_num
          /\ old.item_num - old.null_num <= item_info.item_num - item_info.null_num
          /\ old.triv_num <= old.item_num /\ old.null_num <= old.item_num
      BY <2>1 DEF Grown, old
    <3>7. old.item_num - old.triv_num <= new.item_num - new.triv_num
      BY <3>2, <3>3, <3>4, <3>6
    <3>8. old.item_num - old.null_num <= new.item_num - new.null_num
      BY <3>2, <3>3, <3>5, <3>6
    <3>9. old.item_num <= new.item_num /\ old.item_num # new.item_num
      BY <3>2, <3>3, <3>6
    <3>10. Grown(old, new)
      BY <3>6, <3>7, <3>8, <3>9 DEF Grown
    <3> QED BY <1>1, <3>10 DEF old, new
  <2> QED BY <1>1, <2>1 DEF ContentInv, AtTail
<1> QED BY <1>1, <1>3, <1>4, <1>5 DEF ContentInv, FlushedContent

\* The CAB is full and the item begins the next one.
LEMMA WriteToNextCABContent ==
  ASSUME IInv, OrderInv, ContentInv, NEW it \in Item, WriteToNextCAB(it)
  PROVE  ContentInv'
<1> DEFINE n   == Len(infos)
           fi  == FlushedInfo(FALSE)
           js  == [infos EXCEPT ![n] = fi]
           new == NewInfo(file_off', recd_num)
<1>1. /\ session = "open" /\ session' = "open" /\ item_info.recd_num + 1 > RecdCap
      /\ UNCHANGED <<info_file, durable>>
      /\ disk' = FlushedDisk(FALSE) /\ file_off' = file_off + fi.strg_size
      /\ infos' = Append(js, new)
      /\ item_info' = Update(EmptyItemInfo(recd_num), it) /\ items' = <<it>>
      /\ log' = Append(log, it)
  BY DEF WriteToNextCAB, CanWrite, CheckFull
<1>2. /\ TypeOK /\ WriterInv /\ OpenInv /\ OpenContent /\ AtTail /\ BehindTail
      /\ infos \in Seq(Info) /\ infos # <<>> /\ n \in Nat \ {0}
      /\ it \in ColumnItem /\ item_info \in ItemInfo /\ log \in Seq(Item)
      /\ file_off \in Nat /\ file_off = Cur.file_off /\ recd_num \in Nat
      /\ file_off' \in Nat
  BY <1>1, EmptySeq, WriteToNextCABIInv
     DEF IInv, TypeOK, WriterInv, OpenInv, ContentInv, OpenContent, Item
<1>3. item_info.recd_num = RecdCap
  BY <1>1, <1>2, ConstantsAssumption DEF WriterInv, ItemInfo
<1>4. /\ fi \in Info /\ fi.strg_size \in Nat /\ fi.file_off = file_off
  BY <1>1, <1>2, FlushedInfoOpen
<1>5. /\ js \in Seq(Info) /\ Len(js) = n /\ js[n] = fi
      /\ \A i \in 1..(n - 1) : js[i] = infos[i]
  BY <1>2, <1>4, ReplaceLast
<1>6. /\ new \in Info /\ new.item.bgn_recd = recd_num /\ new.file_off = file_off'
  <2>1. EmptyItemInfo(recd_num).bgn_recd = recd_num
    BY DEF EmptyItemInfo
  <2> QED BY <1>2, <2>1, NewInfoType
<1>7. recd_num = item_info.bgn_recd + RecdCap
  BY <1>1, <1>2, <1>3 DEF WriterInv
<1> HIDE DEF js, fi, new, n
<1>8. /\ infos' \in Seq(Info) /\ Len(infos') = n + 1
      /\ infos'[n] = fi /\ infos'[n + 1] = new
      /\ \A i \in 1..(n - 1) : infos'[i] = infos[i]
  <2>1. /\ infos' \in Seq(Info) /\ Len(infos') = n + 1 /\ infos'[n + 1] = new
        /\ \A i \in 1..n : infos'[i] = js[i]
    BY <1>1, <1>5, <1>6, AppendProperties
  <2>2. n \in 1..n /\ \A i \in 1..(n - 1) : i \in 1..n
    BY <1>2
  <2> QED BY <1>5, <2>1, <2>2
<1>9. /\ DecodedOf(disk', infos', n) = log
      /\ \A i \in 1..n : infos'[i].strg_size # 0 =>
           Len(disk'[infos'[i].file_off]) = infos'[i].item.item_num
  <2>1. /\ n <= Len(infos') /\ n < Len(infos')
        /\ infos'[n + 1].item.bgn_recd = item_info.bgn_recd + RecdCap
    BY <1>2, <1>6, <1>7, <1>8
  <2> QED BY <1>1, <1>2, <1>3, <1>8, <2>1, FlushedLog DEF n, fi
<1>10. OpenContent'
  <2>1. Counts(item_info, items)' /\ items' \in Seq(Item)
    <3>1. EmptyItemInfo(recd_num) \in ItemInfo /\ <<>> \in Seq(ColumnItem)
      BY <1>2, NewInfoType, EmptySeq
    <3>2. Counts(Update(EmptyItemInfo(recd_num), it), Append(<<>>, it))
      BY <1>2, <3>1, CountsEmpty, CountsUpdate
    <3>3. Append(<<>>, it) = <<it>>
      OBVIOUS
    <3> QED BY <1>1, <3>2, <3>3 DEF Counts, RecordsIn, NullsIn, TrivialsIn
  <2>2. \A i \in 1..(Len(infos') - 1) : Readable(infos[i])'
    BY <1>2, <1>8, <1>9 DEF Readable
  <2>3. Decoded(infos, Len(infos) - 1)' = DecodedOf(disk', infos', n)
    <3>1. Decoded(infos, Len(infos) - 1)' = DecodedOf(disk', infos', (Len(infos) - 1)')
      BY DEF Decoded, DecodedOf, BlockItems, BlockOf, ReadBlock, ReadOf
    <3>2. (Len(infos) - 1)' = n
      BY <1>2, <1>8
    <3> QED BY <3>1, <3>2
  <2>4. log' = log \o items'
    BY <1>1, <1>2, AppendIsConcat
  <2> QED BY <1>9, <2>1, <2>2, <2>3, <2>4 DEF OpenContent
<1>11. FileContent' /\ TailContent'
  BY <1>1, FlushFiles
<1>12. TailInfo' = TailInfo /\ (TailIsFull <=> TailIsFull') /\ info_file' = info_file
  BY <1>1 DEF TailInfo, TailIsFull
<1>13. BehindTail'
  <2> SUFFICES ASSUME info_file # NoFile, TailIsFull
               PROVE  TailInfo.file_off + TailInfo.strg_size <= Cur'.file_off
    BY <1>12 DEF BehindTail
  <2>1. TailInfo.file_off + TailInfo.strg_size <= file_off
    BY <1>1, <1>2 DEF BehindTail, Writing
  <2>2. Cur'.file_off = file_off + fi.strg_size
    BY <1>1, <1>6, <1>8 DEF Cur
  <2>3. TailInfo.file_off \in Nat /\ TailInfo.strg_size \in Nat
    <3>1. info_file.infos \in Seq(Info) /\ info_file.infos # <<>>
      BY DEF IInv, TypeOK, FileInv
    <3>2. Len(info_file.infos) \in 1..Len(info_file.infos)
      BY <3>1, LastInfo
    <3> QED BY <3>1, <3>2, InfoFields DEF TailInfo
  <2> QED BY <1>2, <1>4, <2>1, <2>2, <2>3
<1>14. AtTail'
  <2> DEFINE m == Len(info_file.infos)
  <2> SUFFICES ASSUME info_file # NoFile, ~TailIsFull
               PROVE  /\ m <= Len(infos') /\ infos'[m].file_off = TailInfo.file_off
                      /\ Len(infos') # m
                      /\ infos'[m].strg_size = 0 => GetType(TailInfo.item) = "trivial"
    BY <1>12 DEF AtTail
  <2>1. /\ info_file.infos \in Seq(Info) /\ info_file.infos # <<>>
        /\ m \in Nat \ {0} /\ m \in 1..m
    <3>1. info_file.infos \in Seq(Info) /\ info_file.infos # <<>>
      BY DEF IInv, TypeOK, FileInv
    <3> QED BY <3>1, LastInfo, EmptySeq, LenProperties
  <2>2. /\ m <= n /\ infos[m].file_off = TailInfo.file_off
        /\ n = m => Grown(TailInfo.item, item_info)
        /\ m < n /\ infos[m].strg_size = 0 => GetType(TailInfo.item) = "trivial"
    BY <1>1, <1>2 DEF AtTail, n
  <2>3. TailInfo.item.item_num \in Nat /\ TailInfo.item.triv_num \in Nat /\ TailInfo.item.null_num \in Nat
    BY <2>1, InfoFields DEF TailInfo
  <2> HIDE DEF m
  <2>4. m <= Len(infos') /\ Len(infos') # m
    BY <1>2, <1>8, <2>1, <2>2
  <2>5. CASE m < n
    <3>1. infos'[m] = infos[m]
      BY <1>2, <1>8, <2>1, <2>5, SMTT(20)
    <3> QED BY <2>2, <2>4, <2>5, <3>1
  <2>6. CASE m = n
    <3>1. infos'[m].file_off = TailInfo.file_off
      BY <1>2, <1>4, <1>8, <2>2, <2>6 DEF Cur, n
    <3>2. ASSUME infos'[m].strg_size = 0 PROVE GetType(TailInfo.item) = "trivial"
      <4>1. MergedUsed(item_info, FALSE) = 0
        <5>1. fi.strg_size = 0
          BY <1>8, <2>6, <3>2
        <5>2. MergedUsed(item_info, FALSE) # 0 => fi.strg_size > 0
          BY <1>1, <1>2, FlushedInfoOpen DEF fi
        <5> DEFINE used == MergedUsed(item_info, FALSE)
        <5>3. used # 0 => fi.strg_size > 0
          BY <5>2
        <5> HIDE DEF used
        <5>4. used = 0
          BY <1>4, <5>1, <5>3
        <5> QED BY <5>4 DEF used
      <4>2. /\ item_info.item_num \in Nat /\ item_info.recd_num \in Nat
            /\ item_info.triv_num \in Nat /\ item_info.null_num \in Nat
            /\ item_info.recd_num <= item_info.item_num
        BY <1>1, <1>2 DEF WriterInv, ItemInfo
      <4>3. item_info.item_num > 0
        BY <1>3, <4>2, ConstantsAssumption
      <4>4. GetType(item_info) = "trivial"
        BY <4>1, <4>2, <4>3 DEF MergedUsed, GetType
      <4>5. item_info.triv_num = item_info.item_num /\ item_info.null_num = item_info.item_num
        BY <4>4 DEF GetType
      <4>6. TailInfo.item.triv_num = TailInfo.item.item_num /\ TailInfo.item.null_num = TailInfo.item.item_num
        BY <2>2, <2>3, <2>6, <4>2, <4>5 DEF Grown
      <4> QED BY <4>6 DEF GetType
    <3> QED BY <2>4, <3>1, <3>2
  <2>7. m < n \/ m = n
    BY <1>2, <2>1, <2>2
  <2> QED BY <2>5, <2>6, <2>7
<1> QED BY <1>1, <1>10, <1>11, <1>13, <1>14 DEF ContentInv, FlushedContent

\* The tail is flushed.
LEMMA CloseFlushContent ==
  ASSUME IInv, OrderInv, ContentInv, CloseFlush
  PROVE  ContentInv'
<1> DEFINE n  == Len(infos)
           fi == FlushedInfo(TRUE)
           js == [infos EXCEPT ![n] = fi]
<1>1. /\ session = "open" /\ session' = "flushed"
      /\ UNCHANGED <<info_file, durable, item_info, items, log>>
      /\ disk' = FlushedDisk(TRUE) /\ infos' = js
  BY DEF CloseFlush
<1>2. /\ TypeOK /\ WriterInv /\ OpenInv /\ OpenContent /\ BehindTail
      /\ infos \in Seq(Info) /\ infos # <<>> /\ n \in Nat \ {0}
      /\ file_off = Cur.file_off /\ item_info.item_num \in Nat /\ item_info.recd_num \in Nat
  BY <1>1, EmptySeq DEF IInv, TypeOK, WriterInv, OpenInv, ContentInv, ItemInfo
<1>3. /\ fi \in Info /\ fi.file_off = file_off
      /\ MergedUsed(item_info, TRUE) = 0 => fi.strg_size = 0 /\ fi.item = Cur.item
      /\ MergedUsed(item_info, TRUE) # 0 => fi.strg_size > 0
      /\ MergedUsed(item_info, TRUE) = 0 => item_info.item_num = 0
      /\ fi.strg_size \in Nat
  BY <1>1, <1>2, FlushedInfoOpen
<1>4. /\ js \in Seq(Info) /\ Len(js) = n /\ js[n] = fi
      /\ \A i \in 1..(n - 1) : js[i] = infos[i]
  BY <1>2, <1>3, ReplaceLast
<1> HIDE DEF js, fi, n
<1>5. /\ fi.strg_size # 0 =>
           /\ disk'[file_off] = items /\ fi.item = item_info
           /\ ReadOf(items, item_info) = items
      /\ DecodedOf(disk', js, n) = log
      /\ \A i \in 1..n : js[i].strg_size # 0 => Len(disk'[js[i].file_off]) = js[i].item.item_num
  <2>1. n <= Len(js)
    BY <1>2, <1>4
  <2>2. fi.strg_size # 0 =>
           /\ disk'[file_off] = items /\ fi.item = item_info
           /\ ReadOf(items, item_info) = items
    BY <1>1, <1>2, <1>4, <2>1, FlushedBlock DEF n, fi
  <2>3. /\ DecodedOf(disk', js, n) = log
        /\ \A i \in 1..n : js[i].strg_size # 0 => Len(disk'[js[i].file_off]) = js[i].item.item_num
    BY <1>1, <1>2, <1>4, <2>1, FlushedLog DEF n, fi
  <2> QED BY <2>2, <2>3
<1>6. Cur' = fi
  BY <1>1, <1>4 DEF Cur
<1>7. FlushedContent'
  <2>1. ASSUME fi.strg_size # 0 PROVE Sound(Cur)'
    <3>1. ReadBlock(Cur)' = ReadOf(disk'[fi.file_off], fi.item)
      BY <1>6 DEF ReadBlock, ReadOf
    <3>2. ReadBlock(Cur)' = items
      BY <1>3, <1>5, <2>1, <3>1
    <3>3. items \in Seq(Item) /\ Counts(item_info, items)
      BY <1>1, <1>2 DEF OpenContent
    <3> QED BY <1>5, <1>6, <2>1, <3>2, <3>3 DEF Sound
  <2>2. ASSUME fi.strg_size = 0 PROVE fi.item.recd_num = 0
    <3>1. fi.item = Cur.item /\ item_info.item_num = 0
      <4> DEFINE used == MergedUsed(item_info, TRUE)
      <4>1. /\ used = 0 => fi.item = Cur.item /\ item_info.item_num = 0
            /\ used # 0 => fi.strg_size > 0
        BY <1>3
      <4> HIDE DEF used
      <4> QED BY <1>3, <2>2, <4>1
    <3>2. Cur.item.recd_num \in Nat
      <4>1. n \in 1..n
        BY <1>2
      <4> QED BY <1>2, <4>1, InfoFields DEF Cur, n
    <3>3. Cur.item.recd_num <= item_info.recd_num /\ item_info.recd_num <= item_info.item_num
      BY <1>1, <1>2 DEF WriterInv
    <3> QED BY <1>2, <3>1, <3>2, <3>3
  <2>3. \A i \in 1..Len(infos') : Readable(infos[i])'
    BY <1>1, <1>4, <1>5 DEF Readable
  <2>4. Decoded(infos, Len(infos))' = log
    <3>1. Decoded(infos, Len(infos))' = DecodedOf(disk', infos', Len(infos'))
      BY DEF Decoded, DecodedOf, BlockItems, BlockOf, ReadBlock, ReadOf
    <3> QED BY <1>1, <1>4, <1>5, <3>1
  <2> QED BY <1>1, <1>6, <2>1, <2>2, <2>3, <2>4 DEF FlushedContent
<1>8. FileContent' /\ TailContent'
  BY <1>1, FlushFiles
<1>9. BehindTail'
  <2>1. TailInfo' = TailInfo /\ (TailIsFull <=> TailIsFull') /\ info_file' = info_file
    BY <1>1 DEF TailInfo, TailIsFull
  <2>2. Cur'.file_off = Cur.file_off
    BY <1>2, <1>3, <1>6
  <2> QED BY <1>1, <1>2, <2>1, <2>2 DEF BehindTail, Writing
<1> QED BY <1>1, <1>7, <1>8, <1>9 DEF ContentInv, OpenContent, AtTail

\* The first part of a concatenation.
LEMMA PrefixOfConcat ==
  ASSUME NEW S, NEW s \in Seq(S), NEW t \in Seq(S)
  PROVE  s = SubSeq(s \o t, 1, Len(s))
<1>1. /\ Len(s) \in Nat /\ Len(t) \in Nat
      /\ s \o t \in Seq(S) /\ Len(s \o t) = Len(s) + Len(t)
      /\ \A i \in 1..Len(s) + Len(t) : (s \o t)[i] = IF i <= Len(s) THEN s[i] ELSE t[i - Len(s)]
  BY ConcatProperties, LenProperties
<1>2. \A i \in 1..Len(s) : (s \o t)[i] = s[i] /\ s[i] \in S
  BY <1>1, ElementOfSeq
<1> DEFINE u == SubSeq(s \o t, 1, Len(s))
<1>3. /\ u \in Seq(S) /\ Len(u) = Len(s)
      /\ \A i \in 1..Len(s) : u[i] = s[i]
  <2>1. /\ u \in Seq(S)
        /\ Len(u) = IF 1 <= Len(s) THEN Len(s) - 1 + 1 ELSE 0
        /\ \A i \in 1..(Len(s) - 1 + 1) : u[i] = (s \o t)[1 + i - 1]
    BY <1>1, <1>2, SubSeqProperties
  <2> HIDE DEF u
  <2>2. Len(u) = Len(s)
    BY <1>1, <2>1
  <2>3. ASSUME NEW i \in 1..Len(s) PROVE u[i] = s[i]
    <3>1. i \in 1..(Len(s) - 1 + 1) /\ 1 + i - 1 = i
      BY <1>1
    <3> QED BY <1>2, <2>1, <3>1
  <2> QED BY <2>1, <2>2, <2>3
<1> HIDE DEF u
<1>4. s = u
  BY <1>3, SeqEqual
<1> QED BY <1>4 DEF u

\* All of a sequence.
LEMMA WholeSeq ==
  ASSUME NEW S, NEW s \in Seq(S)
  PROVE  s = SubSeq(s, 1, Len(s))
<1>1. s = SubSeq(s \o <<>>, 1, Len(s))
  BY PrefixOfConcat, EmptySeq
<1> QED BY <1>1, ConcatEmptySeq

\* The .info file is written.
LEMMA CloseInfoContent ==
  ASSUME IInv, OrderInv, ContentInv, CloseInfo
  PROVE  ContentInv'
<1> DEFINE n == Len(infos)
<1>1. /\ session = "flushed" /\ session' = "closed"
      /\ info_file' = [infos |-> infos, valid_recd |-> valid_recd]
      /\ durable' = log /\ disk' = disk
  BY DEF CloseInfo
<1>2. /\ TypeOK /\ infos \in Seq(Info) /\ infos # <<>> /\ n \in Nat \ {0} /\ n \in 1..n
      /\ FlushedContent /\ log \in Seq(Item) /\ TailStored(Cur)
      /\ \A i \in 1..n : Readable(infos[i])
      /\ log = Decoded(infos, n)
  BY <1>1, EmptySeq, LastInfo DEF IInv, TypeOK, WriterInv, FlushedInv, ContentInv, FlushedContent
<1>3. /\ info_file' # NoFile /\ info_file'.infos = infos /\ TailInfo' = Cur
  <2>1. info_file'.infos = infos
    BY <1>1
  <2>2. valid_recd \in Nat
    BY <1>2 DEF TypeOK
  <2> QED BY <1>1, <1>2, <2>1, <2>2, NoFileAssumption DEF TailInfo, Cur
<1>4. \A i \in 1..n : BlockOf(disk, infos, i) \in Seq(ColumnItem)
  <2>1. ASSUME NEW i \in 1..n, infos[i].strg_size # 0 PROVE infos[i].file_off \in DOMAIN disk
    <3>1. CASE i = n
      BY <1>2, <2>1, <3>1 DEF TailStored, Cur
    <3>2. CASE i # n
      <4>1. i \in 1..(n - 1)
        BY <1>2, <3>2
      <4> QED BY <1>1, <2>1, <4>1 DEF OrderInv, StoredBlocks
    <3> QED BY <3>1, <3>2
  <2> QED BY <1>2, <2>1, BlockType
<1> HIDE DEF n
<1>5. /\ DecodedOf(disk, infos, n) = log
      /\ DecodedOf(disk, infos, n - 1) = SubSeq(log, 1, Len(DecodedOf(disk, infos, n - 1)))
  <2> DEFINE m == n - 1
             D == DecodedOf(disk, infos, m)
             B == BlockOf(disk, infos, n)
  <2>1. m \in Nat /\ m + 1 = n
    BY <1>2
  <2>2. DecodedOf(disk, infos, n) = log
    BY <1>2, DecodedForm
  <2>3. log = D \o B
    <3>1. DecodedOf(disk, infos, m + 1) = DecodedOf(disk, infos, m) \o BlockOf(disk, infos, m + 1)
      <4> HIDE DEF m
      <4> QED BY <2>1, DecodedStep
    <3> QED BY <2>1, <2>2, <3>1
  <2>4. D \in Seq(ColumnItem) /\ B \in Seq(ColumnItem)
    <3>1. \A i \in 1..m : BlockOf(disk, infos, i) \in Seq(ColumnItem)
      BY <1>2, <1>4
    <3> HIDE DEF m
    <3> QED BY <1>2, <1>4, <2>1, <3>1, DecodedType
  <2>5. D = SubSeq(log, 1, Len(D))
    <3> HIDE DEF D, B
    <3> QED BY <2>3, <2>4, PrefixOfConcat
  <2> QED BY <2>2, <2>5
<1>6. \A k : Decoded(info_file.infos, k)' = DecodedOf(disk, infos, k)
  <2>1. \A k : Decoded(info_file.infos, k)' = DecodedOf(disk', info_file'.infos, k)
    BY DEF Decoded, DecodedOf, BlockItems, BlockOf, ReadBlock, ReadOf
  <2> QED BY <1>1, <1>3, <2>1
<1>7. FileContent'
  <2>1. TailDecodes'
    <3>1. Readable(TailInfo)'
      BY <1>1, <1>2, <1>3 DEF Readable, Cur, n
    <3>2. Decoded(info_file.infos, Len(info_file.infos))' = DecodedOf(disk, infos, n)
      <4>1. Decoded(info_file.infos, Len(info_file.infos))'
              = DecodedOf(disk', info_file'.infos, Len(info_file'.infos))
        BY DEF Decoded, DecodedOf, BlockItems, BlockOf, ReadBlock, ReadOf
      <4> QED BY <1>1, <1>3, <4>1 DEF n
    <3> QED BY <1>1, <1>5, <3>1, <3>2 DEF TailDecodes
  <2>2. FilesDecode(Len(info_file.infos) - 1)'
    <3>1. Decoded(info_file.infos, Len(info_file.infos) - 1)' = DecodedOf(disk, infos, n - 1)
      <4>1. Decoded(info_file.infos, Len(info_file.infos) - 1)'
              = DecodedOf(disk', info_file'.infos, Len(info_file'.infos) - 1)
        BY DEF Decoded, DecodedOf, BlockItems, BlockOf, ReadBlock, ReadOf
      <4> QED BY <1>1, <1>3, <4>1 DEF n
    <3>2. \A i \in 1..(n - 1) : Readable(info_file.infos[i])'
      <4>1. \A i \in 1..(n - 1) : i \in 1..n
        BY <1>2
      <4> QED BY <1>1, <1>2, <1>3, <4>1 DEF Readable
    <3> QED BY <1>1, <1>3, <1>5, <3>1, <3>2 DEF FilesDecode, n
  <2> QED BY <1>1, <1>3, <2>1, <2>2 DEF FileContent, Writing
<1>8. TailContent'
  <2>1. Sound(TailInfo)' <=> Sound(Cur)
    <3>1. ReadBlock(TailInfo)' = ReadOf(disk'[TailInfo'.file_off], TailInfo'.item)
      BY DEF ReadBlock, ReadOf
    <3>2. ReadBlock(TailInfo)' = ReadBlock(Cur)
      BY <1>1, <1>3, <3>1, ReadBlockOf
    <3> QED BY <1>3, <3>2 DEF Sound
  <2> QED BY <1>1, <1>2, <1>3, <2>1 DEF TailContent, FlushedContent
<1> QED BY <1>1, <1>7, <1>8
        DEF ContentInv, OpenContent, FlushedContent, BehindTail, AtTail, Writing

\* A reader finds everything when it finds the tail.
LEMMA IntactFiles ==
  ASSUME TypeOK, FileInv, info_file # NoFile, FilesDecode(Len(info_file.infos) - 1)
  PROVE  FilesIntact <=> TailDecodes
<1> DEFINE is == info_file.infos
           n  == Len(is)
<1>1. /\ n \in Nat \ {0} /\ n \in 1..n /\ TailInfo = is[n]
      /\ \A i \in 1..n : i = n \/ i \in 1..(n - 1)
  <2>1. is \in Seq(Info) /\ is # <<>>
    BY DEF TypeOK, FileInv
  <2>2. n \in Nat \ {0}
    BY <2>1, EmptySeq, LenProperties
  <2> HIDE DEF n
  <2>3. n \in 1..n /\ \A i \in 1..n : i = n \/ i \in 1..(n - 1)
    BY <2>2
  <2> QED BY <2>2, <2>3 DEF TailInfo, n
<1>2. durable = SubSeq(durable, 1, Len(durable))
  BY WholeSeq DEF TypeOK
<1> HIDE DEF is, n
<1>3. ASSUME FilesIntact PROVE TailDecodes
  BY <1>1, <1>2, <1>3 DEF FilesIntact, FilesDecode, TailDecodes, is, n
<1>4. ASSUME TailDecodes PROVE FilesIntact
  <2>1. \A i \in 1..n : Readable(is[i])
    BY <1>1, <1>4 DEF FilesDecode, TailDecodes, is, n
  <2> QED BY <1>2, <1>4, <2>1 DEF FilesIntact, FilesDecode, TailDecodes, is, n
<1> QED BY <1>3, <1>4

\* The process stops.
LEMMA CrashContent ==
  ASSUME IInv, ContentInv, Crash
  PROVE  ContentInv'
<1>1. /\ Writing /\ session' = (IF FilesIntact THEN "closed" ELSE "damaged")
      /\ UNCHANGED <<disk, info_file, durable>>
  BY DEF Crash, fileVars, Writing
<1>2. TypeOK /\ FileInv /\ FileContent /\ TailContent
  BY DEF IInv, ContentInv
<1>3. FileContent'
  <2>1. CASE info_file = NoFile
    BY <1>1, <1>2, <2>1 DEF FileContent, FilesIntact
  <2>2. CASE info_file # NoFile
    <3>1. FilesDecode(Len(info_file.infos) - 1) /\ (TailIsFull => TailDecodes)
      BY <1>1, <1>2, <2>2 DEF FileContent
    <3>2. FilesIntact <=> TailDecodes
      BY <1>2, <2>2, <3>1, IntactFiles
    <3>3. FilesDecode(Len(info_file.infos) - 1)' /\ (TailDecodes => TailDecodes')
          /\ (TailIsFull <=> TailIsFull')
      BY <1>1, <3>1, FilesUntouched
    <3>4. ~Writing'
      BY <1>1 DEF Writing
    <3> QED BY <1>1, <2>2, <3>1, <3>2, <3>3, <3>4 DEF FileContent
  <2> QED BY <2>1, <2>2
<1>4. TailContent'
  BY <1>1, <1>2, FilesUntouched
<1> QED BY <1>1, <1>3, <1>4 DEF ContentInv, OpenContent, FlushedContent, BehindTail, AtTail, Writing

\* A reader or writer that died while opening, and the next start.
LEMMA NoSessionContent ==
  ASSUME IInv, ContentInv, OpenAppendTailFails \/ Restart
  PROVE  ContentInv'
<1>1. /\ session \in {"closed", "died"} /\ session' \in {"closed", "died"}
      /\ UNCHANGED <<disk, info_file, durable>>
  BY DEF OpenAppendTailFails, Restart, Open, fileVars
<1>2. FileContent /\ TailContent
  BY DEF ContentInv
<1>3. FileContent'
  <2>1. info_file # NoFile => TailDecodes' /\ FilesDecode(Len(info_file.infos) - 1)'
    BY <1>1, <1>2, FilesUntouched DEF FileContent
  <2> QED BY <1>1, <1>2, <2>1 DEF FileContent, Writing
<1>4. TailContent'
  BY <1>1, <1>2, FilesUntouched
<1> QED BY <1>1, <1>3, <1>4 DEF ContentInv, OpenContent, FlushedContent, BehindTail, AtTail, Writing

\* A step that changes nothing.
LEMMA StutterContent ==
  ASSUME ContentInv, UNCHANGED vars
  PROVE  ContentInv'
<1>1. /\ UNCHANGED <<disk, info_file, durable>> /\ Cur' = Cur
      /\ UNCHANGED <<session, infos, item_info, items, log>>
  BY DEF vars, fileVars, cabVars, Cur
<1>2. \A k : Decoded(infos, k)' = Decoded(infos, k)
  <2>1. \A k : Decoded(infos, k)' = DecodedOf(disk', infos', k)
    BY DEF Decoded, DecodedOf, BlockItems, BlockOf, ReadBlock, ReadOf
  <2> QED BY <1>1, <2>1, DecodedForm
<1>3. OpenContent'
  <2>1. Counts(item_info, items)' <=> Counts(item_info, items)
    BY <1>1 DEF Counts, RecordsIn, NullsIn, TrivialsIn
  <2>2. Decoded(infos, Len(infos) - 1)' = Decoded(infos, Len(infos) - 1)
    <3>1. Decoded(infos, Len(infos) - 1)' = DecodedOf(disk', infos', Len(infos') - 1)
      BY DEF Decoded, DecodedOf, BlockItems, BlockOf, ReadBlock, ReadOf
    <3> QED BY <1>1, <3>1, DecodedForm
  <2> QED BY <1>1, <2>1, <2>2 DEF ContentInv, OpenContent, Readable
<1>4. FlushedContent'
  <2>1. Sound(Cur)' <=> Sound(Cur)
    <3>1. ReadBlock(Cur)' = ReadOf(disk'[Cur'.file_off], Cur'.item)
      BY DEF ReadBlock, ReadOf
    <3>2. ReadBlock(Cur)' = ReadBlock(Cur)
      BY <1>1, <3>1, ReadBlockOf
    <3> QED BY <1>1, <3>2 DEF Sound
  <2>2. Decoded(infos, Len(infos))' = Decoded(infos, Len(infos))
    <3>1. Decoded(infos, Len(infos))' = DecodedOf(disk', infos', Len(infos'))
      BY DEF Decoded, DecodedOf, BlockItems, BlockOf, ReadBlock, ReadOf
    <3> QED BY <1>1, <3>1, DecodedForm
  <2> QED BY <1>1, <2>1, <2>2 DEF ContentInv, FlushedContent, Readable
<1>5. FileContent' /\ TailContent'
  <2>1. /\ TailContent' /\ (TailIsFull <=> TailIsFull') /\ (TailDecodes => TailDecodes')
        /\ FilesDecode(Len(info_file.infos) - 1) => FilesDecode(Len(info_file.infos) - 1)'
    BY <1>1, FilesUntouched DEF ContentInv
  <2> QED BY <1>1, <2>1 DEF ContentInv, FileContent, Writing
<1>6. BehindTail' /\ AtTail'
  <2>1. TailInfo' = TailInfo /\ (TailIsFull <=> TailIsFull')
    BY <1>1 DEF TailInfo, TailIsFull
  <2> QED BY <1>1, <2>1 DEF ContentInv, BehindTail, AtTail, Writing
<1> QED BY <1>3, <1>4, <1>5, <1>6 DEF ContentInv

\* Nothing is lost or made up at the start.
LEMMA InitContent == Init => ContentInv
  BY DEF Init, ContentInv, OpenContent, FlushedContent, FileContent, TailContent,
         BehindTail, AtTail, Writing

\* Every step keeps the content.
LEMMA ContentStep ==
  ASSUME IInv, OrderInv, ContentInv, [Next]_vars
  PROVE  ContentInv'
<1>1. CASE \E rbgn \in FirstRecds : OpenWrite(rbgn)
  BY <1>1, OpenWriteContent
<1>2. CASE OpenAppendNextCAB
  BY <1>2, OpenAppendNextCABContent
<1>3. CASE OpenAppendTail
  BY <1>3, OpenAppendTailContent
<1>4. CASE OpenAppendTailFails \/ Restart
  BY <1>4, NoSessionContent
<1>5. CASE \E it \in Item : WriteInCAB(it)
  BY <1>5, WriteInCABContent
<1>6. CASE \E it \in Item : WriteToNextCAB(it)
  BY <1>6, WriteToNextCABContent
<1>7. CASE CloseFlush
  BY <1>7, CloseFlushContent
<1>8. CASE CloseInfo
  BY <1>8, CloseInfoContent
<1>9. CASE Crash
  BY <1>9, CrashContent
<1>10. CASE UNCHANGED vars
  BY <1>10, StutterContent
<1> QED BY <1>1, <1>2, <1>3, <1>4, <1>5, <1>6, <1>7, <1>8, <1>9, <1>10 DEF Next

-----------------------------------------------------------------------------
(* The theorems.                                                           *)

\* What the files and the writer hold is what was written, in every state.
THEOREM Content == Spec => [](IInv /\ OrderInv /\ ContentInv)
<1>1. Init => OrderInv
  BY DEF Init, OrderInv
<1> QED BY <1>1, Invariant, OrderStep, InitContent, ContentStep, PTL DEF Spec

\* The counters of the CAB in memory, which decide what is stored and how it is
\* read, are those of its items, also after a tail was loaded again
\* (CABItemInfo::update, CABAppender::init2append).
THEOREM Counters == Spec => []CountersMatchItems
<1>1. IInv /\ ContentInv => CountersMatchItems
  BY DEF IInv, WriterInv, ContentInv, OpenContent, Counts, CountersMatchItems
<1> QED BY <1>1, Content, PTL

\* A file that was closed holds every item written, in order, whatever sessions,
\* interruptions and rewritten tails came before (~CABWriter, ~CABInfoBuffer).
THEOREM ClosedFiles == Spec => []ClosedFilesHoldLog
<1>1. IInv /\ ContentInv => ClosedFilesHoldLog
  <2> SUFFICES ASSUME IInv, ContentInv, session = "closed", info_file # NoFile
               PROVE  FilesIntact
    BY DEF ClosedFilesHoldLog, FilesIntact
  <2> QED BY IntactFiles DEF IInv, ContentInv, FileContent
<1> QED BY <1>1, Content, PTL

\* What was once closed can be read at any time, but for the tail CAB.
THEOREM SealedCABs == Spec => []SealedCABsSurvive
<1>1. ContentInv => SealedCABsSurvive
  BY DEF ContentInv, FileContent, SealedCABsSurvive
<1> QED BY <1>1, Content, PTL

\* Only a partly filled tail that was being rewritten can be damaged.
THEOREM Damage == Spec => []DamageNeedsPartialTail
<1>1. ContentInv => DamageNeedsPartialTail
  BY DEF ContentInv, FileContent, DamageNeedsPartialTail
<1> QED BY <1>1, Content, PTL

-----------------------------------------------------------------------------
(* Groups of records.                                                      *)

\* A part of a group is no group.
LEMMA WholeGroups ==
  ASSUME NEW c \in Nat \ {0}, NEW a \in Nat, NEW b \in Nat, b <= a,
         a % c = 0, b % c = 0, NEW r \in Nat, r < c
  PROVE  (((a - b) + r) \div c) * c = a - b
<1> DEFINE i == a \div c
           j == b \div c
           x == (a - b) + r
           q == x \div c
<1>1. i \in Int /\ a = c * i /\ j \in Int /\ b = c * j
  OBVIOUS
<1>2. q \in Int /\ c * q <= x /\ x < c * q + c /\ x \in Nat
  OBVIOUS
<1> DEFINE p == i - j
<1>3. p \in Int /\ a - b = c * p
  <2> HIDE DEF i, j
  <2> QED BY <1>1
<1> DEFINE d == q - p
<1>4. d \in Int /\ c * d <= r /\ r < c * d + c
  <2>1. x = c * p + r
    BY <1>3
  <2> HIDE DEF p, q, x
  <2>2. c * (q - p) = c * q - c * p
    BY <1>2, <1>3
  <2>3. d \in Int /\ c * d = c * q - c * p
    BY <1>2, <1>3, <2>2
  <2> HIDE DEF d
  <2>4. c * q \in Int /\ c * p \in Int
    BY <1>2, <1>3
  <2> DEFINE cq == c * q
             cp == c * p
             cd == c * d
  <2>5. cq \in Int /\ cp \in Int /\ cd = cq - cp /\ cq <= cp + r /\ cp + r < cq + c
    BY <1>2, <2>1, <2>3, <2>4
  <2> HIDE DEF cq, cp, cd
  <2>6. cd <= r /\ r < cd + c
    BY <2>5
  <2> QED BY <2>3, <2>6 DEF cd
<1> HIDE DEF d
<1>5. d = 0
  <2>1. CASE d > 0
    <3>1. c * d >= c
      BY <1>4, <2>1
    <3>2. c * d \in Int
      BY <1>4
    <3> QED BY <1>4, <3>1, <3>2
  <2>2. CASE d < 0
    <3>1. c * d <= 0 - c
      BY <1>4, <2>2
    <3>2. c * d \in Int
      BY <1>4
    <3> QED BY <1>4, <3>1, <3>2
  <2> QED BY <1>4, <2>1, <2>2
<1>6. q = p
  <2> HIDE DEF q, p
  <2> QED BY <1>2, <1>3, <1>5 DEF d
<1>7. q * c = c * p
  <2> HIDE DEF q, p
  <2> QED BY <1>3, <1>6
<1> QED BY <1>3, <1>7

\* The records begun in the first n items.
LEMMA RecordsUpTo ==
  ASSUME NEW s \in Seq(ColumnItem), NEW n \in 0..Len(s)
  PROVE  /\ RecordsIn(SubSeq(s, 1, n)) = Cardinality({k \in 1..n : s[k].rep = 0})
         /\ RecordsIn(SubSeq(s, 1, n)) \in Nat
<1>1. n \in Nat /\ n <= Len(s) /\ Len(s) \in Nat
  BY LenProperties
<1> DEFINE u == SubSeq(s, 1, n)
<1>2. \A i \in 1..n : s[i] \in ColumnItem
  BY <1>1, ElementOfSeq
<1>3. DOMAIN u = 1..n /\ \A i \in 1..n : u[i] = s[i]
  <2>1. /\ u \in Seq(ColumnItem)
        /\ Len(u) = IF 1 <= n THEN n - 1 + 1 ELSE 0
        /\ \A i \in 1..(n - 1 + 1) : u[i] = s[1 + i - 1]
    BY <1>1, <1>2, SubSeqProperties
  <2> HIDE DEF u
  <2>2. Len(u) = n
    BY <1>1, <2>1
  <2>3. ASSUME NEW i \in 1..n PROVE u[i] = s[i]
    <3>1. i \in 1..(n - 1 + 1) /\ 1 + i - 1 = i
      BY <1>1
    <3> QED BY <2>1, <3>1
  <2> QED BY <2>1, <2>2, <2>3, LenProperties
<1> HIDE DEF u
<1>4. {k \in DOMAIN u : u[k].rep = 0} = {k \in 1..n : s[k].rep = 0}
  BY <1>3
<1>5. Cardinality({k \in 1..n : s[k].rep = 0}) \in Nat
  <2>1. IsFiniteSet(1..n)
    BY <1>1, FS_Interval
  <2>2. IsFiniteSet({k \in 1..n : s[k].rep = 0})
    BY <2>1, FS_Subset
  <2> QED BY <2>2, FS_CardinalityType
<1> QED BY <1>4, <1>5 DEF RecordsIn, u

\* A record that begins behind the first n items counts from there.
LEMMA RecordsGrow ==
  ASSUME NEW s \in Seq(ColumnItem), NEW n \in 0..Len(s), NEW m \in 0..Len(s),
         n < m, s[n + 1].rep = 0
  PROVE  RecordsIn(SubSeq(s, 1, n)) # RecordsIn(SubSeq(s, 1, m))
<1> DEFINE P == {k \in 1..n : s[k].rep = 0}
           Q == {k \in 1..m : s[k].rep = 0}
<1>1. n \in Nat /\ m \in Nat
  BY LenProperties
<1>2. IsFiniteSet(P) /\ IsFiniteSet(Q)
  <2>1. IsFiniteSet(1..n) /\ IsFiniteSet(1..m)
    BY <1>1, FS_Interval
  <2> QED BY <2>1, FS_Subset
<1>3. n + 1 \notin P /\ P \cup {n + 1} \subseteq Q
  BY <1>1
<1> HIDE DEF P, Q
<1>4. Cardinality(P \cup {n + 1}) = Cardinality(P) + 1 /\ IsFiniteSet(P \cup {n + 1})
  BY <1>2, <1>3, FS_AddElement
<1>5. Cardinality(P \cup {n + 1}) <= Cardinality(Q)
  BY <1>2, <1>3, FS_Subset
<1>6. Cardinality(P) \in Nat /\ Cardinality(Q) \in Nat
  BY <1>2, FS_CardinalityType
<1>7. Cardinality(P) # Cardinality(Q)
  BY <1>4, <1>5, <1>6
<1> QED BY <1>7, RecordsUpTo DEF P, Q

\* ColumnLog counts records as ColumnFile does.
LEMMA SameRecords ==
  ASSUME NEW s
  PROVE  ColumnLog!Records(s) = RecordsIn(s)
<1>1. ASSUME NEW S PROVE ColumnLog!Cardinality(S) = Cardinality(S)
  BY DEF ColumnLog!Cardinality, Cardinality
<1> QED BY <1>1 DEF ColumnLog!Records, RecordsIn

\* The complete groups of a log end where a group ends and nothing or a record
\* follows.
LEMMA GroupsEnd ==
  ASSUME NEW s \in Seq(ColumnItem), NEW n \in 0..Len(s),
         n < Len(s) => s[n + 1].rep = 0,
         RecordsIn(SubSeq(s, 1, n)) = (RecordsIn(s) \div RecdCap) * RecdCap
  PROVE  ColumnLog!CompleteGroups(s) = SubSeq(s, 1, n)
<1> DEFINE whole == (RecordsIn(s) \div RecdCap) * RecdCap
           ends  == {m \in 0..Len(s) : /\ RecordsIn(SubSeq(s, 1, m)) = whole
                                       /\ m < Len(s) => s[m + 1].rep = 0}
<1>1. n \in ends
  OBVIOUS
<1>2. ASSUME NEW m \in ends PROVE m = n
  <2>1. m \in 0..Len(s) /\ Len(s) \in Nat
    BY LenProperties
  <2>2. ASSUME m < n PROVE FALSE
    BY <2>1, <2>2, RecordsGrow
  <2>3. ASSUME n < m PROVE FALSE
    BY <2>1, <2>3, RecordsGrow
  <2> QED BY <2>1, <2>2, <2>3
<1>3. ColumnLog!CompleteGroups(s) = SubSeq(s, 1, CHOOSE m \in ends : TRUE)
  BY SameRecords DEF ColumnLog!CompleteGroups
<1> HIDE DEF ends
<1>4. (CHOOSE m \in ends : TRUE) = n
  BY <1>1, <1>2
<1> QED BY <1>3, <1>4

-----------------------------------------------------------------------------
(* What a reader finds.                                                    *)

\* A readable block, and FileLog, of the file content d.
FoundOf(d, is, i) ==
  IF is[i].strg_size # 0 => Len(d[is[i].file_off]) = is[i].item.item_num
  THEN BlockOf(d, is, i) ELSE <<>>

FilesOf(d, is) == Concatenated([i \in 1..Len(is) |-> FoundOf(d, is, i)], Len(is))

LEMMA FileLogForm ==
  FileLog = IF info_file = NoFile THEN <<>> ELSE FilesOf(disk, info_file.infos)
<1> DEFINE is == info_file.infos
<1>1. \A i : BlockItems(is, i) = BlockOf(disk, is, i)
  BY DEF BlockItems, BlockOf, ReadBlock, ReadOf
<1>2. \A i : (IF Readable(is[i]) THEN BlockItems(is, i) ELSE <<>>) = FoundOf(disk, is, i)
  <2> HIDE DEF is
  <2> QED BY <1>1 DEF FoundOf, Readable
<1>3. [i \in 1..Len(is) |-> IF Readable(is[i]) THEN BlockItems(is, i) ELSE <<>>]
        = [i \in 1..Len(is) |-> FoundOf(disk, is, i)]
  <2> HIDE DEF is
  <2> QED BY <1>2
<1> QED BY <1>3 DEF FileLog, FilesOf

\* ... after a step.
LEMMA FileLogNext ==
  FileLog' = IF info_file' = NoFile THEN <<>> ELSE FilesOf(disk', info_file'.infos)
<1> DEFINE is == info_file'.infos
<1>1. \A i : BlockItems(info_file.infos, i)' = BlockOf(disk', is, i)
  BY DEF BlockItems, BlockOf, ReadBlock, ReadOf
<1>2. \A i : (IF Readable(info_file.infos[i]) THEN BlockItems(info_file.infos, i) ELSE <<>>)'
              = FoundOf(disk', is, i)
  BY <1>1 DEF FoundOf, Readable
<1>3. [i \in 1..Len(is) |-> (IF Readable(info_file.infos[i])
                            THEN BlockItems(info_file.infos, i) ELSE <<>>)']
        = [i \in 1..Len(is) |-> FoundOf(disk', is, i)]
  <2> HIDE DEF is
  <2> QED BY <1>2
<1> QED BY <1>3 DEF FileLog, FilesOf

\* If all but the last block are readable, they are found, and the last if it is
\* readable, too.
LEMMA FoundInFiles ==
  ASSUME NEW d, NEW is, Len(is) \in Nat \ {0},
         \A i \in 1..(Len(is) - 1) :
           is[i].strg_size # 0 => Len(d[is[i].file_off]) = is[i].item.item_num
  PROVE  FilesOf(d, is) = DecodedOf(d, is, Len(is) - 1) \o FoundOf(d, is, Len(is))
<1> DEFINE n == Len(is)
           m == n - 1
           b == [i \in 1..n |-> FoundOf(d, is, i)]
           c == [i \in 1..m |-> BlockOf(d, is, i)]
<1>1. m \in Nat /\ m + 1 = n /\ n \in 1..n
  OBVIOUS
<1>2. \A i \in 1..m : b[i] = c[i]
  <2> SUFFICES ASSUME NEW i \in 1..m PROVE b[i] = c[i]
    OBVIOUS
  <2>1. i \in 1..n /\ i \in 1..(Len(is) - 1)
    BY <1>1
  <2>2. b[i] = FoundOf(d, is, i) /\ c[i] = BlockOf(d, is, i)
    BY <2>1
  <2> QED BY <2>1, <2>2 DEF FoundOf
<1>3. b[n] = FoundOf(d, is, n)
  BY <1>1
<1>4. FilesOf(d, is) = Concatenated(b, n) /\ DecodedOf(d, is, m) = Concatenated(c, m)
  BY DEF FilesOf, DecodedOf
<1> HIDE DEF b, c, m
<1>5. Concatenated(b, m) = Concatenated(c, m)
  BY <1>1, <1>2, ConcatenatedSame
<1>6. Concatenated(b, m + 1) = Concatenated(b, m) \o b[m + 1]
  BY <1>1, ConcatenatedStep
<1> QED BY <1>1, <1>3, <1>4, <1>5, <1>6 DEF m

\* Files that agree on what is found.
LEMMA SameFound ==
  ASSUME NEW d, NEW e, NEW is, Len(is) \in Nat,
         \A i \in 1..Len(is) : FoundOf(d, is, i) = FoundOf(e, is, i)
  PROVE  FilesOf(d, is) = FilesOf(e, is)
<1> DEFINE n == Len(is)
           b == [i \in 1..n |-> FoundOf(d, is, i)]
           c == [i \in 1..n |-> FoundOf(e, is, i)]
<1>1. \A i \in 1..n : b[i] = c[i]
  OBVIOUS
<1> HIDE DEF b, c
<1>2. Concatenated(b, n) = Concatenated(c, n)
  BY <1>1, ConcatenatedSame
<1> QED BY <1>2 DEF FilesOf, b, c

\* The last CAB of the file.
LEMMA TailIsLast ==
  ASSUME TypeOK, FileInv, info_file # NoFile
  PROVE  LET is == info_file.infos
             n  == Len(is)
         IN  /\ is \in Seq(Info) /\ n \in Nat \ {0} /\ n \in 1..n /\ TailInfo = is[n]
             /\ \A i \in 1..n : i = n \/ i \in 1..(n - 1)
             /\ TailInfo \in Info /\ TailInfo.item \in ItemInfo
             /\ TailInfo.file_off \in Nat /\ TailInfo.strg_size \in Nat
             /\ TailInfo.item.recd_num \in Nat /\ TailInfo.item.item_num \in Nat
             /\ TailInfo.item.bgn_recd \in Nat
<1> DEFINE is == info_file.infos
           n  == Len(is)
<1>1. is \in Seq(Info) /\ is # <<>>
  BY DEF TypeOK, FileInv
<1>2. n \in Nat \ {0} /\ TailInfo = is[n]
  BY <1>1, EmptySeq, LenProperties DEF TailInfo
<1> HIDE DEF n
<1>3. n \in 1..n /\ \A i \in 1..n : i = n \/ i \in 1..(n - 1)
  BY <1>2
<1>4. /\ TailInfo \in Info /\ TailInfo.item \in ItemInfo
      /\ TailInfo.file_off \in Nat /\ TailInfo.strg_size \in Nat
      /\ TailInfo.item.recd_num \in Nat /\ TailInfo.item.item_num \in Nat
      /\ TailInfo.item.bgn_recd \in Nat
  BY <1>1, <1>2, <1>3, InfoFields DEF n
<1> QED BY <1>1, <1>2, <1>3, <1>4 DEF n

\* Files whose tail can be read hold what is durable, split by the tail.
LEMMA TailDecodesFound ==
  ASSUME TypeOK, FileInv, info_file # NoFile, TailDecodes,
         FilesDecode(Len(info_file.infos) - 1)
  PROVE  LET is == info_file.infos
             n  == Len(is)
         IN  /\ FileLog = durable
             /\ durable = DecodedOf(disk, is, n - 1) \o BlockOf(disk, is, n)
<1> DEFINE is == info_file.infos
           n  == Len(is)
           m  == n - 1
<1>1. n \in Nat \ {0} /\ m \in Nat /\ m + 1 = n /\ TailInfo = is[n]
  BY TailIsLast
<1>2. DecodedOf(disk, is, n) = durable
  BY DecodedForm DEF TailDecodes
<1>3. DecodedOf(disk, is, m + 1) = DecodedOf(disk, is, m) \o BlockOf(disk, is, m + 1)
  <2> HIDE DEF m
  <2> QED BY <1>1, DecodedStep
<1>4. FoundOf(disk, is, n) = BlockOf(disk, is, n)
  BY <1>1 DEF FoundOf, TailDecodes, Readable
<1>5. FilesOf(disk, is) = DecodedOf(disk, is, m) \o FoundOf(disk, is, n)
  <2>1. \A i \in 1..m : is[i].strg_size # 0 => Len(disk[is[i].file_off]) = is[i].item.item_num
    BY DEF FilesDecode, Readable
  <2> QED BY <1>1, <2>1, FoundInFiles
<1>6. FileLog = FilesOf(disk, is)
  BY FileLogForm
<1> HIDE DEF is, m, n
<1> QED BY <1>1, <1>2, <1>3, <1>4, <1>5, <1>6 DEF is, m, n

-----------------------------------------------------------------------------
(* CABs begin where groups of records begin.                               *)

\* l is what the CABs of is hold, if the last has m records: the last CAB holds
\* what is behind the others, and begins a record.
Groups(d, is, l, m) ==
  LET k   == Len(DecodedOf(d, is, Len(is) - 1))
      bgn == is[Len(is)].item.bgn_recd - is[1].item.bgn_recd
  IN  /\ k \in 0..Len(l)
      /\ k < Len(l) => l[k + 1].rep = 0
      /\ RecordsIn(SubSeq(l, 1, k)) = bgn
      /\ RecordsIn(l) = bgn + m

WriterGroups ==
  Writing => /\ Groups(disk, infos, log, item_info.recd_num)
             /\ session = "flushed" => Cur.item.recd_num = item_info.recd_num
             /\ Len(durable) <= Len(log)
             /\ \A i \in 1..Len(durable) : durable[i] = log[i]

FileGroups ==
  info_file # NoFile => Groups(disk, info_file.infos, durable, TailInfo.item.recd_num)

\* Until the writer is behind the begin of the tail, the tail is as it was.
TailOnce ==
  session = "open" /\ info_file # NoFile /\ ~TailIsFull =>
    /\ Len(infos) = Len(info_file.infos) => infos = info_file.infos
    /\ file_off <= TailInfo.file_off => TailDecodes

GroupInv == WriterGroups /\ FileGroups /\ TailOnce

\* Groups looks at what is decoded and at where the first and last CAB begin.
LEMMA GroupsSame ==
  ASSUME NEW d, NEW is, NEW l, NEW m, Groups(d, is, l, m), NEW e, NEW js,
         Len(js) = Len(is), DecodedOf(e, js, Len(is) - 1) = DecodedOf(d, is, Len(is) - 1),
         js[Len(is)].item.bgn_recd = is[Len(is)].item.bgn_recd,
         js[1].item.bgn_recd = is[1].item.bgn_recd
  PROVE  Groups(e, js, l, m)
  BY DEF Groups

\* One item more, which begins a record if the last CAB has none.
LEMMA GroupsItem ==
  ASSUME NEW d, NEW is, NEW l \in Seq(ColumnItem), NEW m \in Nat, Groups(d, is, l, m),
         is[Len(is)].item.bgn_recd \in Nat, is[1].item.bgn_recd \in Nat,
         NEW it \in ColumnItem, Len(DecodedOf(d, is, Len(is) - 1)) = Len(l) => it.rep = 0
  PROVE  Groups(d, is, Append(l, it), m + (IF it.rep = 0 THEN 1 ELSE 0))
<1> DEFINE k   == Len(DecodedOf(d, is, Len(is) - 1))
           js  == Append(l, it)
           bgn == is[Len(is)].item.bgn_recd - is[1].item.bgn_recd
           one == IF it.rep = 0 THEN 1 ELSE 0
<1>1. /\ k \in 0..Len(l) /\ Len(l) \in Nat /\ bgn \in Int
      /\ k < Len(l) => l[k + 1].rep = 0
      /\ RecordsIn(SubSeq(l, 1, k)) = bgn
      /\ RecordsIn(l) = bgn + m
  BY LenProperties DEF Groups
<1>2. /\ js \in Seq(ColumnItem) /\ Len(js) = Len(l) + 1 /\ js[Len(l) + 1] = it
      /\ \A i \in 1..Len(l) : js[i] = l[i]
  BY AppendProperties
<1>3. RecordsIn(js) = bgn + (m + one)
  <2>1. CountIn(js, RecordItems) = CountIn(l, RecordItems) + (IF it \in RecordItems THEN 1 ELSE 0)
    BY CountAppend
  <2>2. it \in RecordItems <=> it.rep = 0
    BY DEF RecordItems
  <2>3. RecordsIn(js) = RecordsIn(l) + one
    BY <1>2, <2>1, <2>2, CountForms
  <2>4. one \in Nat
    OBVIOUS
  <2> HIDE DEF one, bgn
  <2> QED BY <1>1, <2>3, <2>4
<1> HIDE DEF k, js, bgn
<1>4. k \in 0..Len(js) /\ (k < Len(js) => js[k + 1].rep = 0)
  <2>1. CASE k < Len(l)
    <3>1. k + 1 \in 1..Len(l)
      BY <1>1, <2>1
    <3> QED BY <1>1, <1>2, <2>1, <3>1
  <2>2. CASE k = Len(l)
    BY <1>1, <1>2, <2>2 DEF k
  <2> QED BY <1>1, <2>1, <2>2
<1>5. RecordsIn(SubSeq(js, 1, k)) = RecordsIn(SubSeq(l, 1, k))
  <2>1. \A i \in 1..k : js[i] = l[i]
    BY <1>1, <1>2
  <2>2. {i \in 1..k : js[i].rep = 0} = {i \in 1..k : l[i].rep = 0}
    BY <2>1
  <2> QED BY <1>1, <1>2, <1>4, <2>2, RecordsUpTo
<1> HIDE DEF one
<1>6. Groups(d, is, js, m + one)
  BY <1>1, <1>3, <1>4, <1>5 DEF Groups, k, bgn
<1> QED BY <1>6 DEF js, one

\* An empty CAB more.
LEMMA GroupsNextCAB ==
  ASSUME NEW d, NEW is, NEW l \in Seq(ColumnItem), NEW m \in Nat, Groups(d, is, l, m),
         Len(is) \in Nat \ {0},
         is[Len(is)].item.bgn_recd \in Nat, is[1].item.bgn_recd \in Nat,
         NEW e, NEW js, Len(js) = Len(is) + 1, DecodedOf(e, js, Len(is)) = l,
         js[Len(is) + 1].item.bgn_recd = is[Len(is)].item.bgn_recd + m,
         js[1].item.bgn_recd = is[1].item.bgn_recd
  PROVE  Groups(e, js, l, 0)
<1> DEFINE n  == Len(is)
           a  == is[n].item.bgn_recd
           b  == is[1].item.bgn_recd
<1>1. RecordsIn(l) = (a - b) + m
  BY DEF Groups
<1>2. l = SubSeq(l, 1, Len(l)) /\ Len(l) \in Nat
  BY WholeSeq, LenProperties
<1>3. Len(js) - 1 = n
  OBVIOUS
<1>4. RecordsIn(l) = js[n + 1].item.bgn_recd - js[1].item.bgn_recd
  <2> DEFINE r == RecordsIn(l)
             x == js[n + 1].item.bgn_recd
             y == js[1].item.bgn_recd
  <2>1. r = (a - b) + m /\ x = a + m /\ y = b /\ a \in Nat /\ b \in Nat
    BY <1>1
  <2> HIDE DEF r, x, y, a, b
  <2>2. r = x - y
    BY <2>1
  <2> QED BY <2>2 DEF r, x, y
<1> DEFINE g == js[n + 1].item.bgn_recd - js[1].item.bgn_recd
<1>5. RecordsIn(l) = g + 0
  <2>1. g \in Int
    OBVIOUS
  <2> HIDE DEF g
  <2> QED BY <1>4, <2>1 DEF g
<1>6. Len(l) \in 0..Len(l) /\ ~(Len(l) < Len(l))
  BY <1>2
<1> HIDE DEF n
<1>7. Len(js) = n + 1 /\ Len(DecodedOf(e, js, Len(js) - 1)) = Len(l)
  BY <1>3 DEF n
<1> QED BY <1>2, <1>4, <1>5, <1>6, <1>7 DEF Groups

\* The CABs of the file that are not written to.
LEMMA FileGroupsKept ==
  ASSUME TypeOK, FileInv, FileGroups, UNCHANGED <<info_file, durable>>,
         info_file # NoFile =>
           \A i \in 1..(Len(info_file.infos) - 1) :
             info_file.infos[i].strg_size # 0 =>
               disk'[info_file.infos[i].file_off] = disk[info_file.infos[i].file_off]
  PROVE  FileGroups'
<1> SUFFICES ASSUME info_file # NoFile
             PROVE  Groups(disk', info_file.infos, durable, TailInfo.item.recd_num)
  BY DEF FileGroups, TailInfo
<1> DEFINE is == info_file.infos
           n  == Len(is)
<1>1. n \in Nat \ {0}
  BY TailIsLast
<1>2. \A i \in 1..(n - 1) : BlockOf(disk', is, i) = BlockOf(disk, is, i)
  BY DEF BlockOf
<1> HIDE DEF n, is
<1>3. DecodedOf(disk', is, n - 1) = DecodedOf(disk, is, n - 1)
  <2>1. n - 1 \in Nat
    BY <1>1
  <2> QED BY <1>2, <2>1, DecodedSame
<1>4. Groups(disk, is, durable, TailInfo.item.recd_num)
  BY DEF FileGroups, is
<1>5. Groups(disk', is, durable, TailInfo.item.recd_num)
  BY <1>3, <1>4, GroupsSame DEF n
<1> QED BY <1>5 DEF is

-----------------------------------------------------------------------------
(* The steps keep the groups.                                              *)

\* Nothing but the writer's own state changes.
LEMMA FileGroupsUntouched ==
  ASSUME TypeOK, FileInv, FileGroups, UNCHANGED <<disk, info_file, durable>>
  PROVE  FileGroups'
  BY FileGroupsKept

\* A new column.
LEMMA OpenWriteGroups ==
  ASSUME IInv, ContentInv, NEW rbgn \in FirstRecds, OpenWrite(rbgn)
  PROVE  GroupInv'
<1>1. /\ session' = "open" /\ info_file' = NoFile
      /\ item_info' = EmptyItemInfo(recd_num') /\ infos' = <<NewInfo(0, recd_num')>>
      /\ log' = <<>> /\ durable' = <<>>
  BY DEF OpenWrite, Open, IInv, LogInv, ContentInv, FileContent
<1>2. /\ Len(infos') = 1 /\ infos'[1] = NewInfo(0, recd_num')
      /\ infos'[1].item.bgn_recd = recd_num' /\ item_info'.recd_num = 0
  BY <1>1 DEF NewInfo, EmptyItemInfo
<1>3. recd_num' \in Nat
  BY OpenWriteIInv DEF IInv, TypeOK
<1>4. DecodedOf(disk', infos', 0) = <<>>
  BY ConcatenatedStep DEF DecodedOf
<1>5. RecordsIn(<<>>) = 0
  <2>1. {k \in DOMAIN <<>> : <<>>[k].rep = 0} = {}
    OBVIOUS
  <2> QED BY <2>1, FS_EmptySet DEF RecordsIn
<1>6. Groups(disk', infos', <<>>, 0)
  <2>1. Len(infos') - 1 = 0 /\ recd_num' - recd_num' = 0
    <3>1. Len(infos') - 1 = 0
      BY <1>2
    <3>2. \A k \in Nat : k - k = 0
      OBVIOUS
    <3> QED BY <1>3, <3>1, <3>2
  <2> DEFINE k   == Len(DecodedOf(disk', infos', Len(infos') - 1))
             bgn == infos'[Len(infos')].item.bgn_recd - infos'[1].item.bgn_recd
  <2>2. k = 0 /\ bgn = 0
    BY <1>2, <1>4, <2>1, EmptySeq
  <2>3. SubSeq(<<>>, 1, 0) = <<>> /\ Len(<<>>) = 0
    BY WholeSeq, EmptySeq
  <2>4. /\ k \in 0..Len(<<>>) /\ ~(k < Len(<<>>))
        /\ RecordsIn(SubSeq(<<>>, 1, k)) = bgn /\ RecordsIn(<<>>) = bgn + 0
    <3> HIDE DEF k, bgn
    <3>1. RecordsIn(SubSeq(<<>>, 1, k)) = 0
      BY Zenon, <1>5, <2>2, <2>3
    <3>2. k \in 0..Len(<<>>) /\ ~(k < Len(<<>>)) /\ bgn + 0 = 0
      BY <2>2, <2>3
    <3> QED BY <1>5, <2>2, <3>1, <3>2
  <2> HIDE DEF k, bgn
  <2>5. Groups(disk', infos', <<>>, 0)
    BY <2>4 DEF Groups, k, bgn
  <2> QED BY <2>5
<1> QED BY <1>1, <1>2, <1>6 DEF GroupInv, WriterGroups, FileGroups, TailOnce, Writing

\* Going on behind a full or an empty tail.
LEMMA OpenAppendNextCABGroups ==
  ASSUME IInv, OrderInv, ContentInv, GroupInv, OpenAppendNextCAB
  PROVE  GroupInv'
<1> DEFINE is  == info_file.infos
           n   == Len(is)
           new == NewInfo(file_off', recd_num')
<1>1. /\ session = "closed" /\ session' = "open" /\ info_file # NoFile /\ TailIsFull
      /\ UNCHANGED <<disk, info_file, durable, log>>
      /\ recd_num' = TailInfo.item.bgn_recd + TailInfo.item.recd_num
      /\ infos' = Append(is, new)
      /\ item_info' = EmptyItemInfo(recd_num')
      /\ log = durable
  BY DEF OpenAppendNextCAB, OpenAppend, Open, fileVars, IInv, LogInv
<1>2. /\ TypeOK /\ FileInv /\ is \in Seq(Info) /\ n \in Nat \ {0} /\ n \in 1..n /\ TailInfo = is[n]
      /\ TailInfo.item.recd_num \in Nat /\ TailInfo.item.bgn_recd \in Nat
      /\ log \in Seq(ColumnItem) /\ Len(log) \in Nat
  <2>1. TypeOK /\ FileInv /\ log \in Seq(ColumnItem) /\ Len(log) \in Nat
    BY SeqMonotonic, NullItemsOfItem, LenProperties DEF IInv, TypeOK
  <2> QED BY <1>1, <2>1, TailIsLast
<1>3. new.item.bgn_recd = recd_num' /\ item_info'.recd_num = 0
  BY <1>1 DEF NewInfo, EmptyItemInfo
<1> HIDE DEF is, n, new
<1>4. /\ Len(infos') = n + 1 /\ infos'[n + 1] = new
      /\ \A i \in 1..n : infos'[i] = is[i]
  <2>1. new \in Info
    <3>1. recd_num' \in Nat /\ file_off' \in Nat
      BY OpenAppendNextCABIInv DEF IInv, TypeOK
    <3> QED BY <3>1, NewInfoType DEF new
  <2> QED BY <1>1, <1>2, <2>1, AppendProperties DEF n
<1>5. DecodedOf(disk', infos', n) = log
  BY <1>1, OpenAppendNextCABContent DEF is, n
<1>6. Groups(disk', infos', log, 0)
  <2>1. Groups(disk, is, durable, TailInfo.item.recd_num)
    BY <1>1 DEF GroupInv, FileGroups, is
  <2>2. 1 \in 1..n
    BY <1>2
  <2>3. is[1].item.bgn_recd \in Nat /\ is[n].item.bgn_recd \in Nat
    BY <1>2, <2>2, InfoFields DEF n
  <2>4. /\ infos'[n + 1].item.bgn_recd = is[n].item.bgn_recd + TailInfo.item.recd_num
        /\ infos'[1].item.bgn_recd = is[1].item.bgn_recd
    BY <1>1, <1>2, <1>3, <1>4, <2>2
  <2> QED BY <1>1, <1>2, <1>4, <1>5, <2>1, <2>3, <2>4, GroupsNextCAB, ZenonT(30) DEF n
<1>7. WriterGroups'
  BY <1>1, <1>2, <1>3, <1>6 DEF WriterGroups
<1>8. FileGroups'
  BY <1>1, <1>2, FileGroupsUntouched DEF GroupInv
<1>9. TailOnce'
  BY <1>1 DEF TailOnce, TailIsFull, TailInfo
<1> QED BY <1>7, <1>8, <1>9 DEF GroupInv

\* Going on in a partly filled tail.
LEMMA OpenAppendTailGroups ==
  ASSUME IInv, ContentInv, GroupInv, OpenAppendTail
  PROVE  GroupInv'
<1>1. /\ session = "closed" /\ session' = "open" /\ info_file # NoFile
      /\ UNCHANGED <<disk, info_file, durable, log>>
      /\ infos' = info_file.infos /\ item_info' = TailInfo.item /\ log = durable
  BY DEF OpenAppendTail, ReopenTail, OpenAppend, Open, fileVars, IInv, LogInv
<1>2. TypeOK /\ FileInv /\ Len(log) \in Nat
  BY LenProperties DEF IInv, TypeOK
<1>3. WriterGroups'
  BY <1>1, <1>2 DEF GroupInv, FileGroups, WriterGroups
<1>4. FileGroups'
  BY <1>1, <1>2, FileGroupsUntouched DEF GroupInv
<1>5. TailOnce'
  <2>1. TailDecodes'
    BY <1>1, FilesUntouched DEF ContentInv, FileContent
  <2> QED BY <1>1, <2>1 DEF TailOnce
<1> QED BY <1>3, <1>4, <1>5 DEF GroupInv

\* What the log of the open writer consists of.
LEMMA OpenLog ==
  ASSUME IInv, OrderInv, ContentInv, session = "open"
  PROVE  LET n == Len(infos)
             D == DecodedOf(disk, infos, n - 1)
         IN  /\ infos \in Seq(Info) /\ n \in Nat \ {0} /\ n \in 1..n /\ 1 \in 1..n
             /\ infos[1].item.bgn_recd \in Nat /\ infos[n].item.bgn_recd \in Nat
             /\ item_info \in ItemInfo /\ item_info.recd_num \in Nat
             /\ D \in Seq(ColumnItem) /\ items \in Seq(ColumnItem) /\ log \in Seq(ColumnItem)
             /\ log = D \o items
             /\ Len(D) \in Nat /\ Len(items) \in Nat /\ Len(log) = Len(D) + Len(items)
<1> DEFINE n == Len(infos)
           D == DecodedOf(disk, infos, n - 1)
<1>1. /\ TypeOK /\ infos \in Seq(Info) /\ infos # <<>> /\ n \in Nat \ {0}
      /\ items \in Seq(ColumnItem) /\ log = Decoded(infos, n - 1) \o items
      /\ \A i \in 1..(n - 1) : Readable(infos[i])
      /\ log \in Seq(ColumnItem)
  BY EmptySeq, SeqMonotonic, NullItemsOfItem DEF IInv, TypeOK, WriterInv, ContentInv, OpenContent
<1> HIDE DEF n
<1>2. n \in 1..n /\ 1 \in 1..n
  BY <1>1
<1>3. /\ infos[1].item.bgn_recd \in Nat /\ infos[n].item.bgn_recd \in Nat
      /\ item_info \in ItemInfo /\ item_info.recd_num \in Nat
  BY <1>1, <1>2, InfoFields DEF n, TypeOK, ItemInfo
<1>4. D \in Seq(ColumnItem)
  <2>1. ASSUME NEW i \in 1..(n - 1) PROVE BlockOf(disk, infos, i) \in Seq(ColumnItem)
    <3>1. i \in 1..Len(infos) /\ Readable(infos[i])
      BY <1>1 DEF n
    <3>2. infos[i].strg_size # 0 => infos[i].file_off \in DOMAIN disk
      BY DEF OrderInv, StoredBlocks, n
    <3> QED BY <1>1, <3>1, <3>2, BlockType
  <2>2. n - 1 \in Nat
    BY <1>1
  <2> QED BY <2>1, <2>2, DecodedType
<1>5. log = D \o items
  BY <1>1, DecodedForm
<1>6. Len(D) \in Nat /\ Len(items) \in Nat /\ Len(log) = Len(D) + Len(items)
  <2> HIDE DEF D
  <2> QED BY <1>1, <1>4, <1>5, ConcatProperties, LenProperties
<1> QED BY <1>1, <1>2, <1>3, <1>4, <1>5, <1>6 DEF n

\* An item more keeps what is durable a prefix of the log.
LEMMA PrefixKept ==
  ASSUME NEW l \in Seq(ColumnItem), NEW p \in Seq(ColumnItem), NEW it \in ColumnItem,
         Len(p) <= Len(l), \A i \in 1..Len(p) : p[i] = l[i]
  PROVE  /\ Len(p) <= Len(Append(l, it))
         /\ \A i \in 1..Len(p) : p[i] = Append(l, it)[i]
<1>1. /\ Len(Append(l, it)) = Len(l) + 1 /\ Len(l) \in Nat /\ Len(p) \in Nat
      /\ \A i \in 1..Len(l) : Append(l, it)[i] = l[i]
  BY AppendProperties, LenProperties
<1>2. \A i \in 1..Len(p) : i \in 1..Len(l)
  BY <1>1
<1>3. Len(p) <= Len(Append(l, it))
  BY <1>1
<1> QED BY <1>1, <1>2, <1>3

\* An item more in the CAB in memory.
LEMMA WriteInCABGroups ==
  ASSUME IInv, OrderInv, ContentInv, GroupInv, NEW it \in Item, WriteInCAB(it)
  PROVE  GroupInv'
<1> DEFINE n == Len(infos)
<1>1. /\ session = "open" /\ session' = "open"
      /\ UNCHANGED <<disk, info_file, durable, infos, file_off>>
      /\ item_info' = Update(item_info, it)
      /\ log' = Append(log, it)
      /\ it.rep > 0 => Len(log) > Len(durable)
  BY DEF WriteInCAB, CanWrite, fileVars
<1>2. /\ TypeOK /\ FileInv /\ OpenInv /\ it \in ColumnItem /\ it.rep \in Nat
      /\ durable \in Seq(ColumnItem) /\ Len(durable) \in Nat
  <2>1. TypeOK /\ FileInv /\ OpenInv /\ it \in ColumnItem
    BY DEF IInv, Item
  <2>2. it.rep \in Nat
    BY <2>1, ConstantsAssumption DEF ColumnItem
  <2>3. durable \in Seq(ColumnItem)
    BY <2>1, SeqMonotonic, NullItemsOfItem DEF TypeOK
  <2> QED BY <2>1, <2>2, <2>3, LenProperties
<1>3. /\ infos[1].item.bgn_recd \in Nat /\ infos[n].item.bgn_recd \in Nat
      /\ item_info \in ItemInfo /\ item_info.recd_num \in Nat
      /\ log \in Seq(ColumnItem) /\ Len(DecodedOf(disk, infos, n - 1)) \in Nat
      /\ Len(items) \in Nat /\ Len(log) = Len(DecodedOf(disk, infos, n - 1)) + Len(items)
  BY <1>1, OpenLog
<1>4. /\ Groups(disk, infos, log, item_info.recd_num)
      /\ Len(durable) <= Len(log) /\ \A i \in 1..Len(durable) : durable[i] = log[i]
  BY <1>1 DEF GroupInv, WriterGroups, Writing
<1>5. Len(DecodedOf(disk, infos, n - 1)) = Len(log) => it.rep = 0
  <2> HIDE DEF n
  <2>1. ASSUME Len(DecodedOf(disk, infos, n - 1)) = Len(log) PROVE it.rep = 0
    <3>1. Len(items) = 0
      BY <1>3, <2>1
    <3>2. ~(Len(log) > Len(durable))
      BY <1>1, <1>2, <3>1 DEF OpenInv
    <3> QED BY <1>1, <1>2, <3>2
  <2> QED BY <2>1
<1>6. Groups(disk, infos, log', item_info'.recd_num)
  <2>1. item_info'.recd_num = item_info.recd_num + (IF it.rep = 0 THEN 1 ELSE 0)
    BY <1>1, <1>2, <1>3, UpdateCounts
  <2> QED BY <1>1, <1>2, <1>3, <1>4, <1>5, <2>1, GroupsItem
<1>7. WriterGroups'
  BY <1>1, <1>2, <1>3, <1>4, <1>6, PrefixKept DEF WriterGroups
<1>8. FileGroups'
  BY <1>1, <1>2, FileGroupsUntouched DEF GroupInv
<1>9. TailOnce'
  BY <1>1, FilesUntouched DEF GroupInv, TailOnce
<1> QED BY <1>7, <1>8, <1>9 DEF GroupInv

\* The CAB is full and the item begins the next one.
LEMMA WriteToNextCABGroups ==
  ASSUME IInv, OrderInv, ContentInv, GroupInv, NEW it \in Item, WriteToNextCAB(it)
  PROVE  GroupInv'
<1> DEFINE n   == Len(infos)
           fi  == FlushedInfo(FALSE)
           js  == [infos EXCEPT ![n] = fi]
           new == NewInfo(file_off', recd_num)
<1>1. /\ session = "open" /\ session' = "open" /\ it.rep = 0
      /\ item_info.recd_num + 1 > RecdCap
      /\ UNCHANGED <<info_file, durable>>
      /\ disk' = FlushedDisk(FALSE) /\ file_off' = file_off + fi.strg_size
      /\ infos' = Append(js, new)
      /\ item_info' = Update(EmptyItemInfo(recd_num), it)
      /\ log' = Append(log, it)
  BY DEF WriteToNextCAB, CanWrite, CheckFull
<1>2. /\ TypeOK /\ WriterInv /\ OpenInv /\ FileInv /\ OpenContent /\ AtTail
      /\ it \in ColumnItem /\ recd_num \in Nat /\ file_off \in Nat /\ file_off' \in Nat
      /\ durable \in Seq(ColumnItem) /\ Len(durable) \in Nat
  <2>1. TypeOK /\ WriterInv /\ OpenInv /\ FileInv /\ OpenContent /\ AtTail /\ it \in ColumnItem
    BY DEF IInv, Item, ContentInv
  <2>2. file_off' \in Nat
    BY WriteToNextCABIInv DEF IInv, TypeOK
  <2>3. durable \in Seq(ColumnItem)
    BY <2>1, SeqMonotonic, NullItemsOfItem DEF TypeOK
  <2> QED BY <2>1, <2>2, <2>3, LenProperties DEF TypeOK
<1>3. /\ infos \in Seq(Info) /\ n \in Nat \ {0} /\ n \in 1..n /\ 1 \in 1..n
      /\ infos[1].item.bgn_recd \in Nat /\ infos[n].item.bgn_recd \in Nat
      /\ item_info \in ItemInfo /\ item_info.recd_num \in Nat
      /\ log \in Seq(ColumnItem)
  BY <1>1, OpenLog
<1>4. /\ item_info.recd_num = RecdCap /\ infos # <<>>
      /\ recd_num = infos[n].item.bgn_recd + item_info.recd_num
      /\ item_info.bgn_recd = infos[n].item.bgn_recd
  BY <1>1, <1>2, <1>3, ConstantsAssumption DEF WriterInv, Cur
<1>5. /\ fi \in Info /\ fi.strg_size \in Nat /\ fi.item.bgn_recd = item_info.bgn_recd
      /\ MergedUsed(item_info, FALSE) # 0 => fi.strg_size > 0
  BY <1>1, <1>2, FlushedInfoOpen
<1>6. /\ js \in Seq(Info) /\ Len(js) = n /\ js[n] = fi
      /\ \A i \in 1..(n - 1) : js[i] = infos[i]
  BY <1>3, <1>4, <1>5, ReplaceLast
<1>7. /\ new \in Info /\ new.item.bgn_recd = recd_num
      /\ EmptyItemInfo(recd_num) \in ItemInfo /\ EmptyItemInfo(recd_num).recd_num = 0
  <2>1. EmptyItemInfo(recd_num).bgn_recd = recd_num /\ EmptyItemInfo(recd_num).recd_num = 0
    BY DEF EmptyItemInfo
  <2> QED BY <1>2, <2>1, NewInfoType
<1> HIDE DEF js, fi, new, n
<1>8. /\ infos' \in Seq(Info) /\ Len(infos') = n + 1 /\ infos'[n] = fi /\ infos'[n + 1] = new
      /\ \A i \in 1..(n - 1) : infos'[i] = infos[i]
  <2>1. /\ infos' \in Seq(Info) /\ Len(infos') = n + 1 /\ infos'[n + 1] = new
        /\ \A i \in 1..n : infos'[i] = js[i]
    BY <1>1, <1>6, <1>7, AppendProperties
  <2>2. \A i \in 1..(n - 1) : i \in 1..n
    BY <1>3
  <2> QED BY <1>3, <1>6, <2>1, <2>2
<1>9. DecodedOf(disk', infos', n) = log
  <2>1. /\ n <= Len(infos') /\ n < Len(infos')
        /\ infos'[n + 1].item.bgn_recd = item_info.bgn_recd + RecdCap
    BY <1>3, <1>4, <1>7, <1>8
  <2> QED BY <1>1, <1>2, <1>4, <1>8, <2>1, FlushedLog DEF n, fi
<1>10. infos'[n].item.bgn_recd = infos[n].item.bgn_recd /\ infos'[1].item.bgn_recd = infos[1].item.bgn_recd
  <2>1. CASE n = 1
    BY <1>4, <1>5, <1>8, <2>1
  <2>2. CASE n # 1
    <3>1. 1 \in 1..(n - 1)
      BY <1>3, <2>2
    <3> QED BY <1>4, <1>5, <1>8, <3>1
  <2> QED BY <2>1, <2>2
<1>11. WriterGroups'
  <2>1. /\ Groups(disk, infos, log, item_info.recd_num)
        /\ Len(durable) <= Len(log) /\ \A i \in 1..Len(durable) : durable[i] = log[i]
    BY <1>1 DEF GroupInv, WriterGroups, Writing
  <2>2. infos'[n + 1].item.bgn_recd = infos[n].item.bgn_recd + item_info.recd_num
    BY <1>4, <1>7, <1>8
  <2>3. Groups(disk', infos', log, 0)
    BY <1>3, <1>8, <1>9, <1>10, <2>1, <2>2, GroupsNextCAB, ZenonT(30) DEF n
  <2>4. /\ infos'[Len(infos')].item.bgn_recd \in Nat /\ infos'[1].item.bgn_recd \in Nat
    BY <1>2, <1>3, <1>7, <1>8, <1>10
  <2>5. Groups(disk', infos', log', 0 + (IF it.rep = 0 THEN 1 ELSE 0))
    <3> DEFINE none == 0
    <3>1. none \in Nat /\ Groups(disk', infos', log, none)
      BY <2>3
    <3> HIDE DEF none
    <3>2. Groups(disk', infos', Append(log, it), none + (IF it.rep = 0 THEN 1 ELSE 0))
      BY <1>1, <1>2, <1>3, <2>4, <3>1, GroupsItem
    <3> QED BY <1>1, <3>2 DEF none
  <2>6. item_info'.recd_num = 0 + (IF it.rep = 0 THEN 1 ELSE 0)
    BY <1>1, <1>2, <1>7, UpdateCounts
  <2>7. Groups(disk', infos', log', item_info'.recd_num)
    BY <2>5, <2>6
  <2>8. Len(durable) <= Len(log') /\ \A i \in 1..Len(durable) : durable[i] = log'[i]
    BY <1>1, <1>2, <1>3, <2>1, PrefixKept, SMTT(20)
  <2> QED BY <1>1, <2>7, <2>8 DEF WriterGroups
<1>12. FileGroups'
  <2>1. info_file # NoFile =>
          \A i \in 1..(Len(info_file.infos) - 1) :
            info_file.infos[i].strg_size # 0 =>
              disk'[info_file.infos[i].file_off] = disk[info_file.infos[i].file_off]
    BY <1>1, FlushKeepsFinished
  <2> QED BY <1>1, <1>2, <2>1, FileGroupsKept DEF GroupInv
<1>13. TailOnce'
  <2> DEFINE m == Len(info_file.infos)
  <2> SUFFICES ASSUME info_file # NoFile, ~TailIsFull
               PROVE  /\ Len(infos') # m
                      /\ file_off' <= TailInfo.file_off => TailDecodes'
    BY <1>1 DEF TailOnce, TailIsFull, TailInfo
  <2>1. /\ m \in Nat \ {0} /\ TailInfo.file_off \in Nat
        /\ m <= n /\ infos[m].file_off = TailInfo.file_off
    BY <1>1, <1>2, TailIsLast DEF AtTail, n
  <2>2. Len(infos') # m
    <3> HIDE DEF m
    <3> QED BY <1>3, <1>8, <2>1
  <2>3. TailInfo.file_off <= file_off
    <3>1. CASE m = n
      BY <1>1, <1>2, <2>1, <3>1 DEF OpenInv, Cur, n
    <3>2. CASE m < n
      <4>1. m \in 1..Len(infos) /\ Len(infos) \in 1..Len(infos)
        BY <1>3, <2>1, <3>2 DEF n
      <4>2. infos[m].file_off + infos[m].strg_size <= infos[Len(infos)].file_off
        BY <1>1, <3>2, <4>1 DEF OrderInv, Ordered, n
      <4>3. infos[m].strg_size \in Nat
        BY <1>3, <4>1, InfoFields
      <4>4. file_off = infos[Len(infos)].file_off
        BY <1>1, <1>2 DEF OpenInv, Cur
      <4> HIDE DEF m
      <4> QED BY <1>2, <2>1, <4>2, <4>3, <4>4
    <3> HIDE DEF m
    <3> QED BY <1>3, <2>1, <3>1, <3>2
  <2>4. ASSUME file_off' <= TailInfo.file_off PROVE TailDecodes'
    <3>1. fi.strg_size = 0 /\ file_off <= TailInfo.file_off
      BY <1>1, <1>2, <1>5, <2>1, <2>3, <2>4
    <3>2. MergedUsed(item_info, FALSE) = 0
      <4> DEFINE used == MergedUsed(item_info, FALSE)
      <4>1. used # 0 => fi.strg_size > 0
        BY <1>5
      <4> HIDE DEF used
      <4>2. used = 0
        BY <3>1, <4>1
      <4> QED BY <4>2 DEF used
    <3>3. disk' = disk
      BY <1>1, <3>2 DEF FlushedDisk
    <3>4. TailDecodes
      BY <1>1, <3>1 DEF GroupInv, TailOnce
    <3> QED BY <1>1, <3>3, <3>4, FilesUntouched
  <2> QED BY <2>2, <2>4
<1> QED BY <1>11, <1>12, <1>13 DEF GroupInv

\* The tail is flushed.
LEMMA CloseFlushGroups ==
  ASSUME IInv, OrderInv, ContentInv, GroupInv, CloseFlush
  PROVE  GroupInv'
<1> DEFINE n  == Len(infos)
           fi == FlushedInfo(TRUE)
           js == [infos EXCEPT ![n] = fi]
<1>1. /\ session = "open" /\ session' = "flushed"
      /\ UNCHANGED <<info_file, durable, item_info, log>>
      /\ disk' = FlushedDisk(TRUE) /\ infos' = js
  BY DEF CloseFlush
<1>2. /\ TypeOK /\ WriterInv /\ OpenInv /\ FileInv /\ OpenContent
      /\ infos \in Seq(Info) /\ infos # <<>> /\ n \in Nat \ {0} /\ n \in 1..n
      /\ item_info \in ItemInfo /\ item_info.recd_num \in Nat /\ Cur.item.recd_num \in Nat
  <2>1. TypeOK /\ WriterInv /\ OpenInv /\ FileInv /\ OpenContent /\ infos # <<>>
    BY <1>1 DEF IInv, WriterInv, ContentInv
  <2>2. infos \in Seq(Info) /\ n \in Nat \ {0} /\ n \in 1..n
        /\ item_info \in ItemInfo /\ item_info.recd_num \in Nat
    BY <1>1, OpenLog
  <2> QED BY <2>1, <2>2, InfoFields DEF Cur
<1>3. /\ fi \in Info
      /\ fi.item.bgn_recd = item_info.bgn_recd
      /\ MergedUsed(item_info, TRUE) = 0 => fi.item = Cur.item /\ item_info.item_num = 0
      /\ MergedUsed(item_info, TRUE) # 0 => fi.item = item_info
  BY <1>1, <1>2, FlushedInfoOpen
<1>4. fi.item.recd_num = item_info.recd_num
  <2>1. CASE MergedUsed(item_info, TRUE) # 0
    BY <1>3, <2>1
  <2>2. CASE MergedUsed(item_info, TRUE) = 0
    <3>1. item_info.recd_num <= item_info.item_num /\ Cur.item.recd_num <= item_info.recd_num
      BY <1>1, <1>2 DEF WriterInv
    <3>2. fi.item.recd_num = Cur.item.recd_num /\ item_info.item_num = 0
      BY <1>3, <2>2
    <3> HIDE DEF fi
    <3> QED BY <1>2, <3>1, <3>2
  <2> QED BY <2>1, <2>2
<1>5. item_info.bgn_recd = infos[n].item.bgn_recd
  BY <1>1, <1>2 DEF WriterInv, Cur
<1>6. /\ js \in Seq(Info) /\ Len(js) = n /\ js[n] = fi
      /\ \A i \in 1..(n - 1) : js[i] = infos[i]
  BY <1>2, <1>3, ReplaceLast
<1> HIDE DEF js, fi, n
<1>7. DecodedOf(disk', js, n - 1) = DecodedOf(disk, infos, n - 1)
  <2>1. n <= Len(js)
    BY <1>2, <1>6
  <2>2. DecodedOf(FlushedDisk(TRUE), js, Len(infos) - 1) = DecodedOf(disk, infos, Len(infos) - 1)
    BY <1>1, <1>2, <1>6, <2>1, FlushedLog DEF n, fi
  <2> QED BY <1>1, <2>2 DEF n
<1>8. js[n].item.bgn_recd = infos[n].item.bgn_recd /\ js[1].item.bgn_recd = infos[1].item.bgn_recd
  <2>1. CASE n = 1
    BY <1>3, <1>5, <1>6, <2>1
  <2>2. CASE n # 1
    <3>1. 1 \in 1..(n - 1)
      BY <1>2, <2>2
    <3> QED BY <1>3, <1>5, <1>6, <3>1
  <2> QED BY <2>1, <2>2
<1>9. WriterGroups'
  <2>1. /\ Groups(disk, infos, log, item_info.recd_num)
        /\ Len(durable) <= Len(log) /\ \A i \in 1..Len(durable) : durable[i] = log[i]
    BY <1>1 DEF GroupInv, WriterGroups, Writing
  <2>2. Groups(disk', infos', log, item_info.recd_num)
    <3>1. /\ Len(js) = Len(infos)
          /\ DecodedOf(disk', js, Len(infos) - 1) = DecodedOf(disk, infos, Len(infos) - 1)
          /\ js[Len(infos)].item.bgn_recd = infos[Len(infos)].item.bgn_recd
          /\ js[1].item.bgn_recd = infos[1].item.bgn_recd
      BY <1>6, <1>7, <1>8 DEF n
    <3>2. Groups(disk', js, log, item_info.recd_num)
      BY <2>1, <3>1, GroupsSame
    <3> QED BY <1>1, <3>2
  <2>3. Cur'.item.recd_num = item_info'.recd_num
    BY <1>1, <1>4, <1>6 DEF Cur
  <2> QED BY <1>1, <2>1, <2>2, <2>3 DEF WriterGroups
<1>10. FileGroups'
  <2>1. info_file # NoFile =>
          \A i \in 1..(Len(info_file.infos) - 1) :
            info_file.infos[i].strg_size # 0 =>
              disk'[info_file.infos[i].file_off] = disk[info_file.infos[i].file_off]
    BY <1>1, FlushKeepsFinished
  <2> QED BY <1>1, <1>2, <2>1, FileGroupsKept DEF GroupInv
<1> QED BY <1>1, <1>9, <1>10 DEF GroupInv, TailOnce

\* The .info file is written.
LEMMA CloseInfoGroups ==
  ASSUME IInv, GroupInv, CloseInfo
  PROVE  GroupInv'
<1>1. /\ session = "flushed" /\ session' = "closed"
      /\ info_file'.infos = infos /\ TailInfo' = Cur
      /\ durable' = log /\ disk' = disk
  BY DEF CloseInfo, TailInfo, Cur
<1>2. Groups(disk, infos, log, item_info.recd_num) /\ Cur.item.recd_num = item_info.recd_num
  BY <1>1 DEF GroupInv, WriterGroups, Writing
<1> QED BY <1>1, <1>2 DEF GroupInv, WriterGroups, FileGroups, TailOnce, Writing

\* The writer is gone, or there was none.
LEMMA NoSessionGroups ==
  ASSUME IInv, GroupInv, Crash \/ OpenAppendTailFails \/ Restart
  PROVE  GroupInv'
<1>1. /\ session' \in {"closed", "damaged", "died"}
      /\ UNCHANGED <<disk, info_file, durable>>
  BY DEF Crash, OpenAppendTailFails, Restart, fileVars
<1>2. FileGroups'
  BY <1>1, FileGroupsUntouched DEF IInv, GroupInv
<1> QED BY <1>1, <1>2 DEF GroupInv, WriterGroups, TailOnce, Writing

\* The groups are an invariant.
LEMMA GroupStep ==
  ASSUME IInv, OrderInv, ContentInv, GroupInv, [Next]_vars
  PROVE  GroupInv'
<1>1. CASE \E rbgn \in FirstRecds : OpenWrite(rbgn)
  BY <1>1, OpenWriteGroups
<1>2. CASE OpenAppendNextCAB
  BY <1>2, OpenAppendNextCABGroups
<1>3. CASE OpenAppendTail
  BY <1>3, OpenAppendTailGroups
<1>4. CASE Crash \/ OpenAppendTailFails \/ Restart
  BY <1>4, NoSessionGroups
<1>5. CASE \E it \in Item : WriteInCAB(it)
  BY <1>5, WriteInCABGroups
<1>6. CASE \E it \in Item : WriteToNextCAB(it)
  BY <1>6, WriteToNextCABGroups
<1>7. CASE CloseFlush
  BY <1>7, CloseFlushGroups
<1>8. CASE CloseInfo
  BY <1>8, CloseInfoGroups
<1>9. CASE UNCHANGED vars
  <2>1. /\ UNCHANGED <<disk, info_file, durable, infos, log, item_info, session, file_off>>
        /\ Cur' = Cur
    BY <1>9 DEF vars, fileVars, cabVars, Cur
  <2>2. FileGroups'
    BY <2>1, FileGroupsUntouched DEF IInv, GroupInv
  <2>3. TailOnce'
    BY <2>1, FilesUntouched DEF GroupInv, TailOnce
  <2> QED BY <2>1, <2>2, <2>3 DEF GroupInv, WriterGroups, Writing
<1> QED BY <1>1, <1>2, <1>3, <1>4, <1>5, <1>6, <1>7, <1>8, <1>9 DEF Next

-----------------------------------------------------------------------------
(* The refinement.                                                         *)

\* While nobody writes, the files are the log; the open writer has the log.
Mapped ==
  /\ session \in {"closed", "died"} => FileLog = durable /\ WriterLog = durable
  /\ Writing => WriterLog = log

LEMMA LogsMapped == IInv /\ ContentInv => Mapped
<1> SUFFICES ASSUME IInv, ContentInv PROVE Mapped
  OBVIOUS
<1>1. ASSUME session \in {"closed", "died"} PROVE FileLog = durable /\ WriterLog = durable
  <2>1. FileLog = durable
    <3>1. CASE info_file = NoFile
      BY <3>1 DEF FileLog, ContentInv, FileContent
    <3>2. CASE info_file # NoFile
      BY <1>1, <3>2, TailDecodesFound DEF IInv, ContentInv, FileContent
    <3> QED BY <3>1, <3>2
  <2> QED BY <1>1, <2>1 DEF WriterLog
<1>2. ASSUME Writing PROVE WriterLog = log
  BY <1>2 DEF Writing, WriterLog, ContentInv, OpenContent, FlushedContent
<1> QED BY <1>1, <1>2 DEF Mapped

\* The durable log without the tail is its complete groups.
LEMMA TailIsPartOfGroup ==
  ASSUME IInv, FileGroups, info_file # NoFile, ~TailIsFull,
         NEW D \in Seq(ColumnItem), NEW B \in Seq(ColumnItem), durable = D \o B,
         D = DecodedOf(disk, info_file.infos, Len(info_file.infos) - 1)
  PROVE  ColumnLog!CompleteGroups(durable) = D
<1> DEFINE is == info_file.infos
           n  == Len(is)
           a  == is[n].item.bgn_recd
           b  == is[1].item.bgn_recd
           r  == TailInfo.item.recd_num
           k  == Len(D)
<1>1. /\ TypeOK /\ FileInv /\ is \in Seq(Info) /\ n \in Nat \ {0} /\ n \in 1..n
      /\ TailInfo = is[n] /\ r \in Nat /\ a \in Nat
  BY TailIsLast DEF IInv
<1>2. 1 \in 1..n
  BY <1>1
<1>3. b \in Nat /\ a % RecdCap = 0 /\ b % RecdCap = 0 /\ r <= RecdCap
  BY <1>1, <1>2, InfoFields DEF FileInv, ChainOK
<1>4. r < RecdCap
  BY <1>1, <1>3, FullOrEmpty, ConstantsAssumption, SMTT(20) DEF TailIsFull
<1>5. durable \in Seq(ColumnItem)
  BY ConcatProperties
<1>6. /\ k \in 0..Len(durable)
      /\ k < Len(durable) => durable[k + 1].rep = 0
      /\ RecordsIn(SubSeq(durable, 1, k)) = a - b
      /\ RecordsIn(durable) = (a - b) + r
  BY DEF FileGroups, Groups
<1>7. RecordsIn(SubSeq(durable, 1, k)) \in Nat
  BY <1>5, <1>6, RecordsUpTo
<1> HIDE DEF a, b, r, k, is, n
<1>8. b <= a
  BY <1>1, <1>3, <1>6, <1>7
<1>9. (((a - b) + r) \div RecdCap) * RecdCap = a - b
  <2>1. RecdCap \in Nat \ {0}
    BY ConstantsAssumption
  <2> QED BY <1>1, <1>3, <1>4, <1>8, <2>1, WholeGroups, ZenonT(30)
<1>10. ColumnLog!CompleteGroups(durable) = SubSeq(durable, 1, k)
  BY <1>5, <1>6, <1>9, GroupsEnd
<1>11. D = SubSeq(durable, 1, k)
  BY PrefixOfConcat DEF k
<1> QED BY <1>10, <1>11

\* A flush leaves what is found, or takes the part of a group at its end.
LEMMA FlushFound ==
  ASSUME IInv, OrderInv, ContentInv, GroupInv, session = "open", NEW tail \in BOOLEAN,
         disk' = FlushedDisk(tail), UNCHANGED <<info_file, durable>>
  PROVE  FileLog' \in {FileLog, ColumnLog!CompleteGroups(FileLog)}
<1>1. CASE info_file = NoFile
  BY <1>1 DEF FileLog
<1>2. CASE info_file # NoFile
  <2> DEFINE is == info_file.infos
             n  == Len(is)
             m  == n - 1
             T  == TailInfo
             D  == DecodedOf(disk, is, m)
             B  == BlockOf(disk, is, n)
  <2>1. /\ TypeOK /\ FileInv /\ OpenInv /\ FileContent
        /\ is \in Seq(Info) /\ n \in Nat \ {0} /\ n \in 1..n /\ T = is[n]
        /\ \A i \in 1..n : i = n \/ i \in 1..(n - 1)
        /\ T.item.recd_num \in Nat /\ T.item.item_num \in Nat /\ T.item.bgn_recd \in Nat
        /\ FilesDecode(n - 1)
        /\ \A i \in 1..m : Readable(is[i])
    BY <1>2, TailIsLast DEF IInv, ContentInv, FileContent, FilesDecode
  <2>2. FileLog = FilesOf(disk, is) /\ FileLog' = FilesOf(disk', is)
    BY <1>2, FileLogForm, FileLogNext
  <2>3. \A i \in 1..m :
          /\ BlockOf(disk', is, i) = BlockOf(disk, is, i)
          /\ is[i].strg_size # 0 => Len(disk'[is[i].file_off]) = is[i].item.item_num
          /\ is[i].strg_size # 0 => Len(disk[is[i].file_off]) = is[i].item.item_num
    <3>1. \A i \in 1..m : is[i].strg_size # 0 => disk'[is[i].file_off] = disk[is[i].file_off]
      BY <1>2, FlushKeepsFinished
    <3> HIDE DEF is, m
    <3> QED BY <2>1, <3>1 DEF BlockOf, Readable
  <2>4. /\ FileLog = D \o FoundOf(disk, is, n)
        /\ FileLog' = D \o FoundOf(disk', is, n)
    <3>1. DecodedOf(disk', is, m) = D
      <4>1. m \in Nat
        BY <2>1
      <4> HIDE DEF is, n, m
      <4> QED BY <2>3, <4>1, DecodedSame
    <3> HIDE DEF is, D
    <3> QED BY <2>1, <2>2, <2>3, <3>1, FoundInFiles DEF D
  <2>5. CASE T.strg_size = 0 \/ disk'[T.file_off] = disk[T.file_off]
    <3>1. FoundOf(disk', is, n) = FoundOf(disk, is, n)
      BY <2>1, <2>5 DEF FoundOf, BlockOf
    <3> QED BY <2>4, <3>1
  <2>6. CASE T.strg_size # 0 /\ disk'[T.file_off] # disk[T.file_off]
    <3>1. /\ ~TailIsFull /\ disk'[T.file_off] = items
          /\ GetType(T.item) = "trivial" \/ (Len(infos) = n /\ Grown(T.item, item_info))
      BY <1>2, <2>6, FlushTail
    <3>2. TailDecodes
      <4>1. T.file_off = file_off
        BY <1>2, <2>1, <2>6 DEF FlushedDisk, FileInv, TailStored
      <4>2. file_off <= T.file_off
        BY <2>1, <4>1 DEF TypeOK
      <4> QED BY <1>2, <3>1, <4>2 DEF GroupInv, TailOnce
    <3>3. FileLog = durable /\ durable = D \o B
      BY <1>2, <2>1, <3>2, TailDecodesFound
    <3>4. D \in Seq(ColumnItem) /\ B \in Seq(ColumnItem)
      <4>1. ASSUME NEW i \in 1..n PROVE BlockOf(disk, is, i) \in Seq(ColumnItem)
        <5>1. Readable(is[i])
          BY <2>1, <3>2 DEF TailDecodes
        <5>2. is[i].strg_size # 0 => is[i].file_off \in DOMAIN disk
          BY <1>2, <2>1 DEF FileInv, TailStored, OrderInv, StoredBlocks
        <5> QED BY <2>1, <5>1, <5>2, BlockType
      <4>2. m \in Nat /\ \A i \in 1..m : i \in 1..n
        BY <2>1
      <4> HIDE DEF is, n, m
      <4> QED BY <2>1, <4>1, <4>2, DecodedType
    <3>5. CASE Len(disk'[T.file_off]) # T.item.item_num
      <4>1. FoundOf(disk', is, n) = <<>>
        BY <2>1, <2>6, <3>5 DEF FoundOf
      <4>2. FileLog' = D
        <5> HIDE DEF D
        <5> QED BY <2>4, <3>4, <4>1, ConcatEmptySeq
      <4>3. ColumnLog!CompleteGroups(durable) = D
        BY <1>2, <3>1, <3>3, <3>4, TailIsPartOfGroup DEF GroupInv
      <4> QED BY <3>3, <4>2, <4>3
    <3>6. CASE GetType(T.item) = "trivial" /\ Len(disk'[T.file_off]) = T.item.item_num
      <4>1. FoundOf(disk', is, n) = ReadOf(disk'[T.file_off], T.item)
        BY <2>1, <2>6, <3>6 DEF FoundOf, BlockOf
      <4>2. B = ReadOf(disk[T.file_off], T.item)
        BY <2>1, <2>6 DEF BlockOf
      <4>3. FoundOf(disk', is, n) = B
        BY <3>6, <4>1, <4>2, ReadTrivial
      <4> QED BY <2>4, <3>3, <4>3
    <3>7. CASE GetType(T.item) # "trivial" /\ Len(disk'[T.file_off]) = T.item.item_num
      <4>1. items \in Seq(Item) /\ Counts(item_info, items) /\ T.item = item_info
        <5>1. items \in Seq(Item) /\ Counts(item_info, items)
          BY DEF ContentInv, OpenContent
        <5> HIDE DEF T
        <5> QED BY <3>1, <3>7, <5>1 DEF Grown, Counts
      <4>2. FoundOf(disk', is, n) = items
        <5>1. FoundOf(disk', is, n) = ReadOf(items, item_info)
          BY <2>1, <2>6, <3>1, <3>7, <4>1 DEF FoundOf, BlockOf
        <5> QED BY <4>1, <5>1, ReadCounted
      <4>3. infos = is
        BY <1>2, <3>1, <3>7 DEF GroupInv, TailOnce
      <4>4. log = D \o items /\ log \in Seq(ColumnItem) /\ items \in Seq(ColumnItem)
        BY <4>3, OpenLog
      <4>5. Len(B) = Len(items)
        <5>1. Len(disk[T.file_off]) = T.item.item_num
          BY <2>6, <3>2 DEF TailDecodes, Readable
        <5>2. disk[T.file_off] \in Seq(ColumnItem)
          BY <1>2, <2>1, <2>6 DEF TypeOK, FileInv, TailStored
        <5>3. B = ReadOf(disk[T.file_off], T.item)
          BY <2>1, <2>6 DEF BlockOf
        <5>4. Len(B) = T.item.item_num
          BY <2>1, <5>1, <5>2, <5>3, ReadType
        <5> QED BY <3>1, <3>7, <5>4
      <4>6. durable \in Seq(ColumnItem) /\ Len(durable) = Len(log)
        <5> HIDE DEF D, B
        <5>1. D \o B \in Seq(ColumnItem) /\ Len(D \o B) = Len(D) + Len(B)
          BY <3>4, ConcatProperties
        <5>2. Len(D \o items) = Len(D) + Len(items)
          BY <3>4, <4>4, ConcatProperties
        <5> QED BY <3>3, <4>4, <4>5, <5>1, <5>2
      <4>7. \A i \in 1..Len(durable) : durable[i] = log[i]
        BY DEF GroupInv, WriterGroups, Writing
      <4>8. durable = log
        BY <4>4, <4>6, <4>7, SeqEqual
      <4> QED BY <2>4, <3>3, <4>2, <4>4, <4>8
    <3> QED BY <3>5, <3>6, <3>7
  <2> QED BY <2>5, <2>6
<1> QED BY <1>1, <1>2

\* Steps that leave the files leave what is found in them.
LEMMA SameFiles ==
  ASSUME UNCHANGED <<disk, info_file>>
  PROVE  FileLog' = FileLog
  BY FileLogForm, FileLogNext

\* Each step is one of the log, or changes nothing of it.
LEMMA LogStep ==
  ASSUME IInv, OrderInv, ContentInv, GroupInv, [Next]_vars, Mapped, Mapped'
  PROVE  [ColumnLog!Next]_(ColumnLog!logVars)
<1>1. ASSUME session = "closed", session' = "open", log' = log, FileLog' = FileLog
      PROVE  ColumnLog!OpenSession
  <2>1. WriterLog = durable /\ WriterLog' = log'
    BY <1>1 DEF Mapped, Writing
  <2>2. log = durable
    BY <1>1 DEF IInv, LogInv
  <2> QED BY <1>1, <2>1, <2>2 DEF ColumnLog!OpenSession
<1>2. CASE \E rbgn \in FirstRecds : OpenWrite(rbgn)
  <2>1. PICK rbgn \in FirstRecds : OpenWrite(rbgn)
    BY <1>2
  <2>2. session = "closed" /\ session' = "open" /\ log' = log /\ info_file = NoFile /\ info_file' = NoFile
    BY <2>1 DEF OpenWrite, Open
  <2>3. FileLog' = FileLog
    BY <2>2, FileLogForm, FileLogNext
  <2> QED BY <1>1, <2>2, <2>3 DEF ColumnLog!Next
<1>3. CASE OpenAppendNextCAB \/ OpenAppendTail
  <2>1. /\ session = "closed" /\ session' = "open" /\ log' = log
        /\ UNCHANGED <<disk, info_file>>
    BY <1>3 DEF OpenAppendNextCAB, OpenAppendTail, ReopenTail, OpenAppend, Open, fileVars
  <2> QED BY <1>1, <2>1, SameFiles DEF ColumnLog!Next
<1>4. CASE OpenAppendTailFails \/ Restart
  <2>1. /\ session \in {"closed", "died"} /\ session' \in {"closed", "died"}
        /\ UNCHANGED <<disk, info_file>>
    BY <1>4 DEF OpenAppendTailFails, Restart, Open, fileVars
  <2>2. FileLog' = FileLog
    BY <2>1, SameFiles
  <2>3. WriterLog' = WriterLog
    BY <2>1, <2>2 DEF Mapped
  <2> QED BY <2>1, <2>2, <2>3 DEF ColumnLog!logVars
<1>5. ASSUME NEW it \in Item, session = "open", session' = "open", log' = Append(log, it),
             FileLog' \in {FileLog, ColumnLog!CompleteGroups(FileLog)}
      PROVE  ColumnLog!Next
  <2>1. WriterLog = log /\ WriterLog' = log'
    BY <1>5 DEF Mapped, Writing
  <2>2. ColumnLog!AppendItem(it)
    BY <1>5, <2>1 DEF ColumnLog!AppendItem
  <2> QED BY <2>2 DEF ColumnLog!Next
<1>6. CASE \E it \in Item : WriteInCAB(it)
  <2>1. PICK it \in Item : WriteInCAB(it)
    BY <1>6
  <2>2. /\ session = "open" /\ session' = "open" /\ log' = Append(log, it)
        /\ UNCHANGED <<disk, info_file>>
    BY <2>1 DEF WriteInCAB, CanWrite, fileVars
  <2> QED BY <1>5, <2>2, SameFiles
<1>7. CASE \E it \in Item : WriteToNextCAB(it)
  <2>1. PICK it \in Item : WriteToNextCAB(it)
    BY <1>7
  <2>2. /\ session = "open" /\ session' = "open" /\ log' = Append(log, it)
        /\ UNCHANGED <<info_file, durable>> /\ disk' = FlushedDisk(FALSE)
    BY <2>1 DEF WriteToNextCAB, CanWrite
  <2>3. FileLog' \in {FileLog, ColumnLog!CompleteGroups(FileLog)}
    BY <2>2, FlushFound
  <2> QED BY <1>5, <2>2, <2>3
<1>8. CASE CloseFlush
  <2>1. /\ session = "open" /\ session' = "flushed" /\ log' = log
        /\ UNCHANGED <<info_file, durable>> /\ disk' = FlushedDisk(TRUE)
    BY <1>8 DEF CloseFlush
  <2>2. FileLog' \in {FileLog, ColumnLog!CompleteGroups(FileLog)}
    BY <2>1, FlushFound
  <2>3. WriterLog' = WriterLog
    BY <2>1 DEF Mapped, Writing
  <2>4. CASE FileLog' = FileLog
    BY <2>1, <2>3, <2>4 DEF ColumnLog!logVars
  <2>5. CASE FileLog' = ColumnLog!CompleteGroups(FileLog)
    <3>1. ColumnLog!Overwrite
      BY <2>1, <2>3, <2>5 DEF ColumnLog!Overwrite
    <3> QED BY <3>1 DEF ColumnLog!Next
  <2> QED BY <2>2, <2>4, <2>5
<1>9. CASE CloseInfo
  <2>1. session = "flushed" /\ session' = "closed" /\ durable' = log
    BY <1>9 DEF CloseInfo
  <2>2. WriterLog = log /\ FileLog' = durable' /\ WriterLog' = durable'
    BY <2>1 DEF Mapped, Writing
  <2>3. ColumnLog!Commit
    BY <2>1, <2>2 DEF ColumnLog!Commit
  <2> QED BY <2>3 DEF ColumnLog!Next
<1>10. CASE Crash
  <2>1. /\ session \in {"open", "flushed"} /\ session' \in {"closed", "damaged"}
        /\ UNCHANGED <<disk, info_file>>
    BY <1>10 DEF Crash, fileVars
  <2>2. FileLog' = FileLog
    BY <2>1, SameFiles
  <2>3. WriterLog' = FileLog'
    BY <2>1 DEF WriterLog
  <2>4. ColumnLog!Abandon
    BY <2>1, <2>2, <2>3 DEF ColumnLog!Abandon
  <2> QED BY <2>4 DEF ColumnLog!Next
<1>11. CASE UNCHANGED vars
  <2>1. UNCHANGED <<disk, info_file, session, log, durable>>
    BY <1>11 DEF vars, fileVars, cabVars
  <2>2. FileLog' = FileLog
    BY <2>1, SameFiles
  <2>3. WriterLog' = WriterLog
    <3>1. CASE session \in {"open", "flushed"}
      BY <2>1, <3>1 DEF Mapped, Writing
    <3>2. CASE session \notin {"open", "flushed"}
      BY <2>1, <2>2, <3>2 DEF WriterLog
    <3> QED BY <3>1, <3>2
  <2> QED BY <2>1, <2>2, <2>3 DEF ColumnLog!logVars
<1> QED BY <1>2, <1>3, <1>4, <1>6, <1>7, <1>8, <1>9, <1>10, <1>11 DEF Next

\* The empty directory is an empty log.
LEMMA InitLog == Init => ColumnLog!Init
  BY DEF Init, ColumnLog!Init, FileLog, WriterLog

LEMMA InitGroups == Init => GroupInv
  BY DEF Init, GroupInv, WriterGroups, FileGroups, TailOnce, Writing

-----------------------------------------------------------------------------
(* The theorem.                                                            *)

\* Whatever sessions write, however often they are lost, and wherever a CAB
\* ends: what a reader of the two files can find is a log that is only appended
\* to and that loses at most its last, incomplete group of RecdCap records while
\* it is being rewritten (CABWriter, CABAppender and CABReader together).
THEOREM Refinement == Spec => ImplementsColumnLog
<1>1. Init => IInv /\ OrderInv /\ ContentInv /\ GroupInv /\ ColumnLog!Init
  <2>1. Init => OrderInv
    BY DEF Init, OrderInv
  <2> QED BY <2>1, InitIInv, InitContent, InitGroups, InitLog
<1>2. IInv /\ OrderInv /\ ContentInv /\ GroupInv /\ [Next]_vars => GroupInv'
  BY GroupStep
<1>3. Spec => []GroupInv
  BY <1>1, <1>2, Content, PTL DEF Spec
<1>4. IInv /\ OrderInv /\ ContentInv /\ GroupInv /\ [Next]_vars /\ Mapped /\ Mapped'
        => [ColumnLog!Next]_(ColumnLog!logVars)
  BY LogStep
<1> QED BY <1>1, <1>3, <1>4, Content, LogsMapped, PTL DEF Spec, ImplementsColumnLog, ColumnLog!Spec

=============================================================================
