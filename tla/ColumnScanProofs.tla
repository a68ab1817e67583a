-------------------------- MODULE ColumnScanProofs --------------------------
(***************************************************************************)
(* What a reader of a column finds (modules CABContent and ColumnScan),    *)
(* for all values of the constants: every block is read from its bytes as  *)
(* the items that were written to it, every record that is read is the     *)
(* record of the log with its number, and a reader is told the end of the  *)
(* column only behind the last record.                                     *)
(*                                                                         *)
(* Three invariants are added to those of ColumnFileProofs and             *)
(* ColumnContentProofs.  WInv follows an item from its unit in memory to   *)
(* the bytes of its block: the packed levels, the values and their offsets *)
(* code the items.  CountInv says of the CABInfos what a search needs:     *)
(* each CAB begins at the record where the one before it ends, and a CAB   *)
(* that was not stored consists of trivial records only.  ReaderInv says   *)
(* where the reader is: in which CAB, at which item and at which record,   *)
(* and that these three agree with each other and with the log.            *)
(*                                                                         *)
(* The scan is shown to implement ColumnFile, so that what is proved of    *)
(* the files holds of the scan.                                            *)
(***************************************************************************)
EXTENDS ColumnScan, ColumnContentProofs

-----------------------------------------------------------------------------
(* WInv: the bytes and the units code the items.                           *)

\* The items that are written, with the levels that the column's path has.
Written == {it \in Item : it.rep \in RepLevels \cup {0}}

\* A CAB begins with the first item of a record.
BeginsRecord(is) == is # <<>> => is[1].rep = 0

\* The levels of items, as the writer codes them.
Reps(is) == [i \in 1..Len(is) |-> Encode(is[i].rep)]
Defs(is) == [i \in 1..Len(is) |-> is[i].def]

\* A cell of a block: a byte of packed levels, an offset, a value of fixed length, or one of the bytes
\* of a value of variable length.
Cell == [1..ByteBits -> {0, 1}] \cup {<<x>> : x \in Int \cup Values \cup {Null}}
          \cup (Values \X Nat)

\* The bytes of value v stand at offset c of the values.
PlacedAt(c, vals, v) ==
  /\ c + ValLen[v] <= Len(vals)
  /\ \A k \in 1..ValLen[v] : vals[c + k] = <<v, k>>

\* Offsets and values are those of the items: one slot for each item, or for each item an offset that
\* is invalid for a null and leads to the bytes of the value otherwise.
Placed(k, offs, vals, is) ==
  IF k = "fixed"
  THEN offs = <<>> /\ vals = [i \in 1..Len(is) |-> <<is[i].val>>]
  ELSE /\ Len(offs) = Len(is)
       /\ \A i \in 1..Len(is) :
            IF is[i].val = Null THEN offs[i] = <<InvalidOff>>
            ELSE \E c \in 0..Len(vals) : offs[i] = <<c>> /\ PlacedAt(c, vals, is[i].val)

\* The bytes of both kinds of levels.
Levels(is) == LevelBytes(Reps(is), RepBits) \o LevelBytes(Defs(is), DefBits)

\* A block codes items: their levels, and unless all of them are null their offsets and values.
Coded(k, blk, is) ==
  \/ /\ blk = Levels(is)
     /\ \A i \in 1..Len(is) : is[i].val = Null
  \/ \E offs, vals \in Seq(Cell) :
       blk = Levels(is) \o (offs \o vals) /\ Placed(k, offs, vals, is)

\* Every block on disk codes its items.
DiskInv ==
  /\ DOMAIN bytes = DOMAIN disk
  /\ \A o \in DOMAIN disk :
       disk[o] \in Seq(Written) /\ BeginsRecord(disk[o]) /\ Coded(kind, bytes[o], disk[o])

\* The units of a CAB in memory, and their segments.
Unit == [cap : Nat \ {0}, reps : Seq(Nat), defs : Seq(Nat), offs : Seq(Cell), vals : Seq(Cell),
         cur_off : Int]

RepSegments(us) == [i \in DOMAIN us |-> LevelBytes(us[i].reps, RepBits)]
DefSegments(us) == [i \in DOMAIN us |-> LevelBytes(us[i].defs, DefBits)]
OffSegments(us) == [i \in DOMAIN us |-> us[i].offs]
ValSegments(us) == [i \in DOMAIN us |-> us[i].vals]

Offs(us) == Concatenated(OffSegments(us), Len(us))
Vals(us) == Concatenated(ValSegments(us), Len(us))

\* The levels of the items are in the units: those of head in the full ones, which end on a byte, and
\* those of rest in the last one.
LevelsIn(us, is, head, rest) ==
  /\ is = head \o rest
  /\ Len(head) % ByteBits = 0
  /\ Concatenated(RepSegments(us), Len(us) - 1) = LevelBytes(Reps(head), RepBits)
  /\ Concatenated(DefSegments(us), Len(us) - 1) = LevelBytes(Defs(head), DefBits)
  /\ us[Len(us)].reps = Reps(rest)
  /\ us[Len(us)].defs = Defs(rest)

\* The units hold the items; the next offset is behind the values of all units, of which those before
\* the last unit end at bgn.
Holds(k, us, bgn, is) ==
  /\ us \in Seq(Unit) /\ us # <<>>
  /\ us[Len(us)].cap % ByteBits = 0
  /\ \E head, rest \in Seq(Written) : LevelsIn(us, is, head, rest)
  /\ Placed(k, Offs(us), Vals(us), is)
  /\ bgn + Len(us[Len(us)].vals) = Len(Vals(us))
  /\ k = "var" => us[Len(us)].cur_off = Len(Vals(us))

\* The units of an open session hold its items.
UnitInv ==
  session = "open" =>
    /\ items \in Seq(Written) /\ BeginsRecord(items)
    /\ bva_bgn_off \in Nat /\ Holds(kind, units, bva_bgn_off, items)

WInv == kind \in Kinds /\ DiskInv /\ UnitInv

-----------------------------------------------------------------------------
(* CountInv: the CABInfos number the records.                              *)

\* The counters of a CABInfo are those of its block.
SoundIn(d, info) ==
  /\ ReadOf(d[info.file_off], info.item) \in Seq(Item)
  /\ Counts(info.item, ReadOf(d[info.file_off], info.item))

\* The number of the first record behind a CAB.
NextRecd(info) == info.item.bgn_recd + info.item.recd_num

\* Every CAB begins where the one before it ends, or behind that if nothing of it was stored: then it is
\* trivial and its missing records are trivial, too.
Rising(d, is) ==
  \A i \in 1..Len(is) :
    /\ is[i].strg_size = 0 =>
         /\ GetType(is[i].item) = "trivial"
         /\ is[i].item.recd_num = is[i].item.item_num
         /\ i < Len(is) => NextRecd(is[i]) <= is[i + 1].item.bgn_recd
    /\ is[i].strg_size # 0 /\ i < Len(is) =>
         SoundIn(d, is[i]) /\ is[i + 1].item.bgn_recd = NextRecd(is[i])

\* Counters that were taken earlier of the same CAB: values were only added since.
Earlier(old, new) ==
  /\ old.triv_num <= old.item_num /\ old.null_num <= old.item_num
  /\ old.item_num - old.triv_num <= new.item_num - new.triv_num
  /\ old.item_num - old.null_num <= new.item_num - new.null_num
  /\ old.triv_num = old.item_num => old.recd_num = old.item_num

\* This holds of the CABInfos of a writer and of those in the .info file.
WriterCounts ==
  Writing => Rising(disk, infos) /\ infos[1].item.bgn_recd <= valid_recd

FileCounts ==
  info_file # NoFile =>
    /\ Rising(disk, info_file.infos)
    /\ info_file.infos[1].item.bgn_recd <= info_file.valid_recd

\* The CABInfo of the CAB in memory has earlier counters of it.
CABCounts == session = "open" => Earlier(Cur.item, item_info)

CountInv == WriterCounts /\ FileCounts /\ CABCounts

\* There are CABInfos in memory only while there is a writer.
NoCABInfos == ~Writing => infos = <<>>

-----------------------------------------------------------------------------
(* ReaderInv: where the reader is.                                         *)

\* The records that begin in the first n items of s.
Begun(s, n) == Cardinality({k \in 1..n : s[k].rep = 0})

\* The loaded CAB is the c-th of the file, has records and was loaded completely.
InLog(c) ==
  /\ cur = rinfos[c] /\ cur.item.recd_num > 0 /\ loaded = ReadContent(cur)
  /\ phase \in {"idle", "reading"} => cab_idx = c

\* The record ridx begins with item s + 1, and what was got are its items so far.
ReadRecord(s) ==
  /\ s < Len(loaded) /\ s <= item_idx
  /\ loaded[s + 1].rep = 0
  /\ cur.item.bgn_recd + Begun(loaded, s) = ridx
  /\ \A j \in (s + 2)..item_idx : loaded[j].rep # 0
  /\ got = SubSeq(loaded, s + 1, item_idx)

\* One record has begun that is not read completely.
Inside == IF item_idx < Len(loaded) /\ loaded[item_idx + 1].rep > 0 THEN 1 ELSE 0

\* The reader is in a CAB: its item and its record agree, and it has read what it was asked for.
Positioned ==
  /\ \E c \in 1..Len(rinfos) : InLog(c)
  /\ cur.item.bgn_recd <= ridx
  /\ item_idx \in 0..Len(loaded)
  /\ recd_idx = cur.item.bgn_recd + Begun(loaded, item_idx) - Inside
  /\ phase = "reading" => \E s \in 0..item_idx : ReadRecord(s)
  /\ phase # "reading" => AtRecordEnd

\* The number of the first record behind the file.
LastEnd == NextRecd(rinfos[Len(rinfos)])

\* The reader in each of its phases.
ReaderInv ==
  /\ phase \in {"none", "idle", "seeking", "reading", "ended"}
  /\ phase = "none" => rinfos = <<>> /\ cur = NoInfo /\ cab_idx = 0 /\ ridx = 0 /\ got = <<>>
  /\ phase # "none" =>
       /\ session = "closed" /\ info_file # NoFile /\ rinfos = info_file.infos
       /\ cab_idx \in 0..Len(rinfos)
       /\ ridx \in Nat /\ FirstRecd <= ridx
  /\ phase \in {"seeking", "ended"} /\ cab_idx = Len(rinfos) => LastEnd <= ridx
  /\ phase = "ended" => cab_idx = Len(rinfos)
  /\ phase = "idle" /\ cur = NoInfo => cab_idx = 0
  /\ phase = "reading" => cur # NoInfo
  /\ phase # "reading" => got = <<>>
  /\ cur = NoInfo => loaded = <<>> /\ item_idx = 0 /\ recd_idx = 0
  /\ cur # NoInfo => Positioned


-----------------------------------------------------------------------------
(* Packed levels: bytes, bits and positions (BitVector, Utility).          *)

\* Division with remainder, as the solver needs it said.
LEMMA DivMod ==
  ASSUME NEW a \in Nat, NEW b \in Nat \ {0}
  PROVE  /\ a \div b \in Nat /\ (a % b) \in 0..(b - 1)
         /\ a = (a \div b) * b + (a % b)
  OBVIOUS

\* The quotient and the remainder are the only ones.
LEMMA DivModUnique ==
  ASSUME NEW b \in Nat \ {0}, NEW q \in Nat, NEW r \in 0..(b - 1)
  PROVE  (q * b + r) \div b = q /\ (q * b + r) % b = r
  OBVIOUS

\* The quotient of a number below a multiple is below its factor.
LEMMA DivBelow ==
  ASSUME NEW b \in Nat \ {0}, NEW n \in Nat, NEW a \in Nat, a < b * n
  PROVE  a \div b < n
<1> DEFINE q == a \div b
<1>1. q \in Nat /\ q * b <= a
  BY DivMod
<1> HIDE DEF q
<1>2. ASSUME n <= q PROVE FALSE
  <2>1. \A x, y, z \in Nat : x <= y => x * z <= y * z
    OBVIOUS
  <2>2. b * n <= q * b
    BY <1>1, <1>2, <2>1
  <2> QED BY <1>1, <2>2
<1> QED BY <1>1, <1>2 DEF q

\* The k-th bit of the i-th of n fields of b bits is one of the b * n bits.
LEMMA BelowProduct ==
  ASSUME NEW b \in Nat \ {0}, NEW n \in Nat, NEW i \in 0..(n - 1), NEW k \in 0..(b - 1)
  PROVE  i * b + k < b * n /\ i * b + k \in Nat
<1>1. \A x, y, z \in Nat : x <= y => x * z <= y * z
  OBVIOUS
<1>2. (i + 1) * b <= n * b
  BY <1>1
<1>3. (i + 1) * b = i * b + b
  OBVIOUS
<1> QED BY <1>2, <1>3

\* CalcBytesUsed (Utility::calcBytesUsed) counts enough bytes: the byte of every bit
\* position below n is one of them.
LEMMA BytesUsed ==
  ASSUME NEW n \in Nat
  PROVE  /\ CalcBytesUsed(n) \in Nat
         /\ \A pos \in Nat : pos < n => pos \div ByteBits + 1 \in 1..CalcBytesUsed(n)
<1>1. ByteBits \in Nat \ {0}
  BY ContentAssumption
<1> DEFINE m == n + ByteBits - 1
           c == m \div ByteBits
<1>2. m \in Nat /\ c \in Nat /\ m < (c + 1) * ByteBits
  <2>1. m \in Nat BY <1>1
  <2>2. \A x \in Nat, y \in Nat \ {0} : x \div y \in Nat /\ x < (x \div y + 1) * y
    OBVIOUS
  <2> HIDE DEF m
  <2> QED BY <1>1, <2>1, <2>2
<1>3. ASSUME NEW pos \in Nat, pos < n
      PROVE  pos \div ByteBits + 1 \in 1..c
  <2>1. pos \div ByteBits \in Nat /\ (pos \div ByteBits) * ByteBits <= pos
    BY <1>1, DivMod
  <2> DEFINE p == pos \div ByteBits
  <2>2. ASSUME c < p + 1 PROVE FALSE
    <3>1. \A x, y, z \in Nat : x <= y => x * z <= y * z
      OBVIOUS
    <3> HIDE DEF c, p, m
    <3>2. c * ByteBits <= p * ByteBits
      BY <1>1, <1>2, <2>1, <2>2, <3>1 DEF p
    <3>3. (c + 1) * ByteBits = c * ByteBits + ByteBits
      BY <1>1, <1>2
    <3>4. m = n + ByteBits - 1 BY DEF m
    <3> QED BY <1>1, <1>2, <1>3, <2>1, <3>2, <3>3, <3>4 DEF p
  <2> HIDE DEF c
  <2> QED BY <1>2, <2>1, <2>2
<1> QED BY <1>2, <1>3 DEF CalcBytesUsed

\* Whole bytes are counted apart from the rest.
LEMMA BytesUsedSplit ==
  ASSUME NEW q \in Nat, NEW n \in Nat
  PROVE  CalcBytesUsed(q * ByteBits + n) = q + CalcBytesUsed(n) /\ CalcBytesUsed(q * ByteBits) = q
<1>1. ByteBits \in Nat \ {0}
  BY ContentAssumption
<1>2. ASSUME NEW x \in Nat PROVE (q * ByteBits + x) \div ByteBits = q + x \div ByteBits
  <2> DEFINE d == x \div ByteBits
             r == x % ByteBits
  <2>1. d \in Nat /\ r \in 0..(ByteBits - 1) /\ x = d * ByteBits + r
    BY <1>1, DivMod
  <2> HIDE DEF d, r
  <2>2. q * ByteBits + x = (q + d) * ByteBits + r
    BY <1>1, <2>1
  <2>3. ((q + d) * ByteBits + r) \div ByteBits = q + d
    BY <1>1, <2>1, DivModUnique
  <2> QED BY <2>2, <2>3 DEF d
<1>3. n + ByteBits - 1 \in Nat /\ ByteBits - 1 \in Nat
  BY <1>1
<1>4. (ByteBits - 1) \div ByteBits = 0
  BY <1>1
<1>5. /\ q * ByteBits + n + ByteBits - 1 = q * ByteBits + (n + ByteBits - 1)
      /\ q * ByteBits + ByteBits - 1 = q * ByteBits + (ByteBits - 1)
  BY <1>1
<1> QED BY <1>2, <1>3, <1>4, <1>5 DEF CalcBytesUsed

\* Half of a number has the bits of the number, one place lower.
LEMMA HalfBits ==
  ASSUME NEW v \in Nat, NEW k \in Nat
  PROVE  (v \div 2) \div 2^k = v \div 2^(k + 1)
<1>1. 2^k \in Nat \ {0} /\ 2^(k + 1) = 2 * 2^k
  BY Powers
<1> DEFINE h == v \div 2
           p == 2^k
           d == h \div p
           r == h % p
           b == v % 2
<1>2. v = 2 * h + b /\ b \in 0..1 /\ h \in Nat
  OBVIOUS
<1>3. p \in Nat \ {0} /\ d \in Nat /\ r \in 0..(p - 1) /\ h = d * p + r
  <2> HIDE DEF h
  <2> QED BY <1>1, <1>2, DivMod
<1> HIDE DEF h, p, d, r, b
<1>4. v = d * (2 * p) + (2 * r + b)
  <2>1. \A x, y, z, w \in Nat : 2 * (x * y + z) + w = x * (2 * y) + (2 * z + w)
    OBVIOUS
  <2> QED BY <1>2, <1>3, <2>1
<1>5. 2 * r + b \in 0..(2 * p - 1) /\ 2 * p \in Nat \ {0}
  BY <1>2, <1>3
<1>6. v \div (2 * p) = d
  BY <1>3, <1>4, <1>5, DivModUnique
<1> QED BY <1>1, <1>6 DEF d, h, p

\* A number of n bits is determined by its bits, by induction over n.
LEMMA SameBits ==
  ASSUME NEW n \in Nat, NEW v \in 0..(2^n - 1), NEW w \in 0..(2^n - 1),
         \A k \in 0..(n - 1) : (v \div 2^k) % 2 = (w \div 2^k) % 2
  PROVE  v = w
<1> DEFINE Same(i, x, y) == \A k \in 0..(i - 1) : (x \div 2^k) % 2 = (y \div 2^k) % 2
           T == {i \in Nat : \A x, y \in 0..(2^i - 1) : Same(i, x, y) => x = y}
<1>1. 0 \in T
  BY Powers
<1>2. ASSUME NEW i \in T PROVE i + 1 \in T
  <2>1. i \in Nat /\ 2^i \in Nat \ {0} /\ 2^(i + 1) = 2 * 2^i /\ 2^0 = 1
    BY <1>2, Powers
  <2>2. SUFFICES ASSUME NEW x \in 0..(2^(i + 1) - 1), NEW y \in 0..(2^(i + 1) - 1), Same(i + 1, x, y)
                 PROVE  x = y
    BY <2>1
  <2>3. x \in Nat /\ y \in Nat /\ x < 2 * 2^i /\ y < 2 * 2^i
    BY <2>1
  <2>4. x \div 2 \in 0..(2^i - 1) /\ y \div 2 \in 0..(2^i - 1)
    <3> DEFINE p == 2^i
    <3>1. p \in Nat \ {0} /\ x < 2 * p /\ y < 2 * p
      BY <2>1, <2>3
    <3> HIDE DEF p
    <3> QED BY <2>3, <3>1 DEF p
  <2>5. Same(i, x \div 2, y \div 2)
    <3> SUFFICES ASSUME NEW k \in 0..(i - 1)
                 PROVE  ((x \div 2) \div 2^k) % 2 = ((y \div 2) \div 2^k) % 2
      OBVIOUS
    <3>1. k \in Nat /\ k + 1 \in 0..((i + 1) - 1)
      BY <2>1
    <3>2. (x \div 2^(k + 1)) % 2 = (y \div 2^(k + 1)) % 2
      BY <2>2, <3>1
    <3>3. (x \div 2) \div 2^k = x \div 2^(k + 1) /\ (y \div 2) \div 2^k = y \div 2^(k + 1)
      BY <2>3, <3>1, HalfBits
    <3> QED BY <3>2, <3>3
  <2>6. x \div 2 = y \div 2
    BY <1>2, <2>4, <2>5
  <2>7. x % 2 = y % 2
    <3>1. 0 \in 0..((i + 1) - 1)
      BY <2>1
    <3>2. (x \div 2^0) % 2 = (y \div 2^0) % 2
      BY <2>2, <3>1
    <3>3. x \div 1 = x /\ y \div 1 = y
      BY <2>3
    <3> QED BY <2>1, <3>2, <3>3
  <2>8. \A z \in Nat : z = 2 * (z \div 2) + (z % 2)
    OBVIOUS
  <2> QED BY <2>3, <2>6, <2>7, <2>8
<1>3. T = Nat
  <2> HIDE DEF T
  <2> QED BY <1>1, <1>2, SetInduction DEF T
<1> QED BY <1>3

\* CalcUsedBitNum (Utility::calcUsedBitNum), the width of the levels, is enough bits for the number.
LEMMA UsedBits ==
  ASSUME NEW n \in Nat
  PROVE  CalcUsedBitNum(n) \in Nat /\ n < 2^CalcUsedBitNum(n)
<1> DEFINE K == {k \in 0..n : 2^k <= n}
           c == Cardinality(K)
\* the powers up to n are those with exponents below c
<1>1. \A k \in Nat : 2^k \in Nat \ {0} /\ 2^(k + 1) = 2 * 2^k
  BY Powers
<1>2. \A k \in Nat : k < 2^k
  <2> DEFINE T == {k \in Nat : k < 2^k}
  <2>1. 0 \in T
    BY Powers
  <2>2. \A k \in T : k + 1 \in T
    <3> SUFFICES ASSUME NEW k \in T PROVE k + 1 < 2^(k + 1)
      OBVIOUS
    <3> DEFINE p == 2^k
               q == 2^(k + 1)
    <3>1. k \in Nat /\ k < p /\ p \in Nat /\ q = 2 * p
      BY <1>1
    <3> HIDE DEF p, q
    <3>2. k + 1 < q
      BY <3>1
    <3> QED BY <3>2 DEF q
  <2>3. T = Nat
    <3> HIDE DEF T
    <3> QED BY <2>1, <2>2, SetInduction DEF T
  <2> QED BY <2>3
<1>3. ASSUME NEW k \in Nat, 2^(k + 1) <= n PROVE 2^k <= n
  <2> DEFINE p == 2^k
             q == 2^(k + 1)
  <2>1. p \in Nat /\ q = 2 * p /\ q <= n
    BY <1>1, <1>3
  <2> HIDE DEF p, q
  <2>2. p <= n BY <2>1
  <2> QED BY <2>2 DEF p
<1> DEFINE L == {m \in Nat : n < 2^m}
<1>4. n \in L
  BY <1>2
<1>5. PICK m \in L : \A j \in L : m <= j
  BY <1>4, LeastNumber
<1>6. m \in Nat /\ n < 2^m /\ m <= n
  BY <1>4, <1>5
\* the exponents below m
<1>7. ASSUME NEW k \in 0..(m - 1) PROVE k \in K
  <2>1. k \in Nat /\ k \notin L /\ k \in 0..n
    BY <1>5, <1>6
  <2>2. 2^k \in Nat
    BY <1>1, <2>1
  <2> QED BY <2>1, <2>2
<1>8. \A k \in Nat : n < 2^(m + k)
  <2> DEFINE T == {k \in Nat : n < 2^(m + k)}
  <2>1. 0 \in T
    BY <1>6
  <2>2. ASSUME NEW k \in T PROVE k + 1 \in T
    <3>1. m + k \in Nat /\ m + (k + 1) = (m + k) + 1
      BY <1>6
    <3>2. 2^(m + k) \in Nat /\ 2^((m + k) + 1) \in Nat
      BY <1>1, <3>1
    <3>3. ~(2^((m + k) + 1) <= n)
      BY <1>3, <3>1, <3>2
    <3> QED BY <3>1, <3>2, <3>3
  <2>3. T = Nat
    <3> HIDE DEF T
    <3> QED BY <2>1, <2>2, SetInduction DEF T
  <2> QED BY <2>3
<1>9. ASSUME NEW k \in K PROVE k \in 0..(m - 1)
  <2>1. k \in Nat /\ 2^k <= n /\ 2^k \in Nat
    BY <1>1
  <2>2. ASSUME m <= k PROVE FALSE
    <3>1. k - m \in Nat /\ m + (k - m) = k
      BY <1>6, <2>1, <2>2
    <3>2. n < 2^k
      BY <1>8, <3>1
    <3> QED BY <2>1, <3>2
  <2> QED BY <1>6, <2>1, <2>2
<1>10. K = 0..(m - 1)
  BY <1>7, <1>9
<1>11. Cardinality(0..(m - 1)) = m
  BY <1>6, FS_Interval
<1> QED BY <1>6, <1>10, <1>11 DEF CalcUsedBitNum

\* A byte of packed levels.
Byte == [1..ByteBits -> {0, 1}]

\* The bit that stands at position pos when levels of this width are packed one behind the other.
BitOf(levels, width, pos) ==
  IF pos >= width * Len(levels) THEN 0
  ELSE (levels[pos \div width + 1] \div 2^(pos % width)) % 2

\* LevelBytes in terms of BitOf.
LEMMA LevelBytesForm ==
  ASSUME NEW levels, NEW width
  PROVE  LevelBytes(levels, width) =
           [b \in 1..CalcBytesUsed(width * Len(levels)) |->
              [k \in 1..ByteBits |-> BitOf(levels, width, (b - 1) * ByteBits + k - 1)]]
  BY DEF LevelBytes, BitOf

\* A bit of the packed levels is 0 or 1.
LEMMA BitOfType ==
  ASSUME NEW levels \in Seq(Nat), NEW width \in Nat, NEW pos \in Nat
  PROVE  BitOf(levels, width, pos) \in {0, 1}
<1>1. CASE pos >= width * Len(levels)
  BY <1>1 DEF BitOf
<1>2. CASE pos < width * Len(levels)
  <2>1. width # 0
    <3>1. Len(levels) \in Nat
      OBVIOUS
    <3>2. ASSUME width = 0 PROVE FALSE
      BY <1>2, <3>1, <3>2
    <3> QED BY <3>2
  <2>2. pos \div width < Len(levels) /\ pos \div width \in Nat /\ pos % width \in Nat
    <3>1. width \in Nat \ {0} /\ Len(levels) \in Nat
      BY <2>1
    <3>2. pos \div width < Len(levels)
      BY <1>2, <3>1, DivBelow
    <3>3. pos \div width \in Nat /\ (pos % width) \in 0..(width - 1)
      BY <3>1, DivMod
    <3> QED BY <3>1, <3>2, <3>3
  <2>3. levels[pos \div width + 1] \in Nat
    BY <2>2
  <2>4. 2^(pos % width) \in Nat \ {0}
    BY <2>2, Powers
  <2>5. \A x \in Nat, y \in Nat \ {0} : (x \div y) % 2 \in {0, 1}
    OBVIOUS
  <2>6. (levels[pos \div width + 1] \div 2^(pos % width)) % 2 \in {0, 1}
    BY <2>3, <2>4, <2>5
  <2>7. ~(pos >= width * Len(levels))
    BY <1>2
  <2> QED BY <2>6, <2>7 DEF BitOf
<1>3. width * Len(levels) \in Nat
  OBVIOUS
<1> QED BY <1>1, <1>2, <1>3

\* The bits of the bytes have natural positions.
LEMMA BytePos ==
  ASSUME NEW b \in Nat \ {0}, NEW k \in 1..ByteBits
  PROVE  (b - 1) * ByteBits + k - 1 \in Nat
<1>1. ByteBits \in Nat /\ b - 1 \in Nat /\ k - 1 \in Nat
  BY ContentAssumption
<1>2. (b - 1) * ByteBits \in Nat
  BY <1>1
<1> QED BY <1>1, <1>2

\* The packed levels are as many bytes as CalcBytesUsed counts.
LEMMA LevelBytesType ==
  ASSUME NEW levels \in Seq(Nat), NEW width \in Nat
  PROVE  /\ LevelBytes(levels, width) \in Seq(Byte)
         /\ Len(LevelBytes(levels, width)) = CalcBytesUsed(width * Len(levels))
         /\ CalcBytesUsed(width * Len(levels)) \in Nat
<1> DEFINE n == CalcBytesUsed(width * Len(levels))
           F == [b \in 1..n |-> [k \in 1..ByteBits |-> BitOf(levels, width, (b - 1) * ByteBits + k - 1)]]
<1>1. width * Len(levels) \in Nat
  OBVIOUS
<1>2. n \in Nat
  BY <1>1, BytesUsed
<1>3. ASSUME NEW b \in 1..n
      PROVE  [k \in 1..ByteBits |-> BitOf(levels, width, (b - 1) * ByteBits + k - 1)] \in Byte
  <2>1. b \in Nat \ {0}
    BY <1>2
  <2>2. \A k \in 1..ByteBits : BitOf(levels, width, (b - 1) * ByteBits + k - 1) \in {0, 1}
    BY <2>1, BytePos, BitOfType
  <2> QED BY <2>2 DEF Byte
<1>4. F \in [1..n -> Byte]
  BY <1>3
<1>5. F \in Seq(Byte) /\ Len(F) = n
  <2> HIDE DEF n
  <2>1. F \in [1..n -> Byte]
    BY <1>4
  <2> HIDE DEF F
  <2> QED BY <1>2, <2>1
<1> QED BY <1>2, <1>5, LevelBytesForm

\* The k-th bit of the b-th byte is the bit at that position.
LEMMA ByteOfLevels ==
  ASSUME NEW levels \in Seq(Nat), NEW width \in Nat,
         NEW b \in 1..CalcBytesUsed(width * Len(levels)), NEW k \in 1..ByteBits
  PROVE  /\ LevelBytes(levels, width)[b][k] = BitOf(levels, width, (b - 1) * ByteBits + k - 1)
         /\ DOMAIN LevelBytes(levels, width)[b] = 1..ByteBits
  BY LevelBytesForm

\* A unit whose number of levels fills its last byte can be followed by the bytes of the next
\* unit: together they are the bytes of the levels of both (CAB::mergeSegment).
LEMMA LevelBytesConcat ==
  ASSUME NEW l \in Seq(Nat), NEW m \in Seq(Nat), NEW width \in Nat, Len(l) % ByteBits = 0
  PROVE  LevelBytes(l \o m, width) = LevelBytes(l, width) \o LevelBytes(m, width)
<1>1. ByteBits \in Nat \ {0}
  BY ContentAssumption
<1> DEFINE q == width * (Len(l) \div ByteBits)
           x == width * Len(l)
           y == width * Len(m)
           z == width * Len(l \o m)
<1>2. Len(l) \in Nat /\ Len(m) \in Nat /\ Len(l \o m) = Len(l) + Len(m) /\ l \o m \in Seq(Nat)
  OBVIOUS
<1>3. Len(l) \div ByteBits \in Nat /\ Len(l) = (Len(l) \div ByteBits) * ByteBits
  <2>1. Len(l) = (Len(l) \div ByteBits) * ByteBits + (Len(l) % ByteBits) /\ Len(l) \div ByteBits \in Nat
    BY <1>1, <1>2, DivMod
  <2>2. Len(l) % ByteBits = 0
    OBVIOUS
  <2> DEFINE d == Len(l) \div ByteBits
             r == Len(l) % ByteBits
  <2>3. Len(l) = d * ByteBits + r /\ d \in Nat /\ r = 0
    BY <2>1, <2>2
  <2>4. d * ByteBits \in Nat
    BY <1>1, <2>3
  <2> HIDE DEF d, r
  <2>5. Len(l) = d * ByteBits
    BY <2>3, <2>4
  <2> QED BY <2>3, <2>5 DEF d
<1>4. q \in Nat /\ x = q * ByteBits /\ x \in Nat
  <2> DEFINE d == Len(l) \div ByteBits
  <2>1. d \in Nat /\ Len(l) = d * ByteBits
    BY <1>3
  <2> HIDE DEF d
  <2>2. width * d \in Nat /\ width * (d * ByteBits) = (width * d) * ByteBits
    BY <1>1, <2>1
  <2>3. (width * d) * ByteBits \in Nat
    BY <1>1, <2>2
  <2> QED BY <2>1, <2>2, <2>3 DEF d
<1>5. y \in Nat /\ z = q * ByteBits + y /\ z \in Nat
  <2>1. z = x + y /\ y \in Nat
    BY <1>2
  <2> HIDE DEF q, x, y, z
  <2> QED BY <1>4, <2>1
<1>6. CalcBytesUsed(x) = q /\ CalcBytesUsed(z) = q + CalcBytesUsed(y) /\ CalcBytesUsed(y) \in Nat
  <2> HIDE DEF q, x, y, z
  <2> QED BY <1>4, <1>5, BytesUsed, BytesUsedSplit
<1> DEFINE A == LevelBytes(l, width)
           B == LevelBytes(m, width)
           C == LevelBytes(l \o m, width)
<1>7. A \in Seq(Byte) /\ B \in Seq(Byte) /\ C \in Seq(Byte)
      /\ Len(A) = q /\ Len(B) = CalcBytesUsed(y) /\ Len(C) = q + CalcBytesUsed(y)
  BY <1>2, <1>6, LevelBytesType
\* the same bits
<1>8. ASSUME NEW pos \in Nat, pos < x
      PROVE  BitOf(l \o m, width, pos) = BitOf(l, width, pos)
  <2>1. width # 0
    <3> SUFFICES ASSUME width = 0 PROVE FALSE
      OBVIOUS
    <3> QED BY <1>2, <1>8
  <2>2. pos \div width \in Nat /\ pos \div width < Len(l)
    BY <1>2, <1>8, <2>1, DivBelow, DivMod
  <2>3. (l \o m)[pos \div width + 1] = l[pos \div width + 1]
    <3> DEFINE d == pos \div width
    <3>1. d + 1 \in 1..Len(l)
      BY <1>2, <2>2
    <3> HIDE DEF d
    <3>2. (l \o m)[d + 1] = l[d + 1]
      BY <3>1
    <3> QED BY <3>2 DEF d
  <2>4. ~(pos >= x) /\ ~(pos >= z)
    <3> HIDE DEF x, y, z, q
    <3> QED BY <1>4, <1>5, <1>8
  <2> QED BY <2>3, <2>4 DEF BitOf
<1>9. ASSUME NEW pos \in Nat
      PROVE  BitOf(l \o m, width, q * ByteBits + pos) = BitOf(m, width, pos)
  <2>1. q * ByteBits + pos >= z <=> pos >= y
    <3> HIDE DEF y, z, q
    <3>1. q * ByteBits \in Nat
      BY <1>1, <1>4
    <3> QED BY <1>5, <3>1
  <2>2. CASE pos >= y
    BY <2>1, <2>2 DEF BitOf
  <2>3. CASE pos < y
    <3>1. width # 0
      <4> SUFFICES ASSUME width = 0 PROVE FALSE
        OBVIOUS
      <4> QED BY <1>2, <2>3
    <3> DEFINE d == pos \div width
               r == pos % width
    <3>2. d \in Nat /\ d < Len(m) /\ r \in 0..(width - 1) /\ pos = d * width + r
      BY <1>2, <2>3, <3>1, DivBelow, DivMod
    <3> HIDE DEF d, r
    <3>3. q * ByteBits + pos = (Len(l) + d) * width + r
      <4>1. q * ByteBits = width * Len(l)
        BY <1>4
      <4> HIDE DEF q
      <4>2. (Len(l) + d) * width = width * Len(l) + d * width
        BY <1>2, <3>2
      <4>3. width * Len(l) \in Nat /\ d * width \in Nat
        BY <1>2, <3>2
      <4> QED BY <3>2, <4>1, <4>2, <4>3
    <3>4. /\ (q * ByteBits + pos) \div width = Len(l) + d
          /\ (q * ByteBits + pos) % width = r
      <4>1. Len(l) + d \in Nat /\ width \in Nat \ {0}
        BY <1>2, <3>1, <3>2
      <4>2. /\ ((Len(l) + d) * width + r) \div width = Len(l) + d
            /\ ((Len(l) + d) * width + r) % width = r
        BY <3>2, <4>1, DivModUnique
      <4> QED BY <3>3, <4>2
    <3>5. (l \o m)[(Len(l) + d) + 1] = m[d + 1]
      <4>1. (Len(l) + d) + 1 \in (Len(l) + 1)..(Len(l) + Len(m)) /\ ((Len(l) + d) + 1) - Len(l) = d + 1
        BY <1>2, <3>2
      <4> QED BY <4>1
    <3>6. ~(pos >= y) /\ ~(q * ByteBits + pos >= z)
      <4>1. ~(pos >= y)
        <5> HIDE DEF y
        <5> QED BY <1>5, <2>3
      <4> QED BY <2>1, <4>1
    <3>7. BitOf(m, width, pos) = (m[d + 1] \div 2^r) % 2
      BY <3>6 DEF BitOf, d, r
    <3>8. BitOf(l \o m, width, q * ByteBits + pos) = ((l \o m)[(Len(l) + d) + 1] \div 2^r) % 2
      BY <3>4, <3>6 DEF BitOf
    <3> QED BY <3>5, <3>7, <3>8
  <2>4. y \in Nat
    BY <1>5
  <2> HIDE DEF y
  <2> QED BY <2>2, <2>3, <2>4
<1>10. ASSUME NEW b \in 1..(q + CalcBytesUsed(y))
       PROVE  C[b] = (A \o B)[b]
  <2>1. C[b] = [k \in 1..ByteBits |-> BitOf(l \o m, width, (b - 1) * ByteBits + k - 1)]
    BY <1>6, <1>10, LevelBytesForm
  <2>2. CASE b <= q
    <3>1. b \in 1..q /\ (A \o B)[b] = A[b]
      <4> HIDE DEF A, B, C, q, y
      <4>1. b \in 1..q
        BY <1>4, <1>6, <1>10, <2>2
      <4> QED BY <1>4, <1>7, <4>1
    <3>2. A[b] = [k \in 1..ByteBits |-> BitOf(l, width, (b - 1) * ByteBits + k - 1)]
      BY <1>6, <3>1, LevelBytesForm
    <3>3. ASSUME NEW k \in 1..ByteBits
          PROVE  /\ (b - 1) * ByteBits + k - 1 \in Nat
                 /\ (b - 1) * ByteBits + k - 1 < x
      <4>1. b - 1 \in 0..(q - 1) /\ k - 1 \in 0..(ByteBits - 1) /\ b \in Nat \ {0}
        <5> HIDE DEF q
        <5> QED BY <1>1, <1>4, <3>1, SMTT(20)
      <4>2. (b - 1) * ByteBits + (k - 1) < ByteBits * q
        <5> HIDE DEF q
        <5> QED BY <1>1, <1>4, <4>1, BelowProduct
      <4>3. (b - 1) * ByteBits + k - 1 \in Nat
        BY <4>1, BytePos
      <4>4. (b - 1) * ByteBits + (k - 1) = (b - 1) * ByteBits + k - 1
        <5> DEFINE w == (b - 1) * ByteBits
        <5>1. w \in Int
          BY <1>1, <4>1
        <5> HIDE DEF w
        <5>2. w + (k - 1) = w + k - 1
          BY <5>1, <1>1
        <5> QED BY <5>2 DEF w
      <4>5. ByteBits * q = q * ByteBits
        <5> HIDE DEF q
        <5> QED BY <1>1, <1>4
      <4> QED BY <1>4, <4>2, <4>3, <4>4, <4>5
    <3>4. \A k \in 1..ByteBits : BitOf(l \o m, width, (b - 1) * ByteBits + k - 1)
                                   = BitOf(l, width, (b - 1) * ByteBits + k - 1)
      BY <1>8, <3>3
    <3> QED BY <2>1, <3>1, <3>2, <3>4
  <2>3. CASE b > q
    <3> DEFINE c == b - q
    <3>1. c \in 1..CalcBytesUsed(y) /\ b = q + c /\ (A \o B)[b] = B[c]
      <4> DEFINE u == CalcBytesUsed(y)
      <4>1. q \in Nat /\ u \in Nat /\ b \in 1..(q + u) /\ b > q /\ A \in Seq(Byte) /\ B \in Seq(Byte)
            /\ Len(A) = q /\ Len(B) = u
        BY <1>4, <1>6, <1>7, <1>10, <2>3
      <4> HIDE DEF A, B, u, q
      <4>2. b - q \in 1..u /\ b = q + (b - q)
        BY <4>1
      <4>3. (A \o B)[b] = B[b - q]
        <5>1. b \in 1..(Len(A) + Len(B)) /\ ~(b <= Len(A)) /\ Len(A) \in Nat /\ Len(B) \in Nat
          BY <4>1
        <5> QED BY <4>1, <5>1, ConcatProperties
      <4> QED BY <4>2, <4>3 DEF u
    <3>2. B[c] = [k \in 1..ByteBits |-> BitOf(m, width, (c - 1) * ByteBits + k - 1)]
      BY <3>1, LevelBytesForm
    <3>3. ASSUME NEW k \in 1..ByteBits
          PROVE  /\ (c - 1) * ByteBits + k - 1 \in Nat
                 /\ (b - 1) * ByteBits + k - 1 = q * ByteBits + ((c - 1) * ByteBits + k - 1)
      <4>1. c \in Nat \ {0} /\ b = q + c /\ q \in Nat
        BY <1>4, <1>6, <3>1, SMTT(20)
      <4> HIDE DEF c, q
      <4>2. (b - 1) * ByteBits = q * ByteBits + (c - 1) * ByteBits
        BY <1>1, <4>1
      <4>3. q * ByteBits \in Int /\ (c - 1) * ByteBits \in Int
        BY <1>1, <4>1
      <4>4. (c - 1) * ByteBits + k - 1 \in Nat
        BY <4>1, BytePos
      <4>5. k \in Int
        BY <1>1
      <4> QED BY <4>2, <4>3, <4>4, <4>5
    <3>4. \A k \in 1..ByteBits : BitOf(l \o m, width, (b - 1) * ByteBits + k - 1)
                                   = BitOf(m, width, (c - 1) * ByteBits + k - 1)
      BY <1>9, <3>3
    <3> QED BY <2>1, <3>1, <3>2, <3>4
  <2>4. b \in Int /\ q \in Int
    <3> HIDE DEF q, y
    <3> QED BY <1>4, <1>6, <1>10
  <2> HIDE DEF q, A, B, C
  <2>5. b <= q \/ b > q
    BY <2>4
  <2> QED BY <2>2, <2>3, <2>5
<1>11. A \o B \in Seq(Byte) /\ Len(A \o B) = q + CalcBytesUsed(y)
  <2> HIDE DEF A, B, C, q, y
  <2> QED BY <1>7
<1> HIDE DEF A, B, C
<1>12. C = A \o B
  BY <1>7, <1>10, <1>11, SeqEqual
<1> QED BY <1>12 DEF A, B, C

\* Powers of two are positive numbers.
LEMMA BitNat ==
  ASSUME NEW n \in Nat
  PROVE  2^n \in Nat \ {0}
  BY Powers

\* Bit pos of the levels that stand behind the first bgn cells, as BitVector::getByBit finds it.
StoredBit(blk, bgn, pos) ==
  LET byte == CellAt(blk, bgn + pos \div ByteBits + 1)
      k    == (pos % ByteBits) + 1
  IN  IF k \in DOMAIN byte /\ byte[k] = 1 THEN 1 ELSE 0

\* LevelAt in terms of StoredBit: the level that has the stored bits.
LEMMA LevelAtForm ==
  ASSUME NEW blk, NEW bgn, NEW width, NEW i
  PROVE  LevelAt(blk, bgn, width, i) =
           CHOOSE level \in 0..(2^width - 1) :
             \A k \in 0..(width - 1) : (level \div 2^k) % 2 = StoredBit(blk, bgn, i * width + k)
  BY DEF LevelAt, StoredBit

\* A level is read back from its bits, whatever stands before and behind the bytes of the
\* levels (BitVector::getByBit).
LEMMA LevelRead ==
  ASSUME NEW pre \in Seq(Cell), NEW post \in Seq(Cell), NEW levels \in Seq(Nat),
         NEW width \in Nat, NEW i \in 0..(Len(levels) - 1), levels[i + 1] < 2^width
  PROVE  LevelAt(pre \o (LevelBytes(levels, width) \o post), Len(pre), width, i) = levels[i + 1]
<1> DEFINE blk == pre \o (LevelBytes(levels, width) \o post)
           B == LevelBytes(levels, width)
           v == levels[i + 1]
<1>1. ByteBits \in Nat \ {0} /\ Len(levels) \in Nat /\ v \in Nat
  BY ContentAssumption
<1>2. /\ B \in Seq(Cell) /\ Len(B) = CalcBytesUsed(width * Len(levels)) /\ Len(B) \in Nat
      /\ \A b \in 1..Len(B) : B[b] \in Byte
  <2>1. B \in Seq(Byte) /\ Len(B) = CalcBytesUsed(width * Len(levels))
    BY LevelBytesType
  <2>2. Byte \subseteq Cell
    BY DEF Byte, Cell
  <2> HIDE DEF B
  <2> QED BY <2>1, <2>2
<1>3. ASSUME NEW k \in 0..(width - 1)
      PROVE  StoredBit(blk, Len(pre), i * width + k) = (v \div 2^k) % 2
  <2> DEFINE pos == i * width + k
             b == pos \div ByteBits + 1
             e == (pos % ByteBits) + 1
  <2>1. width \in Nat \ {0}
    BY <1>1
  <2>2. pos \in Nat /\ pos < width * Len(levels)
    BY <1>1, <2>1, BelowProduct
  <2>3. pos \div width = i /\ pos % width = k
    <3>1. i \in Nat
      BY <1>1
    <3> QED BY <2>1, <3>1, DivModUnique
  <2> HIDE DEF pos
  <2>4. b \in 1..Len(B) /\ e \in 1..ByteBits /\ (b - 1) * ByteBits + e - 1 = pos
    <3>1. width * Len(levels) \in Nat
      BY <1>1
    <3>2. b \in 1..CalcBytesUsed(width * Len(levels))
      BY <2>2, <3>1, BytesUsed
    <3> DEFINE d == pos \div ByteBits
               r == pos % ByteBits
    <3>3. d \in Nat /\ r \in 0..(ByteBits - 1) /\ pos = d * ByteBits + r
      BY <1>1, <2>2, DivMod
    <3> HIDE DEF d, r
    <3>4. d * ByteBits \in Nat
      BY <1>1, <3>3
    <3>5. ((d + 1) - 1) * ByteBits + (r + 1) - 1 = pos /\ r + 1 \in 1..ByteBits
      <4>1. (d + 1) - 1 = d BY <3>3
      <4> QED BY <1>1, <3>3, <3>4, <4>1
    <3> QED BY <1>2, <3>2, <3>5 DEF d, r
  <2>5. Len(pre) + b \in DOMAIN blk /\ blk[Len(pre) + b] = B[b]
    <3> HIDE DEF b, B
    <3>1. Len(pre) \in Nat /\ b \in Nat
      BY <1>2, <2>4
    <3>2. B \o post \in Seq(Cell) /\ b \in 1..Len(B \o post) /\ (B \o post)[b] = B[b]
      <4>1. b \in 1..(Len(B) + Len(post)) /\ b <= Len(B)
        BY <1>2, <2>4
      <4> QED BY <1>2, <4>1, ConcatProperties
    <3> DEFINE c == B \o post
    <3>3. c \in Seq(Cell) /\ b \in 1..Len(c) /\ c[b] = B[b]
      BY <3>2
    <3> HIDE DEF c
    <3>4. /\ Len(pre \o c) = Len(pre) + Len(c) /\ pre \o c \in Seq(Cell)
          /\ Len(pre) + b \in 1..(Len(pre) + Len(c)) /\ ~(Len(pre) + b <= Len(pre))
      BY <3>1, <3>3
    <3>5. (pre \o c)[Len(pre) + b] = c[(Len(pre) + b) - Len(pre)]
      BY <3>3, <3>4, ConcatProperties
    <3>6. (Len(pre) + b) - Len(pre) = b
      BY <3>1
    <3>7. Len(pre) + b \in DOMAIN (pre \o c)
      BY <3>4
    <3> QED BY <3>3, <3>5, <3>6, <3>7 DEF c, B
  <2>6. CellAt(blk, Len(pre) + b) = B[b]
    BY <2>5 DEF CellAt
  <2>7. B[b][e] = BitOf(levels, width, pos) /\ DOMAIN B[b] = 1..ByteBits
    <3>1. b \in 1..CalcBytesUsed(width * Len(levels))
      BY <1>2, <2>4
    <3> HIDE DEF b, e
    <3> QED BY <2>4, <3>1, ByteOfLevels, SMTT(20)
  <2>8. BitOf(levels, width, pos) = (v \div 2^k) % 2
    <3>1. ~(pos >= width * Len(levels))
      <4>1. width * Len(levels) \in Nat BY <1>1
      <4> QED BY <2>2, <4>1
    <3> QED BY <2>3, <3>1 DEF BitOf
  <2>9. (v \div 2^k) % 2 \in {0, 1}
    <3>1. 2^k \in Nat \ {0}
      BY BitNat
    <3>2. \A x \in Nat, y \in Nat \ {0} : (x \div y) % 2 \in {0, 1}
      OBVIOUS
    <3> QED BY <1>1, <3>1, <3>2
  <2>10. Len(pre) + pos \div ByteBits + 1 = Len(pre) + b
    <3> DEFINE d == pos \div ByteBits
    <3>1. d \in Nat
      BY <1>1, <2>2, DivMod
    <3> HIDE DEF d
    <3>2. Len(pre) + d + 1 = Len(pre) + (d + 1)
      BY <3>1
    <3> QED BY <3>2 DEF d
  <2>11. StoredBit(blk, Len(pre), pos) = IF e \in DOMAIN B[b] /\ B[b][e] = 1 THEN 1 ELSE 0
    BY <2>6, <2>10 DEF StoredBit
  <2>12. StoredBit(blk, Len(pre), pos) = (v \div 2^k) % 2
    <3> DEFINE x == (v \div 2^k) % 2
    <3>1. x \in {0, 1} /\ B[b][e] = x /\ e \in DOMAIN B[b]
      BY <2>4, <2>7, <2>8, <2>9
    <3> HIDE DEF x, B, b, e
    <3>2. StoredBit(blk, Len(pre), pos) = x
      BY <2>11, <3>1
    <3> QED BY <3>2 DEF x
  <2> QED BY <2>12 DEF pos
<1>4. v \in 0..(2^width - 1)
  <2> DEFINE p == 2^width
  <2>1. p \in Nat /\ v < p
    BY BitNat
  <2> HIDE DEF p, v
  <2>2. v \in 0..(p - 1)
    BY <1>1, <2>1
  <2> QED BY <2>2 DEF p
<1> DEFINE P(level) == \A k \in 0..(width - 1) : (level \div 2^k) % 2 = StoredBit(blk, Len(pre), i * width + k)
<1>5. P(v)
  BY <1>3
<1>6. ASSUME NEW w \in 0..(2^width - 1), P(w) PROVE w = v
  <2>1. \A k \in 0..(width - 1) : (w \div 2^k) % 2 = (v \div 2^k) % 2
    BY <1>3, <1>6
  <2> HIDE DEF v, P
  <2> QED BY <1>4, <1>6, <2>1, SameBits
<1>7. (CHOOSE level \in 0..(2^width - 1) : P(level)) = v
  <2> HIDE DEF P, v
  <2> QED BY <1>4, <1>5, <1>6
<1> QED BY <1>7, LevelAtForm

\* The levels of a written item fit into the widths of the two bit vectors, and the repetition
\* level is got back from its code (RepetitionType::encode, CABReader::read).
LEMMA LevelsFit ==
  ASSUME NEW it \in Written
  PROVE  /\ RepBits \in Nat /\ DefBits \in Nat
         /\ Encode(it.rep) \in Nat /\ Encode(it.rep) < 2^RepBits
         /\ it.def \in Nat /\ it.def < 2^DefBits
         /\ Decode(Encode(it.rep)) = it.rep
<1>1. /\ it.rep \in 0..MaxRep /\ it.def \in 0..MaxDef /\ it.rep \in RepLevels \cup {0}
      /\ MaxRep \in Nat /\ MaxDef \in Nat
  BY ConstantsAssumption DEF Written, Item, ColumnItem
<1>2. /\ DefBits \in Nat /\ MaxDef < 2^DefBits
  BY <1>1, UsedBits DEF DefBits
<1>3. it.def < 2^DefBits
  <2> DEFINE p == 2^DefBits
  <2>1. p \in Nat /\ MaxDef < p
    BY <1>2, BitNat
  <2> HIDE DEF p
  <2>2. it.def < p BY <1>1, <2>1
  <2> QED BY <2>2 DEF p
<1>4. CASE ~Single
  <2>1. RepBits \in Nat /\ MaxRep < 2^RepBits
    BY <1>1, <1>4, UsedBits DEF RepBits, GetReptBits
  <2>2. it.rep < 2^RepBits
    <3> DEFINE p == 2^RepBits
    <3>1. p \in Nat /\ MaxRep < p
      BY <2>1, BitNat
    <3> HIDE DEF p
    <3>2. it.rep < p BY <1>1, <3>1
    <3> QED BY <3>2 DEF p
  <2> QED BY <1>1, <1>2, <1>3, <1>4, <2>1, <2>2 DEF Encode, Decode
<1>5. CASE Single
  <2>1. RepBits \in Nat /\ 1 < 2^RepBits
    BY <1>5, UsedBits DEF RepBits, GetReptBits
  <2>2. RepLevels \subseteq 1..MaxRep /\ (MaxRep > 0 => MaxRep \in RepLevels)
    BY ContentAssumption
  <2>3. IsFiniteSet(RepLevels)
    <3>1. IsFiniteSet(1..MaxRep)
      BY <1>1, FS_Interval
    <3> QED BY <2>2, <3>1, FS_Subset
  <2>4. PICK x : RepLevels = {x}
    BY <1>5, <2>3, FS_Singleton DEF Single
  <2>5. MaxRep > 0 /\ x = MaxRep
    BY <1>1, <2>2, <2>4
  <2>6. it.rep = 0 \/ it.rep = MaxRep
    BY <1>1, <2>4, <2>5
  <2>7. Encode(it.rep) \in {0, 1} /\ Decode(Encode(it.rep)) = it.rep
    BY <1>1, <1>5, <2>5, <2>6 DEF Encode, Decode
  <2>8. Encode(it.rep) < 2^RepBits
    <3> DEFINE p == 2^RepBits
    <3>1. p \in Nat /\ 1 < p
      BY <2>1, BitNat
    <3> HIDE DEF p
    <3>2. Encode(it.rep) < p BY <2>7, <3>1
    <3> QED BY <3>2 DEF p
  <2> QED BY <1>1, <1>2, <1>3, <2>1, <2>7, <2>8
<1> QED BY <1>4, <1>5

-----------------------------------------------------------------------------
(* Blocks: the levels and the values of items, and what is read of them.   *)

\* The widths of the two bit vectors.
LEMMA LevelWidths == RepBits \in Nat /\ DefBits \in Nat
<1>1. GetReptBits \in Nat /\ MaxDef \in Nat
  BY ConstantsAssumption DEF GetReptBits
<1> QED BY <1>1, UsedBits DEF RepBits, DefBits

\* Concatenation of cells is associative.
LEMMA CellsConcat ==
  ASSUME NEW a \in Seq(Cell), NEW b \in Seq(Cell), NEW c \in Seq(Cell)
  PROVE  (a \o b) \o c = a \o (b \o c) /\ a \o b \in Seq(Cell) /\ Len(a \o b) = Len(a) + Len(b)
  BY ConcatAssociative, ConcatProperties, SMTT(20)

\* The cells of a block are those of its first part and then those of the second.
LEMMA CellOfConcat ==
  ASSUME NEW s \in Seq(Cell), NEW t \in Seq(Cell)
  PROVE  /\ \A i \in 1..Len(s) : CellAt(s \o t, i) = s[i]
         /\ \A i \in 1..Len(t) : CellAt(s \o t, Len(s) + i) = t[i]
<1>1. s \o t \in Seq(Cell) /\ Len(s \o t) = Len(s) + Len(t) /\ Len(s) \in Nat /\ Len(t) \in Nat
  OBVIOUS
<1>2. DOMAIN (s \o t) = 1..(Len(s) + Len(t))
  BY <1>1
<1>3. ASSUME NEW i \in 1..Len(s) PROVE CellAt(s \o t, i) = s[i]
  <2>1. i \in 1..(Len(s) + Len(t)) /\ i <= Len(s)
    BY <1>1
  <2>2. (s \o t)[i] = s[i]
    BY <2>1, ConcatProperties
  <2> QED BY <1>2, <2>1, <2>2 DEF CellAt
<1>4. ASSUME NEW i \in 1..Len(t) PROVE CellAt(s \o t, Len(s) + i) = t[i]
  <2>1. Len(s) + i \in 1..(Len(s) + Len(t)) /\ ~(Len(s) + i <= Len(s)) /\ (Len(s) + i) - Len(s) = i
    BY <1>1
  <2>2. (s \o t)[Len(s) + i] = t[i]
    BY <2>1, ConcatProperties
  <2> QED BY <1>2, <2>1, <2>2 DEF CellAt
<1> QED BY <1>3, <1>4

\* The levels of items are sequences of numbers, as long as the items.
LEMMA LevelSeqs ==
  ASSUME NEW is \in Seq(Written)
  PROVE  /\ Reps(is) \in Seq(Nat) /\ Len(Reps(is)) = Len(is)
         /\ Defs(is) \in Seq(Nat) /\ Len(Defs(is)) = Len(is)
         /\ \A i \in 1..Len(is) : /\ is[i] \in Written
                                  /\ Reps(is)[i] = Encode(is[i].rep) /\ Defs(is)[i] = is[i].def
<1>1. Len(is) \in Nat
  OBVIOUS
<1>2. \A i \in 1..Len(is) : is[i] \in Written
  OBVIOUS
<1>3. \A i \in 1..Len(is) : Encode(is[i].rep) \in Nat /\ is[i].def \in Nat
  BY <1>2, LevelsFit
<1>4. Reps(is) \in [1..Len(is) -> Nat] /\ Defs(is) \in [1..Len(is) -> Nat]
  BY <1>3 DEF Reps, Defs
<1>5. \A f \in [1..Len(is) -> Nat] : f \in Seq(Nat) /\ Len(f) = Len(is)
  BY <1>1
<1>6. /\ Reps(is) \in Seq(Nat) /\ Len(Reps(is)) = Len(is)
      /\ Defs(is) \in Seq(Nat) /\ Len(Defs(is)) = Len(is)
  BY <1>4, <1>5
<1> QED BY <1>2, <1>6 DEF Reps, Defs

\* Where the bytes of the two kinds of levels end: RepEnd and DefEnd are the offsets a reader
\* computes from the number of items (ColumnItemArray::init2read).
LEMMA LevelParts ==
  ASSUME NEW is \in Seq(Written)
  PROVE  /\ LevelBytes(Reps(is), RepBits) \in Seq(Cell)
         /\ Len(LevelBytes(Reps(is), RepBits)) = RepEnd(Len(is))
         /\ LevelBytes(Defs(is), DefBits) \in Seq(Cell)
         /\ Levels(is) \in Seq(Cell) /\ Len(Levels(is)) = DefEnd(Len(is))
<1>1. Byte \subseteq Cell
  BY DEF Byte, Cell
<1>2. \A s : s \in Seq(Byte) => s \in Seq(Cell)
  BY <1>1
<1>3. /\ LevelBytes(Reps(is), RepBits) \in Seq(Byte)
      /\ Len(LevelBytes(Reps(is), RepBits)) = RepEnd(Len(is))
  <2>1. Reps(is) \in Seq(Nat) /\ Len(Reps(is)) = Len(is)
    BY LevelSeqs
  <2>2. /\ LevelBytes(Reps(is), RepBits) \in Seq(Byte)
        /\ Len(LevelBytes(Reps(is), RepBits)) = CalcBytesUsed(RepBits * Len(Reps(is)))
    BY <2>1, LevelWidths, LevelBytesType
  <2> QED BY <2>1, <2>2, Zenon DEF RepEnd
<1>4. /\ LevelBytes(Defs(is), DefBits) \in Seq(Byte)
      /\ Len(LevelBytes(Defs(is), DefBits)) = CalcBytesUsed(DefBits * Len(is))
  <2>1. Defs(is) \in Seq(Nat) /\ Len(Defs(is)) = Len(is)
    BY LevelSeqs
  <2>2. /\ LevelBytes(Defs(is), DefBits) \in Seq(Byte)
        /\ Len(LevelBytes(Defs(is), DefBits)) = CalcBytesUsed(DefBits * Len(Defs(is)))
    BY <2>1, LevelWidths, LevelBytesType
  <2> QED BY <2>1, <2>2, Zenon
<1> DEFINE r == LevelBytes(Reps(is), RepBits)
           d == LevelBytes(Defs(is), DefBits)
<1>5. r \in Seq(Cell) /\ d \in Seq(Cell)
  BY <1>2, <1>3, <1>4
<1>6. r \o d \in Seq(Cell) /\ Len(r \o d) = Len(r) + Len(d)
  <2> HIDE DEF r, d
  <2> QED BY <1>5
<1> QED BY <1>3, <1>4, <1>5, <1>6 DEF Levels, DefEnd

\* A coded block is the levels of its items and the cells behind them.
LEMMA CodedForm ==
  ASSUME NEW is \in Seq(Written), NEW blk, Coded(kind, blk, is)
  PROVE  \E rest \in Seq(Cell) : blk = Levels(is) \o rest
<1>1. CASE blk = Levels(is)
  <2>1. Levels(is) \o <<>> = Levels(is) /\ <<>> \in Seq(Cell)
    BY LevelParts, ConcatEmptySeq
  <2> QED BY <1>1, <2>1
<1>2. CASE \E offs, vals \in Seq(Cell) : blk = Levels(is) \o (offs \o vals)
  <2>1. PICK offs \in Seq(Cell), vals \in Seq(Cell) : blk = Levels(is) \o (offs \o vals)
    BY <1>2
  <2>2. offs \o vals \in Seq(Cell)
    BY ConcatProperties
  <2> QED BY <2>1, <2>2
<1> QED BY <1>1, <1>2 DEF Coded

\* The levels of every item are read back from a coded block (ColumnItemArray::read).
LEMMA CodedLevels ==
  ASSUME NEW is \in Seq(Written), NEW blk, Coded(kind, blk, is), NEW i \in 1..Len(is)
  PROVE  /\ LevelAt(blk, 0, RepBits, i - 1) = Encode(is[i].rep)
         /\ LevelAt(blk, RepEnd(Len(is)), DefBits, i - 1) = is[i].def
<1>1. PICK rest \in Seq(Cell) : blk = Levels(is) \o rest
  BY CodedForm
<1> DEFINE r == LevelBytes(Reps(is), RepBits)
           d == LevelBytes(Defs(is), DefBits)
<1>2. r \in Seq(Cell) /\ d \in Seq(Cell) /\ Len(r) = RepEnd(Len(is)) /\ blk = (r \o d) \o rest
  BY <1>1, LevelParts DEF Levels
<1>3. blk = <<>> \o (r \o (d \o rest)) /\ blk = r \o (d \o rest) /\ d \o rest \in Seq(Cell)
  <2> HIDE DEF r, d
  <2>1. d \o rest \in Seq(Cell) /\ (r \o d) \o rest = r \o (d \o rest)
    <3>1. r \in Seq(Cell) /\ d \in Seq(Cell) /\ rest \in Seq(Cell)
      BY <1>2
    <3>2. d \o rest \in Seq(Cell)
      BY <3>1, ConcatProperties
    <3>3. (r \o d) \o rest = r \o (d \o rest)
      BY <3>1, ConcatAssociative, SMTT(20)
    <3> QED BY <3>2, <3>3
  <2>2. <<>> \o (r \o (d \o rest)) = r \o (d \o rest)
    <3>1. r \o (d \o rest) \in Seq(Cell)
      BY <1>2, <2>1, ConcatProperties
    <3> QED BY <3>1, ConcatEmptySeq
  <2> QED BY <1>2, <2>1, <2>2
<1>4. /\ i - 1 \in 0..(Len(is) - 1) /\ (i - 1) + 1 = i
      /\ is[i] \in Written
  OBVIOUS
<1>5. /\ Reps(is)[i] = Encode(is[i].rep) /\ Encode(is[i].rep) < 2^RepBits
      /\ Defs(is)[i] = is[i].def /\ is[i].def < 2^DefBits
  BY <1>4, LevelSeqs, LevelsFit
<1>6. LevelAt(blk, 0, RepBits, i - 1) = Reps(is)[i]
  <2>1. Reps(is) \in Seq(Nat) /\ i - 1 \in 0..(Len(Reps(is)) - 1) /\ Reps(is)[(i - 1) + 1] < 2^RepBits
    BY <1>4, <1>5, LevelSeqs
  <2>2. <<>> \in Seq(Cell) /\ Len(<<>>) = 0
    OBVIOUS
  <2>3. LevelAt(<<>> \o (r \o (d \o rest)), Len(<<>>), RepBits, i - 1) = Reps(is)[(i - 1) + 1]
    BY <1>3, <2>1, <2>2, LevelWidths, LevelRead, ZenonT(30)
  <2> QED BY <1>3, <1>4, <2>2, <2>3
<1>7. LevelAt(blk, RepEnd(Len(is)), DefBits, i - 1) = Defs(is)[i]
  <2>1. Defs(is) \in Seq(Nat) /\ i - 1 \in 0..(Len(Defs(is)) - 1) /\ Defs(is)[(i - 1) + 1] < 2^DefBits
    BY <1>4, <1>5, LevelSeqs
  <2>2. LevelAt(r \o (d \o rest), Len(r), DefBits, i - 1) = Defs(is)[(i - 1) + 1]
    BY <1>2, <2>1, LevelWidths, LevelRead
  <2> QED BY <1>2, <1>3, <1>4, <2>2
<1> QED BY <1>5, <1>6, <1>7

\* The value of every item is read back from a coded block that has values, of either kind
\* (FixLengthValueArray::read, VarLengthValueArray::read).
LEMMA PlacedValues ==
  ASSUME NEW is \in Seq(Written), NEW offs \in Seq(Cell), NEW vals \in Seq(Cell),
         Placed(kind, offs, vals, is), kind \in Kinds, NEW i \in 1..Len(is)
  PROVE  /\ ValueAt(Levels(is) \o (offs \o vals), Len(is), i) = is[i].val
         /\ CellAt(Levels(is) \o (offs \o vals), DefEnd(Len(is)) + i)
              = IF kind = "fixed" THEN <<is[i].val>> ELSE offs[i]
<1> DEFINE blk == Levels(is) \o (offs \o vals)
           n == Len(is)
           off == DefEnd(n)
<1>1. n \in Nat /\ Levels(is) \in Seq(Cell) /\ Len(Levels(is)) = off /\ offs \o vals \in Seq(Cell)
      /\ off \in Nat /\ Len(vals) \in Nat
  BY LevelParts
<1>2. kind = "fixed" \/ kind = "var"
  BY ContentAssumption
<1>3. CASE kind = "fixed"
  <2>1. offs = <<>> /\ vals = [k \in 1..n |-> <<is[k].val>>]
    BY <1>3 DEF Placed
  <2>2. offs \o vals = vals
    BY <2>1, ConcatEmptySeq
  <2>3. i \in 1..Len(vals) /\ vals[i] = <<is[i].val>>
    BY <1>1, <2>1
  <2>4. CellAt(blk, off + i) = <<is[i].val>>
    <3>1. blk = Levels(is) \o vals
      BY <2>2
    <3>2. CellAt(Levels(is) \o vals, Len(Levels(is)) + i) = vals[i]
      BY <1>1, <2>3, CellOfConcat
    <3> QED BY <1>1, <2>3, <3>1, <3>2
  <2> QED BY <1>3, <2>4 DEF ValueAt
<1>4. CASE kind = "var"
  <2>1. /\ Len(offs) = n
        /\ IF is[i].val = Null THEN offs[i] = <<InvalidOff>>
           ELSE \E c \in 0..Len(vals) : offs[i] = <<c>> /\ PlacedAt(c, vals, is[i].val)
    BY <1>4 DEF Placed
  <2>2. CellAt(blk, off + i) = offs[i]
    <3>1. i \in 1..Len(offs)
      BY <2>1
    <3>2. i \in 1..Len(offs \o vals) /\ (offs \o vals)[i] = offs[i]
      BY <3>1, <1>1, ConcatProperties
    <3>3. CellAt(Levels(is) \o (offs \o vals), Len(Levels(is)) + i) = (offs \o vals)[i]
      BY <1>1, <3>2, CellOfConcat
    <3> QED BY <1>1, <3>2, <3>3
  <2> DEFINE cell == CellAt(blk, off + i)[1]
             bgn == off + n + cell
             found == {v \in Values : \A k \in 1..ValLen[v] : CellAt(blk, bgn + k) = <<v, k>>}
  <2>3. ValueAt(blk, n, i) = IF cell = InvalidOff THEN Null
                             ELSE IF cell \in Nat /\ found # {} THEN CHOOSE v \in found : TRUE ELSE Garbage
    <3>1. kind # "fixed"
      BY <1>4
    <3>2. /\ kind = "var" /\ cell = InvalidOff => ValueAt(blk, n, i) = Null
          /\ ~(kind = "var" /\ cell = InvalidOff) =>
               ValueAt(blk, n, i) =
                 IF cell \in Nat /\ found # {} THEN CHOOSE v \in found : TRUE ELSE Garbage
      BY <3>1, Zenon DEF ValueAt
    <3> HIDE DEF cell, found, blk, n
    <3> QED BY <1>4, <3>2
  <2>4. CASE is[i].val = Null
    <3>1. cell = InvalidOff
      BY <2>1, <2>2, <2>4
    <3> QED BY <1>4, <2>2, <2>3, <2>4, <3>1
  <2>5. CASE is[i].val # Null
    <3>1. PICK c \in 0..Len(vals) : offs[i] = <<c>> /\ PlacedAt(c, vals, is[i].val)
      BY <2>1, <2>5
    <3>2. cell = c /\ c \in Nat /\ c # InvalidOff
      BY <1>1, <2>2, <3>1 DEF InvalidOff
    <3> DEFINE v == is[i].val
    <3>3. v \in Values /\ ValLen[v] \in Nat \ {0}
      BY <2>5, ContentAssumption DEF Written, Item, ColumnItem
    <3>4. ASSUME NEW k \in 1..ValLen[v]
          PROVE  CellAt(blk, bgn + k) = <<v, k>>
      <4>1. c + k \in 1..Len(vals) /\ vals[c + k] = <<v, k>>
        <5>1. c + ValLen[v] <= Len(vals) /\ \A j \in 1..ValLen[v] : vals[c + j] = <<v, j>>
          BY <3>1 DEF PlacedAt
        <5>2. Len(vals) \in Nat
          BY <1>1
        <5> HIDE DEF v, bgn, cell
        <5>3. c + k \in 1..Len(vals)
          BY <3>2, <3>3, <5>1, <5>2
        <5> QED BY <5>1, <5>3
      <4>2. bgn + k = Len(Levels(is) \o offs) + (c + k) /\ Levels(is) \o offs \in Seq(Cell)
        <5>1. Levels(is) \o offs \in Seq(Cell) /\ Len(Levels(is) \o offs) = off + n
          <6>1. /\ Levels(is) \o offs \in Seq(Cell)
                /\ Len(Levels(is) \o offs) = Len(Levels(is)) + Len(offs)
            BY <1>1, ConcatProperties
          <6> QED BY <1>1, <2>1, <6>1
        <5>2. bgn + k = (off + n) + (c + k)
          <6> HIDE DEF cell, off, n
          <6> QED BY <1>1, <3>2, <3>3
        <5> QED BY <5>1, <5>2
      <4>3. blk = (Levels(is) \o offs) \o vals
        <5> DEFINE l == Levels(is)
        <5>1. l \in Seq(Cell) /\ offs \in Seq(Cell) /\ vals \in Seq(Cell)
          BY <1>1
        <5> HIDE DEF l
        <5>2. (l \o offs) \o vals = l \o (offs \o vals)
          BY <5>1, CellsConcat, SMTT(20)
        <5> QED BY <5>2 DEF l
      <4>4. CellAt((Levels(is) \o offs) \o vals, Len(Levels(is) \o offs) + (c + k)) = vals[c + k]
        BY <4>1, <4>2, CellOfConcat
      <4> QED BY <4>1, <4>2, <4>3, <4>4
    <3>5. v \in found
      BY <3>3, <3>4
    <3>6. ASSUME NEW w \in found PROVE w = v
      <4>1. w \in Values /\ ValLen[w] \in Nat \ {0}
        BY ContentAssumption
      <4>2. CellAt(blk, bgn + 1) = <<w, 1>>
        <5>1. 1 \in 1..ValLen[w] BY <4>1
        <5> QED BY <3>6, <5>1
      <4>3. CellAt(blk, bgn + 1) = <<v, 1>>
        <5>1. 1 \in 1..ValLen[v] BY <3>3
        <5> QED BY <3>4, <5>1
      <4>4. <<w, 1>> = <<v, 1>>
        BY <4>2, <4>3
      <4> QED BY <4>4
    <3>7. (CHOOSE w \in found : TRUE) = v
      <4> HIDE DEF found, v
      <4> QED BY <3>5, <3>6
    <3>8. ValueAt(blk, n, i) = v
      <4>1. found # {} /\ cell \in Nat /\ cell # InvalidOff
        BY <3>2, <3>5
      <4> HIDE DEF found, v, cell, blk, n
      <4> QED BY <2>3, <3>7, <4>1
    <3> QED BY <1>4, <2>2, <3>8
  <2> QED BY <2>4, <2>5
<1> QED BY <1>2, <1>3, <1>4

\* The counters of a CAB tell one of three types of it (CABItemInfo::getType).
LEMMA TypeOfCAB ==
  ASSUME NEW ii
  PROVE  GetType(ii) \in {"trivial", "allnull", "crucial"}
  BY DEF GetType

\* A CAB that its counters call crucial has a value that is not null, so its values were stored.
LEMMA CrucialHasValue ==
  ASSUME NEW is \in Seq(Item), NEW ii, Counts(ii, is), GetType(ii) = "crucial"
  PROVE  \E k \in 1..Len(is) : is[k].val # Null
<1> SUFFICES ASSUME \A k \in 1..Len(is) : is[k].val = Null
             PROVE  FALSE
  OBVIOUS
<1>1. is \in Seq(ColumnItem)
  BY DEF Item
<1>2. \A k \in 1..Len(is) : is[k] \in NullItems
  <2> SUFFICES ASSUME NEW k \in 1..Len(is) PROVE is[k] \in NullItems
    OBVIOUS
  <2>1. is[k] \in Item /\ is[k].val = Null
    OBVIOUS
  <2> QED BY <2>1, ConstantsAssumption DEF Item, ColumnItem, NullItems
<1>3. NullsIn(is) = Len(is)
  BY <1>1, <1>2, CountBounds, CountForms
<1> QED BY <1>3 DEF Counts, GetType

\* The three ways ColumnItemArray reads a CAB: a trivial one without its block, an all-null
\* one with its levels only, a crucial one with levels and values.
LEMMA ReadForms ==
  ASSUME NEW info
  PROVE  LET n   == info.item.item_num
             blk == bytes[info.file_off]
             r(i) == Decode(LevelAt(blk, 0, RepBits, i - 1))
             d(i) == LevelAt(blk, RepEnd(n), DefBits, i - 1)
             type == GetType(info.item)
         IN  /\ type = "trivial" => ReadContent(info) = [i \in 1..n |-> Trivial]
             /\ type = "allnull" =>
                  ReadContent(info) = [i \in 1..n |-> [rep |-> r(i), def |-> d(i), val |-> Null]]
             /\ type = "crucial" =>
                  ReadContent(info) = [i \in 1..n |-> [rep |-> r(i), def |-> d(i), val |-> ValueAt(blk, n, i)]]
<1> DEFINE n   == info.item.item_num
           blk == bytes[info.file_off]
           r(i) == Decode(LevelAt(blk, 0, RepBits, i - 1))
           d(i) == LevelAt(blk, RepEnd(n), DefBits, i - 1)
           type == GetType(info.item)
           level(i) == [rep |-> r(i), def |-> d(i), val |-> Null]
           item(i) == CASE type = "trivial" -> Trivial
                        [] type = "allnull" -> level(i)
                        [] type = "crucial" -> [level(i) EXCEPT !.val = ValueAt(blk, n, i)]
<1>1. ReadContent(info) = [i \in 1..n |-> item(i)]
  BY Zenon DEF ReadContent
<1>2. ASSUME NEW i
      PROVE  /\ type = "trivial" => item(i) = Trivial
             /\ type = "allnull" => item(i) = level(i)
             /\ type = "crucial" => item(i) = [rep |-> r(i), def |-> d(i), val |-> ValueAt(blk, n, i)]
  <2>1. [level(i) EXCEPT !.val = ValueAt(blk, n, i)] = [rep |-> r(i), def |-> d(i), val |-> ValueAt(blk, n, i)]
    <3> HIDE DEF r, d
    <3> QED OBVIOUS
  <2> HIDE DEF level, type, r, d
  <2> QED BY <2>1
<1>3. type = "trivial" => ReadContent(info) = [i \in 1..n |-> Trivial]
  BY <1>1, <1>2, Zenon
<1>4. type = "allnull" => ReadContent(info) = [i \in 1..n |-> level(i)]
  BY <1>1, <1>2, Zenon
<1>5. type = "crucial" =>
        ReadContent(info) = [i \in 1..n |-> [rep |-> r(i), def |-> d(i), val |-> ValueAt(blk, n, i)]]
  BY <1>1, <1>2, Zenon
<1> QED BY <1>3, <1>4, <1>5

\* A block whose bytes code its items, and whose counters fit them, is read as these items.
LEMMA BlockReads ==
  ASSUME kind \in Kinds, NEW info,
         disk[info.file_off] \in Seq(Written),
         Coded(kind, bytes[info.file_off], disk[info.file_off]),
         Len(disk[info.file_off]) = info.item.item_num,
         Sound(info)
  PROVE  ReadContent(info) = ReadBlock(info)
<1> DEFINE S == disk[info.file_off]
           n == info.item.item_num
           blk == bytes[info.file_off]
           r(i) == Decode(LevelAt(blk, 0, RepBits, i - 1))
           d(i) == LevelAt(blk, RepEnd(n), DefBits, i - 1)
           type == GetType(info.item)
<1>1. S \in Seq(Written) /\ n = Len(S) /\ Coded(kind, blk, S)
  OBVIOUS
<1>2. \A i \in 1..n : /\ S[i] \in Written /\ S[i] \in ColumnItem
                      /\ r(i) = S[i].rep /\ d(i) = S[i].def
  <2> SUFFICES ASSUME NEW i \in 1..n
               PROVE  /\ S[i] \in Written /\ S[i] \in ColumnItem
                      /\ r(i) = S[i].rep /\ d(i) = S[i].def
    OBVIOUS
  <2>1. i \in 1..Len(S)
    BY <1>1
  <2>2. S[i] \in Written
    BY <1>1, <2>1
  <2>3. /\ LevelAt(blk, 0, RepBits, i - 1) = Encode(S[i].rep)
        /\ LevelAt(blk, RepEnd(Len(S)), DefBits, i - 1) = S[i].def
    BY <1>1, <2>1, CodedLevels
  <2>4. Decode(Encode(S[i].rep)) = S[i].rep
    BY <2>2, LevelsFit
  <2> QED BY <1>1, <2>2, <2>3, <2>4 DEF Written, Item
<1>3. ReadBlock(info) = ReadOf(S, info.item)
  BY ReadBlockOf
<1>4. CASE type = "trivial"
  <2>1. ReadOf(S, info.item) = [k \in 1..n |-> Trivial]
    BY <1>4, Zenon DEF ReadOf
  <2> QED BY <1>3, <1>4, <2>1, ReadForms
<1>5. CASE type = "allnull"
  <2>1. ReadOf(S, info.item) = [k \in 1..n |-> [S[k] EXCEPT !.val = Null]]
    <3>1. type # "trivial"
      BY <1>5
    <3> QED BY <1>5, <3>1 DEF ReadOf
  <2>2. \A k \in 1..n : [S[k] EXCEPT !.val = Null] = [rep |-> r(k), def |-> d(k), val |-> Null]
    <3> HIDE DEF r, d, S, n
    <3> QED BY <1>2 DEF ColumnItem
  <2>3. ReadContent(info) = [i \in 1..n |-> [rep |-> r(i), def |-> d(i), val |-> Null]]
    BY <1>5, ReadForms
  <2> QED BY <1>3, <2>1, <2>2, <2>3, Zenon
<1>6. CASE type = "crucial"
  <2>1. ReadOf(S, info.item) = [k \in 1..n |-> S[k]]
    <3>1. type # "trivial" /\ type # "allnull"
      BY <1>6
    <3> QED BY <1>6, <3>1 DEF ReadOf
  <2>2. [k \in 1..n |-> S[k]] = S
    <3> HIDE DEF S, n
    <3> QED BY <1>1
  <2>3. S \in Seq(Item) /\ Counts(info.item, S)
    BY <1>3, <2>1, <2>2 DEF Sound
  <2>4. \E k \in 1..Len(S) : S[k].val # Null
    BY <1>6, <2>3, CrucialHasValue
  <2>5. PICK offs \in Seq(Cell), vals \in Seq(Cell) :
          blk = Levels(S) \o (offs \o vals) /\ Placed(kind, offs, vals, S)
    BY <1>1, <2>4 DEF Coded
  <2>6. \A k \in 1..n : ValueAt(blk, n, k) = S[k].val
    <3> HIDE DEF S, n, blk
    <3> QED BY <1>1, <2>5, PlacedValues
  <2>7. \A k \in 1..n : S[k] = [rep |-> r(k), def |-> d(k), val |-> ValueAt(blk, n, k)]
    <3> HIDE DEF r, d, S, n, blk
    <3> QED BY <1>2, <2>6 DEF ColumnItem
  <2>8. ReadContent(info) = [i \in 1..n |-> [rep |-> r(i), def |-> d(i), val |-> ValueAt(blk, n, i)]]
    BY <1>6, ReadForms
  <2> QED BY <1>3, <2>1, <2>7, <2>8, Zenon
<1> QED BY <1>4, <1>5, <1>6, TypeOfCAB

-----------------------------------------------------------------------------
(* Reloading a tail (ColumnItemArray::copyContent).                        *)

\* Behind the first part of a sequence is the second.
LEMMA RestOfConcat ==
  ASSUME NEW a \in Seq(Cell), NEW b \in Seq(Cell)
  PROVE  SubSeq(a \o b, Len(a) + 1, Len(a \o b)) = b
<1> DEFINE s == a \o b
           t == SubSeq(s, Len(a) + 1, Len(s))
<1>1. s \in Seq(Cell) /\ Len(s) = Len(a) + Len(b) /\ Len(a) \in Nat /\ Len(b) \in Nat
  BY ConcatProperties
<1>2. \A i \in 1..Len(b) : s[Len(a) + i] = b[i]
  <2> SUFFICES ASSUME NEW i \in 1..Len(b) PROVE s[Len(a) + i] = b[i]
    OBVIOUS
  <2>1. Len(a) + i \in 1..(Len(a) + Len(b)) /\ ~(Len(a) + i <= Len(a)) /\ (Len(a) + i) - Len(a) = i
    BY <1>1
  <2> QED BY <2>1, ConcatProperties
<1> HIDE DEF s
<1>3. /\ t \in Seq(Cell) /\ Len(t) = Len(b)
      /\ \A i \in 1..Len(b) : t[i] = s[Len(a) + i]
  BY <1>1
<1> HIDE DEF t
<1>4. t = b
  BY <1>2, <1>3, SeqEqual
<1> QED BY <1>4 DEF t, s

\* An aligned capacity is a multiple of the alignment and is not smaller.
LEMMA AlignedSize ==
  ASSUME NEW n \in Nat
  PROVE  /\ CalcAlignSize(n, ByteBits) \in Nat
         /\ CalcAlignSize(n, ByteBits) % ByteBits = 0
         /\ CalcAlignSize(n, ByteBits) >= n
<1>1. ByteBits \in Nat \ {0}
  BY ContentAssumption
<1> DEFINE m == n + ByteBits - 1
           q == m \div ByteBits
           r == m % ByteBits
<1>2. m \in Nat
  BY <1>1
<1>3. q \in Nat /\ r \in 0..(ByteBits - 1) /\ m = q * ByteBits + r
  <2> HIDE DEF m
  <2> QED BY <1>1, <1>2, DivMod
<1>4. m = n + ByteBits - 1 /\ CalcAlignSize(n, ByteBits) = q * ByteBits
  BY DEF CalcAlignSize
<1> HIDE DEF m, q, r
<1>5. q * ByteBits \in Nat /\ q * ByteBits >= n
  BY <1>1, <1>2, <1>3, <1>4
<1>6. (q * ByteBits + 0) % ByteBits = 0
  BY <1>1, <1>3, DivModUnique
<1>7. q * ByteBits + 0 = q * ByteBits
  BY <1>5
<1> QED BY <1>4, <1>5, <1>6, <1>7

\* The fields of the unit that a reloaded tail is copied to (ColumnItemArray::copyContent): its
\* capacity,
CopiedCap(info) ==
  IF CalcAlignSize(info.item.item_num, ByteBits) > MajorCap(info.item.item_num)
  THEN CalcAlignSize(info.item.item_num, ByteBits) ELSE MajorCap(info.item.item_num)

\* its levels, which are all 0 in a trivial CAB that has no block,
CopiedLevels(info, bgn, width) ==
  [i \in 1..info.item.item_num |->
     IF GetType(info.item) = "trivial" THEN 0 ELSE LevelAt(bytes[info.file_off], bgn, width, i - 1)]

\* one cell per item, the value or its offset, with a default where no values were stored,
CopiedSlots(info, none) ==
  [i \in 1..info.item.item_num |->
     IF GetType(info.item) = "crucial"
     THEN CellAt(bytes[info.file_off], DefEnd(info.item.item_num) + i) ELSE <<none>>]

\* and the bytes of variable-length values, which stand behind their offsets.
CopiedValues(info) ==
  SubSeq(bytes[info.file_off], DefEnd(info.item.item_num) + info.item.item_num + 1,
         Len(bytes[info.file_off]))

\* CopyContent has these fields.
LEMMA CopyFields ==
  ASSUME NEW info, kind \in {"fixed", "var"}
  PROVE  CopyContent(info) =
           [cap  |-> CopiedCap(info),
            reps |-> CopiedLevels(info, 0, RepBits),
            defs |-> CopiedLevels(info, RepEnd(info.item.item_num), DefBits),
            offs |-> IF kind = "fixed" THEN <<>> ELSE CopiedSlots(info, InvalidOff),
            vals |-> IF kind = "fixed" THEN CopiedSlots(info, Null)
                     ELSE IF GetType(info.item) = "crucial" THEN CopiedValues(info) ELSE <<>>,
            cur_off |-> IF kind = "var" /\ GetType(info.item) = "crucial"
                        THEN Len(CopiedValues(info)) ELSE 0]
<1> DEFINE n     == info.item.item_num
           type  == GetType(info.item)
           blk   == bytes[info.file_off]
           acap  == CalcAlignSize(n, ByteBits)
           bcap  == MajorCap(n)
           ccap  == IF acap > bcap THEN acap ELSE bcap
           avals == SubSeq(blk, DefEnd(n) + n + 1, Len(blk))
           slots(none) == [i \in 1..n |-> IF type = "crucial" THEN CellAt(blk, DefEnd(n) + i) ELSE <<none>>]
           areps == [i \in 1..n |-> IF type = "trivial" THEN 0 ELSE LevelAt(blk, 0, RepBits, i - 1)]
           adefs == [i \in 1..n |-> IF type = "trivial" THEN 0 ELSE LevelAt(blk, RepEnd(n), DefBits, i - 1)]
           copied == [NewUnit(ccap, 0) EXCEPT !.reps = areps, !.defs = adefs]
<1>1. CopyContent(info) =
        IF kind = "fixed" THEN [copied EXCEPT !.vals = slots(Null)]
        ELSE IF type # "crucial" THEN [copied EXCEPT !.offs = slots(InvalidOff)]
        ELSE [copied EXCEPT !.offs = slots(InvalidOff), !.vals = avals, !.cur_off = Len(avals)]
  BY Zenon DEF CopyContent
<1>2. copied = [cap |-> ccap, reps |-> areps, defs |-> adefs, offs |-> <<>>, vals |-> <<>>, cur_off |-> 0]
  <2> HIDE DEF ccap, areps, adefs
  <2>1. NewUnit(ccap, 0) = [cap |-> ccap, reps |-> <<>>, defs |-> <<>>, offs |-> <<>>, vals |-> <<>>, cur_off |-> 0]
    BY DEF NewUnit
  <2> DEFINE none == <<>>
             made == [cap |-> ccap, reps |-> none, defs |-> none, offs |-> none, vals |-> none, cur_off |-> 0]
  <2> HIDE DEF none
  <2> DEFINE half == [cap |-> ccap, reps |-> areps, defs |-> none, offs |-> none, vals |-> none, cur_off |-> 0]
  <2>2. [made EXCEPT !.reps = areps] = half
    OBVIOUS
  <2>3. [half EXCEPT !.defs = adefs]
          = [cap |-> ccap, reps |-> areps, defs |-> adefs, offs |-> none, vals |-> none, cur_off |-> 0]
    OBVIOUS
  <2>4. [made EXCEPT !.reps = areps, !.defs = adefs] = [[made EXCEPT !.reps = areps] EXCEPT !.defs = adefs]
    BY Zenon
  <2> QED BY <2>1, <2>2, <2>3, <2>4 DEF none
<1> DEFINE sn == slots(Null)
           si == slots(InvalidOff)
<1>3. CopyContent(info) =
        IF kind = "fixed" THEN [copied EXCEPT !.vals = sn]
        ELSE IF type # "crucial" THEN [copied EXCEPT !.offs = si]
        ELSE [copied EXCEPT !.offs = si, !.vals = avals, !.cur_off = Len(avals)]
  BY <1>1
<1>4. /\ ccap = CopiedCap(info) /\ areps = CopiedLevels(info, 0, RepBits)
      /\ adefs = CopiedLevels(info, RepEnd(info.item.item_num), DefBits)
      /\ sn = CopiedSlots(info, Null) /\ si = CopiedSlots(info, InvalidOff)
      /\ avals = CopiedValues(info) /\ type = GetType(info.item)
  BY Zenon DEF CopiedCap, CopiedLevels, CopiedSlots, CopiedValues
<1> HIDE DEF sn, si, avals, copied, areps, adefs, ccap, type
<1>5. CopyContent(info) =
        [cap |-> ccap, reps |-> areps, defs |-> adefs,
         offs |-> IF kind = "fixed" THEN <<>> ELSE si,
         vals |-> IF kind = "fixed" THEN sn ELSE IF type = "crucial" THEN avals ELSE <<>>,
         cur_off |-> IF kind = "var" /\ type = "crucial" THEN Len(avals) ELSE 0]
  <2>4. CASE kind = "fixed"
    BY <1>2, <1>3, <2>4
  <2>5. CASE kind = "var" /\ type # "crucial"
    BY <1>2, <1>3, <2>5
  <2>6. CASE kind = "var" /\ type = "crucial"
    BY <1>2, <1>3, <2>6
  <2> QED BY <2>4, <2>5, <2>6
<1> QED BY <1>4, <1>5, Zenon

\* What is read of a sound block are items of the column's path, the first of which begins a record.
LEMMA ReadWritten ==
  ASSUME NEW info, Sound(info),
         GetType(info.item) = "trivial" \/
           (disk[info.file_off] \in Seq(Written) /\ BeginsRecord(disk[info.file_off])
             /\ Len(disk[info.file_off]) = info.item.item_num)
  PROVE  ReadBlock(info) \in Seq(Written) /\ BeginsRecord(ReadBlock(info))
<1> DEFINE S == disk[info.file_off]
           R == ReadBlock(info)
           n == info.item.item_num
           type == GetType(info.item)
<1>1. R \in Seq(Item) /\ Len(R) = n /\ n \in Nat
  BY DEF Sound, Counts
<1>2. R = ReadOf(S, info.item)
  BY ReadBlockOf
<1>3. \A k \in 1..n : IF type = "trivial" THEN R[k] = Trivial ELSE R[k].rep = S[k].rep
  <2> SUFFICES ASSUME NEW k \in 1..n
               PROVE  IF type = "trivial" THEN R[k] = Trivial ELSE R[k].rep = S[k].rep
    OBVIOUS
  <2>1. CASE type = "trivial"
    BY <1>2, <2>1 DEF ReadOf
  <2>2. CASE type = "allnull"
    <3>1. type # "trivial" BY <2>2
    <3>2. R[k] = [S[k] EXCEPT !.val = Null]
      BY <1>2, <2>2, <3>1 DEF ReadOf
    <3>3. S[k] \in ColumnItem
      <4>1. S \in Seq(Written) /\ Len(S) = n
        BY <3>1
      <4> QED BY <4>1 DEF Written, Item
    <3> HIDE DEF R, S
    <3> QED BY <3>1, <3>2, <3>3 DEF ColumnItem
  <2>3. CASE type = "crucial"
    <3>1. type # "trivial" /\ type # "allnull" BY <2>3
    <3>2. R[k] = S[k]
      BY <1>2, <2>3, <3>1 DEF ReadOf
    <3> HIDE DEF R, S
    <3> QED BY <3>1, <3>2
  <2> QED BY <2>1, <2>2, <2>3, TypeOfCAB
<1>4. ASSUME NEW k \in 1..n PROVE R[k] \in Written
  <2>1. R[k] \in Item
    BY <1>1
  <2>2. R[k].rep \in RepLevels \cup {0}
    <3>1. CASE type = "trivial"
      BY <1>3, <3>1 DEF Trivial
    <3>2. CASE type # "trivial"
      <4>1. S \in Seq(Written) /\ Len(S) = n
        BY <3>2
      <4>2. S[k].rep \in RepLevels \cup {0}
        <5> HIDE DEF S
        <5> QED BY <4>1 DEF Written
      <4>3. R[k].rep = S[k].rep
        BY <1>3, <3>2
      <4> QED BY <4>2, <4>3
    <3> QED BY <3>1, <3>2
  <2> QED BY <2>1, <2>2 DEF Written
<1>5. R \in Seq(Written)
  <2> HIDE DEF R
  <2> QED BY <1>1, <1>4
<1>6. BeginsRecord(R)
  <2> SUFFICES ASSUME R # <<>> PROVE R[1].rep = 0
    BY DEF BeginsRecord
  <2>1. 1 \in 1..n
    <3> HIDE DEF R
    <3> QED BY <1>1
  <2>2. CASE type = "trivial"
    BY <1>3, <2>1, <2>2 DEF Trivial
  <2>3. CASE type # "trivial"
    <3>1. S \in Seq(Written) /\ Len(S) = n /\ BeginsRecord(S)
      BY <2>3
    <3>2. S # <<>>
      <4> HIDE DEF S, n
      <4> QED BY <2>1, <3>1
    <3> QED BY <1>3, <2>1, <2>3, <3>1, <3>2 DEF BeginsRecord
  <2> QED BY <2>2, <2>3
<1> QED BY <1>5, <1>6

\* The unit a tail is reloaded into holds the items that are read of the tail's block: levels,
\* values and, for variable-length values, the offset behind the last one.
LEMMA CopyHolds ==
  ASSUME kind \in Kinds, NEW info,
         disk[info.file_off] \in Seq(Written), BeginsRecord(disk[info.file_off]),
         Coded(kind, bytes[info.file_off], disk[info.file_off]),
         Len(disk[info.file_off]) = info.item.item_num,
         Sound(info)
  PROVE  LET u == CopyContent(info)
             is == ReadBlock(info)
         IN  /\ u \in Unit /\ u.cap % ByteBits = 0
             /\ u.reps = Reps(is) /\ u.defs = Defs(is)
             /\ Placed(kind, u.offs, u.vals, is)
             /\ kind = "var" => u.cur_off = Len(u.vals)
<1> DEFINE S == disk[info.file_off]
           R == ReadBlock(info)
           u == CopyContent(info)
           n == info.item.item_num
           blk == bytes[info.file_off]
           type == GetType(info.item)
           avals == SubSeq(blk, DefEnd(n) + n + 1, Len(blk))
           slots(none) == [i \in 1..n |-> IF type = "crucial" THEN CellAt(blk, DefEnd(n) + i) ELSE <<none>>]
<1>1. S \in Seq(Written) /\ n = Len(S) /\ Coded(kind, blk, S) /\ n \in Nat
  OBVIOUS
<1>2. R \in Seq(Written) /\ Len(R) = n /\ R = ReadOf(S, info.item) /\ Counts(info.item, R) /\ R \in Seq(Item)
  BY ReadWritten, ReadBlockOf DEF Sound, Counts
<1>3. kind \in {"fixed", "var"}
  BY ContentAssumption
<1>4. \A k \in 1..n :
        R[k] = IF type = "trivial" THEN Trivial
               ELSE IF type = "allnull" THEN [S[k] EXCEPT !.val = Null] ELSE S[k]
  <2> SUFFICES ASSUME NEW k \in 1..n
               PROVE  R[k] = IF type = "trivial" THEN Trivial
                             ELSE IF type = "allnull" THEN [S[k] EXCEPT !.val = Null] ELSE S[k]
    OBVIOUS
  <2>1. CASE type = "trivial"
    BY <1>2, <2>1 DEF ReadOf
  <2>2. CASE type = "allnull"
    <3>1. type # "trivial" BY <2>2
    <3> QED BY <1>2, <2>2, <3>1 DEF ReadOf
  <2>3. CASE type = "crucial"
    <3>1. type # "trivial" /\ type # "allnull" BY <2>3
    <3> QED BY <1>2, <2>3, <3>1 DEF ReadOf
  <2> QED BY <2>1, <2>2, <2>3, TypeOfCAB
<1>5. \A k \in 1..n : S[k] \in Written /\ S[k] \in ColumnItem /\ R[k] \in Written
  <2> HIDE DEF S, R
  <2> QED BY <1>1, <1>2 DEF Written, Item
<1> HIDE DEF S, R, u
\* levels
<1>6. \A k \in 1..n :
        /\ Encode(R[k].rep) = IF type = "trivial" THEN 0 ELSE LevelAt(blk, 0, RepBits, k - 1)
        /\ R[k].def = IF type = "trivial" THEN 0 ELSE LevelAt(blk, RepEnd(n), DefBits, k - 1)
  <2> SUFFICES ASSUME NEW k \in 1..n
               PROVE  /\ Encode(R[k].rep) = IF type = "trivial" THEN 0 ELSE LevelAt(blk, 0, RepBits, k - 1)
                      /\ R[k].def = IF type = "trivial" THEN 0 ELSE LevelAt(blk, RepEnd(n), DefBits, k - 1)
    OBVIOUS
  <2>1. CASE type = "trivial"
    <3>1. R[k].rep = 0 /\ R[k].def = 0
      BY <1>4, <2>1 DEF Trivial
    <3>2. Encode(0) = 0
      <4>1. Single => MaxRep # 0
        <5> SUFFICES ASSUME Single, MaxRep = 0 PROVE FALSE
          OBVIOUS
        <5>1. RepLevels = {}
          BY ContentAssumption
        <5>2. Cardinality(RepLevels) = 0
          BY <5>1, FS_EmptySet
        <5> QED BY <5>2 DEF Single
      <4> QED BY <4>1 DEF Encode
    <3> QED BY <2>1, <3>1, <3>2
  <2>2. CASE type # "trivial"
    <3>1. R[k].rep = S[k].rep /\ R[k].def = S[k].def
      <4>1. R[k] = [S[k] EXCEPT !.val = Null] \/ R[k] = S[k]
        BY <1>4, <2>2
      <4> QED BY <1>5, <4>1 DEF ColumnItem
    <3>2. /\ LevelAt(blk, 0, RepBits, k - 1) = Encode(S[k].rep)
          /\ LevelAt(blk, RepEnd(Len(S)), DefBits, k - 1) = S[k].def
      BY <1>1, CodedLevels
    <3> QED BY <1>1, <2>2, <3>1, <3>2
  <2> QED BY <2>1, <2>2
<1>7. /\ [i \in 1..n |-> IF type = "trivial" THEN 0 ELSE LevelAt(blk, 0, RepBits, i - 1)] = Reps(R)
      /\ [i \in 1..n |-> IF type = "trivial" THEN 0 ELSE LevelAt(blk, RepEnd(n), DefBits, i - 1)] = Defs(R)
  BY <1>2, <1>6 DEF Reps, Defs
\* capacity
<1> DEFINE acap == CalcAlignSize(n, ByteBits)
           bcap == MajorCap(n)
           ccap == IF acap > bcap THEN acap ELSE bcap
<1>8. ccap \in Nat \ {0} /\ ccap % ByteBits = 0
  <2>1. acap \in Nat /\ acap % ByteBits = 0 /\ acap >= n
    BY <1>1, AlignedSize
  <2>2. RecdCap \in Nat \ {0} /\ RecdCap % ByteBits = 0
    BY ConstantsAssumption, ContentAssumption
  <2>3. CASE n > RecdCap
    <3>1. bcap = n BY <2>3 DEF MajorCap
    <3> HIDE DEF acap, n, bcap
    <3>2. ccap = acap
      BY <1>1, <2>1, <3>1
    <3>3. acap # 0
      BY <1>1, <2>1, <2>2, <2>3
    <3> QED BY <2>1, <3>2, <3>3
  <2>4. CASE ~(n > RecdCap)
    <3>1. bcap = RecdCap BY <2>4 DEF MajorCap
    <3> HIDE DEF acap, n, bcap
    <3>2. ccap = acap \/ ccap = RecdCap
      BY <3>1
    <3>3. ccap # 0
      BY <2>1, <2>2, <3>1
    <3> QED BY <2>1, <2>2, <3>2, <3>3
  <2> QED BY <2>3, <2>4
<1>9. u = [cap |-> ccap, reps |-> Reps(R), defs |-> Defs(R),
           offs |-> IF kind = "fixed" THEN <<>> ELSE slots(InvalidOff),
           vals |-> IF kind = "fixed" THEN slots(Null) ELSE IF type = "crucial" THEN avals ELSE <<>>,
           cur_off |-> IF kind = "var" /\ type = "crucial" THEN Len(avals) ELSE 0]
  <2> DEFINE sn == slots(Null)
             si == slots(InvalidOff)
  <2>1. /\ ccap = CopiedCap(info) /\ avals = CopiedValues(info)
        /\ sn = CopiedSlots(info, Null) /\ si = CopiedSlots(info, InvalidOff)
    BY Zenon DEF CopiedCap, CopiedSlots, CopiedValues
  <2>2. /\ CopiedLevels(info, 0, RepBits) = Reps(R)
        /\ CopiedLevels(info, RepEnd(info.item.item_num), DefBits) = Defs(R)
    BY <1>7 DEF CopiedLevels
  <2> HIDE DEF sn, si, avals, ccap
  <2>3. u = [cap |-> ccap, reps |-> Reps(R), defs |-> Defs(R),
             offs |-> IF kind = "fixed" THEN <<>> ELSE si,
             vals |-> IF kind = "fixed" THEN sn ELSE IF type = "crucial" THEN avals ELSE <<>>,
             cur_off |-> IF kind = "var" /\ type = "crucial" THEN Len(avals) ELSE 0]
    BY <1>3, <2>1, <2>2, CopyFields DEF u
  <2> QED BY <2>3 DEF sn, si, avals
<1>10. Reps(R) \in Seq(Nat) /\ Defs(R) \in Seq(Nat)
  BY <1>2, LevelSeqs
<1> HIDE DEF ccap
\* values
<1>11. CASE type # "crucial"
  <2>1. \A k \in 1..n : R[k].val = Null
    <3> SUFFICES ASSUME NEW k \in 1..n PROVE R[k].val = Null
      OBVIOUS
    <3>1. R[k] = Trivial \/ R[k] = [S[k] EXCEPT !.val = Null]
      BY <1>4, <1>11, TypeOfCAB
    <3> QED BY <1>5, <3>1 DEF Trivial, ColumnItem
  <2> DEFINE nulls == [i \in 1..n |-> <<Null>>]
             nones == [i \in 1..n |-> <<InvalidOff>>]
  <2>2. slots(Null) = nulls /\ slots(InvalidOff) = nones
    BY <1>11
  <2>3. <<Null>> \in Cell /\ <<InvalidOff>> \in Cell
    <3>1. \A x \in Int \cup Values \cup {Null} : <<x>> \in Cell
      BY Zenon DEF Cell
    <3>2. Null \in Int \cup Values \cup {Null} /\ InvalidOff \in Int \cup Values \cup {Null}
      BY DEF InvalidOff
    <3> QED BY <3>1, <3>2
  <2>4. nulls \in Seq(Cell) /\ nones \in Seq(Cell) /\ Len(nones) = n
    <3> HIDE DEF n
    <3> QED BY <1>1, <2>3
  <2>5. u = [cap |-> ccap, reps |-> Reps(R), defs |-> Defs(R),
             offs |-> IF kind = "fixed" THEN <<>> ELSE nones,
             vals |-> IF kind = "fixed" THEN nulls ELSE <<>>, cur_off |-> 0]
    <3> HIDE DEF nulls, nones
    <3> QED BY <1>9, <1>11, <2>2
  <2>6. kind = "fixed" => nulls = [i \in 1..Len(R) |-> <<R[i].val>>]
    BY <1>2, <2>1
  <2>7. \A i \in 1..Len(R) : nones[i] = <<InvalidOff>>
    BY <1>2
  <2> HIDE DEF nulls, nones
  <2>8. Placed(kind, u.offs, u.vals, R)
    <3>1. CASE kind = "fixed"
      BY <2>5, <2>6, <3>1 DEF Placed
    <3>2. CASE kind # "fixed"
      BY <1>2, <2>1, <2>4, <2>5, <2>7, <3>2 DEF Placed
    <3> QED BY <3>1, <3>2
  <2>9. u \in Unit
    <3>1. <<>> \in Seq(Cell) /\ 0 \in Int
      OBVIOUS
    <3> QED BY <1>8, <1>10, <2>4, <2>5, <3>1 DEF Unit
  <2>10. kind = "var" => u.cur_off = Len(u.vals)
    BY <2>5
  <2> QED BY <1>8, <2>5, <2>8, <2>9, <2>10 DEF u, R
<1>12. CASE type = "crucial"
  <2>1. R = S
    <3>1. \A k \in 1..n : R[k] = S[k]
      BY <1>4, <1>12
    <3> QED BY <1>1, <1>2, <3>1, SeqEqual
  <2>2. \E k \in 1..Len(R) : R[k].val # Null
    BY <1>2, <1>12, CrucialHasValue
  <2>3. PICK offs \in Seq(Cell), vals \in Seq(Cell) :
          blk = Levels(S) \o (offs \o vals) /\ Placed(kind, offs, vals, S)
    BY <1>1, <2>1, <2>2 DEF Coded
  <2>4. \A i \in 1..n : CellAt(blk, DefEnd(n) + i) = IF kind = "fixed" THEN <<S[i].val>> ELSE offs[i]
    BY <1>1, <2>3, PlacedValues
  <2>5. CASE kind = "fixed"
    <3>1. vals = [i \in 1..Len(S) |-> <<S[i].val>>] /\ offs = <<>>
      BY <2>3, <2>5 DEF Placed
    <3>2. slots(Null) = vals
      BY <1>1, <1>12, <2>4, <2>5, <3>1
    <3>3. u = [cap |-> ccap, reps |-> Reps(R), defs |-> Defs(R), offs |-> offs, vals |-> vals, cur_off |-> 0]
      BY <1>9, <2>5, <3>1, <3>2
    <3>4. u \in Unit /\ Placed(kind, u.offs, u.vals, R)
      BY <1>8, <1>10, <2>1, <2>3, <3>3 DEF Unit
    <3> QED BY <1>8, <2>5, <3>3, <3>4 DEF u, R
  <2>6. CASE kind = "var"
    <3>1. Len(offs) = n
      BY <1>1, <2>3, <2>6 DEF Placed
    <3>2. slots(InvalidOff) = offs
      <4> DEFINE f == slots(InvalidOff)
      <4>1. f = [i \in 1..n |-> offs[i]]
        BY <1>12, <2>4, <2>6
      <4>2. offs = [i \in 1..n |-> offs[i]]
        BY <3>1
      <4> QED BY <4>1, <4>2
    <3>3. avals = vals
      <4>1. Levels(S) \in Seq(Cell) /\ Len(Levels(S)) = DefEnd(n)
        BY <1>1, LevelParts
      <4> DEFINE l == Levels(S)
      <4>2. l \in Seq(Cell) /\ offs \in Seq(Cell) /\ vals \in Seq(Cell)
        BY <4>1
      <4> HIDE DEF l
      <4>3. l \o (offs \o vals) = (l \o offs) \o vals /\ l \o offs \in Seq(Cell)
            /\ Len(l \o offs) = Len(l) + Len(offs)
        BY <4>2, CellsConcat, SMTT(20)
      <4>4. SubSeq((l \o offs) \o vals, Len(l \o offs) + 1, Len((l \o offs) \o vals)) = vals
        BY <4>2, <4>3, RestOfConcat
      <4>5. blk = (l \o offs) \o vals /\ Len(l \o offs) = DefEnd(n) + n
        BY <2>3, <3>1, <4>1, <4>3 DEF l
      <4> HIDE DEF blk, n
      <4> QED BY <4>4, <4>5
    <3>4. u = [cap |-> ccap, reps |-> Reps(R), defs |-> Defs(R), offs |-> offs, vals |-> vals,
               cur_off |-> Len(vals)]
      <4> HIDE DEF avals
      <4> QED BY <1>9, <1>12, <2>6, <3>2, <3>3
    <3>5. u \in Unit /\ Placed(kind, u.offs, u.vals, R)
      <4>1. Len(vals) \in Int OBVIOUS
      <4> QED BY <1>8, <1>10, <2>1, <2>3, <3>4, <4>1 DEF Unit
    <3> QED BY <1>8, <2>6, <3>4, <3>5 DEF u, R
  <2> QED BY <1>3, <2>5, <2>6
<1> QED BY <1>11, <1>12

-----------------------------------------------------------------------------
(* Units and CABs in memory (ColumnItemArray, CAB).                        *)

\* No items have no levels and no bytes.
LEMMA LevelsOfEmpty ==
  /\ Reps(<<>>) = <<>> /\ Defs(<<>>) = <<>>
  /\ \A width \in Nat : LevelBytes(<<>>, width) = <<>>
<1>1. Reps(<<>>) = <<>> /\ Defs(<<>>) = <<>>
  BY DEF Reps, Defs
<1>2. ASSUME NEW width \in Nat PROVE LevelBytes(<<>>, width) = <<>>
  <2> DEFINE none == <<>>
  <2>1. none \in Seq(Nat) /\ Len(none) = 0 /\ 0 \in Nat
    OBVIOUS
  <2>2. width * Len(none) = 0
    BY <2>1
  <2>3. CalcBytesUsed(0) = 0
    <3>1. ByteBits \in Nat \ {0} BY ContentAssumption
    <3>2. 0 * ByteBits = 0 BY <3>1
    <3> QED BY <3>2, BytesUsedSplit
  <2>4. LevelBytes(none, width) \in Seq(Byte) /\ Len(LevelBytes(none, width)) = 0
    <3> HIDE DEF none
    <3> QED BY <2>1, <2>2, <2>3, LevelBytesType
  <2> DEFINE l == LevelBytes(none, width)
  <2>5. l = <<>>
    <3>1. l \in Seq(Byte) /\ Len(l) = 0 BY <2>4
    <3> HIDE DEF l
    <3> QED BY <3>1
  <2> QED BY <2>5
<1> QED BY <1>1, <1>2

\* A CAB of a single unit holds the items of the unit.
LEMMA HoldsOne ==
  ASSUME NEW k, NEW u \in Unit, u.cap % ByteBits = 0, NEW is \in Seq(Written),
         u.reps = Reps(is), u.defs = Defs(is), Placed(k, u.offs, u.vals, is),
         k = "var" => u.cur_off = Len(u.vals)
  PROVE  Holds(k, <<u>>, 0, is)
<1> DEFINE us == <<u>>
<1>1. us \in Seq(Unit) /\ Len(us) = 1 /\ us[1] = u /\ us # <<>> /\ DOMAIN us = 1..1 /\ us[Len(us)] = u
  OBVIOUS
<1> HIDE DEF us
<1>2. u.offs \in Seq(Cell) /\ u.vals \in Seq(Cell)
  BY DEF Unit
<1>3. Offs(us) = u.offs /\ Vals(us) = u.vals
  <2> DEFINE os == OffSegments(us)
             vs == ValSegments(us)
  <2>1. os[1] = u.offs /\ vs[1] = u.vals
    BY <1>1 DEF OffSegments, ValSegments
  <2> HIDE DEF os, vs
  <2>2. \A b : Concatenated(b, 1) = <<>> \o b[1]
    <3> SUFFICES ASSUME NEW b PROVE Concatenated(b, 1) = <<>> \o b[1]
      OBVIOUS
    <3>1. 0 \in Nat /\ 0 + 1 = 1
      OBVIOUS
    <3>2. Concatenated(b, 0) = <<>> /\ Concatenated(b, 0 + 1) = Concatenated(b, 0) \o b[0 + 1]
      BY <3>1, ConcatenatedStep
    <3> QED BY <3>1, <3>2
  <2>3. Concatenated(os, 1) = <<>> \o u.offs /\ Concatenated(vs, 1) = <<>> \o u.vals
    BY <2>1, <2>2
  <2>4. <<>> \o u.offs = u.offs /\ <<>> \o u.vals = u.vals
    BY <1>2
  <2> QED BY <1>1, <2>3, <2>4 DEF Offs, Vals, os, vs
<1>4. LevelsIn(us, is, <<>>, is) /\ <<>> \in Seq(Written)
  <2>1. is = <<>> \o is
    OBVIOUS
  <2>2. Len(<<>>) % ByteBits = 0
    <3>1. ByteBits \in Nat \ {0} BY ContentAssumption
    <3> QED BY <3>1
  <2>3. Concatenated(RepSegments(us), 0) = <<>> /\ Concatenated(DefSegments(us), 0) = <<>>
    BY ConcatenatedStep
  <2>4. RepBits \in Nat /\ DefBits \in Nat
    BY LevelWidths
  <2>5. LevelBytes(Reps(<<>>), RepBits) = <<>> /\ LevelBytes(Defs(<<>>), DefBits) = <<>>
    BY <2>4, LevelsOfEmpty
  <2>6. Len(us) - 1 = 0
    BY <1>1
  <2> QED BY <1>1, <2>1, <2>2, <2>3, <2>5, <2>6 DEF LevelsIn
<1>5. 0 + Len(u.vals) = Len(u.vals)
  BY <1>2
<1>6. Holds(k, us, 0, is)
  BY <1>1, <1>3, <1>4, <1>5 DEF Holds
<1> QED BY <1>6 DEF us

\* What an item adds to a unit: its offset, if values have variable length, the null's offset being
\* invalid,
OffOf(k, it, at) == IF k = "fixed" THEN <<>>
                    ELSE IF it.val = Null THEN <<<<InvalidOff>>>> ELSE <<<<at>>>>

\* and its value, of which a null has none if values have variable length.
ValOf(k, it) == IF k = "fixed" THEN <<<<it.val>>>>
                ELSE IF it.val = Null THEN <<>> ELSE ValueBytes(it.val)

\* These are cells.
LEMMA ItemCells ==
  ASSUME NEW k, NEW it \in Written, NEW at \in Int
  PROVE  OffOf(k, it, at) \in Seq(Cell) /\ ValOf(k, it) \in Seq(Cell)
<1>1. it.val \in Values \cup {Null}
  BY DEF Written, Item, ColumnItem
<1>2. \A x \in Int \cup Values \cup {Null} : <<x>> \in Cell
  BY Zenon DEF Cell
<1>3. <<InvalidOff>> \in Cell /\ <<at>> \in Cell /\ <<it.val>> \in Cell
  <2>1. InvalidOff \in Int BY DEF InvalidOff
  <2> QED BY <1>1, <1>2, <2>1
<1>4. it.val # Null => ValueBytes(it.val) \in Seq(Cell)
  <2> SUFFICES ASSUME it.val # Null PROVE ValueBytes(it.val) \in Seq(Cell)
    OBVIOUS
  <2> DEFINE v == it.val
  <2>1. v \in Values /\ ValLen[v] \in Nat
    BY <1>1, ContentAssumption
  <2> HIDE DEF v
  <2>2. \A j \in 1..ValLen[v] : <<v, j>> \in Cell
    BY <2>1 DEF Cell
  <2>3. [j \in 1..ValLen[v] |-> <<v, j>>] \in Seq(Cell)
    <3> DEFINE c(j) == <<v, j>>
    <3>1. \A j \in 1..ValLen[v] : c(j) \in Cell BY <2>2
    <3> HIDE DEF c
    <3>2. [j \in 1..ValLen[v] |-> c(j)] \in Seq(Cell) BY <2>1, <3>1
    <3> QED BY <3>2 DEF c
  <2> QED BY <2>3 DEF ValueBytes, v
<1>5. \A x \in Cell : <<x>> \in Seq(Cell)
  OBVIOUS
<1>6. <<>> \in Seq(Cell)
  OBVIOUS
<1>7. OffOf(k, it, at) \in Seq(Cell)
  BY <1>3, <1>5, <1>6, Zenon DEF OffOf
<1>8. ValOf(k, it) \in Seq(Cell)
  BY <1>3, <1>4, <1>5, <1>6, Zenon DEF ValOf
<1> QED BY <1>7, <1>8

\* WriteItem (ColumnItemArray::writeNull, writeText, writeBinVal) appends the two levels, the offset and the value.
LEMMA WriteFields ==
  ASSUME kind \in {"fixed", "var"}, NEW u \in Unit, NEW it \in Written
  PROVE  WriteItem(u, it) =
           [cap |-> u.cap, reps |-> Append(u.reps, Encode(it.rep)), defs |-> Append(u.defs, it.def),
            offs |-> u.offs \o OffOf(kind, it, u.cur_off), vals |-> u.vals \o ValOf(kind, it),
            cur_off |-> IF kind = "var" /\ it.val # Null THEN u.cur_off + ValLen[it.val] ELSE u.cur_off]
<1>1. u.offs \in Seq(Cell) /\ u.vals \in Seq(Cell)
  BY DEF Unit
<1> DEFINE off == OffOf(kind, it, u.cur_off)
           val == ValOf(kind, it)
           reps == Append(u.reps, Encode(it.rep))
           defs == Append(u.defs, it.def)
           cur2 == IF kind = "var" /\ it.val # Null THEN u.cur_off + ValLen[it.val] ELSE u.cur_off
           w == IF kind = "fixed" THEN WriteFixed(u, it.val) ELSE WriteVar(u, it.val)
<1>2. u = [cap |-> u.cap, reps |-> u.reps, defs |-> u.defs, offs |-> u.offs, vals |-> u.vals, cur_off |-> u.cur_off]
  BY DEF Unit
<1>3. w = [cap |-> u.cap, reps |-> u.reps, defs |-> u.defs, offs |-> u.offs \o off, vals |-> u.vals \o val,
           cur_off |-> cur2]
  <2>0. u.offs \o <<>> = u.offs /\ u.vals \o <<>> = u.vals
    BY <1>1
  <2>a. \A x \in Cell : Append(u.offs, x) = u.offs \o <<x>> /\ Append(u.vals, x) = u.vals \o <<x>>
    BY <1>1
  <2>b. <<InvalidOff>> \in Cell /\ <<u.cur_off>> \in Cell /\ <<it.val>> \in Cell
    <3>1. \A x \in Int \cup Values \cup {Null} : <<x>> \in Cell
      BY Zenon DEF Cell
    <3>2. /\ InvalidOff \in Int /\ u.cur_off \in Int
          /\ it.val \in Values \cup {Null}
      BY DEF InvalidOff, Unit, Written, Item, ColumnItem
    <3> QED BY <3>1, <3>2
  <2>1. CASE kind = "fixed"
    <3>1. off = <<>> /\ val = <<<<it.val>>>> /\ cur2 = u.cur_off
      BY <2>1 DEF OffOf, ValOf
    <3>2. w = [u EXCEPT !.vals = Append(u.vals, <<it.val>>)]
      BY <2>1 DEF WriteFixed
    <3> HIDE DEF off, val, w, cur2
    <3> QED BY <1>2, <2>0, <2>a, <2>b, <3>1, <3>2
  <2>2. CASE kind = "var" /\ it.val = Null
    <3>1. off = <<<<InvalidOff>>>> /\ val = <<>> /\ cur2 = u.cur_off
      BY <2>2 DEF OffOf, ValOf
    <3>2. w = [u EXCEPT !.offs = Append(u.offs, <<InvalidOff>>)]
      BY <2>2 DEF WriteVar
    <3> HIDE DEF off, val, w, cur2
    <3> QED BY <1>2, <2>0, <2>a, <2>b, <3>1, <3>2
  <2>3. CASE kind = "var" /\ it.val # Null
    <3>1. off = <<<<u.cur_off>>>> /\ val = ValueBytes(it.val) /\ cur2 = u.cur_off + ValLen[it.val]
      BY <2>3 DEF OffOf, ValOf
    <3>2. w = [u EXCEPT !.offs = Append(u.offs, <<u.cur_off>>), !.vals = u.vals \o ValueBytes(it.val),
                        !.cur_off = u.cur_off + ValLen[it.val]]
      BY <2>3 DEF WriteVar
    <3> DEFINE vb == ValueBytes(it.val)
    <3>3. val = vb BY <3>1
    <3>4. w = [u EXCEPT !.offs = Append(u.offs, <<u.cur_off>>), !.vals = u.vals \o vb,
                        !.cur_off = u.cur_off + ValLen[it.val]]
      BY <3>2
    <3> HIDE DEF off, val, w, cur2, vb
    <3> QED BY <1>2, <2>0, <2>a, <2>b, <3>1, <3>3, <3>4
  <2> QED BY <2>1, <2>2, <2>3
<1>4. WriteItem(u, it) = [w EXCEPT !.reps = Append(@, Encode(it.rep)), !.defs = Append(@, it.def)]
  BY Zenon DEF WriteItem
<1>5. w.reps = u.reps /\ w.defs = u.defs
  <2> HIDE DEF w
  <2> QED BY <1>3
<1>6. [w EXCEPT !.reps = Append(@, Encode(it.rep)), !.defs = Append(@, it.def)] = [w EXCEPT !.reps = reps, !.defs = defs]
  <2> HIDE DEF w
  <2>1. [w EXCEPT !.reps = Append(@, Encode(it.rep)), !.defs = Append(@, it.def)]
          = [w EXCEPT !.reps = Append(w.reps, Encode(it.rep)), !.defs = Append(w.defs, it.def)]
    OBVIOUS
  <2> QED BY <1>5, <2>1
<1> DEFINE uoffs == u.offs \o off
           uvals == u.vals \o val
           half == [cap |-> u.cap, reps |-> reps, defs |-> u.defs, offs |-> uoffs, vals |-> uvals, cur_off |-> cur2]
<1>7. w = [cap |-> u.cap, reps |-> u.reps, defs |-> u.defs, offs |-> uoffs, vals |-> uvals, cur_off |-> cur2]
  BY <1>3
<1>8. [w EXCEPT !.reps = reps, !.defs = defs]
        = [cap |-> u.cap, reps |-> reps, defs |-> defs, offs |-> uoffs, vals |-> uvals, cur_off |-> cur2]
  <2> HIDE DEF w, reps, defs, uoffs, uvals, cur2
  <2>1. [w EXCEPT !.reps = reps] = half
    BY <1>7
  <2>2. [half EXCEPT !.defs = defs]
          = [cap |-> u.cap, reps |-> reps, defs |-> defs, offs |-> uoffs, vals |-> uvals, cur_off |-> cur2]
    OBVIOUS
  <2>3. [w EXCEPT !.reps = reps, !.defs = defs] = [[w EXCEPT !.reps = reps] EXCEPT !.defs = defs]
    BY Zenon
  <2> QED BY <2>1, <2>2, <2>3
<1> QED BY <1>4, <1>6, <1>8

\* A written item is placed behind the items before it: their offsets and values stay.
LEMMA PlacedAppend ==
  ASSUME NEW k, NEW is \in Seq(Written), NEW offs \in Seq(Cell), NEW vals \in Seq(Cell),
         Placed(k, offs, vals, is), NEW it \in Written
  PROVE  Placed(k, offs \o OffOf(k, it, Len(vals)), vals \o ValOf(k, it), Append(is, it))
<1> DEFINE js == Append(is, it)
           off == OffOf(k, it, Len(vals))
           val == ValOf(k, it)
           os == offs \o off
           vs == vals \o val
<1>1. Len(is) \in Nat /\ js \in Seq(Written) /\ Len(js) = Len(is) + 1 /\ js[Len(is) + 1] = it /\ \A i \in 1..Len(is) : js[i] = is[i]
  OBVIOUS
<1>2. off \in Seq(Cell) /\ val \in Seq(Cell)
  <2>1. Len(vals) \in Int OBVIOUS
  <2> QED BY <2>1, ItemCells
<1>3. CASE k = "fixed"
  <2>1. off = <<>> /\ val = <<<<it.val>>>>
    BY <1>3 DEF OffOf, ValOf
  <2>2. offs = <<>> /\ vals = [i \in 1..Len(is) |-> <<is[i].val>>]
    BY <1>3 DEF Placed
  <2> HIDE DEF js, off, val
  <2>3. os = <<>>
    BY <2>1, <2>2
  <2>4. vs = [i \in 1..Len(js) |-> <<js[i].val>>]
    <3> DEFINE ws == [i \in 1..Len(js) |-> <<js[i].val>>]
    <3>1. Len(vals) = Len(is) /\ \A i \in 1..Len(is) : vals[i] = <<is[i].val>>
      BY <2>2
    <3>2. vs \in Seq(Cell) /\ Len(vs) = Len(js) /\ \A i \in 1..Len(js) : vs[i] = <<js[i].val>>
      <4>1. vs = Append(vals, <<it.val>>) /\ <<it.val>> \in Cell
        <5>1. val[1] \in Cell /\ val[1] = <<it.val>> BY <1>2, <2>1
        <5> QED BY <2>1, <5>1
      <4> HIDE DEF vs
      <4> QED BY <1>1, <3>1, <4>1
    <3> HIDE DEF vs
    <3>3. vs = [i \in 1..Len(js) |-> vs[i]]
      BY <3>2
    <3> QED BY <3>2, <3>3
  <2> QED BY <1>3, <2>3, <2>4 DEF Placed, js, off, val
<1>4. CASE k # "fixed"
  <2>1. Len(offs) = Len(is)
    BY <1>4 DEF Placed
  <2>2. Len(off) = 1 /\ off[1] = (IF it.val = Null THEN <<InvalidOff>> ELSE <<Len(vals)>>)
    BY <1>4 DEF OffOf
  <2> HIDE DEF js, off, val
  <2>3. Len(os) = Len(js) /\ os[Len(is) + 1] = off[1] /\ \A i \in 1..Len(is) : os[i] = offs[i]
    <3>1. Len(os) = Len(offs) + Len(off) /\ \A i \in 1..(Len(offs) + Len(off)) :
            os[i] = IF i <= Len(offs) THEN offs[i] ELSE off[i - Len(offs)]
      BY <1>2, ConcatProperties
    <3>2. Len(offs) \in Nat OBVIOUS
    <3> HIDE DEF os
    <3>3. Len(is) + 1 \in 1..(Len(offs) + Len(off)) /\ ~(Len(is) + 1 <= Len(offs)) /\ (Len(is) + 1) - Len(offs) = 1
      BY <1>1, <2>1, <2>2
    <3>4. os[Len(is) + 1] = off[1]
      BY <3>1, <3>3
    <3>5. \A i \in 1..Len(is) : i \in 1..(Len(offs) + Len(off)) /\ i <= Len(offs)
      BY <1>1, <2>1, <2>2
    <3>6. \A i \in 1..Len(is) : os[i] = offs[i]
      BY <3>1, <3>5
    <3>7. Len(os) = Len(js)
      BY <1>1, <2>1, <2>2, <3>1
    <3> QED BY <3>4, <3>6, <3>7
  <2>4. Len(vs) = Len(vals) + Len(val) /\ Len(vals) \in Nat /\ Len(val) \in Nat
        /\ (\A i \in 1..Len(vals) : vs[i] = vals[i]) /\ \A i \in 1..Len(val) : vs[Len(vals) + i] = val[i]
    <3>1. Len(vs) = Len(vals) + Len(val) /\ \A i \in 1..(Len(vals) + Len(val)) :
            vs[i] = IF i <= Len(vals) THEN vals[i] ELSE val[i - Len(vals)]
      BY <1>2, ConcatProperties
    <3>2. Len(vals) \in Nat /\ Len(val) \in Nat BY <1>2
    <3> HIDE DEF vs
    <3>3. \A i \in 1..Len(val) : vs[Len(vals) + i] = val[i]
      <4> SUFFICES ASSUME NEW i \in 1..Len(val) PROVE vs[Len(vals) + i] = val[i] OBVIOUS
      <4>1. Len(vals) + i \in 1..(Len(vals) + Len(val)) /\ ~(Len(vals) + i <= Len(vals)) /\ (Len(vals) + i) - Len(vals) = i
        BY <3>2
      <4> QED BY <3>1, <4>1
    <3>4. \A i \in 1..Len(vals) : i \in 1..(Len(vals) + Len(val)) /\ i <= Len(vals)
      BY <3>2
    <3>5. \A i \in 1..Len(vals) : vs[i] = vals[i]
      BY <3>1, <3>4
    <3> QED BY <3>1, <3>2, <3>3, <3>5
  <2>5. ASSUME NEW i \in 1..Len(js)
        PROVE  IF js[i].val = Null THEN os[i] = <<InvalidOff>>
               ELSE \E c \in 0..Len(vs) : os[i] = <<c>> /\ PlacedAt(c, vs, js[i].val)
    <3>1. CASE i \in 1..Len(is)
      <4>1. js[i] = is[i] /\ os[i] = offs[i]
        BY <1>1, <2>3, <3>1
      <4>2. CASE is[i].val = Null
        <5>1. offs[i] = <<InvalidOff>>
          BY <1>4, <3>1, <4>2 DEF Placed
        <5> QED BY <4>1, <4>2, <5>1
      <4>3. CASE is[i].val # Null
        <5>1. PICK c \in 0..Len(vals) : offs[i] = <<c>> /\ PlacedAt(c, vals, is[i].val)
          BY <1>4, <3>1, <4>3 DEF Placed
        <5> DEFINE v == is[i].val
        <5>2. v \in Values /\ ValLen[v] \in Nat
          <6>1. is[i] \in Written BY <3>1
          <6>2. v \in Values \cup {Null}
            BY <6>1 DEF Written, Item, ColumnItem
          <6> QED BY <4>3, <6>2, ContentAssumption
        <5> HIDE DEF v
        <5>3. c + ValLen[v] <= Len(vals) /\ \A j \in 1..ValLen[v] : vals[c + j] = <<v, j>>
          BY <5>1 DEF PlacedAt, v
        <5>4. c \in 0..Len(vs) /\ PlacedAt(c, vs, v)
          <6> HIDE DEF vs
          <6>1. c \in 0..Len(vs) /\ c + ValLen[v] <= Len(vs)
            BY <2>4, <5>2, <5>3
          <6>2. \A j \in 1..ValLen[v] : c + j \in 1..Len(vals)
            BY <2>4, <5>2, <5>3
          <6>3. \A j \in 1..ValLen[v] : vs[c + j] = <<v, j>>
            BY <2>4, <5>3, <6>2
          <6> QED BY <6>1, <6>3 DEF PlacedAt
        <5> HIDE DEF vs, os
        <5> QED BY <4>1, <4>3, <5>1, <5>4 DEF v
      <4> QED BY <4>2, <4>3
    <3>2. CASE i = Len(is) + 1
      <4>1. js[i] = it /\ os[i] = off[1]
        BY <1>1, <2>3, <3>2
      <4>2. CASE it.val = Null
        BY <2>2, <4>1, <4>2
      <4>3. CASE it.val # Null
        <5>1. val = ValueBytes(it.val)
          BY <1>4, <4>3 DEF val, ValOf
        <5> DEFINE v == it.val
        <5>2. v \in Values /\ ValLen[v] \in Nat
          <6>2. v \in Values \cup {Null}
            BY DEF Written, Item, ColumnItem
          <6> QED BY <4>3, <6>2, ContentAssumption
        <5> HIDE DEF v
        <5>3. Len(val) = ValLen[v] /\ \A j \in 1..ValLen[v] : val[j] = <<v, j>>
          BY <5>1, <5>2 DEF ValueBytes, v
        <5>4. Len(vals) \in 0..Len(vs) /\ PlacedAt(Len(vals), vs, v)
          <6> HIDE DEF vs
          <6>1. Len(vals) \in 0..Len(vs) /\ Len(vals) + ValLen[v] <= Len(vs)
            BY <2>4, <5>2, <5>3
          <6>2. \A j \in 1..ValLen[v] : vs[Len(vals) + j] = <<v, j>>
            BY <2>4, <5>3
          <6> QED BY <6>1, <6>2 DEF PlacedAt
        <5>5. os[i] = <<Len(vals)>>
          BY <2>2, <4>1, <4>3
        <5> HIDE DEF vs, os
        <5> QED BY <4>1, <4>3, <5>4, <5>5 DEF v
      <4> QED BY <4>2, <4>3
    <3>3. i \in 1..Len(is) \/ i = Len(is) + 1
      BY <1>1
    <3> QED BY <3>1, <3>2, <3>3
  <2> HIDE DEF os, vs
  <2>6. Placed(k, os, vs, js)
    BY <1>4, <2>3, <2>5, Zenon DEF Placed
  <2> QED BY <2>6 DEF os, vs, js, off, val
<1> QED BY <1>3, <1>4

\* Concatenation of sequences of any type is associative.
LEMMA SeqsConcat ==
  ASSUME NEW S, NEW a \in Seq(S), NEW b \in Seq(S), NEW c \in Seq(S)
  PROVE  (a \o b) \o c = a \o (b \o c) /\ a \o b \in Seq(S) /\ Len(a \o b) = Len(a) + Len(b)
<1>1. (a \o b) \o c = a \o (b \o c)
  BY ConcatAssociative
<1>2. a \o b \in Seq(S) /\ Len(a \o b) = Len(a) + Len(b)
  BY ConcatProperties
<1> QED BY <1>1, <1>2

\* A sequence that is one element longer and agrees with the first one is its Append.
LEMMA AppendIs ==
  ASSUME NEW S, NEW s \in Seq(S), NEW x \in S, NEW t \in Seq(S), Len(t) = Len(s) + 1,
         \A i \in 1..Len(s) : t[i] = s[i], t[Len(s) + 1] = x
  PROVE  t = Append(s, x)
<1> DEFINE a == Append(s, x)
<1>1. Len(s) \in Nat /\ a \in Seq(S) /\ Len(a) = Len(s) + 1 /\ (\A i \in 1..Len(s) : a[i] = s[i]) /\ a[Len(s) + 1] = x
  OBVIOUS
<1> HIDE DEF a
<1>2. ASSUME NEW i \in 1..Len(t) PROVE t[i] = a[i]
  <2>1. i \in 1..Len(s) \/ i = Len(s) + 1
    BY <1>1
  <2> QED BY <1>1, <2>1
<1>3. t = a
  BY <1>1, <1>2, SeqEqual
<1> QED BY <1>3 DEF a

\* An item behind two parts is an item behind the second part.
LEMMA AppendConcat ==
  ASSUME NEW a \in Seq(Written), NEW b \in Seq(Written), NEW x \in Written
  PROVE  Append(a \o b, x) = a \o Append(b, x)
<1> DEFINE y == <<x>>
           ab == a \o b
<1>1. y \in Seq(Written)
  OBVIOUS
<1>2. ab \in Seq(Written) /\ ab \o y = a \o (b \o y)
  <2> HIDE DEF y
  <2> QED BY <1>1, SeqsConcat
<1>3. Append(b, x) = b \o y
  BY AppendIsConcat
<1>4. Append(ab, x) = ab \o y
  <2> HIDE DEF ab
  <2> QED BY <1>2, AppendIsConcat
<1> QED BY <1>2, <1>3, <1>4

\* Cells added to the last segment are added behind the concatenation.
LEMMA ConcatLast ==
  ASSUME NEW n \in Nat \ {0}, NEW b \in [1..n -> Seq(Cell)], NEW c, NEW x \in Seq(Cell),
         \A i \in 1..(n - 1) : c[i] = b[i], c[n] = b[n] \o x
  PROVE  /\ Concatenated(c, n - 1) = Concatenated(b, n - 1)
         /\ Concatenated(c, n) = Concatenated(b, n) \o x
         /\ Concatenated(b, n) \in Seq(Cell)
<1>1. n - 1 \in Nat /\ (n - 1) + 1 = n /\ n \in 1..n /\ 1..(n - 1) \subseteq 1..n
  OBVIOUS
<1>2. Concatenated(c, n - 1) = Concatenated(b, n - 1)
  BY <1>1, ConcatenatedSame
<1>3. Concatenated(b, (n - 1) + 1) = Concatenated(b, n - 1) \o b[(n - 1) + 1]
  BY <1>1, ConcatenatedStep
<1>4. Concatenated(c, (n - 1) + 1) = Concatenated(c, n - 1) \o c[(n - 1) + 1]
  BY <1>1, ConcatenatedStep
<1> DEFINE pre == Concatenated(b, n - 1)
           all == Concatenated(b, n)
           new == Concatenated(c, n)
           bn == b[n]
<1>5. pre \in Seq(Cell) /\ bn \in Seq(Cell)
  BY <1>1, ConcatenatedType
<1>6. all = pre \o bn /\ new = pre \o (bn \o x)
  BY <1>1, <1>2, <1>3, <1>4
<1> HIDE DEF pre, all, new, bn
<1>7. pre \o (bn \o x) = (pre \o bn) \o x /\ pre \o bn \in Seq(Cell)
  BY <1>5, CellsConcat, ZenonT(30)
<1> QED BY <1>2, <1>6, <1>7 DEF pre, all, new

\* The segments of the units, by their types.
LEMMA SegmentTypes ==
  ASSUME NEW us \in Seq(Unit)
  PROVE  /\ \A i \in 1..Len(us) :
              /\ OffSegments(us)[i] = us[i].offs /\ ValSegments(us)[i] = us[i].vals
              /\ RepSegments(us)[i] = LevelBytes(us[i].reps, RepBits)
              /\ DefSegments(us)[i] = LevelBytes(us[i].defs, DefBits)
              /\ us[i] \in Unit
              /\ us[i].offs \in Seq(Cell) /\ us[i].vals \in Seq(Cell)
              /\ us[i].reps \in Seq(Nat) /\ us[i].defs \in Seq(Nat)
              /\ us[i].cap \in Nat \ {0} /\ us[i].cur_off \in Int
         /\ Offs(us) \in Seq(Cell) /\ Vals(us) \in Seq(Cell)
<1>1. DOMAIN us = 1..Len(us) /\ Len(us) \in Nat
  OBVIOUS
<1>2. \A i \in 1..Len(us) :
              /\ OffSegments(us)[i] = us[i].offs /\ ValSegments(us)[i] = us[i].vals
              /\ RepSegments(us)[i] = LevelBytes(us[i].reps, RepBits)
              /\ DefSegments(us)[i] = LevelBytes(us[i].defs, DefBits)
  BY <1>1 DEF OffSegments, ValSegments, RepSegments, DefSegments
<1>3. \A i \in 1..Len(us) : us[i] \in Unit
  OBVIOUS
<1>4. \A i \in 1..Len(us) :
              /\ us[i].offs \in Seq(Cell) /\ us[i].vals \in Seq(Cell)
              /\ us[i].reps \in Seq(Nat) /\ us[i].defs \in Seq(Nat)
              /\ us[i].cap \in Nat \ {0} /\ us[i].cur_off \in Int
  BY <1>3 DEF Unit
<1>5. \A i \in 1..Len(us) : OffSegments(us)[i] \in Seq(Cell) /\ ValSegments(us)[i] \in Seq(Cell)
  BY <1>2, <1>4
<1>6. Offs(us) \in Seq(Cell) /\ Vals(us) \in Seq(Cell)
  BY <1>1, <1>5, ConcatenatedType DEF Offs, Vals
<1> QED BY <1>2, <1>3, <1>4, <1>6

\* The levels of one more item are one more level of each kind.
LEMMA LevelsAppend ==
  ASSUME NEW is \in Seq(Written), NEW it \in Written
  PROVE  /\ Append(is, it) \in Seq(Written)
         /\ Reps(Append(is, it)) = Append(Reps(is), Encode(it.rep))
         /\ Defs(Append(is, it)) = Append(Defs(is), it.def)
<1> DEFINE js == Append(is, it)
           r == Reps(is)
           d == Defs(is)
<1>1. js \in Seq(Written) /\ Len(is) \in Nat /\ Len(js) = Len(is) + 1 /\ js[Len(is) + 1] = it
      /\ \A i \in 1..Len(is) : js[i] = is[i]
  OBVIOUS
<1>2. /\ r \in Seq(Nat) /\ Len(r) = Len(is) /\ d \in Seq(Nat) /\ Len(d) = Len(is)
      /\ \A i \in 1..Len(is) : r[i] = Encode(is[i].rep) /\ d[i] = is[i].def
  BY LevelSeqs
<1>3. /\ Reps(js) \in Seq(Nat) /\ Len(Reps(js)) = Len(js) /\ Defs(js) \in Seq(Nat) /\ Len(Defs(js)) = Len(js)
      /\ \A i \in 1..Len(js) : Reps(js)[i] = Encode(js[i].rep) /\ Defs(js)[i] = js[i].def
  <2> HIDE DEF js
  <2> QED BY <1>1, LevelSeqs
<1>4. Encode(it.rep) \in Nat /\ it.def \in Nat
  BY LevelsFit
<1> DEFINE er == Encode(it.rep)
           ed == it.def
           rj == Reps(js)
           dj == Defs(js)
<1>5. \A i \in 1..(Len(is) + 1) : rj[i] = (IF i <= Len(is) THEN r[i] ELSE er) /\ dj[i] = (IF i <= Len(is) THEN d[i] ELSE ed)
  <2> SUFFICES ASSUME NEW i \in 1..(Len(is) + 1)
               PROVE rj[i] = (IF i <= Len(is) THEN r[i] ELSE er) /\ dj[i] = (IF i <= Len(is) THEN d[i] ELSE ed)
    OBVIOUS
  <2>1. CASE i <= Len(is)
    <3>1. i \in 1..Len(is) /\ i \in 1..Len(js) BY <1>1, <2>1
    <3>2. js[i] = is[i] BY <1>1, <3>1
    <3> QED BY <1>2, <1>3, <2>1, <3>1, <3>2
  <2>2. CASE ~(i <= Len(is))
    <3>1. i = Len(is) + 1 /\ i \in 1..Len(js) BY <1>1, <2>2
    <3>2. js[i] = it BY <1>1, <3>1
    <3> QED BY <1>3, <2>2, <3>1, <3>2
  <2> QED BY <2>1, <2>2
<1>6. rj \in Seq(Nat) /\ Len(rj) = Len(is) + 1 /\ dj \in Seq(Nat) /\ Len(dj) = Len(is) + 1 /\ er \in Nat /\ ed \in Nat
  BY <1>1, <1>3, <1>4
<1> HIDE DEF rj, dj, r, d, er, ed
<1>7. rj = Append(r, er)
  <2>1. Len(r) = Len(is) /\ Len(is) \in Nat
    BY <1>1, <1>2
  <2>2. \A i \in 1..Len(is) : i \in 1..(Len(is) + 1) /\ i <= Len(is)
    BY <2>1
  <2>3. Len(is) + 1 \in 1..(Len(is) + 1) /\ ~(Len(is) + 1 <= Len(is))
    BY <2>1
  <2>4. (\A i \in 1..Len(is) : rj[i] = r[i]) /\ rj[Len(is) + 1] = er
    BY <1>5, <2>2, <2>3
  <2> QED BY <1>2, <1>6, <2>1, <2>4, AppendIs, SMTT(20)
<1>8. dj = Append(d, ed)
  <2>1. Len(d) = Len(is) /\ Len(is) \in Nat
    BY <1>1, <1>2
  <2>2. \A i \in 1..Len(is) : i \in 1..(Len(is) + 1) /\ i <= Len(is)
    BY <2>1
  <2>3. Len(is) + 1 \in 1..(Len(is) + 1) /\ ~(Len(is) + 1 <= Len(is))
    BY <2>1
  <2>4. (\A i \in 1..Len(is) : dj[i] = d[i]) /\ dj[Len(is) + 1] = ed
    BY <1>5, <2>2, <2>3
  <2> QED BY <1>2, <1>6, <2>1, <2>4, AppendIs
<1> QED BY <1>1, <1>7, <1>8 DEF rj, dj, r, d, er, ed, js

\* A unit takes the next item: what the CAB holds is one item longer (ColumnItemArray::writeRepDef).
LEMMA HoldsWrite ==
  ASSUME kind \in {"fixed", "var"}, NEW us, NEW bgn \in Nat, NEW is \in Seq(Written),
         Holds(kind, us, bgn, is), NEW it \in Written
  PROVE  Holds(kind, [us EXCEPT ![Len(us)] = WriteItem(us[Len(us)], it)], bgn, Append(is, it))
<1> DEFINE n == Len(us)
           u == us[n]
           w == WriteItem(u, it)
           ws == [us EXCEPT ![n] = w]
           js == Append(is, it)
           x == OffOf(kind, it, u.cur_off)
           y == ValOf(kind, it)
<1>1. us \in Seq(Unit) /\ n \in Nat \ {0} /\ n \in 1..n
  BY DEF Holds
<1>2. u \in Unit /\ u.cap % ByteBits = 0
  BY <1>1, SegmentTypes DEF Holds
<1>3. /\ u.offs \in Seq(Cell) /\ u.vals \in Seq(Cell) /\ u.reps \in Seq(Nat) /\ u.defs \in Seq(Nat)
      /\ u.cap \in Nat \ {0} /\ u.cur_off \in Int
  BY <1>2 DEF Unit
<1>4. x \in Seq(Cell) /\ y \in Seq(Cell)
  BY <1>3, ItemCells
<1>5. /\ w.cap = u.cap /\ w.reps = Append(u.reps, Encode(it.rep)) /\ w.defs = Append(u.defs, it.def)
      /\ w.offs = u.offs \o x /\ w.vals = u.vals \o y
      /\ w.cur_off = IF kind = "var" /\ it.val # Null THEN u.cur_off + ValLen[it.val] ELSE u.cur_off
      /\ w \in Unit
  <2> DEFINE c == IF kind = "var" /\ it.val # Null THEN u.cur_off + ValLen[it.val] ELSE u.cur_off
             wr == Append(u.reps, Encode(it.rep))
             wd == Append(u.defs, it.def)
             wo == u.offs \o x
             wv == u.vals \o y
  <2>1. w = [cap |-> u.cap, reps |-> wr, defs |-> wd, offs |-> wo, vals |-> wv, cur_off |-> c]
    BY <1>2, WriteFields
  <2>2. wr \in Seq(Nat) /\ wd \in Seq(Nat)
    BY <1>3, LevelsFit
  <2>3. wo \in Seq(Cell) /\ wv \in Seq(Cell)
    BY <1>3, <1>4, ConcatProperties
  <2>4. c \in Int
    <3>1. it.val # Null => ValLen[it.val] \in Nat
      <4>1. it.val \in Values \cup {Null}
        BY DEF Written, Item, ColumnItem
      <4> QED BY <4>1, ContentAssumption
    <3> DEFINE vl == ValLen[it.val]
    <3>2. it.val # Null => vl \in Nat BY <3>1
    <3> HIDE DEF vl
    <3> QED BY <1>3, <3>2 DEF vl
  <2> HIDE DEF w, wr, wd, wo, wv, c
  <2>5. w.cap = u.cap /\ w.reps = wr /\ w.defs = wd /\ w.offs = wo /\ w.vals = wv /\ w.cur_off = c /\ w \in Unit
    <3> DEFINE uc == u.cap
    <3>1. uc \in Nat \ {0} /\ w = [cap |-> uc, reps |-> wr, defs |-> wd, offs |-> wo, vals |-> wv, cur_off |-> c]
      BY <1>3, <2>1
    <3> HIDE DEF uc
    <3>2. w.cap = uc /\ w.reps = wr /\ w.defs = wd /\ w.offs = wo /\ w.vals = wv /\ w.cur_off = c /\ w \in Unit
      BY <2>2, <2>3, <2>4, <3>1 DEF Unit
    <3> QED BY <3>2 DEF uc
  <2> QED BY <2>5 DEF wr, wd, wo, wv, c
<1> HIDE DEF w, x, y
<1>6. ws \in Seq(Unit) /\ Len(ws) = n /\ ws[n] = w /\ (\A i \in 1..(n - 1) : ws[i] = us[i]) /\ ws # <<>>
  <2> HIDE DEF u
  <2> QED BY <1>1, <1>5
<1>7. js \in Seq(Written) /\ Reps(js) = Append(Reps(is), Encode(it.rep)) /\ Defs(js) = Append(Defs(is), it.def)
  BY LevelsAppend
<1> HIDE DEF ws, js
<1>8. /\ Offs(ws) = Offs(us) \o x /\ Vals(ws) = Vals(us) \o y
      /\ Offs(us) \in Seq(Cell) /\ Vals(us) \in Seq(Cell)
      /\ Concatenated(RepSegments(ws), n - 1) = Concatenated(RepSegments(us), n - 1)
      /\ Concatenated(DefSegments(ws), n - 1) = Concatenated(DefSegments(us), n - 1)
  <2> DEFINE ou == OffSegments(us)
             ow == OffSegments(ws)
             vu == ValSegments(us)
             vw == ValSegments(ws)
             ru == RepSegments(us)
             rw == RepSegments(ws)
             du == DefSegments(us)
             dw == DefSegments(ws)
  <2>1. \A i \in 1..n : /\ ou[i] = us[i].offs /\ vu[i] = us[i].vals /\ ou[i] \in Seq(Cell) /\ vu[i] \in Seq(Cell)
                        /\ ru[i] = LevelBytes(us[i].reps, RepBits) /\ du[i] = LevelBytes(us[i].defs, DefBits)
    BY <1>1, SegmentTypes
  <2>0. ou \in [1..n -> Seq(Cell)] /\ vu \in [1..n -> Seq(Cell)]
    <3>1. DOMAIN us = 1..n /\ \A i \in 1..n : us[i].offs \in Seq(Cell) /\ us[i].vals \in Seq(Cell)
      BY <1>1, SegmentTypes
    <3>2. ou = [i \in 1..n |-> us[i].offs] /\ vu = [i \in 1..n |-> us[i].vals]
      BY <3>1 DEF OffSegments, ValSegments
    <3> HIDE DEF ou, vu, n
    <3> QED BY <3>1, <3>2
  <2>2. \A i \in 1..n : /\ ow[i] = ws[i].offs /\ vw[i] = ws[i].vals
                        /\ rw[i] = LevelBytes(ws[i].reps, RepBits) /\ dw[i] = LevelBytes(ws[i].defs, DefBits)
    BY <1>6, SegmentTypes
  <2>3. \A i \in 1..(n - 1) : i \in 1..n
    BY <1>1
  <2>4. \A i \in 1..(n - 1) : ow[i] = ou[i] /\ vw[i] = vu[i] /\ rw[i] = ru[i] /\ dw[i] = du[i]
    BY <1>6, <2>1, <2>2, <2>3, ZenonT(30)
  <2>5. ow[n] = ou[n] \o x /\ vw[n] = vu[n] \o y
    BY <1>1, <1>5, <1>6, <2>1, <2>2
  <2>6. Offs(us) = Concatenated(ou, n) /\ Offs(ws) = Concatenated(ow, n)
        /\ Vals(us) = Concatenated(vu, n) /\ Vals(ws) = Concatenated(vw, n)
    BY <1>6 DEF Offs, Vals
  <2> HIDE DEF n, ou, ow, vu, vw, ru, rw, du, dw
  <2>7. Concatenated(ow, n) = Concatenated(ou, n) \o x /\ Concatenated(ou, n) \in Seq(Cell)
    <3>1. (\A i \in 1..(n - 1) : ow[i] = ou[i]) /\ ow[n] = ou[n] \o x
      BY <2>4, <2>5
    <3>2. n \in Nat \ {0} /\ x \in Seq(Cell) /\ y \in Seq(Cell)
      BY <1>1, <1>4
    <3> QED BY <2>0, <3>1, <3>2, ConcatLast
  <2>8. Concatenated(vw, n) = Concatenated(vu, n) \o y /\ Concatenated(vu, n) \in Seq(Cell)
    <3>1. (\A i \in 1..(n - 1) : vw[i] = vu[i]) /\ vw[n] = vu[n] \o y
      BY <2>4, <2>5
    <3>2. n \in Nat \ {0} /\ x \in Seq(Cell) /\ y \in Seq(Cell)
      BY <1>1, <1>4
    <3> QED BY <2>0, <3>1, <3>2, ConcatLast, ZenonT(30)
  <2>9. n - 1 \in Nat
    BY <1>1
  <2>10. Concatenated(rw, n - 1) = Concatenated(ru, n - 1) /\ Concatenated(dw, n - 1) = Concatenated(du, n - 1)
    BY <2>4, <2>9, ConcatenatedSame
  <2> QED BY <2>6, <2>7, <2>8, <2>10 DEF ru, rw, du, dw
<1>9. \E head, rest \in Seq(Written) : LevelsIn(ws, js, head, rest)
  <2>1. PICK head \in Seq(Written), rest \in Seq(Written) : LevelsIn(us, is, head, rest)
    BY DEF Holds
  <2>2. /\ is = head \o rest /\ Len(head) % ByteBits = 0
        /\ Concatenated(RepSegments(us), n - 1) = LevelBytes(Reps(head), RepBits)
        /\ Concatenated(DefSegments(us), n - 1) = LevelBytes(Defs(head), DefBits)
        /\ u.reps = Reps(rest) /\ u.defs = Defs(rest)
    BY <2>1 DEF LevelsIn
  <2>3. /\ Append(rest, it) \in Seq(Written) /\ Reps(Append(rest, it)) = Append(Reps(rest), Encode(it.rep))
        /\ Defs(Append(rest, it)) = Append(Defs(rest), it.def)
    BY LevelsAppend
  <2>4. js = head \o Append(rest, it)
    <3>1. Append(head \o rest, it) = head \o Append(rest, it)
      BY AppendConcat
    <3> QED BY <2>2, <3>1 DEF js
  <2>5. LevelsIn(ws, js, head, Append(rest, it))
    BY <1>5, <1>6, <1>8, <2>2, <2>3, <2>4 DEF LevelsIn
  <2> QED BY <2>3, <2>5
<1>10. x = OffOf(kind, it, Len(Vals(us)))
  <2>1. CASE kind = "fixed"
    BY <2>1 DEF x, OffOf
  <2>2. CASE kind = "var"
    <3>1. u.cur_off = Len(Vals(us))
      BY <2>2 DEF Holds
    <3> QED BY <3>1 DEF x
  <2> QED BY <2>1, <2>2
<1>11. Placed(kind, Offs(ws), Vals(ws), js)
  <2>1. Placed(kind, Offs(us), Vals(us), is)
    BY DEF Holds
  <2> DEFINE o == Offs(us)
             v == Vals(us)
  <2>2. o \in Seq(Cell) /\ v \in Seq(Cell) /\ Placed(kind, o, v, is)
    BY <1>8, <2>1
  <2> HIDE DEF o, v
  <2>3. Placed(kind, o \o OffOf(kind, it, Len(v)), v \o ValOf(kind, it), Append(is, it))
    BY <2>2, PlacedAppend
  <2> QED BY <1>8, <1>10, <2>3 DEF o, v, y, js
<1> DEFINE v == Vals(us)
           uv == u.vals
<1>12. /\ v \in Seq(Cell) /\ uv \in Seq(Cell) /\ Len(v \o y) = Len(v) + Len(y) /\ Len(uv \o y) = Len(uv) + Len(y)
       /\ Len(v) \in Nat /\ Len(uv) \in Nat /\ Len(y) \in Nat
  <2>1. v \in Seq(Cell) /\ uv \in Seq(Cell)
    BY <1>3, <1>8
  <2> HIDE DEF v, uv
  <2> QED BY <1>4, <2>1, ConcatProperties
<1>13. bgn + Len(uv) = Len(v) /\ (kind = "var" => u.cur_off = Len(v))
  BY DEF Holds
<1>14. bgn + Len(w.vals) = Len(Vals(ws))
  <2>1. Len(w.vals) = Len(uv) + Len(y) /\ Len(Vals(ws)) = Len(v) + Len(y)
    BY <1>5, <1>8, <1>12
  <2> HIDE DEF v, uv
  <2> QED BY <1>12, <1>13, <2>1
<1>15. kind = "var" => w.cur_off = Len(Vals(ws))
  <2> SUFFICES ASSUME kind = "var" PROVE w.cur_off = Len(Vals(ws))
    OBVIOUS
  <2>1. Len(Vals(ws)) = Len(v) + Len(y) /\ u.cur_off = Len(v)
    BY <1>8, <1>12, <1>13
  <2>2. CASE it.val = Null
    <3>1. y = <<>> BY <2>2 DEF y, ValOf
    <3>2. w.cur_off = u.cur_off BY <1>5, <2>2
    <3> HIDE DEF v
    <3> QED BY <1>12, <2>1, <3>1, <3>2
  <2>3. CASE it.val # Null
    <3>1. y = ValueBytes(it.val) BY <2>3 DEF y, ValOf
    <3>2. it.val \in Values
      BY <2>3 DEF Written, Item, ColumnItem
    <3>3. Len(y) = ValLen[it.val]
      <4>1. ValLen[it.val] \in Nat BY <3>2, ContentAssumption
      <4> QED BY <3>1, <4>1 DEF ValueBytes
    <3>4. w.cur_off = u.cur_off + ValLen[it.val]
      BY <1>5, <2>3
    <3> QED BY <2>1, <3>3, <3>4
  <2> QED BY <2>2, <2>3
<1>16. ws[Len(ws)] = w /\ w.cap % ByteBits = 0
  BY <1>2, <1>5, <1>6
<1> HIDE DEF v, uv
<1> QED BY <1>6, <1>9, <1>11, <1>14, <1>15, <1>16 DEF Holds, ws, js, w, u

\* The levels of two parts are the levels of the whole.
LEMMA LevelsConcat ==
  ASSUME NEW a \in Seq(Written), NEW b \in Seq(Written)
  PROVE  /\ a \o b \in Seq(Written)
         /\ Reps(a \o b) = Reps(a) \o Reps(b) /\ Defs(a \o b) = Defs(a) \o Defs(b)
<1> DEFINE ab == a \o b
           ra == Reps(a)
           rb == Reps(b)
           rab == Reps(ab)
           da == Defs(a)
           db == Defs(b)
           dab == Defs(ab)
<1>1. /\ ab \in Seq(Written) /\ Len(ab) = Len(a) + Len(b) /\ Len(a) \in Nat /\ Len(b) \in Nat
      /\ \A i \in 1..(Len(a) + Len(b)) : ab[i] = IF i <= Len(a) THEN a[i] ELSE b[i - Len(a)]
  BY ConcatProperties
<1>2. /\ ra \in Seq(Nat) /\ Len(ra) = Len(a) /\ da \in Seq(Nat) /\ Len(da) = Len(a)
      /\ \A i \in 1..Len(a) : ra[i] = Encode(a[i].rep) /\ da[i] = a[i].def
  BY LevelSeqs
<1>3. /\ rb \in Seq(Nat) /\ Len(rb) = Len(b) /\ db \in Seq(Nat) /\ Len(db) = Len(b)
      /\ \A i \in 1..Len(b) : rb[i] = Encode(b[i].rep) /\ db[i] = b[i].def
  BY LevelSeqs
<1> HIDE DEF ab
<1>4. /\ rab \in Seq(Nat) /\ Len(rab) = Len(ab) /\ dab \in Seq(Nat) /\ Len(dab) = Len(ab)
      /\ \A i \in 1..Len(ab) : rab[i] = Encode(ab[i].rep) /\ dab[i] = ab[i].def
  BY <1>1, LevelSeqs
<1> HIDE DEF ra, rb, rab, da, db, dab
<1>5. /\ ra \o rb \in Seq(Nat) /\ Len(ra \o rb) = Len(a) + Len(b)
      /\ \A i \in 1..(Len(a) + Len(b)) : (ra \o rb)[i] = IF i <= Len(a) THEN ra[i] ELSE rb[i - Len(a)]
  <2>1. ra \in Seq(Nat) /\ rb \in Seq(Nat) /\ Len(ra) = Len(a) /\ Len(rb) = Len(b)
    BY <1>2, <1>3
  <2>2. /\ ra \o rb \in Seq(Nat) /\ Len(ra \o rb) = Len(ra) + Len(rb)
        /\ \A i \in 1..(Len(ra) + Len(rb)) :
             (ra \o rb)[i] = IF i <= Len(ra) THEN ra[i] ELSE rb[i - Len(ra)]
    BY <2>1, ConcatProperties
  <2> QED BY <2>1, <2>2
<1>6. /\ da \o db \in Seq(Nat) /\ Len(da \o db) = Len(a) + Len(b)
      /\ \A i \in 1..(Len(a) + Len(b)) : (da \o db)[i] = IF i <= Len(a) THEN da[i] ELSE db[i - Len(a)]
  <2>1. da \in Seq(Nat) /\ db \in Seq(Nat) /\ Len(da) = Len(a) /\ Len(db) = Len(b)
    BY <1>2, <1>3
  <2>2. /\ da \o db \in Seq(Nat) /\ Len(da \o db) = Len(da) + Len(db)
        /\ \A i \in 1..(Len(da) + Len(db)) :
             (da \o db)[i] = IF i <= Len(da) THEN da[i] ELSE db[i - Len(da)]
    BY <2>1, ConcatProperties
  <2> QED BY <2>1, <2>2
<1>7. ASSUME NEW i \in 1..(Len(a) + Len(b)) PROVE rab[i] = (ra \o rb)[i] /\ dab[i] = (da \o db)[i]
  <2>1. i \in 1..Len(ab) BY <1>1
  <2>2. CASE i <= Len(a)
    <3>1. i \in 1..Len(a) BY <1>1, <2>2
    <3>2. ab[i] = a[i] BY <1>1, <2>2
    <3> QED BY <1>2, <1>4, <1>5, <1>6, <2>1, <2>2, <3>1, <3>2
  <2>3. CASE ~(i <= Len(a))
    <3>1. i - Len(a) \in 1..Len(b) BY <1>1, <2>3
    <3>2. ab[i] = b[i - Len(a)] BY <1>1, <2>3
    <3> QED BY <1>3, <1>4, <1>5, <1>6, <2>1, <2>3, <3>1, <3>2
  <2> QED BY <2>2, <2>3
<1> DEFINE r2 == ra \o rb
           d2 == da \o db
<1>8. r2 \in Seq(Nat) /\ Len(r2) = Len(rab) /\ d2 \in Seq(Nat) /\ Len(d2) = Len(dab)
      /\ \A i \in 1..Len(rab) : rab[i] = r2[i] /\ dab[i] = d2[i]
  BY <1>1, <1>4, <1>5, <1>6, <1>7
<1>9. Len(rab) = Len(dab) BY <1>4
<1> HIDE DEF r2, d2
<1>10. rab = r2 /\ dab = d2
  BY <1>4, <1>8, <1>9, SeqEqual
<1> QED BY <1>1, <1>10 DEF ab, ra, rb, rab, da, db, dab, r2, d2

\* The bytes of the levels of all units, one segment behind the other, are the bytes of the levels
\* of all items: no unit but the last ends inside a byte.
LEMMA MergedLevels ==
  ASSUME NEW us \in Seq(Unit), us # <<>>, NEW is, NEW head \in Seq(Written), NEW rest \in Seq(Written),
         LevelsIn(us, is, head, rest)
  PROVE  /\ is \in Seq(Written)
         /\ Concatenated(RepSegments(us), Len(us)) = LevelBytes(Reps(is), RepBits)
         /\ Concatenated(DefSegments(us), Len(us)) = LevelBytes(Defs(is), DefBits)
<1> DEFINE n == Len(us)
           u == us[n]
           hr == Reps(head)
           rr == Reps(rest)
           hd == Defs(head)
           rd == Defs(rest)
<1>1. n \in Nat \ {0} /\ n \in 1..n /\ n - 1 \in Nat /\ (n - 1) + 1 = n
  OBVIOUS
<1>2. /\ is = head \o rest /\ Len(head) % ByteBits = 0
      /\ Concatenated(RepSegments(us), n - 1) = LevelBytes(hr, RepBits)
      /\ Concatenated(DefSegments(us), n - 1) = LevelBytes(hd, DefBits)
      /\ u.reps = rr /\ u.defs = rd
  BY DEF LevelsIn
<1>3. RepSegments(us)[n] = LevelBytes(u.reps, RepBits) /\ DefSegments(us)[n] = LevelBytes(u.defs, DefBits)
  BY <1>1, SegmentTypes
<1>4. is \in Seq(Written) /\ Reps(is) = hr \o rr /\ Defs(is) = hd \o rd
  BY <1>2, LevelsConcat
<1>5. hr \in Seq(Nat) /\ rr \in Seq(Nat) /\ hd \in Seq(Nat) /\ rd \in Seq(Nat) /\ Len(hr) = Len(head) /\ Len(hd) = Len(head)
  BY LevelSeqs
<1>6. RepBits \in Nat /\ DefBits \in Nat
  BY LevelWidths
<1> DEFINE rs == RepSegments(us)
           ds == DefSegments(us)
<1>7. Concatenated(rs, (n - 1) + 1) = Concatenated(rs, n - 1) \o rs[(n - 1) + 1]
  <2> HIDE DEF rs, n
  <2> QED BY <1>1, ConcatenatedStep
<1>8. Concatenated(ds, (n - 1) + 1) = Concatenated(ds, n - 1) \o ds[(n - 1) + 1]
  <2> HIDE DEF ds, n
  <2> QED BY <1>1, ConcatenatedStep
<1> HIDE DEF n, u, hr, rr, hd, rd
<1>9. Concatenated(rs, n) = LevelBytes(hr, RepBits) \o LevelBytes(rr, RepBits)
  BY <1>1, <1>2, <1>3, <1>7
<1>10. Concatenated(ds, n) = LevelBytes(hd, DefBits) \o LevelBytes(rd, DefBits)
  BY <1>1, <1>2, <1>3, <1>8
<1>11. LevelBytes(hr \o rr, RepBits) = LevelBytes(hr, RepBits) \o LevelBytes(rr, RepBits)
  BY <1>2, <1>5, <1>6, LevelBytesConcat
<1>12. LevelBytes(hd \o rd, DefBits) = LevelBytes(hd, DefBits) \o LevelBytes(rd, DefBits)
  BY <1>2, <1>5, <1>6, LevelBytesConcat
<1> QED BY <1>4, <1>9, <1>10, <1>11, <1>12 DEF n

\* A full last unit can be followed by an empty one: its number of levels is its capacity, which is
\* aligned to bytes, and the offsets go on where its values end (CAB::createMinorUnit).
LEMMA HoldsMinor ==
  ASSUME NEW k, NEW us, NEW bgn \in Nat, NEW is \in Seq(Written), Holds(k, us, bgn, is),
         Len(us[Len(us)].defs) = us[Len(us)].cap, NEW cap \in Nat \ {0}, cap % ByteBits = 0
  PROVE  LET nb == bgn + Len(us[Len(us)].vals)
         IN  nb \in Nat /\ Holds(k, Append(us, NewUnit(cap, nb)), nb, is)
<1> DEFINE n == Len(us)
           u == us[n]
           nb == bgn + Len(u.vals)
           w == NewUnit(cap, nb)
           ws == Append(us, w)
<1>1. us \in Seq(Unit) /\ us # <<>> /\ n \in Nat \ {0} /\ n \in 1..n /\ (n + 1) - 1 = n
  BY DEF Holds
<1>2. u \in Unit /\ u.vals \in Seq(Cell) /\ u.offs \in Seq(Cell) /\ u.cap \in Nat \ {0} /\ u.cap % ByteBits = 0
  BY <1>1, SegmentTypes DEF Holds
<1>3. nb \in Nat /\ nb = Len(Vals(us))
  <2>1. Len(u.vals) \in Nat BY <1>2
  <2>2. nb = Len(Vals(us)) BY DEF Holds
  <2> QED BY <2>1, <2>2
<1> HIDE DEF nb
<1>4. /\ w \in Unit /\ w.cap = cap /\ w.reps = <<>> /\ w.defs = <<>> /\ w.offs = <<>> /\ w.vals = <<>>
      /\ w.cur_off = nb
  BY <1>3 DEF NewUnit, Unit
<1> HIDE DEF w, u
<1>5. /\ ws \in Seq(Unit) /\ ws # <<>> /\ Len(ws) = n + 1 /\ ws[n + 1] = w /\ \A i \in 1..n : ws[i] = us[i]
  BY <1>1, <1>4
<1> HIDE DEF ws
<1>6. /\ Concatenated(RepSegments(ws), n) = Concatenated(RepSegments(us), n)
      /\ Concatenated(DefSegments(ws), n) = Concatenated(DefSegments(us), n)
      /\ Concatenated(OffSegments(ws), n) = Concatenated(OffSegments(us), n)
      /\ Concatenated(ValSegments(ws), n) = Concatenated(ValSegments(us), n)
  <2>1. ASSUME NEW i \in 1..n
        PROVE  /\ RepSegments(ws)[i] = RepSegments(us)[i] /\ DefSegments(ws)[i] = DefSegments(us)[i]
               /\ OffSegments(ws)[i] = OffSegments(us)[i] /\ ValSegments(ws)[i] = ValSegments(us)[i]
    <3>1. i \in 1..Len(ws) /\ i \in 1..Len(us)
      BY <1>1, <1>5
    <3>2. ws[i] = us[i] BY <1>5
    <3>3. /\ RepSegments(ws)[i] = LevelBytes(ws[i].reps, RepBits) /\ RepSegments(us)[i] = LevelBytes(us[i].reps, RepBits)
          /\ DefSegments(ws)[i] = LevelBytes(ws[i].defs, DefBits) /\ DefSegments(us)[i] = LevelBytes(us[i].defs, DefBits)
          /\ OffSegments(ws)[i] = ws[i].offs /\ OffSegments(us)[i] = us[i].offs
          /\ ValSegments(ws)[i] = ws[i].vals /\ ValSegments(us)[i] = us[i].vals
      BY <1>1, <1>5, <3>1, SegmentTypes, SMTT(20)
    <3> QED BY <3>2, <3>3
  <2>2. n \in Nat BY <1>1
  <2>3. Concatenated(RepSegments(ws), n) = Concatenated(RepSegments(us), n)
    BY <2>1, <2>2, ConcatenatedSame
  <2>4. Concatenated(DefSegments(ws), n) = Concatenated(DefSegments(us), n)
    BY <2>1, <2>2, ConcatenatedSame
  <2>5. Concatenated(OffSegments(ws), n) = Concatenated(OffSegments(us), n)
    BY <2>1, <2>2, ConcatenatedSame
  <2>6. Concatenated(ValSegments(ws), n) = Concatenated(ValSegments(us), n)
    BY <2>1, <2>2, ConcatenatedSame
  <2> QED BY <2>3, <2>4, <2>5, <2>6
<1>7. Offs(ws) = Offs(us) /\ Vals(ws) = Vals(us)
  <2> DEFINE os == OffSegments(ws)
             vs == ValSegments(ws)
  <2>1. Concatenated(os, n + 1) = Concatenated(os, n) \o os[n + 1]
    <3> HIDE DEF os
    <3> QED BY <1>1, ConcatenatedStep
  <2>2. Concatenated(vs, n + 1) = Concatenated(vs, n) \o vs[n + 1]
    <3> HIDE DEF vs
    <3> QED BY <1>1, ConcatenatedStep
  <2>3. os[n + 1] = <<>> /\ vs[n + 1] = <<>>
    <3>1. n + 1 \in 1..Len(ws) BY <1>1, <1>5
    <3>2. os[n + 1] = ws[n + 1].offs /\ vs[n + 1] = ws[n + 1].vals
      BY <1>5, <3>1, SegmentTypes
    <3>3. ws[n + 1].offs = <<>> /\ ws[n + 1].vals = <<>>
      BY <1>4, <1>5
    <3> QED BY <3>2, <3>3
  <2>4. Offs(us) \in Seq(Cell) /\ Vals(us) \in Seq(Cell)
    BY <1>1, SegmentTypes
  <2>5. Offs(us) \o <<>> = Offs(us) /\ Vals(us) \o <<>> = Vals(us)
    BY <2>4
  <2>6. Offs(ws) = Concatenated(os, n + 1) /\ Vals(ws) = Concatenated(vs, n + 1)
    BY <1>5 DEF Offs, Vals
  <2>7. Offs(us) = Concatenated(OffSegments(us), n) /\ Vals(us) = Concatenated(ValSegments(us), n)
    BY DEF Offs, Vals
  <2> HIDE DEF n, os, vs
  <2> QED BY <1>6, <2>1, <2>2, <2>3, <2>5, <2>6, <2>7 DEF os, vs
<1>8. LevelsIn(ws, is, is, <<>>) /\ <<>> \in Seq(Written)
  <2>1. PICK head \in Seq(Written), rest \in Seq(Written) : LevelsIn(us, is, head, rest)
    BY DEF Holds
  <2>2. /\ Concatenated(RepSegments(us), n) = LevelBytes(Reps(is), RepBits)
        /\ Concatenated(DefSegments(us), n) = LevelBytes(Defs(is), DefBits)
    BY <1>1, <2>1, MergedLevels
  <2>3. is = is \o <<>>
    OBVIOUS
  <2>4. Len(is) % ByteBits = 0
    <3>1. is = head \o rest /\ Len(head) % ByteBits = 0 /\ u.defs = Defs(rest)
      BY <2>1 DEF LevelsIn, u
    <3>2. Len(Defs(rest)) = Len(rest)
      BY LevelSeqs
    <3>3. Len(rest) % ByteBits = 0
      BY <1>2, <3>1, <3>2 DEF u
    <3>4. Len(is) = Len(head) + Len(rest) /\ Len(head) \in Nat /\ Len(rest) \in Nat
      BY <3>1, ConcatProperties
    <3> DEFINE h == Len(head)
               r == Len(rest)
    <3>5. h \in Nat /\ r \in Nat /\ (h % ByteBits) = 0 /\ (r % ByteBits) = 0 /\ ByteBits \in Nat \ {0}
      BY <3>1, <3>3, <3>4, ContentAssumption
    <3> HIDE DEF h, r
    <3>6. h = (h \div ByteBits) * ByteBits + 0 /\ r = (r \div ByteBits) * ByteBits + 0
          /\ h \div ByteBits \in Nat /\ r \div ByteBits \in Nat
      BY <3>5, DivMod, ZenonT(30)
    <3> DEFINE p == h \div ByteBits
               q == r \div ByteBits
    <3>7. h = p * ByteBits + 0 /\ r = q * ByteBits + 0 /\ p \in Nat /\ q \in Nat
      BY <3>6
    <3> HIDE DEF p, q
    <3>8. h + r = (p + q) * ByteBits + 0 /\ p + q \in Nat /\ 0 \in 0..(ByteBits - 1)
      BY <3>5, <3>7
    <3>9. ((p + q) * ByteBits + 0) % ByteBits = 0
      BY <3>5, <3>8, DivModUnique
    <3> QED BY <3>4, <3>8, <3>9 DEF h, r
  <2>5. ws[Len(ws)].reps = Reps(<<>>) /\ ws[Len(ws)].defs = Defs(<<>>)
    BY <1>4, <1>5, LevelsOfEmpty
  <2>6. Len(ws) - 1 = n
    BY <1>1, <1>5
  <2> QED BY <1>6, <2>2, <2>3, <2>4, <2>5, <2>6 DEF LevelsIn
<1>9. nb + Len(<<>>) = nb
  BY <1>3
<1>10. ws[Len(ws)] = w
  BY <1>5
<1>11. Placed(k, Offs(us), Vals(us), is)
  BY DEF Holds
<1>12. Holds(k, ws, nb, is)
  BY <1>3, <1>4, <1>5, <1>7, <1>8, <1>9, <1>10, <1>11 DEF Holds
<1> QED BY <1>3, <1>12 DEF ws, w, nb, u

-----------------------------------------------------------------------------
(* WInv is inductive: what is in memory and on disk codes the items.       *)

\* The items that WriteRecord is called with have the levels of the path.
LEMMA InputItems ==
  ASSUME IInv, NEW it \in Inputs, CanWrite(it)
  PROVE  it \in Item /\ it \in Written
<1>1. log \in Seq(Item) /\ MaxItems \in Nat
  BY ConstantsAssumption DEF IInv, TypeOK
<1>2. Len(log) \in 0..MaxItems
  BY <1>1 DEF CanWrite
<1>3. it \in Item
  BY <1>2, ContentAssumption DEF Inputs
<1> QED BY <1>3 DEF Inputs, Written

\* A step of the files with their bytes is a step of ColumnFile.
LEMMA ContentSteps ==
  ASSUME IInv, ContentNext
  PROVE  Next
<1>1. CASE \E rbgn \in FirstRecds : CreateContent(rbgn)
  BY <1>1 DEF CreateContent, Next
<1>2. CASE ExtendContent
  BY <1>2 DEF ExtendContent, Next
<1>3. CASE ReloadContent
  BY <1>3 DEF ReloadContent, Next
<1>4. ASSUME NEW it \in Inputs, WriteToUnit(it) \/ WriteToMinorUnit(it) \/ WriteToNextContent(it)
      PROVE  Next
  <2>1. WriteInCAB(it) \/ WriteToNextCAB(it)
    BY <1>4 DEF WriteToUnit, WriteToMinorUnit, WriteToNextContent
  <2>2. it \in Item
    BY <2>1, InputItems DEF WriteInCAB, WriteToNextCAB
  <2> QED BY <2>1, <2>2 DEF Next
<1>5. CASE FlushContent
  BY <1>5 DEF FlushContent, Next
<1>6. CASE DropContent
  BY <1>6 DEF DropContent, Next
<1>7. CASE (OpenAppendTailFails \/ Restart) /\ UNCHANGED <<kind, units, bva_bgn_off, bytes>>
  BY <1>7 DEF Next
<1> QED BY <1>1, <1>2, <1>3, <1>4, <1>5, <1>6, <1>7 DEF ContentNext

\* The major unit a CAB begins with holds no items ...
LEMMA HoldsMajor ==
  ASSUME NEW k \in {"fixed", "var"}
  PROVE  MajorUnit \in Unit /\ Holds(k, <<MajorUnit>>, 0, <<>>)
<1> DEFINE u == MajorUnit
           none == <<>>
<1>1. RecdCap \in Nat \ {0} /\ RecdCap % ByteBits = 0
  BY ConstantsAssumption, ContentAssumption
<1>2. MajorCap(0) = RecdCap
  BY <1>1 DEF MajorCap
<1>3. /\ u \in Unit /\ u.cap = RecdCap /\ u.reps = <<>> /\ u.defs = <<>> /\ u.offs = <<>> /\ u.vals = <<>>
      /\ u.cur_off = 0
  BY <1>1, <1>2 DEF MajorUnit, NewUnit, Unit
<1> HIDE DEF u
<1>4. none \in Seq(Written) /\ Len(none) = 0
  OBVIOUS
<1>5. u.reps = Reps(none) /\ u.defs = Defs(none)
  BY <1>3, LevelsOfEmpty
<1>6. Placed(k, u.offs, u.vals, none)
  BY <1>3, <1>4 DEF Placed
<1>7. u.cap % ByteBits = 0 /\ (k = "var" => u.cur_off = Len(u.vals))
  BY <1>1, <1>3
<1> HIDE DEF none
<1>8. Holds(k, <<u>>, 0, none)
  BY <1>3, <1>4, <1>5, <1>6, <1>7, HoldsOne
<1> QED BY <1>3, <1>8 DEF u, none

\* ... and takes the first one.
LEMMA HoldsFirst ==
  ASSUME kind \in {"fixed", "var"}, NEW it \in Written
  PROVE  Holds(kind, <<WriteItem(MajorUnit, it)>>, 0, <<it>>)
<1> DEFINE us == <<MajorUnit>>
           none == <<>>
           w == WriteItem(MajorUnit, it)
<1>1. Holds(kind, us, 0, none) /\ none \in Seq(Written)
  BY HoldsMajor
<1>2. Len(us) = 1 /\ us[1] = MajorUnit /\ [us EXCEPT ![1] = w] = <<w>>
  <2> HIDE DEF w
  <2> QED OBVIOUS
<1>3. Append(none, it) = <<it>>
  OBVIOUS
<1> HIDE DEF none, us
<1>4. Holds(kind, [us EXCEPT ![Len(us)] = WriteItem(us[Len(us)], it)], 0, Append(none, it))
  BY <1>1, HoldsWrite
<1> QED BY <1>2, <1>3, <1>4

\* The capacity of a minor unit, computed from the counters of the CAB, is a positive multiple of the
\* byte: without it the levels of the units could not be put together (CAB::createMinorUnit).
LEMMA MinorCapAligned ==
  ASSUME item_info \in ItemInfo, item_info.recd_num > 0, item_info.recd_num <= RecdCap,
         item_info.recd_num <= item_info.item_num
  PROVE  MinorCap \in Nat \ {0} /\ MinorCap % ByteBits = 0
<1> DEFINE r == item_info.recd_num
           i == item_info.item_num
           rest == RecdCap - r + 1
           num == Reserve * i * rest
           den == 1000 * r
           q == num \div den
<1>1. r \in Nat /\ i \in Nat /\ r > 0 /\ r <= i /\ rest \in Nat /\ rest >= 1 /\ Reserve \in Nat /\ Reserve >= 1000
  BY ConstantsAssumption, ContentAssumption DEF ItemInfo
<1> HIDE DEF r, i, rest
<1>2. den \in Nat \ {0}
  BY <1>1
<1>3. Reserve * i \in Nat /\ num \in Nat
  <2>1. Reserve * i \in Nat BY <1>1
  <2> DEFINE ri == Reserve * i
  <2>2. ri \in Nat BY <2>1
  <2> HIDE DEF ri
  <2>3. ri * rest \in Nat BY <1>1, <2>2
  <2> QED BY <2>1, <2>3 DEF ri
<1>4. num >= den
  <2>1. \A x, y, z \in Nat : x >= y => x * z >= y * z
    OBVIOUS
  <2>2. \A x, y \in Nat : x >= 1 => y * x >= y
    OBVIOUS
  <2>3. Reserve * i >= 1000 * i
    BY <1>1, <2>1
  <2>4. i * 1000 >= r * 1000
    BY <1>1, <2>1
  <2> DEFINE ri == Reserve * i
  <2>5. ri \in Nat /\ ri >= 1000 * i /\ num = ri * rest
    BY <1>3, <2>3
  <2> HIDE DEF ri, num
  <2>6. ri * rest >= ri
    BY <1>1, <2>2, <2>5
  <2> QED BY <1>1, <2>4, <2>5, <2>6
<1> HIDE DEF num, den
<1>5. q \in Nat /\ q # 0
  <2>1. /\ num \div den \in Nat /\ (num % den) \in 0..(den - 1) /\ num = (num \div den) * den + (num % den)
    BY <1>2, <1>3, DivMod
  <2>2. ASSUME q = 0 PROVE FALSE
    <3>1. q * den = 0 BY <1>2, <2>2
    <3> DEFINE m == num % den
    <3>2. num = q * den + m /\ m \in 0..(den - 1) BY <2>1
    <3> HIDE DEF q, m
    <3>3. num = m BY <1>2, <1>3, <3>1, <3>2
    <3> QED BY <1>2, <1>3, <1>4, <3>2, <3>3
  <2> QED BY <2>1, <2>2
<1>6. MinorCap = CalcAlignSize(q, ByteBits)
  BY DEF MinorCap, q, num, den, r, i, rest
<1> HIDE DEF q
<1>7. CalcAlignSize(q, ByteBits) \in Nat /\ CalcAlignSize(q, ByteBits) % ByteBits = 0 /\ CalcAlignSize(q, ByteBits) >= q
  BY <1>5, AlignedSize
<1> DEFINE a == CalcAlignSize(q, ByteBits)
<1>8. a \in Nat /\ a >= q /\ a % ByteBits = 0 BY <1>7
<1> HIDE DEF a
<1>9. a # 0 BY <1>5, <1>8
<1> QED BY <1>6, <1>8, <1>9 DEF a

\* What a flush stores codes the items of the CAB: the levels alone if all are null, levels and values
\* otherwise (CAB::merge2Buffer).
LEMMA MergedCoded ==
  ASSUME NEW tail \in BOOLEAN, Holds(kind, units, bva_bgn_off, items),
         items \in Seq(Item), Counts(item_info, items), MergedUsed(item_info, tail) # 0
  PROVE  Coded(kind, MergedBytes(tail), items)
<1> DEFINE type == IF tail THEN "crucial" ELSE GetType(item_info)
           rs == Concatenated(RepSegments(units), Len(units))
           ds == Concatenated(DefSegments(units), Len(units))
           os == Offs(units)
           vs == Vals(units)
<1>1. MergedBytes(tail) = (IF type \in {"crucial", "allnull"} THEN rs \o ds ELSE <<>>)
                            \o (IF type = "crucial" THEN os \o vs ELSE <<>>)
  BY Zenon DEF MergedBytes, Merged, RepSegments, DefSegments, Offs, Vals, OffSegments, ValSegments
<1>2. PICK head \in Seq(Written), rest \in Seq(Written) : LevelsIn(units, items, head, rest)
  BY DEF Holds
<1>3. units \in Seq(Unit) /\ units # <<>>
  BY DEF Holds
<1>4. items \in Seq(Written) /\ rs \o ds = Levels(items)
  BY <1>2, <1>3, MergedLevels DEF Levels
<1>5. Levels(items) \in Seq(Cell)
  BY <1>4, LevelParts
<1>6. type \in {"crucial", "allnull"}
  <2>1. CASE tail
    BY <2>1
  <2>2. CASE ~tail
    <3>1. GetType(item_info) # "trivial"
      <4> SUFFICES ASSUME GetType(item_info) = "trivial" PROVE FALSE
        OBVIOUS
      <4>1. MergedUsed(item_info, tail) = 0 + 0
        BY <2>2 DEF MergedUsed
      <4> QED BY <4>1
    <3> QED BY <2>2, <3>1, TypeOfCAB
  <2> QED BY <2>1, <2>2
<1>7. CASE type = "crucial"
  <2>1. os \in Seq(Cell) /\ vs \in Seq(Cell) /\ Placed(kind, os, vs, items)
    BY <1>3, SegmentTypes DEF Holds
  <2>2. MergedBytes(tail) = Levels(items) \o (os \o vs)
    <3> HIDE DEF rs, ds, os, vs, type
    <3> QED BY <1>1, <1>4, <1>7
  <2> HIDE DEF os, vs
  <2> QED BY <2>1, <2>2 DEF Coded
<1>8. CASE type = "allnull"
  <2>1. MergedBytes(tail) = Levels(items)
    <3>1. MergedBytes(tail) = Levels(items) \o <<>>
      <4> HIDE DEF rs, ds, os, vs, type
      <4> QED BY <1>1, <1>4, <1>8
    <3> QED BY <1>5, <3>1
  <2>2. GetType(item_info) = "allnull"
    BY <1>8
  <2>3. ASSUME NEW i \in 1..Len(items) PROVE items[i].val = Null
    <3>1. item_info.triv_num = item_info.item_num \/ item_info.null_num = item_info.item_num
      BY <2>2 DEF GetType
    <3>2. items \in Seq(ColumnItem)
      BY NullItemsOfItem
    <3>3. items[i] \in TrivialItems \/ items[i] \in NullItems
      BY <3>1, <3>2, CountsFacts
    <3>4. items[i] \in Item
      OBVIOUS
    <3>5. items[i].def # MaxDef
      <4>1. MaxDef \in Nat \ {0} BY ConstantsAssumption
      <4>2. items[i].def < MaxDef \/ items[i].def = 0
        BY <3>3 DEF TrivialItems, NullItems
      <4>3. items[i].def \in 0..MaxDef
        BY <3>4 DEF Item, ColumnItem
      <4> QED BY <4>1, <4>2, <4>3
    <3> QED BY <3>4, <3>5 DEF Item
  <2> QED BY <2>1, <2>3 DEF Coded
<1> QED BY <1>6, <1>7, <1>8

\* After a flush every block on disk codes its items, the ones of the other CABs because their bytes are
\* not written.
LEMMA FlushedDiskInv ==
  ASSUME WInv, ContentInv, session = "open", NEW tail \in BOOLEAN,
         disk' = FlushedDisk(tail), bytes' = FlushedBytes(tail), kind' = kind
  PROVE  DiskInv'
<1>1. /\ Holds(kind, units, bva_bgn_off, items) /\ items \in Seq(Written) /\ BeginsRecord(items)
      /\ items \in Seq(Item) /\ Counts(item_info, items)
  BY DEF WInv, UnitInv, ContentInv, OpenContent
<1>2. /\ DOMAIN bytes = DOMAIN disk
      /\ \A o \in DOMAIN disk :
           disk[o] \in Seq(Written) /\ BeginsRecord(disk[o]) /\ Coded(kind, bytes[o], disk[o])
  BY DEF WInv, DiskInv
<1>3. CASE MergedUsed(item_info, tail) = 0
  <2>1. disk' = disk /\ bytes' = bytes
    BY <1>3 DEF FlushedDisk, FlushedBytes
  <2> QED BY <1>2, <2>1 DEF DiskInv
<1>4. CASE MergedUsed(item_info, tail) # 0
  <2>1. Coded(kind, MergedBytes(tail), items)
    BY <1>1, <1>4, MergedCoded
  <2> DEFINE mb == MergedBytes(tail)
             D == DOMAIN disk \cup {file_off}
  <2>2. disk' = [o \in D |-> IF o = file_off THEN items ELSE disk[o]]
        /\ bytes' = [o \in D |-> IF o = file_off THEN mb ELSE bytes[o]]
    BY <1>2, <1>4 DEF FlushedDisk, FlushedBytes
  <2>3. Coded(kind, mb, items) BY <2>1
  <2> HIDE DEF mb
  <2>4. DOMAIN disk' = D /\ DOMAIN bytes' = D
    BY <2>2
  <2>5. ASSUME NEW o \in D
        PROVE  disk'[o] \in Seq(Written) /\ BeginsRecord(disk'[o]) /\ Coded(kind, bytes'[o], disk'[o])
    <3>1. CASE o = file_off
      <4>1. disk'[o] = items /\ bytes'[o] = mb BY <2>2, <3>1
      <4> QED BY <1>1, <2>3, <4>1
    <3>2. CASE o # file_off
      <4>1. o \in DOMAIN disk /\ disk'[o] = disk[o] /\ bytes'[o] = bytes[o] BY <2>2, <3>2
      <4> QED BY <1>2, <4>1
    <3> QED BY <3>1, <3>2
  <2> HIDE DEF D
  <2> QED BY <2>4, <2>5 DEF DiskInv
<1> QED BY <1>3, <1>4

\* Nothing is on disk and no unit is filled at first.
LEMMA InitW == ContentInit => WInv
<1> SUFFICES ASSUME ContentInit PROVE WInv
  OBVIOUS
<1>1. kind \in Kinds /\ session = "closed" /\ disk = [o \in {} |-> <<>>] /\ bytes = [o \in {} |-> <<>>]
  BY DEF ContentInit, Init
<1>2. DOMAIN disk = {} /\ DOMAIN bytes = {}
  BY <1>1
<1> QED BY <1>1, <1>2 DEF WInv, DiskInv, UnitInv

\* There are two kinds of value arrays.
LEMMA KindsUsed == Kinds \subseteq {"fixed", "var"}
  BY ContentAssumption

\* A step that leaves the blocks alone leaves them readable.
LEMMA DiskKept ==
  ASSUME DiskInv, disk' = disk, bytes' = bytes, kind' = kind
  PROVE  DiskInv'
  BY DEF DiskInv

\* One lemma for each step of the writer: WInv holds after a writer was created with an empty unit,
LEMMA CreateW ==
  ASSUME WInv, NEW rbgn \in FirstRecds, CreateContent(rbgn)
  PROVE  WInv'
<1>1. /\ disk' = [o \in {} |-> <<>>] /\ bytes' = [o \in {} |-> <<>>] /\ kind' = kind
      /\ units' = <<MajorUnit>> /\ bva_bgn_off' = 0 /\ items' = <<>>
  BY DEF CreateContent, Begin, OpenWrite
<1>2. DOMAIN disk' = {} /\ DOMAIN bytes' = {}
  BY <1>1
<1>3. DiskInv'
  BY <1>2 DEF DiskInv
<1>4. kind' \in {"fixed", "var"} /\ kind' \in Kinds
  BY <1>1, KindsUsed DEF WInv
<1>5. Holds(kind', <<MajorUnit>>, 0, <<>>)
  BY <1>4, HoldsMajor
<1>6. <<>> \in Seq(Written) /\ BeginsRecord(<<>>)
  BY DEF BeginsRecord
<1>7. UnitInv'
  BY <1>1, <1>5, <1>6 DEF UnitInv
<1> QED BY <1>3, <1>4, <1>7 DEF WInv

\* after an appender went on with a CAB of its own because the tail was full,
LEMMA ExtendW ==
  ASSUME WInv, ExtendContent
  PROVE  WInv'
<1>1. /\ disk' = disk /\ bytes' = bytes /\ kind' = kind
      /\ units' = <<MajorUnit>> /\ bva_bgn_off' = 0 /\ items' = <<>>
  BY DEF ExtendContent, Begin, OpenAppendNextCAB, OpenAppend, fileVars
<1>3. DiskInv'
  BY <1>1, DiskKept DEF WInv
<1>4. kind' \in {"fixed", "var"} /\ kind' \in Kinds
  BY <1>1, KindsUsed DEF WInv
<1>5. Holds(kind', <<MajorUnit>>, 0, <<>>)
  BY <1>4, HoldsMajor
<1>6. <<>> \in Seq(Written) /\ BeginsRecord(<<>>)
  BY DEF BeginsRecord
<1>7. UnitInv'
  BY <1>1, <1>5, <1>6 DEF UnitInv
<1> QED BY <1>3, <1>4, <1>7 DEF WInv

\* (what an appender finds of a tail that is not full)
LEMMA TailBlock ==
  ASSUME IInv, ContentInv, DiskInv, session = "closed", info_file # NoFile, ~TailIsFull
  PROVE  /\ disk[TailInfo.file_off] \in Seq(Written) /\ BeginsRecord(disk[TailInfo.file_off])
         /\ Coded(kind, bytes[TailInfo.file_off], disk[TailInfo.file_off])
         /\ Len(disk[TailInfo.file_off]) = TailInfo.item.item_num
         /\ Sound(TailInfo)
<1>1. TypeOK /\ FileInv
  BY DEF IInv
<1>2. TailInfo.item.recd_num \in 1..RecdCap
  BY <1>1, LoadedTail
<1>3. TailInfo.item.recd_num # RecdCap
  <2>1. RecdCap \in Nat \ {0} BY ConstantsAssumption
  <2>2. RecdCap % RecdCap = 0 BY <2>1
  <2> QED BY <2>2 DEF TailIsFull
<1>4. TailInfo.item.recd_num \notin {0, RecdCap}
  BY <1>2, <1>3
<1>5. TailStored(TailInfo) /\ Readable(TailInfo)
  BY <1>1 DEF FileInv
<1>6. TailInfo.strg_size # 0 /\ TailInfo.file_off \in DOMAIN disk
  BY <1>4, <1>5 DEF TailStored
<1>7. Len(disk[TailInfo.file_off]) = TailInfo.item.item_num
  BY <1>5, <1>6 DEF Readable
<1>8. Sound(TailInfo)
  BY <1>6, <1>7 DEF ContentInv, TailContent
<1> QED BY <1>6, <1>7, <1>8 DEF DiskInv

\* after an appender reloaded such a tail,
LEMMA ReloadW ==
  ASSUME IInv, ContentInv, WInv, ReloadContent
  PROVE  WInv'
<1>1. /\ disk' = disk /\ bytes' = bytes /\ kind' = kind
      /\ units' = <<CopyContent(TailInfo)>> /\ bva_bgn_off' = 0 /\ items' = ReadBlock(TailInfo)
      /\ session = "closed" /\ info_file # NoFile /\ ~TailIsFull
  BY DEF ReloadContent, Begin, OpenAppendTail, ReopenTail, OpenAppend, Open, fileVars
<1>2. DiskInv /\ kind \in Kinds
  BY DEF WInv
<1>3. DiskInv'
  BY <1>1, <1>2, DiskKept
<1>4. /\ disk[TailInfo.file_off] \in Seq(Written) /\ BeginsRecord(disk[TailInfo.file_off])
      /\ Coded(kind, bytes[TailInfo.file_off], disk[TailInfo.file_off])
      /\ Len(disk[TailInfo.file_off]) = TailInfo.item.item_num
      /\ Sound(TailInfo)
  BY <1>1, <1>2, TailBlock
<1> DEFINE info == TailInfo
           u == CopyContent(info)
           is == ReadBlock(info)
<1>5. is \in Seq(Written) /\ BeginsRecord(is)
  BY <1>4, ReadWritten
<1>6. /\ u \in Unit /\ u.cap % ByteBits = 0
      /\ u.reps = Reps(is) /\ u.defs = Defs(is)
      /\ Placed(kind, u.offs, u.vals, is)
      /\ kind = "var" => u.cur_off = Len(u.vals)
  BY <1>2, <1>4, CopyHolds
<1>7. units' = <<u>> /\ items' = is
  BY <1>1
<1> HIDE DEF u, is
<1>8. Holds(kind, <<u>>, 0, is)
  BY <1>5, <1>6, HoldsOne
<1>9. UnitInv'
  BY <1>1, <1>5, <1>7, <1>8 DEF UnitInv
<1> QED BY <1>1, <1>2, <1>3, <1>9 DEF WInv

\* (the CAB an item is added to, and what it is to hold then)
LEMMA ItemAdded ==
  ASSUME IInv, WInv, NEW it \in Inputs, WriteInCAB(it)
  PROVE  /\ session = "open" /\ it \in Written
         /\ disk' = disk /\ items' = Append(items, it)
         /\ items \in Seq(Written) /\ bva_bgn_off \in Nat /\ Holds(kind, units, bva_bgn_off, items)
         /\ items' \in Seq(Written) /\ BeginsRecord(items')
<1>1. session = "open" /\ CanWrite(it) /\ disk' = disk /\ items' = Append(items, it)
  BY DEF WriteInCAB, CanWrite, fileVars
<1>2. it \in Written
  BY <1>1, InputItems
<1>3. items \in Seq(Written) /\ BeginsRecord(items) /\ bva_bgn_off \in Nat /\ Holds(kind, units, bva_bgn_off, items)
  BY <1>1 DEF WInv, UnitInv
<1>4. items' \in Seq(Written)
  BY <1>1, <1>2, <1>3
<1>5. items = <<>> => it.rep = 0
  <2> SUFFICES ASSUME items = <<>> PROVE it.rep = 0
    OBVIOUS
  <2>1. item_info.item_num = 0
    <3>1. Len(items) = 0 OBVIOUS
    <3> QED BY <1>1, <3>1 DEF IInv, OpenInv
  <2>2. ~(Len(log) > Len(durable))
    BY <1>1, <2>1 DEF IInv, OpenInv
  <2>3. ~(it.rep > 0)
    BY <1>1, <2>2 DEF CanWrite
  <2>4. it.rep \in Nat
    BY <1>2, ConstantsAssumption DEF Written, Item, ColumnItem
  <2> QED BY <2>3, <2>4
<1>6. items'[1].rep = 0
  <2>1. CASE items = <<>>
    BY <1>1, <1>5, <2>1
  <2>2. CASE items # <<>>
    <3>1. items'[1] = items[1]
      BY <1>1, <1>2, <1>3, <2>2
    <3> QED BY <1>3, <2>2, <3>1 DEF BeginsRecord
  <2> QED BY <2>1, <2>2
<1> QED BY <1>1, <1>2, <1>3, <1>4, <1>6 DEF BeginsRecord

\* after an item was written to the last unit,
LEMMA UnitW ==
  ASSUME IInv, WInv, NEW it \in Inputs, WriteToUnit(it)
  PROVE  WInv'
<1>1. /\ WriteInCAB(it) /\ kind' = kind /\ bytes' = bytes /\ bva_bgn_off' = bva_bgn_off
      /\ units' = [units EXCEPT ![Len(units)] = WriteItem(units[Len(units)], it)]
  BY DEF WriteToUnit
<1>2. kind \in Kinds /\ kind \in {"fixed", "var"} /\ DiskInv
  BY KindsUsed DEF WInv
<1>3. /\ it \in Written /\ disk' = disk /\ items' = Append(items, it)
      /\ items \in Seq(Written) /\ bva_bgn_off \in Nat /\ Holds(kind, units, bva_bgn_off, items)
      /\ items' \in Seq(Written) /\ BeginsRecord(items')
  BY <1>1, ItemAdded
<1>4. Holds(kind, [units EXCEPT ![Len(units)] = WriteItem(units[Len(units)], it)], bva_bgn_off, Append(items, it))
  BY <1>2, <1>3, HoldsWrite
<1>5. Holds(kind', units', bva_bgn_off', items')
  BY <1>1, <1>3, <1>4
<1>6. UnitInv'
  BY <1>1, <1>3, <1>5 DEF UnitInv
<1>7. DiskInv'
  BY <1>1, <1>2, <1>3, DiskKept
<1> QED BY <1>1, <1>2, <1>6, <1>7 DEF WInv

\* (the last element of a sequence is replaced)
LEMMA AppendReplace ==
  ASSUME NEW S, NEW s \in Seq(S), NEW u \in S, NEW w \in S
  PROVE  [Append(s, u) EXCEPT ![Len(s) + 1] = w] = Append(s, w)
<1> DEFINE a == Append(s, u)
           t == [a EXCEPT ![Len(s) + 1] = w]
<1>1. a \in Seq(S) /\ Len(a) = Len(s) + 1 /\ Len(s) \in Nat /\ \A i \in 1..Len(s) : a[i] = s[i]
  OBVIOUS
<1> HIDE DEF a
<1>2. t \in Seq(S) /\ Len(t) = Len(s) + 1 /\ t[Len(s) + 1] = w /\ \A i \in 1..Len(s) : t[i] = a[i]
  BY <1>1
<1> HIDE DEF t
<1>3. t = Append(s, w)
  BY <1>1, <1>2, AppendIs
<1> QED BY <1>3 DEF t, a

\* after an item was written to a new minor unit,
LEMMA MinorW ==
  ASSUME IInv, WInv, NEW it \in Inputs, WriteToMinorUnit(it)
  PROVE  WInv'
<1> DEFINE n == Len(units)
           nb == bva_bgn_off + Len(units[n].vals)
           cap == MinorCap
           u == NewUnit(cap, nb)
           ws == Append(units, u)
<1>1. /\ WriteInCAB(it) /\ kind' = kind /\ bytes' = bytes /\ bva_bgn_off' = nb
      /\ units' = Append(units, WriteItem(u, it)) /\ Len(units[n].defs) = units[n].cap
  BY DEF WriteToMinorUnit, NextBeginOffset, IsFull, Last
<1>2. kind \in Kinds /\ kind \in {"fixed", "var"} /\ DiskInv
  BY KindsUsed DEF WInv
<1>3. /\ session = "open" /\ it \in Written /\ disk' = disk /\ items' = Append(items, it)
      /\ items \in Seq(Written) /\ bva_bgn_off \in Nat /\ Holds(kind, units, bva_bgn_off, items)
      /\ items' \in Seq(Written) /\ BeginsRecord(items')
  BY <1>1, ItemAdded
<1>4. units \in Seq(Unit) /\ n \in Nat \ {0} /\ n \in 1..n /\ units # <<>>
  BY <1>3 DEF Holds
<1>5. cap \in Nat \ {0} /\ cap % ByteBits = 0
  <2>1. item_info \in ItemInfo /\ item_info.recd_num <= RecdCap /\ item_info.recd_num <= item_info.item_num
        /\ (item_info.item_num > 0 => item_info.recd_num > 0) /\ Len(items) = item_info.item_num
    BY <1>3 DEF IInv, TypeOK, WriterInv, OpenInv
  <2>2. Len(items) > 0
    <3>1. PICK head \in Seq(Written), rest \in Seq(Written) : LevelsIn(units, items, head, rest)
      BY <1>3 DEF Holds
    <3>2. items = head \o rest /\ units[n].defs = Defs(rest)
      BY <3>1 DEF LevelsIn
    <3>3. units[n].cap \in Nat \ {0} /\ Len(rest) = units[n].cap
      BY <1>1, <1>4, <3>2, SegmentTypes, LevelSeqs
    <3>4. Len(items) = Len(head) + Len(rest) /\ Len(head) \in Nat /\ Len(rest) \in Nat
      BY <3>2, ConcatProperties
    <3> DEFINE r == Len(rest)
    <3>5. r \in Nat \ {0} /\ Len(items) = Len(head) + r
      BY <3>3, <3>4
    <3> HIDE DEF r
    <3> QED BY <3>4, <3>5
  <2> QED BY <2>1, <2>2, MinorCapAligned
<1> HIDE DEF cap
<1>6. nb \in Nat /\ Holds(kind, ws, nb, items)
  BY <1>1, <1>3, <1>5, HoldsMinor
<1>7. Holds(kind, [ws EXCEPT ![Len(ws)] = WriteItem(ws[Len(ws)], it)], nb, Append(items, it))
  <2> HIDE DEF ws, nb
  <2> QED BY <1>2, <1>3, <1>6, HoldsWrite
<1>8. [ws EXCEPT ![Len(ws)] = WriteItem(ws[Len(ws)], it)] = Append(units, WriteItem(u, it))
  <2> DEFINE w == WriteItem(u, it)
  <2> HIDE DEF u, n
  <2>1. Len(ws) = n + 1 /\ ws[Len(ws)] = u
    BY <1>4 DEF n
  <2> HIDE DEF w
  <2>2. [ws EXCEPT ![Len(units) + 1] = w] = Append(units, w)
    <3> DEFINE S == Unit \cup {u, w}
    <3>1. units \in Seq(S) /\ u \in S /\ w \in S
      BY <1>4
    <3> HIDE DEF S
    <3> QED BY <3>1, AppendReplace
  <2> QED BY <2>1, <2>2 DEF w, n
<1>9. Holds(kind', units', bva_bgn_off', items')
  <2> HIDE DEF ws, nb, u
  <2> QED BY <1>1, <1>3, <1>7, <1>8
<1>10. UnitInv'
  <2> HIDE DEF ws, nb, u
  <2> QED BY <1>1, <1>3, <1>6, <1>9 DEF UnitInv
<1>11. DiskInv'
  BY <1>1, <1>2, <1>3, DiskKept
<1> QED BY <1>1, <1>2, <1>10, <1>11 DEF WInv

\* after the CAB was flushed and the item became the first one of the next CAB,
LEMMA NextContentW ==
  ASSUME IInv, ContentInv, WInv, NEW it \in Inputs, WriteToNextContent(it)
  PROVE  WInv'
<1>1. /\ WriteToNextCAB(it) /\ bytes' = FlushedBytes(FALSE) /\ kind' = kind /\ bva_bgn_off' = 0
      /\ units' = <<WriteItem(MajorUnit, it)>>
  BY DEF WriteToNextContent, Begin
<1>2. /\ CanWrite(it) /\ session = "open" /\ disk' = FlushedDisk(FALSE) /\ items' = <<it>> /\ it.rep = 0
  BY <1>1 DEF WriteToNextCAB, CanWrite, CheckFull
<1>3. kind \in Kinds /\ kind \in {"fixed", "var"}
  BY KindsUsed DEF WInv
<1>4. it \in Written
  BY <1>2, InputItems
<1>5. Holds(kind, <<WriteItem(MajorUnit, it)>>, 0, <<it>>)
  BY <1>3, <1>4, HoldsFirst
<1>6. <<it>> \in Seq(Written) /\ BeginsRecord(<<it>>)
  BY <1>2, <1>4 DEF BeginsRecord
<1>7. UnitInv'
  BY <1>1, <1>2, <1>5, <1>6 DEF UnitInv
<1>8. DiskInv'
  BY <1>1, <1>2, FlushedDiskInv
<1> QED BY <1>1, <1>3, <1>7, <1>8 DEF WInv

\* after the flush of a closing writer,
LEMMA FlushW ==
  ASSUME IInv, ContentInv, WInv, FlushContent
  PROVE  WInv'
<1>1. /\ session = "open" /\ session' = "flushed" /\ disk' = FlushedDisk(TRUE)
      /\ bytes' = FlushedBytes(TRUE) /\ kind' = kind
  BY DEF FlushContent, CloseFlush
<1>2. DiskInv'
  BY <1>1, FlushedDiskInv
<1> QED BY <1>1, <1>2 DEF WInv, UnitInv

\* after a step that ends without an open session,
LEMMA ClosedW ==
  ASSUME WInv, kind' = kind, bytes' = bytes, disk' = disk, session' # "open"
  PROVE  WInv'
  BY DiskKept DEF WInv, UnitInv

\* such as the close of a CAB without content,
LEMMA DropW ==
  ASSUME IInv, WInv, DropContent
  PROVE  WInv'
<1>1. kind' = kind /\ bytes' = bytes
  BY DEF DropContent
<1>2. disk' = disk /\ session' # "open"
  BY DEF DropContent, CloseInfo, Crash, fileVars
<1> QED BY <1>1, <1>2, ClosedW

\* a failed open or a restart,
LEMMA RestW ==
  ASSUME IInv, WInv, OpenAppendTailFails \/ Restart, UNCHANGED <<kind, units, bva_bgn_off, bytes>>
  PROVE  WInv'
<1>1. kind' = kind /\ bytes' = bytes
  OBVIOUS
<1>2. disk' = disk /\ session' # "open"
  BY DEF OpenAppendTailFails, Restart, fileVars
<1> QED BY <1>1, <1>2, ClosedW

\* and so after every step of the writer.
LEMMA WriterSteps ==
  ASSUME IInv, ContentInv, WInv, ContentNext
  PROVE  WInv'
<1>1. CASE \E rbgn \in FirstRecds : CreateContent(rbgn)
  BY <1>1, CreateW
<1>2. CASE ExtendContent
  BY <1>2, ExtendW
<1>3. CASE ReloadContent
  BY <1>3, ReloadW
<1>4. ASSUME NEW it \in Inputs, WriteToUnit(it) \/ WriteToMinorUnit(it) \/ WriteToNextContent(it)
      PROVE  WInv'
  BY <1>4, UnitW, MinorW, NextContentW
<1>5. CASE FlushContent
  BY <1>5, FlushW
<1>6. CASE DropContent
  BY <1>6, DropW
<1>7. CASE (OpenAppendTailFails \/ Restart) /\ UNCHANGED <<kind, units, bva_bgn_off, bytes>>
  BY <1>7, RestW
<1> QED BY <1>1, <1>2, <1>3, <1>4, <1>5, <1>6, <1>7 DEF ContentNext

\* A step that changes nothing of the files and the writer keeps WInv.
LEMMA KeptW ==
  ASSUME WInv, UNCHANGED contentVars
  PROVE  WInv'
<1>1. /\ kind' = kind /\ bytes' = bytes /\ disk' = disk /\ units' = units /\ bva_bgn_off' = bva_bgn_off
      /\ session' = session /\ items' = items
  BY DEF contentVars, vars, fileVars, cabVars
<1>2. DiskInv' BY <1>1, DiskKept DEF WInv
<1>3. UnitInv'
  BY <1>1 DEF WInv, UnitInv
<1> QED BY <1>1, <1>2, <1>3 DEF WInv

-----------------------------------------------------------------------------
(* CountInv is inductive: the numbers of records in the CABInfos.          *)

\* SoundIn is Sound, for a disk that is given.
LEMMA SoundForm ==
  ASSUME NEW info
  PROVE  Sound(info) <=> SoundIn(disk, info)
  BY ReadBlockOf DEF Sound, SoundIn

\* The numbers of records stay right when no block before the last CAB changes.
LEMMA RisingKept ==
  ASSUME NEW d, NEW e, NEW is, Rising(d, is), Len(is) \in Nat,
         \A i \in 1..(Len(is) - 1) : is[i].strg_size # 0 => e[is[i].file_off] = d[is[i].file_off]
  PROVE  Rising(e, is)
<1> SUFFICES ASSUME NEW i \in 1..Len(is)
             PROVE  /\ is[i].strg_size = 0 =>
                         /\ GetType(is[i].item) = "trivial"
                         /\ is[i].item.recd_num = is[i].item.item_num
                         /\ i < Len(is) => NextRecd(is[i]) <= is[i + 1].item.bgn_recd
                    /\ is[i].strg_size # 0 /\ i < Len(is) =>
                         SoundIn(e, is[i]) /\ is[i + 1].item.bgn_recd = NextRecd(is[i])
  BY DEF Rising
<1>1. i < Len(is) => i \in 1..(Len(is) - 1)
  OBVIOUS
<1>2. is[i].strg_size # 0 /\ i < Len(is) => SoundIn(d, is[i]) /\ e[is[i].file_off] = d[is[i].file_off]
  BY <1>1 DEF Rising
<1>3. is[i].strg_size # 0 /\ i < Len(is) => SoundIn(e, is[i])
  BY <1>2 DEF SoundIn
<1> QED BY <1>3 DEF Rising

\* The CABInfo of a new CAB continues the numbers.
LEMMA RisingAppend ==
  ASSUME NEW d, NEW is \in Seq(Info), NEW off \in Nat, NEW bgn \in Nat, Len(is) > 0, Rising(d, is),
         is[Len(is)].strg_size = 0 => NextRecd(is[Len(is)]) <= bgn,
         is[Len(is)].strg_size # 0 => SoundIn(d, is[Len(is)]) /\ bgn = NextRecd(is[Len(is)])
  PROVE  Rising(d, Append(is, NewInfo(off, bgn)))
<1> DEFINE n == Len(is)
           new == NewInfo(off, bgn)
           js == Append(is, new)
<1>1. new \in Info /\ new.strg_size = 0 /\ new.item = EmptyItemInfo(bgn) /\ new.item.bgn_recd = bgn
  BY NewInfoType DEF EmptyItemInfo
<1>2. GetType(new.item) = "trivial" /\ new.item.recd_num = new.item.item_num
  BY <1>1 DEF EmptyItemInfo, GetType
<1> HIDE DEF new
<1>3. n \in Nat \ {0} /\ Len(js) = n + 1 /\ js[n + 1] = new /\ \A i \in 1..n : js[i] = is[i]
  BY <1>1
<1> HIDE DEF js
<1> SUFFICES ASSUME NEW i \in 1..Len(js)
             PROVE  /\ js[i].strg_size = 0 =>
                         /\ GetType(js[i].item) = "trivial"
                         /\ js[i].item.recd_num = js[i].item.item_num
                         /\ i < Len(js) => NextRecd(js[i]) <= js[i + 1].item.bgn_recd
                    /\ js[i].strg_size # 0 /\ i < Len(js) =>
                         SoundIn(d, js[i]) /\ js[i + 1].item.bgn_recd = NextRecd(js[i])
  BY DEF Rising, js, new
<1>4. CASE i = n + 1
  <2>1. js[i] = new /\ ~(i < Len(js)) BY <1>3, <1>4
  <2> QED BY <1>1, <1>2, <2>1
<1>5. CASE i = n
  <2>1. js[i] = is[n] /\ js[i + 1] = new /\ i \in 1..Len(is) BY <1>3, <1>5
  <2> QED BY <1>1, <2>1, <1>5 DEF Rising
<1>6. CASE i \in 1..(n - 1)
  <2>1. js[i] = is[i] /\ js[i + 1] = is[i + 1] /\ i \in 1..Len(is) /\ i < Len(is) BY <1>3, <1>6
  <2> QED BY <2>1 DEF Rising
<1>7. i = n + 1 \/ i = n \/ i \in 1..(n - 1)
  BY <1>3
<1> QED BY <1>4, <1>5, <1>6, <1>7

\* A flush completes the last CABInfo.
LEMMA RisingReplace ==
  ASSUME NEW d, NEW e, NEW is \in Seq(Info), NEW info \in Info, Len(is) > 0, Rising(d, is),
         info.item.bgn_recd = is[Len(is)].item.bgn_recd,
         info.strg_size = 0 => GetType(info.item) = "trivial" /\ info.item.recd_num = info.item.item_num,
         \A i \in 1..(Len(is) - 1) : is[i].strg_size # 0 => e[is[i].file_off] = d[is[i].file_off]
  PROVE  Rising(e, [is EXCEPT ![Len(is)] = info])
<1> DEFINE n == Len(is)
           js == [is EXCEPT ![n] = info]
<1>1. n \in Nat \ {0} /\ Len(js) = n /\ js[n] = info /\ (\A i \in 1..(n - 1) : js[i] = is[i])
  OBVIOUS
<1>2. Rising(e, is)
  BY RisingKept
<1> HIDE DEF js
<1> SUFFICES ASSUME NEW i \in 1..Len(js)
             PROVE  /\ js[i].strg_size = 0 =>
                         /\ GetType(js[i].item) = "trivial"
                         /\ js[i].item.recd_num = js[i].item.item_num
                         /\ i < Len(js) => NextRecd(js[i]) <= js[i + 1].item.bgn_recd
                    /\ js[i].strg_size # 0 /\ i < Len(js) =>
                         SoundIn(e, js[i]) /\ js[i + 1].item.bgn_recd = NextRecd(js[i])
  BY DEF Rising, js
<1>3. CASE i = n
  <2>1. js[i] = info /\ ~(i < Len(js)) BY <1>1, <1>3
  <2> QED BY <2>1
<1>4. CASE i \in 1..(n - 1)
  <2>1. js[i] = is[i] /\ i \in 1..Len(is) /\ i < Len(is) BY <1>1, <1>4
  <2>2. js[i + 1].item.bgn_recd = is[i + 1].item.bgn_recd
    <3>1. CASE i + 1 = n BY <1>1, <3>1
    <3>2. CASE i + 1 # n
      <4>1. i + 1 \in 1..(n - 1) BY <1>1, <1>4, <3>2
      <4> QED BY <1>1, <4>1
    <3> QED BY <3>1, <3>2
  <2> QED BY <1>1, <1>2, <2>1, <2>2 DEF Rising
<1> QED BY <1>1, <1>3, <1>4

\* Counters that start together,
LEMMA EarlierEmpty ==
  ASSUME NEW bgn \in Nat
  PROVE  Earlier(EmptyItemInfo(bgn), EmptyItemInfo(bgn))
  BY DEF Earlier, EmptyItemInfo

\* counters of the items themselves
LEMMA EarlierSame ==
  ASSUME NEW ii, NEW is \in Seq(ColumnItem), Counts(ii, is)
  PROVE  Earlier(ii, ii)
<1>1. /\ ii.item_num \in Nat /\ ii.recd_num \in Nat /\ ii.null_num \in Nat /\ ii.triv_num \in Nat
      /\ ii.recd_num <= ii.item_num /\ ii.null_num <= ii.item_num
      /\ ii.triv_num <= ii.recd_num /\ ii.triv_num <= ii.null_num
  BY CountsFacts
<1> QED BY <1>1 DEF Earlier

\* and counters that went on counting are those of the same CAB.
LEMMA EarlierUpdate ==
  ASSUME NEW old \in ItemInfo, NEW ii \in ItemInfo, NEW it \in ColumnItem, Earlier(old, ii)
  PROVE  Earlier(old, Update(ii, it))
<1> DEFINE new == Update(ii, it)
<1>1. /\ new.item_num = ii.item_num + 1
      /\ new.triv_num \in {ii.triv_num, ii.triv_num + 1} /\ new.null_num \in {ii.null_num, ii.null_num + 1}
  BY DEF Update, ItemInfo
<1>2. /\ ii.item_num \in Nat /\ ii.triv_num \in Nat /\ ii.null_num \in Nat
      /\ old.item_num \in Nat /\ old.triv_num \in Nat /\ old.null_num \in Nat
  BY DEF ItemInfo
<1> HIDE DEF new
<1>3. /\ ii.item_num - ii.triv_num <= new.item_num - new.triv_num
      /\ ii.item_num - ii.null_num <= new.item_num - new.null_num
      /\ new.item_num - new.triv_num \in Int /\ new.item_num - new.null_num \in Int
  BY <1>1, <1>2
<1>4. Earlier(old, new)
  BY <1>2, <1>3 DEF Earlier
<1> QED BY <1>4 DEF new

\* When all items of a CAB are trivial now, they were all trivial before: what the CABInfo kept from
\* its last flush is a trivial CAB of whole records.
LEMMA EarlierTrivial ==
  ASSUME NEW old \in ItemInfo, NEW ii \in ItemInfo, Earlier(old, ii),
         ii.triv_num = ii.item_num, ii.null_num = ii.item_num
  PROVE  GetType(old) = "trivial" /\ old.recd_num = old.item_num
<1>1. /\ ii.item_num \in Nat /\ ii.triv_num \in Nat /\ ii.null_num \in Nat
      /\ old.item_num \in Nat /\ old.triv_num \in Nat /\ old.null_num \in Nat
  BY DEF ItemInfo
<1>2. old.triv_num = old.item_num /\ old.null_num = old.item_num
  BY <1>1 DEF Earlier
<1> QED BY <1>2 DEF Earlier, GetType

\* Aligning down does not go up.
LEMMA AlignBelow ==
  ASSUME NEW n \in Nat, NEW a \in Nat \ {0}
  PROVE  CalcAlignBegin(n, a) \in Nat /\ CalcAlignBegin(n, a) <= n
<1> DEFINE q == n \div a
           r == (n % a)
<1>1. q \in Nat /\ r \in Nat /\ n = a * q + r
  OBVIOUS
<1> HIDE DEF q, r
<1>2. a * q \in Nat /\ q * a = a * q
  BY <1>1
<1>3. q * a \in Nat /\ q * a <= n
  BY <1>1, <1>2
<1> QED BY <1>3 DEF CalcAlignBegin, q

\* The .info file keeps its counts when it and the blocks before its tail are not written.
LEMMA FileCountsKept ==
  ASSUME IInv, FileCounts, info_file' = info_file,
         info_file # NoFile =>
           \A i \in 1..(Len(info_file.infos) - 1) :
             info_file.infos[i].strg_size # 0 =>
               disk'[info_file.infos[i].file_off] = disk[info_file.infos[i].file_off]
  PROVE  FileCounts'
<1> SUFFICES ASSUME info_file # NoFile
             PROVE  /\ Rising(disk', info_file.infos)
                    /\ info_file.infos[1].item.bgn_recd <= info_file.valid_recd
  BY DEF FileCounts
<1>1. Len(info_file.infos) \in Nat
  BY DEF IInv, TypeOK
<1>2. Rising(disk', info_file.infos)
  BY <1>1, RisingKept DEF FileCounts
<1> QED BY <1>2 DEF FileCounts

\* Nothing is to be said of a writer that is not there.
LEMMA NoWriter ==
  ASSUME session \notin {"open", "flushed"}
  PROVE  WriterCounts /\ CABCounts
  BY DEF WriterCounts, CABCounts, Writing

\* CountInv holds at first, and after each step:
LEMMA InitCounts == Init => CountInv
  BY NoWriter DEF Init, CountInv, FileCounts

\* a writer is created,
LEMMA OpenWriteCounts ==
  ASSUME IInv, NEW rbgn \in FirstRecds, OpenWrite(rbgn)
  PROVE  CountInv'
<1> DEFINE bgn == CalcAlignBegin(rbgn, RecdCap)
           new == NewInfo(0, bgn)
<1>1. rbgn \in Nat /\ RecdCap \in Nat \ {0}
  BY ConstantsAssumption
<1>2. bgn \in Nat /\ bgn <= rbgn
  BY <1>1, AlignBelow
<1>3. /\ session' = "open" /\ valid_recd' = rbgn /\ recd_num' = bgn /\ infos' = <<new>>
      /\ item_info' = EmptyItemInfo(bgn) /\ info_file' = NoFile
  BY Zenon DEF OpenWrite, Open
<1> HIDE DEF bgn
<1>4. new.item = EmptyItemInfo(bgn) /\ new.item.bgn_recd = bgn /\ new.strg_size = 0
  BY DEF NewInfo, EmptyItemInfo
<1>5. GetType(new.item) = "trivial" /\ new.item.recd_num = new.item.item_num
  BY <1>4 DEF EmptyItemInfo, GetType
<1> HIDE DEF new
<1>6. Len(infos') = 1 /\ infos'[1] = new
  BY <1>3
<1>7. Rising(disk', infos')
  <2> SUFFICES ASSUME NEW i \in 1..Len(infos') PROVE i = 1 /\ ~(i < Len(infos'))
    BY <1>4, <1>5, <1>6 DEF Rising
  <2> QED BY <1>6
<1>8. WriterCounts'
  BY <1>2, <1>3, <1>4, <1>6, <1>7 DEF WriterCounts
<1>9. CABCounts'
  <2>1. Cur' = new BY <1>6 DEF Cur
  <2> QED BY <2>1, <1>2, <1>3, <1>4, EarlierEmpty DEF CABCounts
<1> QED BY <1>3, <1>8, <1>9 DEF CountInv, FileCounts

\* an appender goes on behind a full tail,
LEMMA OpenAppendNextCABCounts ==
  ASSUME IInv, OrderInv, ContentInv, CountInv, OpenAppendNextCAB
  PROVE  CountInv'
<1> DEFINE is == info_file.infos
           off == TailInfo.file_off + TailInfo.strg_size
           bgn == TailInfo.item.bgn_recd + TailInfo.item.recd_num
<1>1. /\ session = "closed" /\ info_file # NoFile /\ session' = "open"
      /\ valid_recd' = info_file.valid_recd /\ recd_num' = bgn /\ file_off' = off
      /\ infos' = Append(is, NewInfo(off, bgn)) /\ item_info' = EmptyItemInfo(bgn)
      /\ disk' = disk /\ info_file' = info_file
  BY Zenon DEF OpenAppendNextCAB, OpenAppend, Open, fileVars
<1>2. is \in Seq(Info) /\ is # <<>> /\ TailInfo = is[Len(is)] /\ Len(is) \in Nat \ {0} /\ 1 \in 1..Len(is)
  BY <1>1 DEF IInv, TypeOK, FileInv, TailInfo
<1>3. /\ TailInfo \in Info /\ TailInfo.file_off \in Nat /\ TailInfo.strg_size \in Nat
      /\ TailInfo.item.bgn_recd \in Nat /\ TailInfo.item.recd_num \in Nat /\ TailInfo.item.item_num \in Nat
  BY <1>2, LastInfo, InfoFields
<1>4. off \in Nat /\ bgn \in Nat /\ bgn = NextRecd(is[Len(is)])
  <2>1. off \in Nat /\ bgn \in Nat BY <1>3
  <2>2. bgn = NextRecd(TailInfo) BY DEF NextRecd
  <2> QED BY <1>2, <2>1, <2>2
<1>5. Rising(disk, is) /\ is[1].item.bgn_recd <= info_file.valid_recd
  BY <1>1 DEF CountInv, FileCounts
<1>6. TailInfo.strg_size # 0 => SoundIn(disk, TailInfo)
  <2>1. Readable(TailInfo) BY <1>1 DEF IInv, FileInv
  <2>2. TailInfo.strg_size # 0 => Sound(TailInfo)
    BY <1>1, <2>1 DEF ContentInv, TailContent, Readable
  <2> QED BY <2>2, SoundForm
<1> HIDE DEF off, bgn
<1>7. Rising(disk, Append(is, NewInfo(off, bgn)))
  <2> HIDE DEF is
  <2> QED BY <1>2, <1>4, <1>5, <1>6, RisingAppend
<1>8. infos'[1] = is[1] /\ Len(infos') = Len(is) + 1 /\ infos'[Len(infos')] = NewInfo(off, bgn)
  <2> DEFINE new == NewInfo(off, bgn)
  <2>1. new \in Info BY <1>4, NewInfoType
  <2> HIDE DEF new, is
  <2> QED BY <1>1, <1>2, <2>1 DEF new
<1>9. WriterCounts'
  BY <1>1, <1>5, <1>7, <1>8 DEF WriterCounts
<1>10. CABCounts'
  <2>1. Cur' = NewInfo(off, bgn) BY <1>8 DEF Cur
  <2>2. Cur'.item = EmptyItemInfo(bgn) BY <2>1 DEF NewInfo
  <2> QED BY <2>2, <1>1, <1>4, EarlierEmpty DEF CABCounts
<1>11. FileCounts'
  BY <1>1, FileCountsKept DEF CountInv
<1> QED BY <1>9, <1>10, <1>11 DEF CountInv

\* an appender reloads a tail,
LEMMA OpenAppendTailCounts ==
  ASSUME IInv, OrderInv, ContentInv, CountInv, OpenAppendTail
  PROVE  CountInv'
<1>1. /\ session = "closed" /\ info_file # NoFile /\ ~TailIsFull /\ session' = "open"
      /\ valid_recd' = info_file.valid_recd
      /\ infos' = info_file.infos /\ item_info' = TailInfo.item
      /\ disk' = disk /\ info_file' = info_file
  BY Zenon DEF OpenAppendTail, ReopenTail, OpenAppend, Open, fileVars
<1>2. Sound(TailInfo)
  <2>1. TailInfo.item.recd_num \in 1..RecdCap
    BY <1>1, LoadedTail DEF IInv
  <2>2. Readable(TailInfo) /\ TailContent
    BY <1>1 DEF IInv, FileInv, ContentInv
  <2>3. TailInfo.strg_size # 0
    BY <1>1, <2>1, <2>2, ConstantsAssumption DEF TailContent
  <2> QED BY <1>1, <2>2, <2>3 DEF TailContent, Readable
<1>3. Earlier(TailInfo.item, TailInfo.item)
  <2>1. ReadBlock(TailInfo) \in Seq(ColumnItem)
    BY <1>1, LoadedTail DEF IInv
  <2> QED BY <1>2, <2>1, EarlierSame DEF Sound
<1>4. Cur' = TailInfo
  BY <1>1 DEF Cur, TailInfo
<1>5. FileCounts'
  BY <1>1, FileCountsKept DEF CountInv
<1> QED BY <1>1, <1>3, <1>4, <1>5 DEF CountInv, WriterCounts, FileCounts, CABCounts

\* an item is written to the CAB,
LEMMA WriteInCABCounts ==
  ASSUME IInv, CountInv, NEW it \in Item, WriteInCAB(it)
  PROVE  CountInv'
<1>1. /\ session = "open" /\ session' = session /\ item_info' = Update(item_info, it)
      /\ infos' = infos /\ valid_recd' = valid_recd /\ disk' = disk /\ info_file' = info_file
  BY Zenon DEF WriteInCAB, CanWrite, fileVars
<1>2. /\ Cur.item \in ItemInfo /\ item_info \in ItemInfo /\ it \in ColumnItem
  BY <1>1, LastInfo, InfoFields DEF IInv, TypeOK, WriterInv, Cur, Item
<1>3. Cur' = Cur
  BY <1>1 DEF Cur
<1>4. Earlier(Cur.item, Update(item_info, it))
  BY <1>1, <1>2, EarlierUpdate DEF CountInv, CABCounts
<1>5. FileCounts'
  BY <1>1, FileCountsKept DEF CountInv
<1> QED BY <1>1, <1>3, <1>4, <1>5 DEF CountInv, WriterCounts, CABCounts, Writing

\* (what a flush leaves in the CABInfos of the writer: a stored CAB has the counters of its items, and
\* one without content keeps those of a trivial CAB)
LEMMA FlushCounts ==
  ASSUME IInv, OrderInv, ContentInv, CountInv, session = "open", NEW tail \in BOOLEAN
  PROVE  LET js == [infos EXCEPT ![Len(infos)] = FlushedInfo(tail)]
             fi == FlushedInfo(tail)
         IN  /\ js \in Seq(Info) /\ Len(js) = Len(infos) /\ Len(infos) \in Nat \ {0}
             /\ js[Len(js)] = fi /\ js[1].item.bgn_recd = infos[1].item.bgn_recd
             /\ Rising(FlushedDisk(tail), js)
             /\ fi.strg_size = 0 => fi.item.recd_num <= item_info.recd_num /\ fi.item.recd_num \in Nat
             /\ fi.strg_size # 0 => fi.item = item_info /\ SoundIn(FlushedDisk(tail), fi)
             /\ fi.item.bgn_recd = item_info.bgn_recd
             /\ fi.file_off = file_off /\ fi.strg_size \in Nat
             /\ recd_num = item_info.bgn_recd + item_info.recd_num
<1> DEFINE n == Len(infos)
           js == [infos EXCEPT ![Len(infos)] = FlushedInfo(tail)]
           fi == FlushedInfo(tail)
           used == MergedUsed(item_info, tail)
           fd == FlushedDisk(tail)
<1>1. /\ TypeOK /\ WriterInv /\ OpenInv /\ infos \in Seq(Info) /\ infos # <<>>
      /\ item_info.bgn_recd = Cur.item.bgn_recd
      /\ recd_num = Cur.item.bgn_recd + item_info.recd_num
      /\ Cur.item.recd_num <= item_info.recd_num
      /\ item_info \in ItemInfo
  BY DEF IInv, TypeOK, WriterInv
<1>2. n \in Nat \ {0} /\ n \in 1..n /\ Cur = infos[n] /\ Cur.item \in ItemInfo
  BY <1>1, LastInfo, InfoFields DEF Cur
<1>3. /\ fi \in Info /\ fi.strg_size \in Nat /\ fi.file_off = file_off
      /\ fi.item.bgn_recd = item_info.bgn_recd
      /\ used = 0 => fi.strg_size = 0 /\ fi.item = Cur.item
      /\ used # 0 => fi.strg_size > 0 /\ fi.item = item_info
      /\ used # 0 => item_info.item_num > 0
      /\ used = 0 /\ tail => item_info.item_num = 0
  BY <1>1, FlushedInfoOpen
<1>4. js \in Seq(Info) /\ Len(js) = n /\ js[n] = fi /\ \A i \in 1..(n - 1) : js[i] = infos[i]
  <2> HIDE DEF fi
  <2> QED BY <1>1, <1>3, ReplaceLast DEF fi
<1>5. items \in Seq(Item) /\ Counts(item_info, items) /\ Earlier(Cur.item, item_info)
      /\ Rising(disk, infos)
  BY DEF ContentInv, OpenContent, CountInv, WriterCounts, CABCounts, Writing
<1>6. /\ item_info.item_num \in Nat /\ item_info.triv_num \in Nat /\ item_info.null_num \in Nat
      /\ item_info.recd_num \in Nat /\ item_info.recd_num <= item_info.item_num
      /\ item_info.triv_num <= item_info.recd_num /\ item_info.null_num <= item_info.item_num
  <2>1. items \in Seq(ColumnItem) BY DEF IInv, TypeOK
  <2> QED BY <1>5, <2>1, CountsFacts
<1>7. used = 0 => item_info.triv_num = item_info.item_num /\ item_info.null_num = item_info.item_num
  <2> SUFFICES ASSUME used = 0
               PROVE  item_info.triv_num = item_info.item_num /\ item_info.null_num = item_info.item_num
    OBVIOUS
  <2>1. CASE item_info.item_num = 0
    BY <2>1, <1>6
  <2>2. CASE item_info.item_num # 0
    <3>1. tail = FALSE BY <1>3, <2>2
    <3>2. GetType(item_info) = "trivial"
      <4>1. GetType(item_info) \in {"trivial", "allnull", "crucial"} BY TypeOfCAB
      <4> QED BY <2>2, <3>1, <4>1, <1>6 DEF MergedUsed
    <3> QED BY <3>2 DEF GetType
  <2> QED BY <2>1, <2>2
<1>8. fi.strg_size = 0 => used = 0
  BY <1>3
<1>9. fi.strg_size = 0 => GetType(fi.item) = "trivial" /\ fi.item.recd_num = fi.item.item_num
  BY <1>1, <1>2, <1>3, <1>5, <1>7, <1>8, EarlierTrivial
<1>10. \A i \in 1..(n - 1) : infos[i].strg_size # 0 => fd[infos[i].file_off] = disk[infos[i].file_off]
  BY FlushKeepsOwn
<1>11. fi.item.bgn_recd = infos[n].item.bgn_recd
  BY <1>1, <1>2, <1>3
<1>12. Rising(fd, js)
  <2> HIDE DEF fi, fd
  <2>0. Len(infos) > 0 /\ fi \in Info /\ infos \in Seq(Info) /\ Rising(disk, infos)
        /\ fi.item.bgn_recd = infos[Len(infos)].item.bgn_recd
    BY <1>1, <1>2, <1>3, <1>5, <1>11
  <2>a. fi.strg_size = 0 => GetType(fi.item) = "trivial" /\ fi.item.recd_num = fi.item.item_num
    BY <1>9
  <2>b. \A i \in 1..(Len(infos) - 1) :
          infos[i].strg_size # 0 => fd[infos[i].file_off] = disk[infos[i].file_off]
    BY <1>10
  <2>1. Rising(fd, [infos EXCEPT ![Len(infos)] = fi])
    BY <2>0, <2>a, <2>b, RisingReplace
  <2> QED BY <2>1 DEF fi
<1>13. fi.strg_size # 0 => fi.item = item_info /\ SoundIn(fd, fi)
  <2> SUFFICES ASSUME fi.strg_size # 0 PROVE fi.item = item_info /\ SoundIn(fd, fi)
    OBVIOUS
  <2>1. used # 0 /\ fi.item = item_info BY <1>3
  <2>2. fd[file_off] = items BY <1>1, <2>1, FlushedDiskType
  <2>3. ReadOf(items, item_info) = items BY <1>5, ReadCounted
  <2> HIDE DEF fi, fd
  <2> QED BY <1>3, <1>5, <2>1, <2>2, <2>3 DEF SoundIn
<1>14. js[1].item.bgn_recd = infos[1].item.bgn_recd
  <2>1. CASE n = 1 BY <1>4, <1>11, <2>1
  <2>2. CASE n # 1
    <3> HIDE DEF n
    <3>1. 1 \in 1..(n - 1) BY <1>2, <2>2
    <3> QED BY <1>4, <3>1
  <2> QED BY <2>1, <2>2
<1>15. fi.strg_size = 0 => fi.item.recd_num <= item_info.recd_num /\ fi.item.recd_num \in Nat
  BY <1>1, <1>2, <1>3, <1>8 DEF ItemInfo
<1> HIDE DEF fi, js, fd
<1> QED BY <1>1, <1>2, <1>3, <1>4, <1>12, <1>13, <1>14, <1>15 DEF fi, js, fd

\* an item goes to the next CAB,
LEMMA WriteToNextCABCounts ==
  ASSUME IInv, OrderInv, ContentInv, CountInv, NEW it \in Item, WriteToNextCAB(it)
  PROVE  CountInv'
<1> DEFINE fi == FlushedInfo(FALSE)
           js == [infos EXCEPT ![Len(infos)] = FlushedInfo(FALSE)]
           off == file_off + fi.strg_size
           new == NewInfo(off, recd_num)
<1>1. /\ session = "open" /\ session' = session /\ disk' = FlushedDisk(FALSE)
      /\ infos' = Append(js, new) /\ item_info' = Update(EmptyItemInfo(recd_num), it)
      /\ info_file' = info_file /\ valid_recd' = valid_recd
  BY Zenon DEF WriteToNextCAB, CanWrite
<1>2. /\ js \in Seq(Info) /\ Len(js) = Len(infos) /\ Len(infos) \in Nat \ {0}
      /\ js[Len(js)] = fi /\ js[1].item.bgn_recd = infos[1].item.bgn_recd
      /\ Rising(FlushedDisk(FALSE), js)
      /\ fi.strg_size = 0 => fi.item.recd_num <= item_info.recd_num /\ fi.item.recd_num \in Nat
      /\ fi.strg_size # 0 => fi.item = item_info /\ SoundIn(FlushedDisk(FALSE), fi)
      /\ fi.item.bgn_recd = item_info.bgn_recd
      /\ fi.file_off = file_off /\ fi.strg_size \in Nat
      /\ recd_num = item_info.bgn_recd + item_info.recd_num
  BY <1>1, FlushCounts
<1>3. file_off \in Nat /\ recd_num \in Nat /\ item_info \in ItemInfo
  BY DEF IInv, TypeOK
<1>4. item_info.recd_num \in Nat /\ item_info.bgn_recd \in Nat
  BY <1>3 DEF ItemInfo
<1> HIDE DEF fi, js
<1>5. off \in Nat
  BY <1>2, <1>3
<1> HIDE DEF off
<1>6. fi.strg_size = 0 => NextRecd(fi) <= recd_num
  BY <1>2, <1>4 DEF NextRecd
<1>7. fi.strg_size # 0 => recd_num = NextRecd(fi)
  BY <1>2 DEF NextRecd
<1>8. new \in Info /\ new.item = EmptyItemInfo(recd_num)
  BY <1>3, <1>5, NewInfoType
<1>9. Rising(disk', Append(js, NewInfo(off, recd_num)))
  <2> DEFINE e == disk'
  <2>a. js \in Seq(Info) /\ Len(js) > 0 /\ off \in Nat /\ recd_num \in Nat
    BY <1>2, <1>3, <1>5
  <2>b. Rising(e, js) /\ (fi.strg_size # 0 => SoundIn(e, fi))
    BY <1>1, <1>2
  <2>c. js[Len(js)] = fi
    BY <1>2
  <2> HIDE DEF e
  <2>1. /\ js \in Seq(Info) /\ Len(js) > 0 /\ Rising(e, js) /\ off \in Nat /\ recd_num \in Nat
        /\ js[Len(js)].strg_size = 0 => NextRecd(js[Len(js)]) <= recd_num
        /\ js[Len(js)].strg_size # 0 => SoundIn(e, js[Len(js)]) /\ recd_num = NextRecd(js[Len(js)])
    BY <1>6, <1>7, <2>a, <2>b, <2>c
  <2>2. Rising(e, Append(js, NewInfo(off, recd_num)))
    BY <2>1, RisingAppend
  <2> QED BY <2>2 DEF e
<1> HIDE DEF new
<1>10. infos'[1] = js[1] /\ infos'[Len(infos')] = new
  BY <1>1, <1>2, <1>8
<1>11. WriterCounts'
  <2>1. Rising(disk', infos') BY <1>1, <1>9 DEF new
  <2>2. infos[1].item.bgn_recd <= valid_recd BY <1>1 DEF CountInv, WriterCounts, Writing
  <2> QED BY <1>1, <1>2, <1>10, <2>1, <2>2 DEF WriterCounts
<1>12. CABCounts'
  <2>1. Cur' = new BY <1>10 DEF Cur
  <2>2. EmptyItemInfo(recd_num) \in ItemInfo BY <1>3, <1>5, NewInfoType
  <2>3. it \in ColumnItem BY DEF Item
  <2>4. Earlier(EmptyItemInfo(recd_num), Update(EmptyItemInfo(recd_num), it))
    BY <1>3, <2>2, <2>3, EarlierEmpty, EarlierUpdate
  <2> QED BY <1>1, <1>8, <2>1, <2>4 DEF CABCounts
<1>13. FileCounts'
  <2>1. info_file # NoFile =>
           \A i \in 1..(Len(info_file.infos) - 1) :
             info_file.infos[i].strg_size # 0 =>
               disk'[info_file.infos[i].file_off] = disk[info_file.infos[i].file_off]
    BY <1>1, FlushKeepsFinished
  <2> QED BY <1>1, <2>1, FileCountsKept DEF CountInv
<1> QED BY <1>11, <1>12, <1>13 DEF CountInv

\* a closing writer flushes,
LEMMA CloseFlushCounts ==
  ASSUME IInv, OrderInv, ContentInv, CountInv, CloseFlush
  PROVE  CountInv'
<1> DEFINE js == [infos EXCEPT ![Len(infos)] = FlushedInfo(TRUE)]
<1>1. /\ session = "open" /\ session' = "flushed" /\ disk' = FlushedDisk(TRUE)
      /\ infos' = js /\ info_file' = info_file /\ valid_recd' = valid_recd
  BY Zenon DEF CloseFlush
<1>2. /\ Rising(FlushedDisk(TRUE), js) /\ js[1].item.bgn_recd = infos[1].item.bgn_recd
  BY <1>1, FlushCounts
<1> HIDE DEF js
<1>3. infos[1].item.bgn_recd <= valid_recd
  BY <1>1 DEF CountInv, WriterCounts, Writing
<1>4. WriterCounts' /\ CABCounts'
  BY <1>1, <1>2, <1>3 DEF WriterCounts, CABCounts
<1>5. FileCounts'
  <2>1. info_file # NoFile =>
           \A i \in 1..(Len(info_file.infos) - 1) :
             info_file.infos[i].strg_size # 0 =>
               disk'[info_file.infos[i].file_off] = disk[info_file.infos[i].file_off]
    BY <1>1, FlushKeepsFinished
  <2> QED BY <1>1, <2>1, FileCountsKept DEF CountInv
<1> QED BY <1>4, <1>5 DEF CountInv

\* and writes its CABInfos to the .info file,
LEMMA CloseInfoCounts ==
  ASSUME IInv, CountInv, CloseInfo
  PROVE  CountInv'
<1>1. /\ session = "flushed" /\ session' = "closed" /\ disk' = disk
      /\ info_file' = [infos |-> infos, valid_recd |-> valid_recd]
  BY Zenon DEF CloseInfo
<1>2. info_file'.infos = infos /\ info_file'.valid_recd = valid_recd
  BY <1>1
<1>3. FileCounts'
  BY <1>1, <1>2 DEF CountInv, WriterCounts, FileCounts, Writing
<1>4. WriterCounts' /\ CABCounts'
  BY <1>1 DEF WriterCounts, CABCounts, Writing
<1> QED BY <1>3, <1>4 DEF CountInv

\* the program stops or starts, or an open fails.
LEMMA NoSessionCounts ==
  ASSUME IInv, CountInv, Crash \/ OpenAppendTailFails \/ Restart
  PROVE  CountInv'
<1>1. disk' = disk /\ info_file' = info_file /\ session' \notin {"open", "flushed"}
  BY Zenon DEF Crash, OpenAppendTailFails, Restart, fileVars
<1>2. FileCounts'
  BY <1>1, FileCountsKept DEF CountInv
<1>3. WriterCounts' /\ CABCounts'
  BY <1>1 DEF WriterCounts, CABCounts, Writing
<1> QED BY <1>2, <1>3 DEF CountInv

\* Every step of ColumnFile keeps the numbers of records right.
LEMMA CountStep ==
  ASSUME IInv, OrderInv, ContentInv, CountInv, [Next]_vars
  PROVE  CountInv'
<1>1. CASE UNCHANGED vars
  <2>1. disk' = disk /\ info_file' = info_file /\ session' = session /\ infos' = infos
        /\ item_info' = item_info /\ valid_recd' = valid_recd
    BY <1>1 DEF vars, fileVars, cabVars
  <2> QED BY <2>1 DEF CountInv, WriterCounts, FileCounts, CABCounts, Writing, Cur
<1>2. CASE Next
  BY <1>2, OpenWriteCounts, OpenAppendNextCABCounts, OpenAppendTailCounts, WriteInCABCounts,
     WriteToNextCABCounts, CloseFlushCounts, CloseInfoCounts, NoSessionCounts DEF Next
<1> QED BY <1>1, <1>2

-----------------------------------------------------------------------------
(* Blocks are read back.                                                   *)

\* CABInfos are those of a writer only.
LEMMA NoCABInfosStep ==
  ASSUME NoCABInfos, [Next]_vars
  PROVE  NoCABInfos'
<1>1. CASE UNCHANGED vars
  BY <1>1 DEF NoCABInfos, Writing, vars, cabVars
<1>2. ASSUME NEW rbgn \in FirstRecds, OpenWrite(rbgn) PROVE NoCABInfos'
  BY <1>2 DEF NoCABInfos, Writing, OpenWrite
<1>3. CASE OpenAppendNextCAB \/ OpenAppendTail
  BY <1>3 DEF NoCABInfos, Writing, OpenAppendNextCAB, OpenAppendTail, ReopenTail, OpenAppend
<1>4. ASSUME NEW it \in Item, WriteInCAB(it) \/ WriteToNextCAB(it) PROVE NoCABInfos'
  BY <1>4 DEF NoCABInfos, Writing, WriteInCAB, WriteToNextCAB, CanWrite
<1>5. CASE CloseFlush
  BY <1>5 DEF NoCABInfos, Writing, CloseFlush
<1>6. CASE CloseInfo \/ Crash
  BY <1>6 DEF NoCABInfos, CloseInfo, Crash, Destroy
<1>7. CASE OpenAppendTailFails \/ Restart
  BY <1>7 DEF NoCABInfos, Writing, OpenAppendTailFails, Restart, Open, cabVars
<1>8. CASE Next
  BY <1>2, <1>3, <1>4, <1>5, <1>6, <1>7, <1>8 DEF Next
<1> QED BY <1>1, <1>8

\* A stored block is read from its bytes as the items that it holds.
LEMMA StoredReads ==
  ASSUME WInv, NEW info, info.file_off \in DOMAIN disk, info.strg_size # 0, Readable(info), Sound(info)
  PROVE  ReadContent(info) = ReadBlock(info)
<1>1. /\ kind \in Kinds /\ disk[info.file_off] \in Seq(Written)
      /\ Coded(kind, bytes[info.file_off], disk[info.file_off])
  BY DEF WInv, DiskInv
<1>2. Len(disk[info.file_off]) = info.item.item_num
  BY DEF Readable
<1> QED BY <1>1, <1>2, BlockReads

\* A readable CAB of the .info file has counters that fit its block,
LEMMA FileBlock ==
  ASSUME IInv, OrderInv, ContentInv, CountInv, info_file # NoFile,
         NEW i \in 1..Len(info_file.infos),
         info_file.infos[i].strg_size # 0, Readable(info_file.infos[i])
  PROVE  Sound(info_file.infos[i]) /\ info_file.infos[i].file_off \in DOMAIN disk
<1> DEFINE is == info_file.infos
<1>1. is \in Seq(Info) /\ is # <<>> /\ Len(is) \in Nat /\ TailInfo = is[Len(is)] /\ TailStored(TailInfo)
  BY DEF IInv, TypeOK, FileInv, TailInfo
<1>2. CASE i = Len(is)
  <2>1. is[i] = TailInfo BY <1>1, <1>2
  <2>2. TailInfo.file_off \in DOMAIN disk BY <1>1, <2>1 DEF TailStored
  <2>3. Sound(TailInfo) BY <2>1 DEF ContentInv, TailContent, Readable
  <2> QED BY <2>1, <2>2, <2>3
<1>3. CASE i < Len(is)
  <2>1. i \in 1..(Len(is) - 1) BY <1>1, <1>3
  <2>2. is[i].file_off \in DOMAIN disk BY <2>1 DEF OrderInv, StoredBlocks
  <2>3. SoundIn(disk, is[i]) BY <1>3 DEF CountInv, FileCounts, Rising
  <2> QED BY <2>2, <2>3, SoundForm
<1> QED BY <1>1, <1>2, <1>3

\* and so has every CAB that a writer has flushed.
LEMMA WriterBlock ==
  ASSUME IInv, OrderInv, ContentInv, CountInv, NoCABInfos,
         NEW i \in 1..(Len(infos) - (IF session = "open" THEN 1 ELSE 0)),
         infos[i].strg_size # 0
  PROVE  Sound(infos[i]) /\ infos[i].file_off \in DOMAIN disk
<1>1. infos \in Seq(Info) /\ Len(infos) \in Nat /\ i \in 1..Len(infos) /\ Writing
  <2>1. infos \in Seq(Info) /\ Len(infos) \in Nat BY DEF IInv, TypeOK
  <2>2. i \in 1..Len(infos) BY <2>1
  <2>3. infos # <<>> BY <2>2
  <2> QED BY <2>1, <2>2, <2>3 DEF NoCABInfos
<1>2. CASE i = Len(infos)
  <2>1. session = "flushed" BY <1>1, <1>2 DEF Writing
  <2>2. infos[i] = Cur BY <1>2 DEF Cur
  <2> QED BY <2>1, <2>2 DEF IInv, FlushedInv, TailStored, ContentInv, FlushedContent
<1>3. CASE i < Len(infos)
  <2>1. i \in 1..(Len(infos) - 1) BY <1>1, <1>3
  <2>2. infos[i].file_off \in DOMAIN disk BY <1>1, <2>1 DEF OrderInv, StoredBlocks, Writing
  <2>3. SoundIn(disk, infos[i]) BY <1>1, <1>3 DEF CountInv, WriterCounts, Rising
  <2> QED BY <2>2, <2>3, SoundForm
<1> QED BY <1>1, <1>2, <1>3

\* So all these blocks are read back from their bytes (BlocksReadBack).
LEMMA BlocksReadable ==
  ASSUME IInv, OrderInv, ContentInv, CountInv, NoCABInfos, WInv
  PROVE  BlocksDecode
<1> SUFFICES ASSUME NEW info \in StoredInfos, info.strg_size # 0, Readable(info)
             PROVE  ReadContent(info) = ReadBlock(info)
  BY DEF BlocksDecode
<1>1. CASE info_file # NoFile /\ info \in Range(info_file.infos)
  <2>1. PICK i \in 1..Len(info_file.infos) : info = info_file.infos[i]
    <3>1. DOMAIN info_file.infos = 1..Len(info_file.infos)
      BY <1>1 DEF IInv, TypeOK
    <3> QED BY <1>1, <3>1 DEF Range
  <2> QED BY <1>1, <2>1, FileBlock, StoredReads
<1>2. CASE info \in {infos[i] : i \in 1..(Len(infos) - (IF session = "open" THEN 1 ELSE 0))}
  BY <1>2, WriterBlock, StoredReads
<1> QED BY <1>1, <1>2 DEF StoredInfos

-----------------------------------------------------------------------------
(* Counting the records of a sequence of items.                            *)

\* Counting first items, one item at a time,
LEMMA BegunStep ==
  ASSUME NEW s, NEW n \in Nat
  PROVE  /\ Begun(s, 0) = 0
         /\ Begun(s, n) \in Nat
         /\ Begun(s, n + 1) = Begun(s, n) + (IF s[n + 1].rep = 0 THEN 1 ELSE 0)
<1> DEFINE P == {k \in 1..n : s[k].rep = 0}
           Q == {k \in 1..(n + 1) : s[k].rep = 0}
<1>1. {k \in 1..0 : s[k].rep = 0} = {}
  OBVIOUS
<1>2. IsFiniteSet(P)
  <2>1. IsFiniteSet(1..n) BY FS_Interval
  <2> QED BY <2>1, FS_Subset
<1>3. Q = IF s[n + 1].rep = 0 THEN P \cup {n + 1} ELSE P
  OBVIOUS
<1>4. n + 1 \notin P
  OBVIOUS
<1> HIDE DEF P, Q
<1>5. Cardinality(P) \in Nat /\ Cardinality(P \cup {n + 1}) = Cardinality(P) + 1
  BY <1>2, <1>4, FS_CardinalityType, FS_AddElement
<1>6. Cardinality(Q) = Cardinality(P) + (IF s[n + 1].rep = 0 THEN 1 ELSE 0)
  BY <1>3, <1>5
<1> QED BY <1>1, <1>5, <1>6, FS_EmptySet DEF Begun, P, Q

\* over a range of items,
LEMMA BegunRange ==
  ASSUME NEW s, NEW a \in Nat, NEW b \in Nat, a <= b
  PROVE  /\ Cardinality({k \in (a + 1)..b : s[k].rep = 0}) = Begun(s, b) - Begun(s, a)
         /\ Begun(s, a) <= Begun(s, b)
         /\ Begun(s, a) \in Nat /\ Begun(s, b) \in Nat
<1> DEFINE P == {k \in 1..a : s[k].rep = 0}
           Q == {k \in (a + 1)..b : s[k].rep = 0}
           R == {k \in 1..b : s[k].rep = 0}
<1>1. IsFiniteSet(P) /\ IsFiniteSet(Q)
  <2>1. IsFiniteSet(1..a) /\ IsFiniteSet((a + 1)..b) BY FS_Interval
  <2> QED BY <2>1, FS_Subset
<1>2. R = P \cup Q /\ P \cap Q = {}
  OBVIOUS
<1> HIDE DEF P, Q, R
<1>3. Cardinality(R) = Cardinality(P) + Cardinality(Q)
      /\ Cardinality(P) \in Nat /\ Cardinality(Q) \in Nat
  <2>1. Cardinality(P \cup Q) = Cardinality(P) + Cardinality(Q) - Cardinality(P \cap Q)
    BY <1>1, FS_Union
  <2>2. Cardinality(P) \in Nat /\ Cardinality(Q) \in Nat /\ Cardinality(P \cap Q) = 0
    BY <1>1, <1>2, FS_CardinalityType, FS_EmptySet
  <2> QED BY <1>2, <2>1, <2>2
<1> QED BY <1>3 DEF Begun, P, Q, R

\* behind a part that was counted before,
LEMMA BegunShift ==
  ASSUME NEW s, NEW t, NEW p \in Nat, NEW m \in Nat, \A j \in 1..m : t[j] = s[p + j]
  PROVE  Begun(s, p + m) = Begun(s, p) + Begun(t, m)
<1> DEFINE T == {k \in Nat : Begun(s, p + k) = Begun(s, p) + Begun(t, k)}
<1>1. 0 \in T
  BY BegunStep
<1>2. ASSUME NEW k \in Nat, k < m, k \in T PROVE k + 1 \in T
  <2>1. Begun(s, p + k) = Begun(s, p) + Begun(t, k)
    BY <1>2
  <2>2. t[k + 1] = s[p + k + 1] /\ p + k \in Nat
    BY <1>2
  <2>3. Begun(s, p + k + 1) = Begun(s, p + k) + (IF s[p + k + 1].rep = 0 THEN 1 ELSE 0)
    BY <2>2, BegunStep
  <2>4. Begun(t, k + 1) = Begun(t, k) + (IF t[k + 1].rep = 0 THEN 1 ELSE 0)
        /\ Begun(t, k) \in Nat /\ Begun(s, p) \in Nat
    BY <1>2, BegunStep
  <2> DEFINE x == IF t[k + 1].rep = 0 THEN 1 ELSE 0
  <2>5. x \in Nat OBVIOUS
  <2>6. Begun(s, p + k + 1) = Begun(s, p + k) + x /\ Begun(t, k + 1) = Begun(t, k) + x
    BY <2>2, <2>3, <2>4
  <2> HIDE DEF x
  <2>7. Begun(s, p + k + 1) = Begun(s, p) + Begun(t, k + 1)
    BY <2>1, <2>4, <2>5, <2>6
  <2>8. p + (k + 1) = p + k + 1 OBVIOUS
  <2> QED BY <2>7, <2>8
<1>3. m \in T
  <2> HIDE DEF T
  <2> QED BY <1>1, <1>2, InductionUpTo
<1> QED BY <1>3

\* and in two sequences that begin alike.
LEMMA BegunSame ==
  ASSUME NEW s, NEW t, NEW m \in Nat, \A j \in 1..m : t[j] = s[j]
  PROVE  Begun(s, m) = Begun(t, m)
<1>1. {k \in 1..m : s[k].rep = 0} = {k \in 1..m : t[k].rep = 0}
  OBVIOUS
<1> QED BY <1>1 DEF Begun

\* Counting up, every number of records is reached at a first item.
LEMMA NthBegin ==
  ASSUME NEW s, NEW a \in Nat, NEW b \in Nat, a <= b,
         NEW num \in Nat \ {0}, Begun(s, a) + num <= Begun(s, b)
  PROVE  \E k \in (a + 1)..b : s[k].rep = 0 /\ Begun(s, k) = Begun(s, a) + num
<1> DEFINE Reached(m) ==
             Begun(s, a) + num <= Begun(s, a + m) =>
               \E k \in (a + 1)..(a + m) : s[k].rep = 0 /\ Begun(s, k) = Begun(s, a) + num
           T == {m \in Nat : Reached(m)}
<1>1. 0 \in T
  <2>1. Begun(s, a) \in Nat /\ a + 0 = a BY BegunStep
  <2> QED BY <2>1
<1>2. ASSUME NEW m \in Nat, m < b - a, m \in T PROVE m + 1 \in T
  <2>1. Reached(m) BY <1>2
  <2> SUFFICES ASSUME Begun(s, a) + num <= Begun(s, a + (m + 1))
               PROVE  \E k \in (a + 1)..(a + (m + 1)) : s[k].rep = 0 /\ Begun(s, k) = Begun(s, a) + num
    OBVIOUS
  <2>2. /\ Begun(s, a) \in Nat /\ Begun(s, a + m) \in Nat /\ a + m \in Nat
        /\ Begun(s, (a + m) + 1) = Begun(s, a + m) + (IF s[(a + m) + 1].rep = 0 THEN 1 ELSE 0)
        /\ (a + m) + 1 = a + (m + 1)
    BY BegunStep
  <2>3. CASE Begun(s, a) + num <= Begun(s, a + m)
    BY <2>1, <2>3
  <2>4. CASE ~(Begun(s, a) + num <= Begun(s, a + m))
    <3>1. s[a + (m + 1)].rep = 0 /\ Begun(s, a + (m + 1)) = Begun(s, a) + num
      BY <2>2, <2>4
    <3> QED BY <3>1
  <2> QED BY <2>3, <2>4
<1>3. b - a \in T
  <2> HIDE DEF T
  <2> QED BY <1>1, <1>2, InductionUpTo
<1> QED BY <1>3

\* The count never goes down.
LEMMA BegunGrows ==
  ASSUME NEW s, NEW a \in Nat, NEW b \in Nat, a <= b
  PROVE  Begun(s, a) <= Begun(s, b) /\ Begun(s, a) \in Nat /\ Begun(s, b) \in Nat
  BY BegunRange

\* SkipRecds counts the first items of records behind item idx.
LEMMA SkipStarts ==
  ASSUME NEW blk \in Seq(ColumnItem), NEW idx \in Nat, NEW k \in Nat, idx <= k, k < Len(blk)
  PROVE  LET starts == {j \in (idx + 1)..(Len(blk) - 1) : blk[j + 1].rep = 0}
         IN  /\ Cardinality({j \in starts : j <= k}) = Begun(blk, k + 1) - Begun(blk, idx + 1)
             /\ Cardinality(starts) = Begun(blk, Len(blk)) - Begun(blk, idx + 1)
<1> DEFINE n == Len(blk)
           starts == {j \in (idx + 1)..(n - 1) : blk[j + 1].rep = 0}
           rest == [j \in 1..n |-> blk[1 + j]]
<1>1. n \in Nat /\ n - 1 \in Nat
  OBVIOUS
<1> HIDE DEF n
<1>2. ASSUME NEW m \in Nat, idx <= m, m < n
      PROVE  Cardinality({j \in starts : j <= m}) = Begun(blk, m + 1) - Begun(blk, idx + 1)
  <2>1. {j \in starts : j <= m} = {j \in (idx + 1)..m : rest[j].rep = 0}
    <3>1. \A j \in (idx + 1)..m : j \in 1..n /\ rest[j].rep = blk[j + 1].rep /\ j \in (idx + 1)..(n - 1)
      BY <1>1, <1>2
    <3>2. \A j \in starts : j <= m => j \in (idx + 1)..m
      BY <1>1, <1>2
    <3> HIDE DEF rest
    <3> QED BY <3>1, <3>2
  <2>2. Cardinality({j \in (idx + 1)..m : rest[j].rep = 0}) = Begun(rest, m) - Begun(rest, idx)
    BY <1>2, BegunRange
  <2>3. \A j \in 1..m : rest[j] = blk[1 + j]
    BY <1>1, <1>2
  <2> HIDE DEF rest, starts
  <2>4. Begun(blk, 1 + m) = Begun(blk, 1) + Begun(rest, m)
    BY <1>2, <2>3, BegunShift
  <2>5. \A j \in 1..idx : rest[j] = blk[1 + j]
    BY <1>2, <2>3
  <2>6. Begun(blk, 1 + idx) = Begun(blk, 1) + Begun(rest, idx)
    BY <2>5, BegunShift
  <2>7. /\ Begun(blk, 1) \in Nat /\ Begun(rest, m) \in Nat /\ Begun(rest, idx) \in Nat
        /\ 1 + m = m + 1 /\ 1 + idx = idx + 1
    BY <1>2, BegunStep
  <2>8. Begun(blk, m + 1) = Begun(blk, 1) + Begun(rest, m)
        /\ Begun(blk, idx + 1) = Begun(blk, 1) + Begun(rest, idx)
    BY <2>4, <2>6, <2>7
  <2>9. Cardinality({j \in starts : j <= m}) = Begun(rest, m) - Begun(rest, idx)
    BY <2>1, <2>2, Zenon
  <2> DEFINE c == Cardinality({j \in starts : j <= m})
  <2>10. c = Begun(rest, m) - Begun(rest, idx) BY <2>9
  <2> HIDE DEF c
  <2>11. c = Begun(blk, m + 1) - Begun(blk, idx + 1) BY <2>7, <2>8, <2>10
  <2> QED BY <2>11 DEF c
<1>3. {j \in starts : j <= n - 1} = starts
  BY <1>1
<1>4. Cardinality({j \in starts : j <= n - 1}) = Begun(blk, (n - 1) + 1) - Begun(blk, idx + 1)
  <2>1. idx <= n - 1 /\ n - 1 < n BY <1>1 DEF n
  <2> HIDE DEF starts
  <2> QED BY <1>1, <1>2, <2>1
<1>5. (n - 1) + 1 = n
  BY <1>1
<1>6. Cardinality(starts) = Begun(blk, n) - Begun(blk, idx + 1)
  <2> HIDE DEF starts
  <2> QED BY <1>3, <1>4, <1>5
<1>7. Cardinality({j \in starts : j <= k}) = Begun(blk, k + 1) - Begun(blk, idx + 1)
  BY <1>2 DEF n
<1> QED BY <1>6, <1>7 DEF n

\* If skipping finds an item, there are as many records to skip in this CAB
\* (CABReader::skipRecds).
LEMMA SkippedInCAB ==
  ASSUME NEW blk \in Seq(ColumnItem), NEW idx \in Nat, NEW num, SkipRecds(blk, num, idx) # NoItem
  PROVE  /\ idx < Len(blk)
         /\ num \in 0..(Begun(blk, Len(blk)) - Begun(blk, idx + 1))
<1> DEFINE starts == {k \in (idx + 1)..(Len(blk) - 1) : blk[k + 1].rep = 0}
<1>1. ~(idx >= Len(blk)) /\ num \in 0..Cardinality(starts)
  <2> HIDE DEF starts
  <2> QED BY DEF SkipRecds, starts
<1>2. idx < Len(blk)
  BY <1>1
<1>3. Cardinality(starts) = Begun(blk, Len(blk)) - Begun(blk, idx + 1)
  BY <1>2, SkipStarts
<1> HIDE DEF starts
<1> QED BY <1>1, <1>2, <1>3

\* From the first item of a record, skipping ends at the first item of the record that is num records
\* later.
LEMMA Skipped ==
  ASSUME NEW blk \in Seq(ColumnItem), NEW idx \in Nat, idx < Len(blk), blk[idx + 1].rep = 0,
         NEW num \in Nat, num <= Begun(blk, Len(blk)) - Begun(blk, idx + 1)
  PROVE  LET k == SkipRecds(blk, num, idx)
         IN  /\ k \in Nat /\ k < Len(blk) /\ blk[k + 1].rep = 0
             /\ Begun(blk, k) = Begun(blk, idx) + num
<1> DEFINE n == Len(blk)
           starts == {k \in (idx + 1)..(n - 1) : blk[k + 1].rep = 0}
           res == SkipRecds(blk, num, idx)
<1>1. n \in Nat
  OBVIOUS
<1>2. Cardinality(starts) = Begun(blk, n) - Begun(blk, idx + 1)
  BY SkipStarts
<1>3. /\ Begun(blk, n) \in Nat /\ Begun(blk, idx) \in Nat /\ Begun(blk, idx + 1) = Begun(blk, idx) + 1
  BY <1>1, BegunStep
<1>4. num \in 0..Cardinality(starts) /\ ~(idx >= n)
  <2> HIDE DEF starts
  <2> QED BY <1>1, <1>2, <1>3
<1>5. res = IF num = 0 THEN idx
            ELSE CHOOSE k \in starts : Cardinality({j \in starts : j <= k}) = num
  <2> HIDE DEF starts, n
  <2> QED BY <1>4 DEF SkipRecds, starts, n
<1>6. CASE num = 0
  <2>1. res = idx BY <1>5, <1>6
  <2> HIDE DEF res
  <2> QED BY <1>3, <1>6, <2>1 DEF res
<1>7. CASE num # 0
  <2>1. PICK j \in ((idx + 1) + 1)..n : blk[j].rep = 0 /\ Begun(blk, j) = Begun(blk, idx + 1) + num
    <3>1. num \in Nat \ {0} /\ Begun(blk, idx + 1) + num <= Begun(blk, n) /\ idx + 1 \in Nat /\ idx + 1 <= n
      BY <1>1, <1>3, <1>7
    <3> HIDE DEF n
    <3> QED BY <1>1, <3>1, NthBegin
  <2>2. /\ j - 1 \in Nat /\ j - 1 \in (idx + 1)..(n - 1) /\ (j - 1) + 1 = j /\ idx <= j - 1 /\ j - 1 < n
    BY <1>1, <2>1
  <2>3. j - 1 \in starts
    BY <2>1, <2>2
  <2>4. \A k \in starts : /\ k \in Nat /\ idx <= k /\ k < n /\ blk[k + 1].rep = 0
                          /\ Cardinality({i \in starts : i <= k}) = Begun(blk, k + 1) - Begun(blk, idx + 1)
    <3> SUFFICES ASSUME NEW k \in starts
                 PROVE  /\ k \in Nat /\ idx <= k /\ k < n /\ blk[k + 1].rep = 0
                        /\ Cardinality({i \in starts : i <= k}) = Begun(blk, k + 1) - Begun(blk, idx + 1)
      OBVIOUS
    <3>1. k \in Nat /\ idx <= k /\ k < n /\ blk[k + 1].rep = 0
      BY <1>1
    <3> QED BY <3>1, SkipStarts
  <2>5. Cardinality({i \in starts : i <= j - 1}) = num
    <3>1. Cardinality({i \in starts : i <= j - 1}) = Begun(blk, (j - 1) + 1) - Begun(blk, idx + 1)
      BY <2>3, <2>4
    <3> HIDE DEF starts
    <3> QED BY <1>3, <2>1, <2>2, <3>1
  <2> HIDE DEF starts
  <2>6. res \in starts /\ Cardinality({i \in starts : i <= res}) = num
    <3> HIDE DEF res
    <3> QED BY <1>5, <1>7, <2>3, <2>5
  <2> HIDE DEF res
  <2>7. /\ res \in Nat /\ res < n /\ blk[res + 1].rep = 0
        /\ Begun(blk, res + 1) - Begun(blk, idx + 1) = num
    BY <2>4, <2>6
  <2>8. Begun(blk, res) \in Nat /\ Begun(blk, res + 1) = Begun(blk, res) + 1
    BY <2>7, BegunStep
  <2> QED BY <1>3, <2>7, <2>8 DEF res
<1> QED BY <1>6, <1>7

\* The items from one first item to the next are the record that its count of first items numbers.
LEMMA RecordAt ==
  ASSUME NEW s \in Seq(ColumnItem), NEW f \in Nat, NEW e \in Nat, f < e, e <= Len(s),
         s[f + 1].rep = 0, \A j \in (f + 2)..e : s[j].rep # 0,
         e < Len(s) => s[e + 1].rep = 0
  PROVE  /\ Begun(s, f) < Begun(s, Len(s))
         /\ RecordOf(s, Begun(s, f)) = SubSeq(s, f + 1, e)
<1> DEFINE n == Len(s)
           num == Begun(s, f)
           starts == {k \in 1..n : s[k].rep = 0}
           first == CHOOSE k \in starts : Cardinality({j \in starts : j < k}) = num
           behind == {k \in starts : k > first}
<1>1. n \in Nat /\ f + 1 \in 1..n
  OBVIOUS
<1>2. f + 1 \in starts
  BY <1>1
<1>3. ASSUME NEW k \in starts PROVE Cardinality({j \in starts : j < k}) = Begun(s, k - 1) /\ k - 1 \in Nat
  <2>1. {j \in starts : j < k} = {j \in 1..(k - 1) : s[j].rep = 0} /\ k - 1 \in Nat
    BY <1>1
  <2> QED BY <2>1 DEF Begun
<1>4. ASSUME NEW k \in starts, Begun(s, k - 1) = num PROVE k = f + 1
  <2>1. k \in Nat /\ k >= 1 /\ k <= n /\ s[k].rep = 0 /\ k - 1 \in Nat /\ (k - 1) + 1 = k
    BY <1>1
  <2>2. CASE k < f + 1
    <3>1. Begun(s, k) = Begun(s, k - 1) + 1 /\ Begun(s, k - 1) \in Nat
      BY <2>1, BegunStep
    <3>2. Begun(s, k) <= Begun(s, f)
      BY <2>1, <2>2, BegunGrows
    <3>3. Begun(s, f) \in Nat BY BegunStep
    <3> QED BY <1>4, <3>1, <3>2, <3>3
  <2>3. CASE k > f + 1
    <3>1. Begun(s, f + 1) = Begun(s, f) + 1 /\ Begun(s, f) \in Nat
      BY BegunStep
    <3>2. Begun(s, f + 1) <= Begun(s, k - 1)
      <4>1. f + 1 <= k - 1 /\ f + 1 \in Nat BY <2>1, <2>3
      <4> QED BY <2>1, <4>1, BegunGrows
    <3>3. Begun(s, k - 1) \in Nat BY <2>1, BegunStep
    <3> QED BY <1>4, <3>1, <3>2, <3>3
  <2> QED BY <2>1, <2>2, <2>3
<1>5. first = f + 1
  <2>1. Cardinality({j \in starts : j < f + 1}) = num
    <3>1. (f + 1) - 1 = f OBVIOUS
    <3> HIDE DEF starts
    <3>2. Cardinality({j \in starts : j < f + 1}) = Begun(s, (f + 1) - 1)
      BY <1>2, <1>3
    <3> QED BY <3>1, <3>2
  <2>2. \A k \in starts : Cardinality({j \in starts : j < k}) = num => k = f + 1
    <3> HIDE DEF starts
    <3> QED BY <1>3, <1>4
  <2> HIDE DEF starts, num
  <2> QED BY <1>2, <2>1, <2>2
<1> DEFINE last == IF behind = {} THEN Len(s) ELSE Min(behind) - 1
<1>6. RecordOf(s, num) = SubSeq(s, first, last)
  BY DEF RecordOf
<1>7. behind = {k \in starts : k > f + 1}
  <2> HIDE DEF starts, first
  <2> QED BY <1>5
<1> HIDE DEF first
<1>8. ASSUME e = n PROVE RecordOf(s, num) = SubSeq(s, f + 1, e)
  <2>1. behind = {}
    <3> HIDE DEF behind
    <3>1. \A k \in starts : k > f + 1 => k \in (f + 2)..e
      BY <1>1, <1>8
    <3>2. \A k \in starts : s[k].rep = 0 OBVIOUS
    <3> HIDE DEF starts
    <3> QED BY <1>7, <3>1, <3>2
  <2> HIDE DEF behind
  <2>2. last = e BY <1>8, <2>1
  <2> HIDE DEF last, num
  <2> QED BY <1>5, <1>6, <2>2
<1>9. ASSUME e < n PROVE RecordOf(s, num) = SubSeq(s, f + 1, e)
  <2>1. e + 1 \in starts /\ e + 1 > f + 1
    BY <1>1, <1>9
  <2>2. ASSUME NEW k \in behind PROVE e + 1 <= k /\ k \in Int
    <3> HIDE DEF behind
    <3>1. k \in starts /\ k > f + 1 BY <1>7
    <3>2. k \in Nat /\ s[k].rep = 0 BY <1>1, <3>1
    <3>3. k \notin (f + 2)..e BY <3>2
    <3> QED BY <3>1, <3>2, <3>3
  <2>3. e + 1 \in behind
    <3> HIDE DEF behind, starts
    <3> QED BY <1>7, <2>1
  <2> HIDE DEF behind
  <2>4. Min(behind) = e + 1
    <3>1. \A x \in behind : (\A y \in behind : x <= y) => x = e + 1
      BY <2>2, <2>3
    <3>2. \A y \in behind : e + 1 <= y BY <2>2
    <3> QED BY <2>3, <3>1, <3>2 DEF Min
  <2>5. Min(behind) - 1 = e /\ behind # {}
    BY <2>3, <2>4
  <2>6. last = e BY <2>5
  <2> HIDE DEF last, num
  <2> QED BY <1>5, <1>6, <2>6
<1>10. Begun(s, f) < Begun(s, n)
  <2>1. Begun(s, f + 1) = Begun(s, f) + 1 /\ Begun(s, f) \in Nat BY BegunStep
  <2>2. Begun(s, f + 1) <= Begun(s, n) /\ Begun(s, n) \in Nat BY <1>1, BegunGrows
  <2> QED BY <2>1, <2>2
<1> HIDE DEF num
<1> QED BY <1>1, <1>8, <1>9, <1>10 DEF num

-----------------------------------------------------------------------------
(* The log as a sequence of blocks.                                        *)

\* The items of two blocks, one behind the other.
LEMMA JoinedParts ==
  ASSUME NEW a \in Seq(ColumnItem), NEW b \in Seq(ColumnItem)
  PROVE  /\ a \o b \in Seq(ColumnItem) /\ Len(a \o b) = Len(a) + Len(b)
         /\ \A j \in 1..Len(a) : (a \o b)[j] = a[j]
         /\ \A j \in 1..Len(b) : (a \o b)[Len(a) + j] = b[j]
<1> DEFINE t == a \o b
<1>1. /\ t \in Seq(ColumnItem) /\ Len(t) = Len(a) + Len(b)
      /\ \A i \in 1..Len(t) : t[i] = IF i <= Len(a) THEN a[i] ELSE b[i - Len(a)]
  OBVIOUS
<1> DEFINE n == Len(a)
           m == Len(b)
<1>2. n \in Nat /\ m \in Nat
  OBVIOUS
<1> HIDE DEF t, n, m
<1>3. ASSUME NEW j \in 1..n PROVE t[j] = a[j]
  BY <1>1, <1>2, <1>3 DEF n, m
<1>4. ASSUME NEW j \in 1..m PROVE t[n + j] = b[j]
  <2>1. n + j \in 1..(n + m) /\ ~(n + j <= n) /\ (n + j) - n = j BY <1>2
  <2> QED BY <1>1, <2>1 DEF n, m
<1> QED BY <1>1, <1>3, <1>4 DEF t, n, m

\* The records of two blocks add up.
LEMMA JoinedCount ==
  ASSUME NEW a \in Seq(ColumnItem), NEW b \in Seq(ColumnItem)
  PROVE  Begun(a \o b, Len(a \o b)) = Begun(a, Len(a)) + Begun(b, Len(b))
<1> DEFINE u == a \o b
           p == Len(a)
           q == Len(b)
<1>1. p \in Nat /\ q \in Nat /\ Len(u) = p + q
  BY JoinedParts
<1>2. \A j \in 1..p : a[j] = u[j]
  BY JoinedParts
<1>3. \A j \in 1..q : b[j] = u[p + j]
  BY JoinedParts
<1> HIDE DEF u, p, q
<1>4. Begun(u, p + q) = Begun(u, p) + Begun(b, q)
  BY <1>1, <1>3, BegunShift
<1>5. Begun(u, p) = Begun(a, p)
  BY <1>1, <1>2, BegunSame
<1> QED BY <1>1, <1>4, <1>5 DEF u, p, q

\* Blocks that begin records, one behind the other: the first m of them are the beginning of all n, and
\* what follows begins a record.
LEMMA BlocksFollow ==
  ASSUME NEW b, NEW m \in Nat, NEW n \in Nat, m <= n,
         \A i \in 1..n : b[i] \in Seq(ColumnItem) /\ (b[i] # <<>> => b[i][1].rep = 0)
  PROVE  LET s == Concatenated(b, m)
             t == Concatenated(b, n)
         IN  /\ s \in Seq(ColumnItem) /\ t \in Seq(ColumnItem)
             /\ Len(s) <= Len(t) /\ \A j \in 1..Len(s) : t[j] = s[j]
             /\ Len(s) < Len(t) => t[Len(s) + 1].rep = 0
<1> DEFINE s == Concatenated(b, m)
           Ok(t) == /\ t \in Seq(ColumnItem)
                    /\ Len(s) <= Len(t) /\ \A j \in 1..Len(s) : t[j] = s[j]
                    /\ Len(s) < Len(t) => t[Len(s) + 1].rep = 0
           T == {k \in Nat : Ok(Concatenated(b, m + k))}
<1>1. s \in Seq(ColumnItem)
  BY ConcatenatedType
<1>2. 0 \in T
  <2>1. m + 0 = m OBVIOUS
  <2> HIDE DEF s
  <2>2. Ok(s) BY <1>1
  <2>3. Concatenated(b, m + 0) = s BY <2>1 DEF s
  <2> HIDE DEF Ok
  <2> QED BY <2>2, <2>3
<1>3. ASSUME NEW k \in Nat, k < n - m, k \in T PROVE k + 1 \in T
  <2> DEFINE t == Concatenated(b, m + k)
             x == b[m + k + 1]
             u == t \o x
  <2>1. Ok(t) BY <1>3
  <2>2. m + k \in Nat /\ m + k + 1 \in 1..n /\ m + (k + 1) = m + k + 1
    BY <1>3
  <2>3. Concatenated(b, m + (k + 1)) = u
    BY <2>2, ConcatenatedStep
  <2>4. x \in Seq(ColumnItem) /\ (x # <<>> => x[1].rep = 0)
    BY <2>2
  <2> HIDE DEF s, t, x
  <2>5. /\ u \in Seq(ColumnItem) /\ Len(u) = Len(t) + Len(x)
        /\ \A j \in 1..Len(t) : u[j] = t[j]
        /\ \A j \in 1..Len(x) : u[Len(t) + j] = x[j]
    BY <2>1, <2>4, JoinedParts
  <2> HIDE DEF u
  <2>6. Len(s) \in Nat /\ Len(t) \in Nat /\ Len(x) \in Nat /\ Len(s) <= Len(t)
    BY <1>1, <2>1, <2>4
  <2>7. \A j \in 1..Len(s) : u[j] = s[j]
    <3> SUFFICES ASSUME NEW j \in 1..Len(s) PROVE u[j] = s[j] OBVIOUS
    <3>1. j \in 1..Len(t) BY <2>6
    <3> QED BY <2>1, <2>5, <3>1
  <2>8. Len(s) < Len(u) => u[Len(s) + 1].rep = 0
    <3>1. CASE Len(s) < Len(t)
      <4>1. Len(s) + 1 \in 1..Len(t) BY <2>6, <3>1
      <4> QED BY <2>1, <2>5, <3>1, <4>1
    <3>2. CASE Len(s) = Len(t) /\ Len(x) > 0
      <4>1. u[Len(t) + 1] = x[1] BY <2>5, <2>6, <3>2
      <4>2. x # <<>> BY <3>2
      <4> QED BY <2>4, <3>2, <4>1, <4>2
    <3> QED BY <2>5, <2>6, <3>1, <3>2
  <2>9. Ok(u) BY <2>5, <2>6, <2>7, <2>8
  <2> HIDE DEF Ok
  <2> QED BY <2>3, <2>9
<1>4. n - m \in T
  <2> HIDE DEF T
  <2> QED BY <1>2, <1>3, InductionUpTo
<1>5. Ok(Concatenated(b, n))
  <2>1. m + (n - m) = n OBVIOUS
  <2> HIDE DEF Ok
  <2> QED BY <1>4, <2>1
<1> QED BY <1>1, <1>5

\* The number of records before the c-th block, when the numbers g say where blocks begin.
LEMMA BlocksCount ==
  ASSUME NEW b, NEW n \in Nat, NEW g \in [1..n -> Nat], NEW c \in 1..n,
         \A i \in 1..n : b[i] \in Seq(ColumnItem),
         \A i \in 1..(n - 1) : Begun(b[i], Len(b[i])) = g[i + 1] - g[i] /\ g[i] <= g[i + 1]
  PROVE  /\ Begun(Concatenated(b, c - 1), Len(Concatenated(b, c - 1))) = g[c] - g[1]
         /\ g[1] <= g[c]
<1> DEFINE Ok(k) == /\ Begun(Concatenated(b, k), Len(Concatenated(b, k))) = g[k + 1] - g[1]
                    /\ g[1] <= g[k + 1]
           T == {k \in Nat : Ok(k)}
<1>1. 0 \in T
  <2>1. Concatenated(b, 0) = <<>> BY ConcatenatedStep
  <2>2. Begun(<<>>, Len(<<>>)) = 0
    <3>1. Len(<<>>) = 0 OBVIOUS
    <3> QED BY <3>1, BegunStep
  <2>3. g[1] \in Nat /\ 0 + 1 = 1 OBVIOUS
  <2> QED BY <2>1, <2>2, <2>3
<1>2. ASSUME NEW k \in Nat, k < c - 1, k \in T PROVE k + 1 \in T
  <2> DEFINE s == Concatenated(b, k)
             x == b[k + 1]
             t == s \o x
  <2>1. k + 1 \in 1..n /\ k + 1 \in 1..(n - 1) /\ 1 \in 1..n /\ (k + 1) + 1 \in 1..n
    BY <1>2
  <2>2. Begun(s, Len(s)) = g[k + 1] - g[1] /\ g[1] <= g[k + 1]
    BY <1>2
  <2>3. Concatenated(b, k + 1) = t
    BY ConcatenatedStep
  <2>4. s \in Seq(ColumnItem) /\ x \in Seq(ColumnItem)
    <3>1. \A i \in 1..k : b[i] \in Seq(ColumnItem) BY <2>1
    <3> QED BY <2>1, <3>1, ConcatenatedType
  <2>5. Begun(x, Len(x)) = g[(k + 1) + 1] - g[k + 1] /\ g[k + 1] <= g[(k + 1) + 1]
    BY <2>1
  <2> HIDE DEF s, x
  <2>6. Begun(t, Len(t)) = Begun(s, Len(s)) + Begun(x, Len(x))
    BY <2>4, JoinedCount
  <2> HIDE DEF t
  <2>11. g[1] \in Nat /\ g[k + 1] \in Nat /\ g[(k + 1) + 1] \in Nat
    BY <2>1
  <2>12. Begun(t, Len(t)) = g[(k + 1) + 1] - g[1] /\ g[1] <= g[(k + 1) + 1]
    BY <2>2, <2>5, <2>6, <2>11
  <2> QED BY <2>3, <2>12
<1>3. c - 1 \in T
  <2> HIDE DEF T
  <2> QED BY <1>1, <1>2, InductionUpTo
<1>4. (c - 1) + 1 = c
  OBVIOUS
<1> QED BY <1>3, <1>4

\* The decoded column is the blocks, one behind the other.
LEMMA DecodedBlocks ==
  ASSUME NEW d, NEW is, NEW n \in Nat, NEW m \in 0..n
  PROVE  DecodedOf(d, is, m) = Concatenated([i \in 1..n |-> BlockOf(d, is, i)], m)
<1> DEFINE b == [i \in 1..m |-> BlockOf(d, is, i)]
           c == [i \in 1..n |-> BlockOf(d, is, i)]
<1>1. \A i \in 1..m : b[i] = c[i]
  OBVIOUS
<1> HIDE DEF b, c
<1>2. Concatenated(b, m) = Concatenated(c, m)
  BY <1>1, ConcatenatedSame
<1> QED BY <1>2 DEF DecodedOf, b, c

\* A trivial CAB is read as that many records of one null item.
LEMMA AllTrivial ==
  ASSUME NEW n \in Nat
  PROVE  LET s == [k \in 1..n |-> Trivial]
         IN  s \in Seq(ColumnItem) /\ Len(s) = n /\ Begun(s, n) = n
<1> DEFINE s == [k \in 1..n |-> Trivial]
<1>1. Trivial \in ColumnItem /\ Trivial.rep = 0
  <2>1. Trivial \in ColumnItem BY NullItemsOfItem
  <2> QED BY <2>1 DEF Trivial
<1>2. s \in Seq(ColumnItem) /\ Len(s) = n
  BY <1>1
<1>3. {k \in 1..n : s[k].rep = 0} = 1..n
  BY <1>1
<1> HIDE DEF s
<1>4. Cardinality(1..n) = n
  BY FS_Interval
<1> QED BY <1>2, <1>3, <1>4 DEF Begun, s

\* All CABs of a file are readable while no session is open.
LEMMA AllReadable ==
  ASSUME IInv, ContentInv, session = "closed", info_file # NoFile, NEW i \in 1..Len(info_file.infos)
  PROVE  Readable(info_file.infos[i])
<1> DEFINE n == Len(info_file.infos)
<1>1. n \in Nat
  BY DEF IInv, TypeOK
<1>2. FilesDecode(n - 1) /\ TailDecodes
  BY DEF ContentInv, FileContent
<1>3. CASE i = n
  BY <1>2, <1>3 DEF TailDecodes, TailInfo
<1>4. CASE i # n
  <2>1. i \in 1..(n - 1) BY <1>1, <1>4
  <2> HIDE DEF n
  <2> QED BY <1>2, <2>1 DEF FilesDecode
<1> QED BY <1>3, <1>4

\* A stored CAB holds the records that its counters tell, and its bytes are read as these.
LEMMA StoredBlock ==
  ASSUME IInv, OrderInv, ContentInv, CountInv, WInv, session = "closed", info_file # NoFile,
         NEW i \in 1..Len(info_file.infos), info_file.infos[i].strg_size # 0
  PROVE  LET info == info_file.infos[i]
             B == ReadBlock(info)
         IN  /\ B \in Seq(ColumnItem) /\ (B # <<>> => B[1].rep = 0)
             /\ Begun(B, Len(B)) = info.item.recd_num
             /\ ReadContent(info) = B
<1> DEFINE info == info_file.infos[i]
           B == ReadBlock(info)
<1>1. Readable(info)
  BY AllReadable
<1>2. Sound(info) /\ info.file_off \in DOMAIN disk
  BY <1>1, FileBlock
<1> HIDE DEF info
<1>3. ReadContent(info) = B
  BY <1>1, <1>2, StoredReads DEF info
<1>4. /\ disk[info.file_off] \in Seq(Written) /\ BeginsRecord(disk[info.file_off])
      /\ Len(disk[info.file_off]) = info.item.item_num
  BY <1>1, <1>2 DEF WInv, DiskInv, Readable, info
<1>5. B \in Seq(Written) /\ BeginsRecord(B)
  BY <1>2, <1>4, ReadWritten
<1>6. B \in Seq(Item) /\ info.item.recd_num = RecordsIn(B)
  BY <1>2 DEF Sound, Counts
<1> HIDE DEF B
<1>7. B \in Seq(ColumnItem) /\ DOMAIN B = 1..Len(B)
  <2>1. Item \subseteq ColumnItem BY NullItemsOfItem
  <2> QED BY <1>6, <2>1
<1>8. RecordsIn(B) = Begun(B, Len(B))
  BY <1>7 DEF RecordsIn, Begun
<1>9. B # <<>> => B[1].rep = 0
  BY <1>5 DEF BeginsRecord
<1> QED BY <1>3, <1>6, <1>7, <1>8, <1>9 DEF info, B

\* What the CABs of the file are for the log, and what a reader loads of them: a reader gets the
\* records the CABInfo counts, which for a trivial CAB may be less than the CAB stands for, since the next
\* one begins at an aligned record.
LEMMA FileCAB ==
  ASSUME IInv, OrderInv, ContentInv, CountInv, WInv, session = "closed", info_file # NoFile,
         NEW i \in 1..Len(info_file.infos)
  PROVE  LET is == info_file.infos
             B  == BlockOf(disk, is, i)
             L  == ReadContent(is[i])
         IN  /\ B \in Seq(ColumnItem) /\ (B # <<>> => B[1].rep = 0)
             /\ i < Len(is) =>
                  /\ Begun(B, Len(B)) = is[i + 1].item.bgn_recd - is[i].item.bgn_recd
                  /\ is[i].item.bgn_recd <= is[i + 1].item.bgn_recd
             /\ is[i].item.recd_num > 0 =>
                  /\ L \in Seq(ColumnItem) /\ Begun(L, Len(L)) = is[i].item.recd_num
                  /\ Len(L) <= Len(B) /\ \A j \in 1..Len(L) : B[j] = L[j]
                  /\ Len(L) < Len(B) => B[Len(L) + 1].rep = 0
<1> DEFINE is == info_file.infos
           n  == Len(is)
           B  == BlockOf(disk, is, i)
           L  == ReadContent(is[i])
           x  == is[i].item
           y  == is[i + 1].item
<1>1. /\ is \in Seq(Info) /\ n \in Nat
      /\ x.bgn_recd \in Nat /\ x.recd_num \in Nat /\ x.item_num \in Nat
      /\ i < n => y.bgn_recd \in Nat
  <2>1. is \in Seq(Info) /\ n \in Nat BY DEF IInv, TypeOK
  <2>2. i < n => i + 1 \in 1..n BY <2>1
  <2> HIDE DEF is
  <2> QED BY <2>1, <2>2, InfoFields DEF is
<1>2. Rising(disk, is)
  BY DEF CountInv, FileCounts
<1>3. CASE is[i].strg_size # 0
  <2>1. B = ReadBlock(is[i])
    <3> HIDE DEF is
    <3> QED BY <1>3, ReadBlockOf DEF BlockOf
  <2>2. /\ B \in Seq(ColumnItem) /\ (B # <<>> => B[1].rep = 0)
        /\ Begun(B, Len(B)) = x.recd_num /\ L = B
    <3> HIDE DEF B
    <3> QED BY <1>3, <2>1, StoredBlock
  <2>3. i < n => y.bgn_recd = x.bgn_recd + x.recd_num
    BY <1>2, <1>3 DEF Rising, NextRecd
  <2> HIDE DEF B, L, x, y, n
  <2>4. i < n => Begun(B, Len(B)) = y.bgn_recd - x.bgn_recd /\ x.bgn_recd <= y.bgn_recd
    BY <1>1, <2>2, <2>3
  <2>5. Len(L) <= Len(B) /\ ~(Len(L) < Len(B))
    BY <2>2
  <2> QED BY <2>2, <2>4, <2>5 DEF B, L, x, y, n
<1>4. CASE is[i].strg_size = 0 /\ i < n
  <2> DEFINE m == y.bgn_recd - x.bgn_recd
             num == x.item_num
  <2>1. GetType(x) = "trivial" /\ x.recd_num = x.item_num /\ x.bgn_recd + x.recd_num <= y.bgn_recd
    BY <1>2, <1>4 DEF Rising, NextRecd
  <2>2. m \in Nat /\ num \in Nat /\ num <= m /\ x.bgn_recd <= y.bgn_recd
    <3> HIDE DEF x, y
    <3> QED BY <1>1, <1>4, <2>1
  <2>3. B = [k \in 1..m |-> Trivial]
    BY <1>4 DEF BlockOf
  <2>4. L = [k \in 1..num |-> Trivial]
    BY <2>1, ReadForms
  <2>5. Trivial.rep = 0 BY DEF Trivial
  <2> HIDE DEF m, num, B, L
  <2>6. B \in Seq(ColumnItem) /\ Len(B) = m /\ Begun(B, m) = m
        /\ L \in Seq(ColumnItem) /\ Len(L) = num /\ Begun(L, num) = num
    BY <2>2, <2>3, <2>4, AllTrivial
  <2>7. (\A j \in 1..num : B[j] = L[j]) /\ (m > 0 => B[1].rep = 0) /\ (num < m => B[num + 1].rep = 0)
    <3>1. \A j \in 1..m : B[j] = Trivial BY <2>3
    <3>2. \A j \in 1..num : L[j] = Trivial /\ j \in 1..m BY <2>2, <2>4
    <3>3. m > 0 => 1 \in 1..m BY <2>2
    <3>4. num < m => num + 1 \in 1..m BY <2>2
    <3> QED BY <2>5, <3>1, <3>2, <3>3, <3>4
  <2>8. B # <<>> => m > 0
    BY <2>2, <2>6
  <2>9. num = x.recd_num /\ m = y.bgn_recd - x.bgn_recd
    BY <2>1 DEF m, num
  <2> HIDE DEF x, y, n, is
  <2> QED BY <2>2, <2>6, <2>7, <2>8, <2>9 DEF B, L, x, y, n, is
<1>5. CASE is[i].strg_size = 0 /\ i = n
  <2>1. is[i] = TailInfo
    BY <1>5 DEF TailInfo
  <2>2. x.recd_num = 0
    BY <1>5, <2>1 DEF ContentInv, TailContent
  <2>3. B = <<>>
    BY <1>1, <1>5 DEF BlockOf
  <2>4. ~(i < n) BY <1>1, <1>5
  <2>5. B \in Seq(ColumnItem) BY <2>3
  <2> QED BY <2>2, <2>3, <2>4, <2>5
<1> QED BY <1>1, <1>3, <1>4, <1>5

\* The durable log is the blocks of the file, one behind the other, and the record numbers in the
\* CABInfos are where they begin.
LEMMA LogInBlocks ==
  ASSUME IInv, OrderInv, ContentInv, CountInv, WInv, session = "closed", info_file # NoFile
  PROVE  LET is == info_file.infos
             n  == Len(is)
             b  == [i \in 1..n |-> BlockOf(disk, is, i)]
             g  == [i \in 1..n |-> is[i].item.bgn_recd]
         IN  /\ n \in Nat \ {0} /\ is \in Seq(Info)
             /\ \A i \in 1..n : b[i] \in Seq(ColumnItem) /\ (b[i] # <<>> => b[i][1].rep = 0)
             /\ g \in [1..n -> Nat]
             /\ \A i \in 1..(n - 1) : Begun(b[i], Len(b[i])) = g[i + 1] - g[i] /\ g[i] <= g[i + 1]
             /\ durable = Concatenated(b, n)
<1> DEFINE is == info_file.infos
           n  == Len(is)
           b  == [i \in 1..n |-> BlockOf(disk, is, i)]
           g  == [i \in 1..n |-> is[i].item.bgn_recd]
<1>1. n \in Nat \ {0} /\ is \in Seq(Info)
  BY DEF IInv, TypeOK, FileInv
<1>2. \A i \in 1..n : is[i].item.bgn_recd \in Nat
  <2> HIDE DEF is
  <2> QED BY <1>1, InfoFields
<1>3. g \in [1..n -> Nat]
  BY <1>2
<1>4. \A i \in 1..n : b[i] \in Seq(ColumnItem) /\ (b[i] # <<>> => b[i][1].rep = 0)
  <2> SUFFICES ASSUME NEW i \in 1..n PROVE b[i] \in Seq(ColumnItem) /\ (b[i] # <<>> => b[i][1].rep = 0)
    OBVIOUS
  <2>1. b[i] = BlockOf(disk, is, i) OBVIOUS
  <2>2. BlockOf(disk, is, i) \in Seq(ColumnItem)
        /\ (BlockOf(disk, is, i) # <<>> => BlockOf(disk, is, i)[1].rep = 0)
    BY FileCAB
  <2> HIDE DEF b, is
  <2> QED BY <2>1, <2>2
<1>5. \A i \in 1..(n - 1) : Begun(b[i], Len(b[i])) = g[i + 1] - g[i] /\ g[i] <= g[i + 1]
  <2> SUFFICES ASSUME NEW i \in 1..(n - 1)
               PROVE  Begun(b[i], Len(b[i])) = g[i + 1] - g[i] /\ g[i] <= g[i + 1]
    OBVIOUS
  <2>1. i \in 1..n /\ i + 1 \in 1..n /\ i < n BY <1>1
  <2>2. b[i] = BlockOf(disk, is, i) /\ g[i] = is[i].item.bgn_recd /\ g[i + 1] = is[i + 1].item.bgn_recd
    BY <2>1
  <2>3. /\ Begun(BlockOf(disk, is, i), Len(BlockOf(disk, is, i))) = is[i + 1].item.bgn_recd - is[i].item.bgn_recd
        /\ is[i].item.bgn_recd <= is[i + 1].item.bgn_recd
    BY <2>1, FileCAB
  <2> HIDE DEF b, g, is, n
  <2> QED BY <2>2, <2>3
<1>6. durable = Concatenated(b, n)
  <2>1. Decoded(is, n) = durable BY DEF ContentInv, FileContent, TailDecodes
  <2>2. Decoded(is, n) = DecodedOf(disk, is, n) BY DecodedForm
  <2> QED BY <2>1, <2>2 DEF DecodedOf
<1> HIDE DEF b, g, n, is
<1> QED BY <1>1, <1>3, <1>4, <1>5, <1>6 DEF b, g, n, is

\* The place of a loaded CAB in the log: behind p items, which are bgn records, the log goes on with the
\* loaded items, and then with a new record.
InDurable(p, blk, bgn) ==
  /\ p + Len(blk) <= Len(durable)
  /\ \A j \in 1..Len(blk) : durable[p + j] = blk[j]
  /\ p + Len(blk) < Len(durable) => durable[p + Len(blk) + 1].rep = 0
  /\ Begun(durable, p) = bgn

\* Every CAB with records has such a place.
LEMMA FileLayout ==
  ASSUME IInv, OrderInv, ContentInv, CountInv, WInv, session = "closed", info_file # NoFile,
         NEW c \in 1..Len(info_file.infos)
  PROVE  LET is == info_file.infos
             L  == ReadContent(is[c])
         IN  /\ is[1].item.bgn_recd <= is[c].item.bgn_recd
             /\ is[c].item.recd_num > 0 =>
                  /\ L \in Seq(ColumnItem) /\ Begun(L, Len(L)) = is[c].item.recd_num
                  /\ L # <<>> /\ L[1].rep = 0
                  /\ \E p \in Nat : InDurable(p, L, is[c].item.bgn_recd - is[1].item.bgn_recd)
<1> DEFINE is == info_file.infos
           n  == Len(is)
           b  == [i \in 1..n |-> BlockOf(disk, is, i)]
           g  == [i \in 1..n |-> is[i].item.bgn_recd]
           L  == ReadContent(is[c])
           s  == Concatenated(b, c - 1)
           B  == b[c]
           p  == Len(s)
           num == is[c].item.recd_num
<1>1. /\ n \in Nat \ {0} /\ is \in Seq(Info)
      /\ \A i \in 1..n : b[i] \in Seq(ColumnItem) /\ (b[i] # <<>> => b[i][1].rep = 0)
      /\ g \in [1..n -> Nat]
      /\ \A i \in 1..(n - 1) : Begun(b[i], Len(b[i])) = g[i + 1] - g[i] /\ g[i] <= g[i + 1]
      /\ durable = Concatenated(b, n)
  BY LogInBlocks
<1>2. g[c] = is[c].item.bgn_recd /\ g[1] = is[1].item.bgn_recd /\ B = BlockOf(disk, is, c)
  BY <1>1
<1>3. /\ num > 0 =>
            /\ L \in Seq(ColumnItem) /\ Begun(L, Len(L)) = num
            /\ Len(L) <= Len(B) /\ \A j \in 1..Len(L) : B[j] = L[j]
            /\ Len(L) < Len(B) => B[Len(L) + 1].rep = 0
  BY <1>2, FileCAB
<1> HIDE DEF b, g
<1>4. c \in Nat /\ c - 1 \in Nat /\ c <= n /\ c - 1 <= n /\ c \in 1..n /\ (c - 1) + 1 = c
  BY <1>1
<1>5. Begun(s, p) = g[c] - g[1] /\ g[1] <= g[c]
  <2> HIDE DEF n, is
  <2> QED BY <1>1, <1>4, BlocksCount
<1>6. /\ s \in Seq(ColumnItem) /\ durable \in Seq(ColumnItem)
      /\ Len(s) <= Len(durable) /\ \A j \in 1..Len(s) : durable[j] = s[j]
      /\ Len(s) < Len(durable) => durable[Len(s) + 1].rep = 0
  <2> HIDE DEF n, is
  <2> QED BY <1>1, <1>4, BlocksFollow
<1> DEFINE t == Concatenated(b, c)
<1>7. /\ t \in Seq(ColumnItem)
      /\ Len(t) <= Len(durable) /\ \A j \in 1..Len(t) : durable[j] = t[j]
      /\ Len(t) < Len(durable) => durable[Len(t) + 1].rep = 0
  <2> HIDE DEF n, is
  <2> QED BY <1>1, <1>4, BlocksFollow
<1>8. t = s \o B /\ B \in Seq(ColumnItem) /\ (B # <<>> => B[1].rep = 0)
  <2>1. Concatenated(b, (c - 1) + 1) = Concatenated(b, c - 1) \o b[(c - 1) + 1]
    BY <1>4, ConcatenatedStep
  <2> QED BY <1>1, <1>4, <2>1
<1> HIDE DEF t, s, B, n, is
<1>9. Len(t) = p + Len(B) /\ \A j \in 1..Len(B) : t[p + j] = B[j]
  BY <1>6, <1>8, JoinedParts
<1>10. p \in Nat /\ Len(B) \in Nat /\ Len(durable) \in Nat
  BY <1>6, <1>8
<1>11. Begun(durable, p) = g[c] - g[1]
  BY <1>5, <1>6, <1>10, BegunSame
<1> HIDE DEF p, L
<1>12. ASSUME num > 0
       PROVE  /\ L \in Seq(ColumnItem) /\ Begun(L, Len(L)) = num
              /\ L # <<>> /\ L[1].rep = 0
              /\ InDurable(p, L, g[c] - g[1])
  <2> DEFINE q == Len(L)
  <2>1. /\ L \in Seq(ColumnItem) /\ Begun(L, q) = num /\ q \in Nat
        /\ q <= Len(B) /\ (\A j \in 1..q : B[j] = L[j])
        /\ (q < Len(B) => B[q + 1].rep = 0)
    BY <1>3, <1>12
  <2>2. q # 0
    <3>1. Begun(L, 0) = 0 BY BegunStep
    <3> HIDE DEF q
    <3> QED BY <1>12, <2>1, <3>1
  <2>3. L # <<>> BY <2>1, <2>2
  <2> HIDE DEF q, num
  <2>4. L[1].rep = 0
    <3>1. 1 \in 1..q /\ Len(B) > 0 BY <1>10, <2>1, <2>2
    <3>2. B # <<>> BY <3>1
    <3> QED BY <1>8, <2>1, <3>1, <3>2
  <2>5. \A j \in 1..q : durable[p + j] = L[j]
    <3> SUFFICES ASSUME NEW j \in 1..q PROVE durable[p + j] = L[j] OBVIOUS
    <3>1. j \in 1..Len(B) /\ p + j \in 1..Len(t) BY <1>9, <1>10, <2>1
    <3> QED BY <1>7, <1>9, <2>1, <3>1
  <2>6. p + q <= Len(durable)
    <3>1. Len(t) \in Nat BY <1>7
    <3> QED BY <1>7, <1>9, <1>10, <2>1, <3>1
  <2>7. p + q < Len(durable) => durable[p + q + 1].rep = 0
    <3>1. CASE q < Len(B)
      <4>1. q + 1 \in 1..Len(B) /\ p + (q + 1) = p + q + 1 /\ p + (q + 1) \in 1..Len(t)
        BY <1>9, <1>10, <2>1, <3>1, SMTT(20)
      <4> QED BY <1>7, <1>9, <2>1, <3>1, <4>1
    <3>2. CASE q = Len(B)
      <4>1. p + q = Len(t) BY <1>9, <3>2
      <4> QED BY <1>7, <4>1
    <3> QED BY <1>10, <2>1, <3>1, <3>2
  <2> QED BY <1>11, <2>1, <2>3, <2>4, <2>5, <2>6, <2>7 DEF InDurable, q
<1>13. is[1].item.bgn_recd <= is[c].item.bgn_recd
  BY <1>2, <1>5
<1>14. num > 0 => /\ L \in Seq(ColumnItem) /\ Begun(L, Len(L)) = num
                  /\ L # <<>> /\ L[1].rep = 0
                  /\ \E r \in Nat : InDurable(r, L, is[c].item.bgn_recd - is[1].item.bgn_recd)
  BY <1>2, <1>10, <1>12
<1> QED BY <1>13, <1>14 DEF L, is

\* The last CAB ends where the log ends.
LEMMA FileEnd ==
  ASSUME IInv, OrderInv, ContentInv, GroupInv, session = "closed", info_file # NoFile
  PROVE  LET is == info_file.infos
         IN  RecordsIn(durable) = NextRecd(is[Len(is)]) - is[1].item.bgn_recd
<1> DEFINE is == info_file.infos
           n  == Len(is)
           x  == is[n].item
           y  == is[1].item
<1>1. is \in Seq(Info) /\ n \in 1..n /\ 1 \in 1..n /\ TailInfo = is[n]
  BY DEF IInv, TypeOK, FileInv, TailInfo
<1>2. x.bgn_recd \in Nat /\ x.recd_num \in Nat /\ y.bgn_recd \in Nat
  <2> HIDE DEF is
  <2> QED BY <1>1, InfoFields
<1>3. RecordsIn(durable) = (x.bgn_recd - y.bgn_recd) + x.recd_num
  BY <1>1 DEF GroupInv, FileGroups, Groups
<1> HIDE DEF x, y
<1>4. RecordsIn(durable) = (x.bgn_recd + x.recd_num) - y.bgn_recd
  BY <1>2, <1>3
<1> QED BY <1>4 DEF NextRecd, x, y

-----------------------------------------------------------------------------
(* The reader in the log.                                                  *)

\* All that holds of the files and of the writer.
FilesInv ==
  /\ IInv /\ OrderInv /\ ContentInv /\ GroupInv
  /\ CountInv /\ NoCABInfos /\ WInv

\* The steps of a reader do not change the files.
LEMMA FilesKept ==
  ASSUME UNCHANGED contentVars
  PROVE  /\ session' = session /\ info_file' = info_file /\ durable' = durable
         /\ \A info : ReadContent(info)' = ReadContent(info)
<1>1. bytes' = bytes /\ kind' = kind /\ session' = session /\ info_file' = info_file /\ durable' = durable
  BY DEF contentVars, vars, fileVars
<1>2. ASSUME NEW info PROVE ReadContent(info)' = ReadContent(info)
  BY <1>1 DEF ReadContent, ValueAt
<1> QED BY <1>1, <1>2

\* What a reader has loaded, and where it stands in the log.
LEMMA LoadedCAB ==
  ASSUME FilesInv, ReaderInv, cur # NoInfo
  PROVE  /\ phase # "none" /\ cur \in Info
         /\ cur.item.bgn_recd \in Nat /\ cur.item.recd_num \in Nat /\ cur.item.recd_num > 0
         /\ FirstRecd <= cur.item.bgn_recd /\ FirstRecd \in Nat
         /\ loaded \in Seq(ColumnItem) /\ Begun(loaded, Len(loaded)) = cur.item.recd_num
         /\ loaded # <<>> /\ loaded[1].rep = 0
         /\ \E p \in Nat : InDurable(p, loaded, cur.item.bgn_recd - FirstRecd)
<1>1. /\ phase # "none" /\ session = "closed" /\ info_file # NoFile /\ rinfos = info_file.infos
  BY DEF ReaderInv
<1>2. PICK c \in 1..Len(rinfos) : InLog(c)
  BY DEF ReaderInv, Positioned
<1>3. rinfos \in Seq(Info) /\ 1 \in 1..Len(rinfos) /\ c \in 1..Len(rinfos)
  BY <1>1 DEF FilesInv, IInv, TypeOK, FileInv
<1>4. cur = rinfos[c] /\ cur.item.recd_num > 0 /\ loaded = ReadContent(cur)
  BY <1>2 DEF InLog
<1>5. /\ rinfos[c] \in Info /\ rinfos[c].item.bgn_recd \in Nat /\ rinfos[c].item.recd_num \in Nat
      /\ rinfos[1].item.bgn_recd \in Nat
  BY <1>3, InfoFields
<1>6. /\ rinfos[1].item.bgn_recd <= rinfos[c].item.bgn_recd
      /\ rinfos[c].item.recd_num > 0 =>
           /\ loaded \in Seq(ColumnItem) /\ Begun(loaded, Len(loaded)) = rinfos[c].item.recd_num
           /\ loaded # <<>> /\ loaded[1].rep = 0
           /\ \E p \in Nat : InDurable(p, loaded, rinfos[c].item.bgn_recd - rinfos[1].item.bgn_recd)
  BY <1>1, <1>2, <1>4, FileLayout DEF FilesInv
<1> QED BY <1>1, <1>4, <1>5, <1>6 DEF FirstRecd

\* The loaded CAB is read again as the same items.
LEMMA ReadKept ==
  ASSUME UNCHANGED contentVars, NEW info, cur' = info
  PROVE  ReadContent(cur)' = ReadContent(info)
<1>1. bytes' = bytes /\ kind' = kind
  BY DEF contentVars
<1> QED BY <1>1 DEF ReadContent, ValueAt

\* Position (CABReader::skipRecds and the first item read) puts a reader at the record it is to
\* read: both the item and the number of the record are those of ridx.
LEMMA Reached ==
  ASSUME NEW blk \in Seq(ColumnItem), NEW idx \in Nat, idx < Len(blk), blk[idx + 1].rep = 0,
         NEW num \in Nat, num <= Begun(blk, Len(blk)) - Begun(blk, idx + 1),
         NEW bgn \in Nat, bgn + Begun(blk, idx) + num = ridx, ridx' = ridx,
         loaded' = blk, cur'.item.bgn_recd = bgn, Position(blk, num, idx), got' = <<>>
  PROVE  /\ item_idx' \in 0..Len(loaded)'
         /\ recd_idx' = (cur.item.bgn_recd + Begun(loaded, item_idx) - Inside)'
         /\ (\E s \in 0..item_idx : ReadRecord(s))'
<1> DEFINE k == SkipRecds(blk, num, idx)
<1>1. /\ k \in Nat /\ k < Len(blk) /\ blk[k + 1].rep = 0
      /\ Begun(blk, k) = Begun(blk, idx) + num
  BY Skipped
<1>2. item_idx' = k /\ recd_idx' = ridx
  BY DEF Position
<1> HIDE DEF k
<1>3. Len(blk) \in Nat /\ Begun(blk, idx) \in Nat /\ Begun(blk, k) \in Nat
  BY <1>1, BegunStep
<1>4. bgn + Begun(blk, k) = ridx
  BY <1>1, <1>3
<1>5. Inside' = 0
  BY <1>1, <1>2 DEF Inside
<1>6. recd_idx' = (cur.item.bgn_recd + Begun(loaded, item_idx) - Inside)'
  BY <1>2, <1>3, <1>4, <1>5
<1>7. ReadRecord(k)'
  <2>1. SubSeq(blk, k + 1, k) = <<>>
    BY <1>1
  <2>2. \A j \in (k + 2)..k : FALSE
    BY <1>1
  <2> QED BY <1>1, <1>2, <1>4, <2>1, <2>2 DEF ReadRecord
<1>8. k \in 0..k
  BY <1>1
<1> QED BY <1>1, <1>2, <1>3, <1>6, <1>7, <1>8

-----------------------------------------------------------------------------
(* ReaderInv is inductive.                                                 *)

\* ReaderInv holds at first. It holds after each step:
LEMMA InitReader == ScanInit => ReaderInv
  BY DEF ScanInit, ReaderInv

\* a step of the writer, which happens without a reader,
LEMMA WriterReader ==
  ASSUME ReaderInv, WriterStep
  PROVE  ReaderInv'
<1>1. phase = "none" /\ UNCHANGED readerVars
  BY DEF WriterStep
<1> QED BY <1>1 DEF ReaderInv, readerVars

\* the reader is opened on the .info file,
LEMMA OpenReaderStep ==
  ASSUME FilesInv, ReaderInv, OpenReader
  PROVE  ReaderInv'
<1>1. /\ session = "closed" /\ info_file # NoFile
      /\ phase' = "idle" /\ rinfos' = info_file.infos /\ cab_idx' = 0 /\ cur' = NoInfo
      /\ loaded' = <<>> /\ recd_idx' = 0 /\ item_idx' = 0 /\ ridx' = info_file.valid_recd
      /\ got' = <<>> /\ UNCHANGED contentVars
  BY Zenon DEF OpenReader
<1>2. session' = session /\ info_file' = info_file
  BY <1>1, FilesKept
<1>3. info_file.infos \in Seq(Info) /\ info_file.infos # <<>> /\ info_file.valid_recd \in Nat
  BY <1>1 DEF FilesInv, IInv, TypeOK, FileInv
<1>4. FirstRecd' <= info_file.valid_recd
  BY <1>1 DEF FirstRecd, FilesInv, CountInv, FileCounts
<1>5. 0 \in 0..Len(info_file.infos)
  BY <1>3
<1> QED BY <1>1, <1>2, <1>3, <1>4, <1>5 DEF ReaderInv

\* the reader is closed,
LEMMA CloseReaderStep ==
  ASSUME CloseReader
  PROVE  ReaderInv'
  BY DEF CloseReader, ReaderInv

\* (what holds of an open reader after each of its steps)
LEMMA OpenKept ==
  ASSUME FilesInv, ReaderInv, phase # "none", UNCHANGED <<contentVars, rinfos>>,
         phase' \in {"idle", "seeking", "reading", "ended"}
  PROVE  /\ session' = "closed" /\ info_file' # NoFile /\ rinfos' = info_file'.infos
         /\ FirstRecd' = FirstRecd /\ LastEnd' = LastEnd
         /\ rinfos \in Seq(Info) /\ Len(rinfos) \in Nat \ {0}
         /\ cab_idx \in 0..Len(rinfos) /\ ridx \in Nat /\ FirstRecd <= ridx
<1>1. session' = session /\ info_file' = info_file /\ rinfos' = rinfos
  BY FilesKept
<1>2. rinfos \in Seq(Info) /\ Len(rinfos) \in Nat \ {0}
  BY DEF ReaderInv, FilesInv, IInv, TypeOK, FileInv
<1> QED BY <1>1, <1>2 DEF ReaderInv, FirstRecd, LastEnd

\* the record is in the CAB that is loaded, behind the last one read,
LEMMA PrepareInCABStep ==
  ASSUME FilesInv, ReaderInv, PrepareInCAB
  PROVE  ReaderInv'
<1> DEFINE num == ridx - recd_idx
<1>1. /\ phase = "idle" /\ Ahead /\ Position(loaded, num, item_idx) /\ phase' = "reading"
      /\ UNCHANGED <<contentVars, rinfos, cab_idx, cur, loaded, ridx, got>>
  BY Zenon DEF PrepareInCAB, Position
<1>2. cur # NoInfo /\ SkipRecds(loaded, num, item_idx) # NoItem
  BY <1>1 DEF Ahead
<1> HIDE DEF num
<1>3. /\ session' = "closed" /\ info_file' # NoFile /\ rinfos' = info_file'.infos
      /\ FirstRecd' = FirstRecd
      /\ cab_idx \in 0..Len(rinfos) /\ ridx \in Nat /\ FirstRecd <= ridx
  BY <1>1, OpenKept
<1>4. /\ cur.item.bgn_recd \in Nat /\ loaded \in Seq(ColumnItem)
  BY <1>2, LoadedCAB
<1>5. /\ item_idx \in 0..Len(loaded) /\ AtRecordEnd
      /\ recd_idx = cur.item.bgn_recd + Begun(loaded, item_idx) - Inside
      /\ cur.item.bgn_recd <= ridx
  BY <1>1, <1>2 DEF ReaderInv, Positioned
<1>6. item_idx \in Nat /\ item_idx < Len(loaded) /\ num \in 0..(Begun(loaded, Len(loaded)) - Begun(loaded, item_idx + 1))
  <2>1. item_idx \in Nat BY <1>5
  <2> QED BY <1>2, <1>4, <2>1, SkippedInCAB
<1>7. loaded[item_idx + 1].rep = 0 /\ Inside = 0
  BY <1>5, <1>6 DEF AtRecordEnd, Inside
<1>8. Begun(loaded, item_idx) \in Nat /\ Begun(loaded, item_idx + 1) \in Nat /\ Begun(loaded, Len(loaded)) \in Nat
  <2>1. item_idx + 1 \in Nat /\ Len(loaded) \in Nat BY <1>4, <1>6
  <2> QED BY <1>6, <2>1, BegunStep
<1>9. num \in Nat /\ num <= Begun(loaded, Len(loaded)) - Begun(loaded, item_idx + 1)
  BY <1>6, <1>8
<1>10. cur.item.bgn_recd + Begun(loaded, item_idx) + num = ridx
  BY <1>3, <1>4, <1>5, <1>7, <1>8 DEF num
<1>11. got' = <<>> /\ loaded' = loaded /\ cur' = cur /\ ridx' = ridx /\ cab_idx' = cab_idx
  BY <1>1 DEF ReaderInv
<1>12. cur'.item.bgn_recd = cur.item.bgn_recd
  BY <1>11
<1>13. /\ item_idx' \in 0..Len(loaded)'
       /\ recd_idx' = (cur.item.bgn_recd + Begun(loaded, item_idx) - Inside)'
       /\ (\E s \in 0..item_idx : ReadRecord(s))'
  BY <1>1, <1>4, <1>6, <1>7, <1>9, <1>10, <1>11, <1>12, Reached
<1>14. PICK c \in 1..Len(rinfos) : InLog(c)
  BY <1>2 DEF ReaderInv, Positioned
<1>15. InLog(c)'
  <2>1. ReadContent(cur)' = ReadContent(cur)
    <3>1. PICK info : info = cur OBVIOUS
    <3> QED BY <1>1, <1>11, <3>1, ReadKept
  <2> QED BY <1>1, <1>11, <1>14, <2>1 DEF InLog
<1>16. Positioned'
  BY <1>1, <1>5, <1>11, <1>13, <1>15 DEF Positioned
<1> QED BY <1>1, <1>2, <1>3, <1>11, <1>16 DEF ReaderInv

\* the reader goes back to the first record of the loaded CAB,
LEMMA PrepareFromBeginStep ==
  ASSUME FilesInv, ReaderInv, PrepareFromBegin
  PROVE  ReaderInv'
<1> DEFINE num == ridx - cur.item.bgn_recd
<1>1. /\ phase = "idle" /\ cur # NoInfo /\ Covers(cur) /\ Position(loaded, num, 0) /\ phase' = "reading"
      /\ UNCHANGED <<contentVars, rinfos, cab_idx, cur, loaded, ridx, got>>
  BY Zenon DEF PrepareFromBegin, Position
<1>2. /\ session' = "closed" /\ info_file' # NoFile /\ rinfos' = info_file'.infos
      /\ FirstRecd' = FirstRecd
      /\ cab_idx \in 0..Len(rinfos) /\ ridx \in Nat /\ FirstRecd <= ridx
  BY <1>1, OpenKept
<1>3. /\ cur.item.bgn_recd \in Nat /\ cur.item.recd_num \in Nat /\ loaded \in Seq(ColumnItem)
      /\ Begun(loaded, Len(loaded)) = cur.item.recd_num
      /\ loaded # <<>> /\ loaded[1].rep = 0
  BY <1>1, LoadedCAB
<1>4. ridx >= cur.item.bgn_recd /\ ridx < cur.item.bgn_recd + cur.item.recd_num
  BY <1>1 DEF Covers
<1>5. 0 \in Nat /\ 0 < Len(loaded) /\ loaded[0 + 1].rep = 0 /\ Begun(loaded, 0) = 0 /\ Begun(loaded, 0 + 1) = 1
  <2>1. 0 < Len(loaded) BY <1>3
  <2>2. Begun(loaded, 0) = 0 /\ Begun(loaded, 0 + 1) = Begun(loaded, 0) + (IF loaded[0 + 1].rep = 0 THEN 1 ELSE 0)
    BY BegunStep
  <2> QED BY <1>3, <2>1, <2>2
<1>6. num \in Nat /\ num <= Begun(loaded, Len(loaded)) - Begun(loaded, 0 + 1)
      /\ cur.item.bgn_recd + Begun(loaded, 0) + num = ridx
  BY <1>2, <1>3, <1>4, <1>5, SMTT(20)
<1> HIDE DEF num
<1>7. got' = <<>> /\ loaded' = loaded /\ cur' = cur /\ ridx' = ridx /\ cab_idx' = cab_idx
  BY <1>1 DEF ReaderInv
<1>8. cur'.item.bgn_recd = cur.item.bgn_recd
  BY <1>7
<1>9. /\ item_idx' \in 0..Len(loaded)'
       /\ recd_idx' = (cur.item.bgn_recd + Begun(loaded, item_idx) - Inside)'
       /\ (\E s \in 0..item_idx : ReadRecord(s))'
  BY <1>1, <1>3, <1>5, <1>6, <1>7, <1>8, Reached
<1>10. PICK c \in 1..Len(rinfos) : InLog(c)
  BY <1>1 DEF ReaderInv, Positioned
<1>11. InLog(c)'
  <2>1. ReadContent(cur)' = ReadContent(cur)
    <3>1. PICK info : info = cur OBVIOUS
    <3> QED BY <1>1, <1>7, <3>1, ReadKept
  <2> QED BY <1>1, <1>7, <1>10, <2>1 DEF InLog
<1>12. Positioned'
  BY <1>1, <1>4, <1>7, <1>9, <1>11 DEF Positioned
<1> QED BY <1>1, <1>2, <1>7, <1>12 DEF ReaderInv

\* (a step that leaves the reader's place in the loaded CAB alone)
LEMMA PlaceKept ==
  ASSUME ReaderInv, cur # NoInfo, UNCHANGED <<contentVars, rinfos, cur, loaded, recd_idx, item_idx>>,
         cur.item.bgn_recd <= ridx', AtRecordEnd, phase' # "reading",
         phase' = "idle" => phase \in {"idle", "reading"} /\ cab_idx' = cab_idx
  PROVE  Positioned'
<1>1. PICK c \in 1..Len(rinfos) : InLog(c)
  BY DEF ReaderInv, Positioned
<1>2. InLog(c)'
  <2>1. ReadContent(cur)' = ReadContent(cur)
    <3>1. PICK info : info = cur OBVIOUS
    <3> QED BY <3>1, ReadKept
  <2> QED BY <1>1, <2>1 DEF InLog
<1>3. AtRecordEnd' /\ Inside' = Inside
  BY DEF AtRecordEnd, Inside
<1> QED BY <1>2, <1>3 DEF Positioned, ReaderInv

\* the record is not in the loaded CAB,
LEMMA PrepareBySeekStep ==
  ASSUME FilesInv, ReaderInv, PrepareBySeek
  PROVE  ReaderInv'
<1>1. /\ phase = "idle" /\ phase' = "seeking" /\ ~(cur # NoInfo /\ Covers(cur))
      /\ UNCHANGED <<contentVars, rinfos, cab_idx, cur, loaded, recd_idx, item_idx, ridx, got>>
  BY Zenon DEF PrepareBySeek
<1>2. /\ session' = "closed" /\ info_file' # NoFile /\ rinfos' = info_file'.infos
      /\ FirstRecd' = FirstRecd /\ LastEnd' = LastEnd
      /\ Len(rinfos) \in Nat \ {0} /\ rinfos \in Seq(Info)
      /\ cab_idx \in 0..Len(rinfos) /\ ridx \in Nat /\ FirstRecd <= ridx
  BY <1>1, OpenKept
<1>3. cab_idx = Len(rinfos) => LastEnd <= ridx
  <2> SUFFICES ASSUME cab_idx = Len(rinfos) PROVE LastEnd <= ridx
    OBVIOUS
  <2>1. cur # NoInfo
    BY <1>1, <1>2 DEF ReaderInv
  <2>2. cur = rinfos[Len(rinfos)] /\ cur.item.bgn_recd <= ridx
    BY <1>1, <2>1 DEF ReaderInv, Positioned, InLog
  <2>3. cur.item.bgn_recd \in Nat /\ cur.item.recd_num \in Nat
    BY <2>1, LoadedCAB
  <2>4. ~(ridx < cur.item.bgn_recd + cur.item.recd_num)
    BY <1>1, <2>1, <2>2 DEF Covers
  <2>5. LastEnd = cur.item.bgn_recd + cur.item.recd_num
    BY <2>2 DEF LastEnd, NextRecd
  <2> QED BY <1>2, <2>3, <2>4, <2>5
<1>4. cur # NoInfo => Positioned'
  <2> SUFFICES ASSUME cur # NoInfo PROVE Positioned'
    OBVIOUS
  <2>1. cur.item.bgn_recd <= ridx' /\ AtRecordEnd
    BY <1>1 DEF ReaderInv, Positioned
  <2> QED BY <1>1, <2>1, PlaceKept
<1>5. got' = <<>> /\ cab_idx' = cab_idx /\ ridx' = ridx /\ cur' = cur /\ rinfos' = rinfos
      /\ (cur = NoInfo => loaded' = <<>> /\ item_idx' = 0 /\ recd_idx' = 0)
  BY <1>1 DEF ReaderInv
<1> QED BY <1>1, <1>2, <1>3, <1>4, <1>5 DEF ReaderInv

\* the search passes a CAB,
LEMMA SeekStepStep ==
  ASSUME FilesInv, ReaderInv, SeekStep
  PROVE  ReaderInv'
<1> DEFINE info == rinfos[cab_idx + 1]
           n == Len(rinfos)
<1>1. /\ phase = "seeking" /\ cab_idx \in 0..(n - 1) /\ Compare(info) # 0
      /\ cab_idx' = cab_idx + Compare(info)
      /\ UNCHANGED <<contentVars, phase, rinfos, cur, loaded, recd_idx, item_idx, ridx, got>>
  BY Zenon DEF SeekStep
<1>2. /\ session' = "closed" /\ info_file' # NoFile /\ rinfos' = info_file'.infos
      /\ FirstRecd' = FirstRecd /\ LastEnd' = LastEnd
      /\ n \in Nat \ {0} /\ rinfos \in Seq(Info)
      /\ ridx \in Nat /\ FirstRecd <= ridx
  BY <1>1, OpenKept
<1>3. cab_idx \in Nat /\ cab_idx + 1 \in 1..n
  BY <1>1, <1>2
<1>4. info.item.bgn_recd \in Nat /\ info.item.recd_num \in Nat
  <2> HIDE DEF n
  <2> QED BY <1>2, <1>3, InfoFields DEF n
<1>5. ASSUME ridx < info.item.bgn_recd PROVE cab_idx' \in 0..n /\ cab_idx' # n
  <2>1. Compare(info) = -1 BY <1>5 DEF Compare
  <2>2. cab_idx # 0
    <3>1. cab_idx = 0 => info.item.bgn_recd = FirstRecd BY DEF FirstRecd
    <3> HIDE DEF info
    <3>2. cab_idx = 0 => FALSE BY <1>2, <1>4, <1>5, <3>1
    <3> QED BY <3>2
  <2>3. cab_idx' \in 0..n /\ cab_idx' # n
    <3> HIDE DEF info, n
    <3> QED BY <1>1, <1>2, <1>3, <2>1, <2>2
  <2> QED BY <2>3
<1>6. ASSUME ~(ridx < info.item.bgn_recd)
      PROVE  cab_idx' \in 0..n /\ (cab_idx' = n => LastEnd <= ridx)
  <2>1. ~Covers(info) /\ Compare(info) = 1 BY <1>1, <1>6 DEF Compare
  <2>2. ridx >= info.item.bgn_recd + info.item.recd_num
    <3> HIDE DEF info
    <3> QED BY <1>2, <1>4, <1>6, <2>1 DEF Covers
  <2>3. cab_idx' = cab_idx + 1 /\ cab_idx' \in 0..n
    <3> HIDE DEF info, n
    <3> QED BY <1>1, <1>2, <1>3, <2>1
  <2>4. cab_idx' = n => LastEnd <= ridx
    <3>1. cab_idx' = n => LastEnd = info.item.bgn_recd + info.item.recd_num
      BY <2>3 DEF LastEnd, NextRecd
    <3> HIDE DEF info
    <3> QED BY <1>2, <1>4, <2>2, <3>1
  <2> QED BY <2>3, <2>4
<1>7. cab_idx' \in 0..n /\ (cab_idx' = n => LastEnd <= ridx)
  BY <1>2, <1>5, <1>6
<1>8. cur # NoInfo => Positioned'
  <2> SUFFICES ASSUME cur # NoInfo PROVE Positioned'
    OBVIOUS
  <2>1. cur.item.bgn_recd <= ridx' /\ AtRecordEnd
    BY <1>1 DEF ReaderInv, Positioned
  <2> QED BY <1>1, <2>1, PlaceKept
<1>9. got' = <<>> /\ ridx' = ridx /\ cur' = cur /\ rinfos' = rinfos /\ phase' = phase
      /\ (cur = NoInfo => loaded' = <<>> /\ item_idx' = 0 /\ recd_idx' = 0)
  BY <1>1 DEF ReaderInv
<1> QED BY <1>1, <1>2, <1>7, <1>8, <1>9 DEF ReaderInv

\* the search ends at a CAB, which is loaded,
LEMMA LoadCABStep ==
  ASSUME FilesInv, ReaderInv, LoadCAB
  PROVE  ReaderInv'
<1>0. PICK c : c = cab_idx + 1
  OBVIOUS
<1> DEFINE info == rinfos[c]
           L == ReadContent(info)
           num == ridx - info.item.bgn_recd
<1>1. /\ phase = "seeking" /\ cab_idx \in 0..(Len(rinfos) - 1) /\ Compare(info) = 0
      /\ cur' = info /\ loaded' = L /\ cab_idx' = c
      /\ Position(loaded', num, 0)
      /\ UNCHANGED <<contentVars, rinfos, ridx, got>>
  <2>1. /\ phase = "seeking" /\ cab_idx \in 0..(Len(rinfos) - 1) /\ Compare(rinfos[cab_idx + 1]) = 0
        /\ cur' = rinfos[cab_idx + 1] /\ loaded' = ReadContent(rinfos[cab_idx + 1]) /\ cab_idx' = cab_idx + 1
        /\ Position(loaded', ridx - rinfos[cab_idx + 1].item.bgn_recd, 0)
        /\ UNCHANGED <<contentVars, rinfos, ridx, got>>
    BY Zenon DEF LoadCAB
  <2> QED BY <1>0, <2>1
<1>2. phase' = "reading" /\ Position(L, num, 0)
  BY <1>1 DEF Position
<1>3. /\ session' = "closed" /\ info_file' # NoFile /\ rinfos' = info_file'.infos
      /\ FirstRecd' = FirstRecd
      /\ Len(rinfos) \in Nat \ {0} /\ rinfos \in Seq(Info)
      /\ ridx \in Nat /\ FirstRecd <= ridx
  BY <1>1, <1>2, OpenKept
<1>4. c \in 1..Len(rinfos) /\ c \in 0..Len(rinfos)
  BY <1>0, <1>1, <1>3
<1>5. info.item.bgn_recd \in Nat /\ info.item.recd_num \in Nat /\ info \in Info
  BY <1>3, <1>4, InfoFields
<1>6. ridx >= info.item.bgn_recd /\ ridx < info.item.bgn_recd + info.item.recd_num
  BY <1>1 DEF Compare, Covers
<1>7. info.item.recd_num > 0
  <2> HIDE DEF info
  <2> QED BY <1>3, <1>5, <1>6
<1>8. /\ L \in Seq(ColumnItem) /\ Begun(L, Len(L)) = info.item.recd_num
      /\ L # <<>> /\ L[1].rep = 0
  <2>1. rinfos = info_file.infos /\ session = "closed" /\ info_file # NoFile
    BY <1>1 DEF ReaderInv
  <2> QED BY <1>4, <1>7, <2>1, FileLayout DEF FilesInv
<1>9. cur' # NoInfo
  BY <1>1, <1>5, ScanAssumption
<1>10. InLog(c)'
  <2>1. ReadContent(cur)' = L
    <3>1. PICK x : x = info OBVIOUS
    <3>2. cur' = x BY <1>1, <3>1
    <3> QED BY <1>1, <3>1, <3>2, ReadKept
  <2>2. rinfos' = rinfos BY <1>1
  <2> HIDE DEF L
  <2>4. cur' = info BY <1>1
  <2> QED BY <1>1, <1>2, <1>7, <2>1, <2>2, <2>4 DEF InLog
<1> HIDE DEF info, L
<1>11. 0 \in Nat /\ 0 < Len(L) /\ L[0 + 1].rep = 0 /\ Begun(L, 0) = 0 /\ Begun(L, 0 + 1) = 1
  <2>1. 0 < Len(L) BY <1>8
  <2>2. Begun(L, 0) = 0 /\ Begun(L, 0 + 1) = Begun(L, 0) + (IF L[0 + 1].rep = 0 THEN 1 ELSE 0)
    BY BegunStep
  <2> QED BY <1>8, <2>1, <2>2
<1>12. num \in Nat /\ num <= Begun(L, Len(L)) - Begun(L, 0 + 1)
      /\ info.item.bgn_recd + Begun(L, 0) + num = ridx
  BY <1>3, <1>5, <1>6, <1>8, <1>11
<1> HIDE DEF num
<1>13. got' = <<>> /\ ridx' = ridx
  BY <1>1 DEF ReaderInv
<1>14. cur'.item.bgn_recd = info.item.bgn_recd
  BY <1>1
<1>15. /\ item_idx' \in 0..Len(loaded)'
       /\ recd_idx' = (cur.item.bgn_recd + Begun(loaded, item_idx) - Inside)'
       /\ (\E s \in 0..item_idx : ReadRecord(s))'
  BY <1>1, <1>2, <1>5, <1>8, <1>11, <1>12, <1>13, <1>14, Reached
<1>16. Positioned'
  <2>1. \E k \in 1..Len(rinfos') : InLog(k)'
    BY <1>1, <1>4, <1>10
  <2> QED BY <1>2, <1>6, <1>13, <1>14, <1>15, <2>1 DEF Positioned
<1> QED BY <1>1, <1>2, <1>3, <1>4, <1>9, <1>13, <1>16 DEF ReaderInv

\* or it ends behind the last CAB.
LEMMA SeekEndStep ==
  ASSUME FilesInv, ReaderInv, SeekEnd
  PROVE  ReaderInv'
<1>1. /\ phase = "seeking" /\ cab_idx \notin 0..(Len(rinfos) - 1) /\ phase' = "ended"
      /\ UNCHANGED <<contentVars, rinfos, cab_idx, cur, loaded, recd_idx, item_idx, ridx, got>>
  BY Zenon DEF SeekEnd
<1>2. /\ session' = "closed" /\ info_file' # NoFile /\ rinfos' = info_file'.infos
      /\ FirstRecd' = FirstRecd /\ LastEnd' = LastEnd
      /\ Len(rinfos) \in Nat \ {0} /\ cab_idx \in 0..Len(rinfos) /\ ridx \in Nat /\ FirstRecd <= ridx
  BY <1>1, OpenKept
<1>3. cab_idx = Len(rinfos)
  BY <1>1, <1>2
<1>4. LastEnd <= ridx
  BY <1>1, <1>3 DEF ReaderInv
<1>5. cur # NoInfo => Positioned'
  <2> SUFFICES ASSUME cur # NoInfo PROVE Positioned'
    OBVIOUS
  <2>1. cur.item.bgn_recd <= ridx' /\ AtRecordEnd
    BY <1>1 DEF ReaderInv, Positioned
  <2> QED BY <1>1, <2>1, PlaceKept
<1>6. got' = <<>> /\ cab_idx' = cab_idx /\ ridx' = ridx /\ cur' = cur /\ rinfos' = rinfos
      /\ (cur = NoInfo => loaded' = <<>> /\ item_idx' = 0 /\ recd_idx' = 0)
  BY <1>1 DEF ReaderInv
<1> QED BY <1>1, <1>2, <1>3, <1>4, <1>5, <1>6 DEF ReaderInv

\* (one more item of a record)
LEMMA NextItem ==
  ASSUME NEW s \in Seq(ColumnItem), NEW f \in Nat, NEW e \in Nat, f <= e, e < Len(s)
  PROVE  Append(SubSeq(s, f + 1, e), s[e + 1]) = SubSeq(s, f + 1, e + 1)
<1> DEFINE u == SubSeq(s, f + 1, e)
           v == SubSeq(s, f + 1, e + 1)
<1>1. Len(s) \in Nat /\ \A i \in 1..Len(s) : s[i] \in ColumnItem
  OBVIOUS
<1>2. /\ u \in Seq(ColumnItem) /\ Len(u) = e - f /\ \A i \in 1..(e - f) : u[i] = s[f + i]
  <2>1. /\ u \in Seq(ColumnItem)
        /\ Len(u) = (IF f + 1 <= e THEN e - (f + 1) + 1 ELSE 0)
        /\ \A i \in 1..(e - (f + 1) + 1) : u[i] = s[(f + 1) + i - 1]
    <3>1. \A i \in (f + 1)..e : s[i] \in ColumnItem BY <1>1
    <3>2. f + 1 \in Nat BY <1>1
    <3> QED BY <3>1, <3>2, SubSeqProperties
  <2> HIDE DEF u
  <2>2. Len(u) = e - f BY <2>1
  <2>3. \A i \in 1..(e - f) : i \in 1..(e - (f + 1) + 1) /\ (f + 1) + i - 1 = f + i OBVIOUS
  <2> QED BY <2>1, <2>2, <2>3
<1>3. /\ v \in Seq(ColumnItem) /\ Len(v) = (e + 1) - f /\ \A i \in 1..((e + 1) - f) : v[i] = s[f + i]
  <2>1. /\ v \in Seq(ColumnItem)
        /\ Len(v) = (IF f + 1 <= e + 1 THEN (e + 1) - (f + 1) + 1 ELSE 0)
        /\ \A i \in 1..((e + 1) - (f + 1) + 1) : v[i] = s[(f + 1) + i - 1]
    <3>1. \A i \in (f + 1)..(e + 1) : s[i] \in ColumnItem BY <1>1
    <3>2. f + 1 \in Nat /\ e + 1 \in Nat BY <1>1
    <3> QED BY <3>1, <3>2, SubSeqProperties
  <2> HIDE DEF v
  <2>2. Len(v) = (e + 1) - f BY <2>1
  <2>3. \A i \in 1..((e + 1) - f) : i \in 1..((e + 1) - (f + 1) + 1) /\ (f + 1) + i - 1 = f + i OBVIOUS
  <2> QED BY <2>1, <2>2, <2>3
<1> HIDE DEF u, v
<1>4. Len(v) = Len(u) + 1 /\ Len(u) \in Nat
  BY <1>2, <1>3
<1>5. \A i \in 1..Len(u) : v[i] = u[i]
  <2> SUFFICES ASSUME NEW i \in 1..Len(u) PROVE v[i] = u[i]
    OBVIOUS
  <2>1. i \in 1..(e - f) /\ i \in 1..((e + 1) - f) BY <1>2
  <2> QED BY <1>2, <1>3, <2>1
<1>6. v[Len(u) + 1] = s[e + 1]
  <2>1. Len(u) + 1 \in 1..((e + 1) - f) /\ f + (Len(u) + 1) = e + 1 BY <1>2
  <2> QED BY <1>3, <2>1
<1>7. s[e + 1] \in ColumnItem
  BY <1>1
<1>8. v = Append(u, s[e + 1])
  BY <1>2, <1>3, <1>4, <1>5, <1>6, <1>7, AppendIs
<1> QED BY <1>8 DEF u, v

\* An item is read, the last one of the record or not,
LEMMA ReadItemStep ==
  ASSUME FilesInv, ReaderInv, ReadItem
  PROVE  ReaderInv'
<1>1. /\ phase = "reading" /\ ~RecordDone /\ item_idx \in 0..(Len(loaded) - 1)
      /\ got' = Append(got, loaded[item_idx + 1]) /\ item_idx' = item_idx + 1
      /\ recd_idx' = recd_idx + (IF NextRep = 0 THEN 1 ELSE 0)
      /\ UNCHANGED <<contentVars, phase, rinfos, cab_idx, cur, loaded, ridx>>
  BY Zenon DEF ReadItem
<1>2. cur # NoInfo
  BY <1>1 DEF ReaderInv
<1>3. /\ session' = "closed" /\ info_file' # NoFile /\ rinfos' = info_file'.infos
      /\ FirstRecd' = FirstRecd
      /\ cab_idx \in 0..Len(rinfos) /\ ridx \in Nat /\ FirstRecd <= ridx
  BY <1>1, OpenKept
<1>4. /\ cur.item.bgn_recd \in Nat /\ loaded \in Seq(ColumnItem)
  BY <1>2, LoadedCAB
<1>5. /\ recd_idx = cur.item.bgn_recd + Begun(loaded, item_idx) - Inside
      /\ cur.item.bgn_recd <= ridx
  BY <1>2 DEF ReaderInv, Positioned
<1>6. PICK s \in 0..item_idx : ReadRecord(s)
  BY <1>1, <1>2 DEF ReaderInv, Positioned
<1>7. /\ Len(loaded) \in Nat /\ item_idx \in Nat /\ item_idx < Len(loaded) /\ s \in Nat /\ s <= item_idx
      /\ \A i \in 1..Len(loaded) : loaded[i] \in ColumnItem
  BY <1>1, <1>4, <1>6
<1>8. \A i \in 1..Len(loaded) : loaded[i].rep \in Nat
  BY <1>7, ConstantsAssumption DEF ColumnItem
<1>9. /\ s < Len(loaded) /\ loaded[s + 1].rep = 0
      /\ cur.item.bgn_recd + Begun(loaded, s) = ridx
      /\ \A j \in (s + 2)..item_idx : loaded[j].rep # 0
      /\ got = SubSeq(loaded, s + 1, item_idx)
  BY <1>6 DEF ReadRecord
<1>10. \A j \in (s + 2)..(item_idx + 1) : loaded[j].rep # 0
  <2> SUFFICES ASSUME NEW j \in (s + 2)..(item_idx + 1) PROVE loaded[j].rep # 0
    OBVIOUS
  <2>1. CASE j = item_idx + 1
    <3>1. s + 1 <= item_idx BY <1>7, <2>1
    <3>2. Len(got) = item_idx - s
      <4>1. \A i \in (s + 1)..item_idx : loaded[i] \in ColumnItem BY <1>7
      <4>2. s + 1 \in Nat BY <1>7
      <4> DEFINE u == SubSeq(loaded, s + 1, item_idx)
      <4>3. Len(u) = IF s + 1 <= item_idx THEN item_idx - (s + 1) + 1 ELSE 0
        BY <1>7, <4>1, <4>2, SubSeqProperties
      <4> HIDE DEF u
      <4>4. got = u BY <1>9 DEF u
      <4> QED BY <1>7, <3>1, <4>3, <4>4
    <3>3. got # <<>>
      <4>1. Len(got) # 0 BY <1>7, <3>1, <3>2
      <4> QED BY <4>1
    <3>4. loaded[item_idx + 1].rep # 0
      BY <1>1, <1>7, <3>3 DEF RecordDone, AtRecordEnd
    <3> QED BY <2>1, <3>4
  <2>2. CASE j # item_idx + 1
    <3>1. j \in (s + 2)..item_idx BY <1>7, <2>2
    <3> QED BY <1>9, <3>1
  <2> QED BY <2>1, <2>2
<1>11. got' = SubSeq(loaded, s + 1, item_idx + 1)
  BY <1>1, <1>4, <1>7, <1>9, NextItem
<1>12. ReadRecord(s)'
  <2>1. s <= item_idx + 1 BY <1>7
  <2> QED BY <1>1, <1>9, <1>10, <1>11, <2>1 DEF ReadRecord
<1>13. (\E k \in 0..item_idx : ReadRecord(k))'
  <2>1. s \in 0..(item_idx + 1) BY <1>7
  <2> QED BY <1>1, <1>12, <2>1
<1>14. recd_idx' = (cur.item.bgn_recd + Begun(loaded, item_idx) - Inside)'
  <2> DEFINE x == IF loaded[item_idx + 1].rep = 0 THEN 1 ELSE 0
             y == IF NextRep = 0 THEN 1 ELSE 0
             z == Inside'
  <2>1. Begun(loaded, item_idx + 1) = Begun(loaded, item_idx) + x /\ Begun(loaded, item_idx) \in Nat
    BY <1>7, BegunStep
  <2>2. Inside = 1 - x
    <3>1. item_idx + 1 \in 1..Len(loaded) BY <1>7
    <3>2. loaded[item_idx + 1].rep \in Nat BY <1>8, <3>1
    <3> QED BY <1>7, <3>2 DEF Inside
  <2>3. z = 1 - y
    <3>1. z = IF item_idx + 1 < Len(loaded) /\ loaded[item_idx + 2].rep > 0 THEN 1 ELSE 0
      <4>1. (item_idx + 1) + 1 = item_idx + 2 BY <1>7
      <4> QED BY <1>1, <4>1 DEF Inside
    <3>2. item_idx + 1 < Len(loaded) => loaded[item_idx + 2].rep \in Nat
      <4>1. item_idx + 1 < Len(loaded) => item_idx + 2 \in 1..Len(loaded) BY <1>7
      <4> QED BY <1>8, <4>1
    <3> HIDE DEF z
    <3> QED BY <3>1, <3>2 DEF NextRep
  <2>4. x \in Int /\ y \in Int OBVIOUS
  <2>5. recd_idx' = recd_idx + y BY <1>1
  <2>6. (cur.item.bgn_recd + Begun(loaded, item_idx) - Inside)' =
          cur.item.bgn_recd + Begun(loaded, item_idx + 1) - z
    BY <1>1
  <2> HIDE DEF x, y, z
  <2>7. recd_idx' = cur.item.bgn_recd + Begun(loaded, item_idx + 1) - z
    BY <1>4, <1>5, <2>1, <2>2, <2>3, <2>4, <2>5, SMTT(20)
  <2> QED BY <2>6, <2>7
<1>15. PICK c \in 1..Len(rinfos) : InLog(c)
  BY <1>2 DEF ReaderInv, Positioned
<1>16. InLog(c)'
  <2>1. ReadContent(cur)' = ReadContent(cur)
    <3>1. PICK info : info = cur OBVIOUS
    <3>2. cur' = info BY <1>1, <3>1
    <3> QED BY <1>1, <3>1, <3>2, ReadKept
  <2> QED BY <1>1, <1>15, <2>1 DEF InLog
<1>17. item_idx' \in 0..Len(loaded)'
  BY <1>1, <1>7
<1>18. Positioned'
  BY <1>1, <1>5, <1>13, <1>14, <1>16, <1>17 DEF Positioned
<1> QED BY <1>1, <1>2, <1>3, <1>18 DEF ReaderInv

\* and a record is asked for.
LEMMA RequestStep ==
  ASSUME FilesInv, ReaderInv, NEW r \in Requests, Request(r)
  PROVE  ReaderInv'
<1>1. /\ phase = "reading" /\ RecordDone /\ phase' = "idle" /\ ridx' = r /\ got' = <<>>
      /\ UNCHANGED <<contentVars, rinfos, cab_idx, cur, loaded, recd_idx, item_idx>>
  BY Zenon DEF Request
<1>2. cur # NoInfo
  BY <1>1 DEF ReaderInv
<1>3. /\ session' = "closed" /\ info_file' # NoFile /\ rinfos' = info_file'.infos
      /\ FirstRecd' = FirstRecd
      /\ cab_idx \in 0..Len(rinfos) /\ ridx \in Nat
  BY <1>1, OpenKept
<1>4. cur.item.bgn_recd \in Nat /\ FirstRecd <= cur.item.bgn_recd /\ FirstRecd \in Nat
  BY <1>2, LoadedCAB
<1>5. r \in cur.item.bgn_recd..(ridx + 1 + MaxSkip)
  BY <1>1 DEF Requests
<1>6. r \in Nat /\ cur.item.bgn_recd <= r /\ FirstRecd <= r
  BY <1>3, <1>4, <1>5, ScanAssumption
<1>7. Positioned'
  <2>1. cur.item.bgn_recd <= ridx' /\ AtRecordEnd
    BY <1>1, <1>6 DEF RecordDone
  <2> QED BY <1>1, <1>2, <2>1, PlaceKept
<1>8. cab_idx' = cab_idx /\ cur' = cur /\ rinfos' = rinfos
  BY <1>1
<1> QED BY <1>1, <1>2, <1>3, <1>6, <1>7, <1>8 DEF ReaderInv

-----------------------------------------------------------------------------
(* Theorems.                                                               *)

\* The files at first, and after each step of a writer.
LEMMA InitFiles == ContentInit => FilesInv
<1> SUFFICES ASSUME ContentInit PROVE FilesInv
  OBVIOUS
<1>1. Init
  BY DEF ContentInit
<1>2. OrderInv /\ NoCABInfos
  BY <1>1 DEF Init, OrderInv, NoCABInfos
<1> QED BY <1>1, <1>2, InitIInv, InitContent, InitGroups, InitCounts, InitW DEF FilesInv

\* Every step keeps what holds of the files, and is a step of ColumnFile.
LEMMA FilesStep ==
  ASSUME FilesInv, [ContentNext]_contentVars
  PROVE  FilesInv' /\ [Next]_vars
<1>1. IInv /\ OrderInv /\ ContentInv /\ GroupInv /\ CountInv /\ NoCABInfos /\ WInv
  BY DEF FilesInv
<1>2. [Next]_vars
  <2>1. CASE ContentNext BY <1>1, <2>1, ContentSteps
  <2>2. CASE UNCHANGED contentVars BY <2>2 DEF contentVars
  <2> QED BY <2>1, <2>2
<1>3. WInv'
  <2>1. CASE ContentNext BY <1>1, <2>1, WriterSteps
  <2>2. CASE UNCHANGED contentVars BY <1>1, <2>2, KeptW
  <2> QED BY <2>1, <2>2
<1>4. IInv' /\ OrderInv'
  BY <1>1, <1>2, IInvStep, OrderStep
<1>5. ContentInv' /\ GroupInv'
  BY <1>1, <1>2, ContentStep, GroupStep
<1>6. CountInv' /\ NoCABInfos'
  BY <1>1, <1>2, CountStep, NoCABInfosStep
<1> QED BY <1>2, <1>3, <1>4, <1>5, <1>6 DEF FilesInv

\* A step of the scan is a step of the files or leaves them alone.
LEMMA ScanContent ==
  ASSUME [ScanNext]_scanVars
  PROVE  [ContentNext]_contentVars
<1>1. CASE UNCHANGED scanVars
  BY <1>1 DEF scanVars
<1>2. CASE WriterStep
  BY <1>2 DEF WriterStep
<1>3. CASE OpenReader \/ CloseReader
  BY <1>3 DEF OpenReader, CloseReader
<1>4. CASE Preparing
  BY <1>4 DEF Preparing, PrepareInCAB, PrepareFromBegin, PrepareBySeek
<1>5. CASE Seeking
  BY <1>5 DEF Seeking, SeekStep, LoadCAB, SeekEnd
<1>6. CASE ReadItem \/ \E r \in Requests : Request(r)
  BY <1>6 DEF ReadItem, Request
<1> QED BY <1>1, <1>2, <1>3, <1>4, <1>5, <1>6 DEF ScanNext

\* Every step of the scan keeps ReaderInv.
LEMMA ReaderStep ==
  ASSUME FilesInv, ReaderInv, [ScanNext]_scanVars
  PROVE  ReaderInv'
<1>1. CASE UNCHANGED scanVars
  <2>1. UNCHANGED contentVars /\ UNCHANGED readerVars
    BY <1>1 DEF scanVars
  <2>2. session' = session /\ info_file' = info_file
    BY <2>1, FilesKept
  <2>3. UNCHANGED <<phase, rinfos, cab_idx, cur, loaded, recd_idx, item_idx, ridx, got>>
    BY <2>1 DEF readerVars
  <2>4. cur # NoInfo => Positioned'
    <3> SUFFICES ASSUME cur # NoInfo PROVE Positioned'
      OBVIOUS
    <3>1. PICK c \in 1..Len(rinfos) : InLog(c)
      BY DEF ReaderInv, Positioned
    <3>2. ReadContent(cur)' = ReadContent(cur)
      <4>1. PICK info : info = cur OBVIOUS
      <4>2. cur' = info BY <2>3, <4>1
      <4> QED BY <2>1, <4>1, <4>2, ReadKept
    <3>3. InLog(c)'
      BY <2>3, <3>1, <3>2 DEF InLog
    <3>4. Inside' = Inside /\ AtRecordEnd' = AtRecordEnd
      BY <2>3 DEF Inside, AtRecordEnd
    <3>5. phase = "reading" => (\E s \in 0..item_idx : ReadRecord(s))'
      <4> SUFFICES ASSUME phase = "reading" PROVE (\E s \in 0..item_idx : ReadRecord(s))'
        OBVIOUS
      <4>1. PICK s \in 0..item_idx : ReadRecord(s) BY DEF ReaderInv, Positioned
      <4>2. ReadRecord(s)' BY <2>3, <4>1 DEF ReadRecord
      <4> QED BY <2>3, <4>2
    <3>6. /\ cur.item.bgn_recd <= ridx /\ item_idx \in 0..Len(loaded)
          /\ recd_idx = cur.item.bgn_recd + Begun(loaded, item_idx) - Inside
          /\ phase # "reading" => AtRecordEnd
      BY DEF ReaderInv, Positioned
    <3> QED BY <2>3, <3>3, <3>4, <3>5, <3>6 DEF Positioned
  <2>5. FirstRecd' = FirstRecd /\ LastEnd' = LastEnd
    BY <2>3 DEF FirstRecd, LastEnd
  <2> QED BY <2>2, <2>3, <2>4, <2>5 DEF ReaderInv
<1>2. CASE WriterStep
  BY <1>2, WriterReader
<1>3. CASE OpenReader \/ CloseReader
  BY <1>3, OpenReaderStep, CloseReaderStep
<1>4. CASE Preparing
  BY <1>4, PrepareInCABStep, PrepareFromBeginStep, PrepareBySeekStep DEF Preparing
<1>5. CASE Seeking
  BY <1>5, SeekStepStep, LoadCABStep, SeekEndStep DEF Seeking
<1>6. CASE ReadItem
  BY <1>6, ReadItemStep
<1>7. CASE \E r \in Requests : Request(r)
  BY <1>7, RequestStep
<1> QED BY <1>1, <1>2, <1>3, <1>4, <1>5, <1>6, <1>7 DEF ScanNext

\* The files, the writer and the reader keep to FilesInv and ReaderInv, for all values of the constants:
\* whatever sessions, crashes and requests there are.
THEOREM ScanInvariance == ScanSpec => [](FilesInv /\ ReaderInv)
<1>1. ScanInit => FilesInv /\ ReaderInv
  BY InitFiles, InitReader DEF ScanInit
<1>2. FilesInv /\ ReaderInv /\ [ScanNext]_scanVars => (FilesInv /\ ReaderInv)'
  BY ScanContent, FilesStep, ReaderStep
<1> QED BY <1>1, <1>2, PTL DEF ScanSpec

\* The scan with its bytes implements ColumnFile: all that is proved of the files in ColumnFileProofs and
\* ColumnContentProofs holds of it too.
THEOREM ScanRefinesFile == ScanSpec => Spec
<1>1. ScanInit => Init
  BY DEF ScanInit, ContentInit
<1>2. FilesInv /\ ReaderInv /\ [ScanNext]_scanVars => [Next]_vars
  BY ScanContent, FilesStep
<1> QED BY <1>1, <1>2, ScanInvariance, PTL DEF ScanSpec, Spec

\* Every block that the file or the writer can read is read from its bytes as the items written to it
\* (CAB::merge2Buffer and ColumnItemArray::init2read).
THEOREM Blocks == ScanSpec => []BlocksReadBack
<1>1. FilesInv => BlocksReadBack
  BY BlocksReadable DEF FilesInv, BlocksReadBack
<1> QED BY <1>1, ScanInvariance, PTL

\* The fields of the reader have their types.
LEMMA ReaderTypes == FilesInv /\ ReaderInv => ScanTypeOK
<1> SUFFICES ASSUME FilesInv, ReaderInv PROVE ScanTypeOK
  OBVIOUS
<1>1. CASE phase = "none"
  BY <1>1 DEF ReaderInv, ScanTypeOK
<1>2. CASE phase # "none"
  <2>1. rinfos \in Seq(Info) /\ cab_idx \in Int /\ ridx \in Nat
    BY <1>2 DEF ReaderInv, FilesInv, IInv, TypeOK
  <2>2. CASE cur = NoInfo
    <3>1. loaded = <<>> /\ item_idx = 0 /\ recd_idx = 0 /\ got = <<>>
      BY <2>2 DEF ReaderInv
    <3> QED BY <2>1, <2>2, <3>1 DEF ReaderInv, ScanTypeOK
  <2>3. CASE cur # NoInfo
    <3>1. /\ cur \in Info /\ cur.item.bgn_recd \in Nat /\ loaded \in Seq(ColumnItem)
          /\ loaded # <<>> /\ loaded[1].rep = 0
      BY <2>3, LoadedCAB
    <3>2. /\ item_idx \in 0..Len(loaded)
          /\ recd_idx = cur.item.bgn_recd + Begun(loaded, item_idx) - Inside
      BY <2>3 DEF ReaderInv, Positioned
    <3>3. item_idx \in Nat /\ Len(loaded) \in Nat /\ item_idx <= Len(loaded)
      BY <3>1, <3>2
    <3>4. Begun(loaded, item_idx) \in Nat /\ Inside \in {0, 1}
      BY <3>3, BegunStep DEF Inside
    <3>5. Inside = 1 => Begun(loaded, item_idx) >= 1
      <4> SUFFICES ASSUME Inside = 1 PROVE Begun(loaded, item_idx) >= 1
        OBVIOUS
      <4>1. loaded[item_idx + 1].rep > 0 BY DEF Inside
      <4>2. item_idx # 0
        <5>1. item_idx = 0 => item_idx + 1 = 1 OBVIOUS
        <5> QED BY <3>1, <4>1, <5>1
      <4>3. 1 \in Nat /\ 1 <= item_idx BY <3>3, <4>2
      <4>4. Begun(loaded, 1) <= Begun(loaded, item_idx) BY <3>3, <4>3, BegunGrows
      <4>5. Begun(loaded, 1) = 1
        <5>1. Begun(loaded, 0) = 0 /\ Begun(loaded, 0 + 1) = Begun(loaded, 0) + (IF loaded[0 + 1].rep = 0 THEN 1 ELSE 0)
          BY BegunStep
        <5> QED BY <3>1, <5>1
      <4> QED BY <3>4, <4>4, <4>5
    <3>6. recd_idx \in Nat
      BY <3>1, <3>2, <3>4, <3>5
    <3>7. got \in Seq(ColumnItem)
      <4>1. CASE phase = "reading"
        <5>1. PICK s \in 0..item_idx : ReadRecord(s) BY <2>3, <4>1 DEF ReaderInv, Positioned
        <5>2. got = SubSeq(loaded, s + 1, item_idx) /\ s \in Nat /\ s + 1 \in Nat BY <3>3, <5>1 DEF ReadRecord
        <5>3. \A i \in (s + 1)..item_idx : loaded[i] \in ColumnItem BY <3>1, <3>3, <5>2
        <5> QED BY <3>3, <5>2, <5>3, SubSeqProperties
      <4>2. CASE phase # "reading"
        <5>1. got = <<>> BY <4>2 DEF ReaderInv
        <5> QED BY <5>1
      <4> QED BY <4>1, <4>2
    <3> QED BY <2>1, <3>1, <3>3, <3>6, <3>7 DEF ReaderInv, ScanTypeOK
  <2> QED BY <2>2, <2>3
<1> QED BY <1>1, <1>2

\* The bytes, the units of the writer and the reader have their types.
THEOREM ScanTypes == ScanSpec => []ScanTypeOK
  BY ReaderTypes, ScanInvariance, PTL

\* A place in the log is a pair of an item and a record.
LEMMA AgreeingPositions == FilesInv /\ ReaderInv => PositionsAgree
<1> SUFFICES ASSUME FilesInv, ReaderInv, cur # NoInfo PROVE PositionsAgree
  BY DEF PositionsAgree
<1>1. loaded \in Seq(ColumnItem)
  BY LoadedCAB
<1>2. item_idx \in 0..Len(loaded) /\ recd_idx = cur.item.bgn_recd + Begun(loaded, item_idx) - Inside
  BY DEF ReaderInv, Positioned
<1>3. RecordsIn(SubSeq(loaded, 1, item_idx)) = Begun(loaded, item_idx)
  BY <1>1, <1>2, RecordsUpTo DEF Begun
<1> QED BY <1>2, <1>3 DEF PositionsAgree, Inside

\* The reader's count of records and its position among the items agree in every state, so that a request
\* of a record in the loaded CAB skips the right number of records (ColumnReader::prepare2ReadRecord).
THEOREM Positions == ScanSpec => []PositionsAgree
  BY AgreeingPositions, ScanInvariance, PTL

\* A search that ended behind the last CAB asked for a record behind the log.
LEMMA EndOfFile == FilesInv /\ ReaderInv => EndIsReal
<1> SUFFICES ASSUME FilesInv, ReaderInv, phase = "ended"
             PROVE  ridx >= FirstRecd + RecordsIn(durable)
  BY DEF EndIsReal
<1>1. /\ session = "closed" /\ info_file # NoFile /\ rinfos = info_file.infos
      /\ ridx \in Nat /\ LastEnd <= ridx
  BY DEF ReaderInv
<1>2. RecordsIn(durable) = LastEnd - FirstRecd
  BY <1>1, FileEnd DEF FilesInv, LastEnd, FirstRecd
<1>3. FirstRecd \in Nat /\ LastEnd \in Nat
  <2>1. rinfos \in Seq(Info) /\ 1 \in 1..Len(rinfos) /\ Len(rinfos) \in 1..Len(rinfos)
    BY <1>1 DEF FilesInv, IInv, TypeOK, FileInv
  <2>2. /\ rinfos[1].item.bgn_recd \in Nat /\ rinfos[Len(rinfos)].item.bgn_recd \in Nat
        /\ rinfos[Len(rinfos)].item.recd_num \in Nat
    BY <2>1, InfoFields
  <2> QED BY <2>2 DEF FirstRecd, LastEnd, NextRecd
<1> QED BY <1>1, <1>2, <1>3

\* A reader that tells the end of the column is at a record that the log does not have: no record is
\* lost to a wrong search (CABReader::calcCABIndex, prepareCABInfo).
THEOREM EndOfColumn == ScanSpec => []EndIsReal
  BY EndOfFile, ScanInvariance, PTL

\* At its end a record that was read is the record of the log.
LEMMA RecordRead == FilesInv /\ ReaderInv => ReadsMatchLog
<1> SUFFICES ASSUME FilesInv, ReaderInv, phase = "reading", RecordDone
             PROVE  /\ ridx - FirstRecd < RecordsIn(durable)
                    /\ got = RecordOf(durable, ridx - FirstRecd)
  BY DEF ReadsMatchLog
<1>1. cur # NoInfo
  BY DEF ReaderInv
<1>2. /\ cur.item.bgn_recd \in Nat /\ FirstRecd \in Nat /\ loaded \in Seq(ColumnItem)
      /\ \E p \in Nat : InDurable(p, loaded, cur.item.bgn_recd - FirstRecd)
  BY <1>1, LoadedCAB
<1>3. PICK p \in Nat : InDurable(p, loaded, cur.item.bgn_recd - FirstRecd)
  BY <1>2
<1>4. PICK s \in 0..item_idx : ReadRecord(s)
  BY <1>1 DEF ReaderInv, Positioned
<1>5. item_idx \in 0..Len(loaded)
  BY <1>1 DEF ReaderInv, Positioned
<1> DEFINE n == Len(loaded)
           m == Len(durable)
           e == item_idx
           bgn == cur.item.bgn_recd
<1>6. durable \in Seq(ColumnItem) /\ m \in Nat /\ n \in Nat /\ DOMAIN durable = 1..m
  <2>1. durable \in Seq(Item) BY DEF FilesInv, IInv, TypeOK
  <2>2. Item \subseteq ColumnItem BY NullItemsOfItem
  <2> QED BY <1>2, <2>1, <2>2
<1>7. s \in Nat /\ e \in Nat /\ s <= e /\ e <= n
  BY <1>4, <1>5, <1>6
<1>8. /\ s < n /\ loaded[s + 1].rep = 0 /\ bgn + Begun(loaded, s) = ridx
      /\ \A j \in (s + 2)..e : loaded[j].rep # 0
      /\ got = SubSeq(loaded, s + 1, e)
  BY <1>4 DEF ReadRecord
<1>9. got # <<>> /\ (e < n => loaded[e + 1].rep = 0)
  BY DEF RecordDone, AtRecordEnd
<1>10. /\ p + n <= m /\ \A j \in 1..n : durable[p + j] = loaded[j]
       /\ p + n < m => durable[p + n + 1].rep = 0
       /\ Begun(durable, p) = bgn - FirstRecd
  BY <1>3 DEF InDurable
<1>11. s < e
  <2>1. s = e => SubSeq(loaded, s + 1, e) = <<>>
    BY <1>2, <1>7
  <2> QED BY <1>7, <1>8, <1>9, <2>1
<1> HIDE DEF n, m, e, bgn
<1>12. Begun(durable, p + s) = ridx - FirstRecd
  <2>1. \A j \in 1..s : loaded[j] = durable[p + j]
    <3>1. \A j \in 1..s : j \in 1..n BY <1>6, <1>7
    <3> QED BY <1>10, <3>1
  <2>2. Begun(durable, p + s) = Begun(durable, p) + Begun(loaded, s)
    BY <1>7, <2>1, BegunShift
  <2>3. Begun(loaded, s) \in Nat /\ bgn \in Nat BY <1>2, <1>7, BegunStep DEF bgn
  <2> QED BY <1>2, <1>8, <1>10, <2>2, <2>3
<1>13. /\ p + s \in Nat /\ p + e \in Nat /\ p + s < p + e /\ p + e <= m
  BY <1>6, <1>7, <1>10, <1>11
<1>14. durable[(p + s) + 1].rep = 0
  <2>1. s + 1 \in 1..n /\ p + (s + 1) = (p + s) + 1 BY <1>6, <1>7, <1>8
  <2> QED BY <1>8, <1>10, <2>1
<1>15. \A j \in ((p + s) + 2)..(p + e) : durable[j].rep # 0
  <2> SUFFICES ASSUME NEW j \in ((p + s) + 2)..(p + e) PROVE durable[j].rep # 0
    OBVIOUS
  <2>1. j - p \in (s + 2)..e /\ j - p \in 1..n /\ p + (j - p) = j BY <1>6, <1>7
  <2> QED BY <1>8, <1>10, <2>1
<1>16. p + e < m => durable[(p + e) + 1].rep = 0
  <2>1. CASE e < n
    <3>1. e + 1 \in 1..n /\ p + (e + 1) = (p + e) + 1 BY <1>6, <1>7, <2>1
    <3> QED BY <1>9, <1>10, <2>1, <3>1
  <2>2. CASE e = n
    BY <1>10, <2>2
  <2> QED BY <1>6, <1>7, <2>1, <2>2
<1>17. /\ Begun(durable, p + s) < Begun(durable, m)
       /\ RecordOf(durable, Begun(durable, p + s)) = SubSeq(durable, (p + s) + 1, p + e)
  BY <1>6, <1>13, <1>14, <1>15, <1>16, RecordAt DEF m
<1>18. RecordsIn(durable) = Begun(durable, m)
  BY <1>6 DEF RecordsIn, Begun
<1>19. SubSeq(loaded, s + 1, e) = SubSeq(durable, (p + s) + 1, p + e)
  <2> DEFINE u == SubSeq(loaded, s + 1, e)
             v == SubSeq(durable, (p + s) + 1, p + e)
  <2>1. u \in Seq(ColumnItem) /\ Len(u) = e - s /\ \A i \in 1..(e - s) : u[i] = loaded[s + i]
    <3>1. \A i \in (s + 1)..e : loaded[i] \in ColumnItem BY <1>2, <1>6, <1>7 DEF n
    <3>2. s + 1 \in Nat BY <1>7
    <3>3. /\ u \in Seq(ColumnItem)
          /\ Len(u) = (IF s + 1 <= e THEN e - (s + 1) + 1 ELSE 0)
          /\ \A i \in 1..(e - (s + 1) + 1) : u[i] = loaded[(s + 1) + i - 1]
      BY <1>7, <3>1, <3>2, SubSeqProperties
    <3> HIDE DEF u
    <3>4. Len(u) = e - s BY <1>7, <1>11, <3>3
    <3>5. \A i \in 1..(e - s) : i \in 1..(e - (s + 1) + 1) /\ (s + 1) + i - 1 = s + i BY <1>7
    <3> QED BY <3>3, <3>4, <3>5
  <2>2. v \in Seq(ColumnItem) /\ Len(v) = e - s /\ \A i \in 1..(e - s) : v[i] = durable[p + (s + i)]
    <3>1. \A i \in ((p + s) + 1)..(p + e) : durable[i] \in ColumnItem BY <1>6, <1>7, <1>13 DEF m
    <3>2. (p + s) + 1 \in Nat BY <1>7
    <3>3. /\ v \in Seq(ColumnItem)
          /\ Len(v) = (IF (p + s) + 1 <= p + e THEN (p + e) - ((p + s) + 1) + 1 ELSE 0)
          /\ \A i \in 1..((p + e) - ((p + s) + 1) + 1) : v[i] = durable[((p + s) + 1) + i - 1]
      BY <1>13, <3>1, <3>2, SubSeqProperties
    <3> HIDE DEF v
    <3>4. Len(v) = e - s BY <1>7, <1>11, <3>3
    <3>5. \A i \in 1..(e - s) : i \in 1..((p + e) - ((p + s) + 1) + 1)
                                /\ ((p + s) + 1) + i - 1 = p + (s + i) BY <1>7
    <3> QED BY <3>3, <3>4, <3>5
  <2> HIDE DEF u, v
  <2>3. \A i \in 1..Len(u) : u[i] = v[i]
    <3> SUFFICES ASSUME NEW i \in 1..Len(u) PROVE u[i] = v[i]
      OBVIOUS
    <3>1. i \in 1..(e - s) /\ s + i \in 1..n BY <1>6, <1>7, <2>1
    <3> QED BY <1>10, <2>1, <2>2, <3>1
  <2>4. u = v BY <2>1, <2>2, <2>3, SeqEqual
  <2> QED BY <2>4 DEF u, v
<1> QED BY <1>8, <1>12, <1>17, <1>18, <1>19

\* A record read from the file is the record with that number in the log, item by item: none is skipped,
\* merged with its neighbour or read short, whatever the reader read before (ColumnReader::readItem).
THEOREM ReadRecords == ScanSpec => []ReadsMatchLog
  BY RecordRead, ScanInvariance, PTL

=============================================================================
