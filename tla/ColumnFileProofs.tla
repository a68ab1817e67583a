-------------------------- MODULE ColumnFileProofs --------------------------
(***************************************************************************)
(* Theorems about ColumnFile, for all values of its constants.             *)
(*                                                                         *)
(* The invariants of the file need each other: an appender computes its    *)
(* position from the tail CABInfo, so that the CABs partition the records  *)
(* only if a tail that counts neither 0 nor RecdCap records was stored,    *)
(* and an empty CAB is never followed by a stored one with its id only if  *)
(* a CAB that stores items has begun a record.  IInv collects what is      *)
(* needed for a step.                                                      *)
(***************************************************************************)
EXTENDS ColumnFile, SequenceTheorems, TLAPS

\* A tail CABInfo that can be reopened: if it describes a partly filled CAB,
\* that CAB is stored; if it is stored, it begins a record and has a block.
TailStored(info) ==
  /\ info.item.recd_num <= info.item.item_num
  /\ info.item.recd_num \notin {0, RecdCap} => info.strg_size # 0
  /\ info.strg_size # 0 => /\ info.item.recd_num > 0
                           /\ info.file_off \in DOMAIN disk

\* The open writer.
WriterInv ==
  session \in {"open", "flushed"} =>
    /\ infos # <<>>
    /\ ChainOK(infos)
    /\ ShortOnlyIfEmpty(infos)
    /\ item_info.recd_num <= item_info.item_num
    /\ item_info.recd_num <= RecdCap
    /\ item_info.item_num > 0 => item_info.recd_num > 0
    /\ item_info.bgn_recd = Cur.item.bgn_recd
    /\ recd_num = Cur.item.bgn_recd + item_info.recd_num
    /\ Cur.item.recd_num <= item_info.recd_num

\* ... before and after its last flush.
OpenInv ==
  session = "open" =>
    /\ file_off = Cur.file_off
    /\ Len(items) = item_info.item_num
    /\ Len(log) > Len(durable) => item_info.item_num > 0

FlushedInv ==
  session = "flushed" => TailStored(Cur) /\ Readable(Cur)

\* The files.
FileInv ==
  info_file # NoFile =>
    /\ info_file.infos # <<>>
    /\ ChainOK(info_file.infos)
    /\ ShortOnlyIfEmpty(info_file.infos)
    /\ TailStored(TailInfo)
    /\ session \in {"closed", "died"} => Readable(TailInfo)

\* Without a session nothing is pending.
LogInv == session \in {"closed", "damaged", "died"} => log = durable

IInv == TypeOK /\ WriterInv /\ OpenInv /\ FlushedInv /\ FileInv /\ LogInv

-----------------------------------------------------------------------------
(* Arithmetic of alignment.                                                *)

\* The position an alignment begins at is a multiple of it (calcAlignBegin in
\* CABWriter::init2write).
LEMMA AlignBeginAligned ==
  ASSUME NEW n \in Nat, NEW a \in Nat \ {0}
  PROVE  CalcAlignBegin(n, a) \in Nat /\ CalcAlignBegin(n, a) % a = 0
  BY DEF CalcAlignBegin

\* The stored size of a CAB that stores something is not zero.
LEMMA AlignSizePositive ==
  ASSUME NEW n \in Nat, NEW a \in Nat \ {0}
  PROVE  /\ CalcAlignSize(n, a) \in Nat
         /\ n > 0 => CalcAlignSize(n, a) > 0
  BY DEF CalcAlignSize

\* One CAB further is aligned as well.
LEMMA NextAligned ==
  ASSUME NEW n \in Nat, NEW a \in Nat \ {0}, n % a = 0
  PROVE  (n + a) % a = 0
<1> DEFINE q == n \div a
<1>1. q \in Int /\ n = a * q
  OBVIOUS
<1>2. n + a = a * (q + 1)
  <2> HIDE DEF q
  <2> QED BY <1>1
<1>3. ASSUME NEW k \in Int PROVE (a * k) % a = 0
  OBVIOUS
<1> HIDE DEF q
<1> QED BY <1>1, <1>2, <1>3

\* A record begun is counted by the writer and by the CAB.
LEMMA CountBoth ==
  ASSUME NEW bgn \in Nat, NEW cnt \in Nat, NEW d \in Nat,
         NEW total, NEW cnt2, total = (bgn + cnt) + d, cnt2 = cnt + d
  PROVE  total = bgn + cnt2
  OBVIOUS

\* A CAB is full or empty when the appender's test says so.
LEMMA FullOrEmpty ==
  ASSUME NEW n \in Nat, NEW a \in Nat \ {0}, n <= a
  PROVE  n % a = 0 <=> n \in {0, a}
  OBVIOUS

-----------------------------------------------------------------------------
(* The helpers of the model.                                               *)

\* CABItemInfo::update keeps the begin record and counts one item.
LEMMA UpdateCounts ==
  ASSUME NEW ii \in ItemInfo, NEW it \in ColumnItem
  PROVE  /\ Update(ii, it) \in ItemInfo
         /\ Update(ii, it).bgn_recd = ii.bgn_recd
         /\ Update(ii, it).item_num = ii.item_num + 1
         /\ Update(ii, it).recd_num = ii.recd_num + (IF it.rep = 0 THEN 1 ELSE 0)
<1>1. ii.triv_num + (IF it.def = 0 /\ it.rep = 0 THEN 1 ELSE 0) \in Nat
  <2>1. CASE it.def = 0 /\ it.rep = 0
    BY <2>1 DEF ItemInfo
  <2>2. CASE ~(it.def = 0 /\ it.rep = 0)
    BY <2>2 DEF ItemInfo
  <2> QED BY <2>1, <2>2
<1>2. /\ ii.recd_num + (IF it.rep = 0 THEN 1 ELSE 0) \in Nat
      /\ ii.null_num + (IF it.def < MaxDef THEN 1 ELSE 0) \in Nat
      /\ ii.bgn_recd \in Nat /\ ii.item_num + 1 \in Nat
  BY DEF ItemInfo
<1> QED BY <1>1, <1>2 DEF Update, ItemInfo

\* What a flush stores takes no space only if the CAB has no items, or if it is
\* not the tail and trivial.
LEMMA MergedUsedNat ==
  ASSUME NEW ii \in ItemInfo, NEW tail \in BOOLEAN
  PROVE  /\ MergedUsed(ii, tail) \in Nat
         /\ MergedUsed(ii, tail) > 0 => ii.item_num > 0
         /\ tail /\ ii.item_num > 0 => MergedUsed(ii, tail) > 0
  BY DEF MergedUsed, ItemInfo, GetType

\* The last CABInfo of a sequence.
LEMMA LastInfo ==
  ASSUME NEW is \in Seq(Info), is # <<>>
  PROVE  Len(is) \in 1..Len(is) /\ is[Len(is)] \in Info
  BY EmptySeq, ElementOfSeq

\* A flush changes the size and, if it stores anything, the counters.
LEMMA FlushedInfoFields ==
  ASSUME TypeOK, infos # <<>>, NEW tail \in BOOLEAN
  PROVE  LET fi   == FlushedInfo(tail)
             used == MergedUsed(item_info, tail)
         IN  /\ fi \in Info
             /\ fi.file_off = Cur.file_off
             /\ used = 0 => fi.strg_size = 0 /\ fi.item = Cur.item
             /\ used # 0 => fi.strg_size > 0 /\ fi.item = item_info
<1>1. Cur \in Info /\ item_info \in ItemInfo
  BY LastInfo DEF TypeOK, Cur
<1>2. MergedUsed(item_info, tail) \in Nat
  BY <1>1, MergedUsedNat
<1>3. CASE MergedUsed(item_info, tail) = 0
  BY <1>1, <1>3 DEF FlushedInfo, Info
<1>4. CASE MergedUsed(item_info, tail) # 0
  <2>1. /\ CalcAlignSize(MergedUsed(item_info, tail), AlignSize) \in Nat
        /\ CalcAlignSize(MergedUsed(item_info, tail), AlignSize) > 0
    <3> DEFINE used == MergedUsed(item_info, tail)
    <3>1. used \in Nat /\ used > 0
      BY <1>2, <1>4
    <3>2. AlignSize \in Nat \ {0}
      BY ConstantsAssumption
    <3> HIDE DEF used
    <3>3. CalcAlignSize(used, AlignSize) \in Nat /\ CalcAlignSize(used, AlignSize) > 0
      BY <3>1, <3>2, AlignSizePositive
    <3> QED BY <3>3 DEF used
  <2> QED BY <1>1, <1>4, <2>1 DEF FlushedInfo, Info
<1> QED BY <1>3, <1>4

\* Replacing the last CABInfo of a sequence.
LEMMA ReplaceLast ==
  ASSUME NEW is \in Seq(Info), is # <<>>, NEW info \in Info
  PROVE  LET js == [is EXCEPT ![Len(is)] = info]
         IN  /\ js \in Seq(Info) /\ Len(js) = Len(is)
             /\ js[Len(is)] = info
             /\ \A i \in 1..(Len(is) - 1) : js[i] = is[i]
<1>1. Len(is) \in 1..Len(is)
  BY EmptySeq, LenProperties
<1> QED BY <1>1, ExceptSeq

\* A chain stays one when its last CAB is flushed ...
LEMMA ChainReplace ==
  ASSUME NEW is \in Seq(Info), is # <<>>, NEW info \in Info,
         ChainOK(is), ShortOnlyIfEmpty(is),
         info.file_off = is[Len(is)].file_off,
         info.item.bgn_recd = is[Len(is)].item.bgn_recd,
         info.item.recd_num <= RecdCap
  PROVE  LET js == [is EXCEPT ![Len(is)] = info]
         IN  ChainOK(js) /\ ShortOnlyIfEmpty(js)
<1> DEFINE js == [is EXCEPT ![Len(is)] = info]
<1>1. /\ js \in Seq(Info) /\ Len(js) = Len(is)
      /\ js[Len(is)] = info
      /\ \A i \in 1..(Len(is) - 1) : js[i] = is[i]
  BY ReplaceLast
<1> HIDE DEF js
<1>2. \A i \in 1..Len(is) : /\ js[i].file_off = is[i].file_off
                            /\ js[i].item.bgn_recd = is[i].item.bgn_recd
                            /\ js[i].item.recd_num <= RecdCap
  BY <1>1 DEF ChainOK
<1>3. ChainOK(js)
  BY <1>1, <1>2 DEF ChainOK
<1>4. ShortOnlyIfEmpty(js)
  BY <1>1 DEF ShortOnlyIfEmpty
<1> QED BY <1>3, <1>4 DEF js

\* ... and when a CABInfo that continues it is appended.
LEMMA ChainAppend ==
  ASSUME NEW is \in Seq(Info), is # <<>>, NEW new \in Info,
         ChainOK(is), ShortOnlyIfEmpty(is),
         is[Len(is)].item.recd_num < RecdCap => is[Len(is)].strg_size = 0,
         new.file_off = is[Len(is)].file_off + is[Len(is)].strg_size,
         new.item.bgn_recd \in {is[Len(is)].item.bgn_recd,
                                is[Len(is)].item.bgn_recd + RecdCap},
         new.item.recd_num <= RecdCap
  PROVE  ChainOK(Append(is, new)) /\ ShortOnlyIfEmpty(Append(is, new))
<1> DEFINE js == Append(is, new)
           n  == Len(is)
<1>1. /\ js \in Seq(Info) /\ Len(js) = n + 1 /\ n \in Nat \ {0}
      /\ js[n + 1] = new
      /\ \A i \in 1..n : js[i] = is[i]
  BY AppendProperties, EmptySeq, LenProperties
<1>2. is[n].item.bgn_recd \in Nat /\ is[n].item.bgn_recd % RecdCap = 0
  <2>1. n \in 1..Len(is) /\ is[n] \in Info
    BY <1>1, ElementOfSeq
  <2> QED BY <2>1 DEF ChainOK, Info, ItemInfo
<1>3. new.item.bgn_recd % RecdCap = 0
  BY <1>2, NextAligned, ConstantsAssumption
<1> HIDE DEF js, n
<1>4. ChainOK(js)
  <2> SUFFICES ASSUME NEW i \in 1..(n + 1)
               PROVE  /\ js[i].item.bgn_recd % RecdCap = 0
                      /\ js[i].item.recd_num <= RecdCap
                      /\ i < n + 1 =>
                           /\ js[i + 1].file_off = js[i].file_off + js[i].strg_size
                           /\ js[i + 1].item.bgn_recd \in
                                {js[i].item.bgn_recd, js[i].item.bgn_recd + RecdCap}
    BY <1>1 DEF ChainOK
  <2>1. CASE i = n + 1
    BY <2>1, <1>1, <1>3
  <2>2. CASE i = n
    BY <2>2, <1>1, <1>2 DEF ChainOK, n
  <2>3. CASE i \in 1..(n - 1)
    <3>1. i \in 1..n /\ i + 1 \in 1..n /\ js[i] = is[i] /\ js[i + 1] = is[i + 1]
      BY <2>3, <1>1
    <3>2. i < Len(is) /\ i \in 1..Len(is)
      BY <2>3, <1>1 DEF n
    <3> QED BY <3>1, <3>2 DEF ChainOK
  <2> QED BY <1>1, <2>1, <2>2, <2>3
<1>5. ShortOnlyIfEmpty(js)
  <2> SUFFICES ASSUME NEW i \in 1..n, js[i].item.recd_num < RecdCap
               PROVE  js[i].strg_size = 0
    BY <1>1 DEF ShortOnlyIfEmpty
  <2>1. CASE i = n
    BY <2>1, <1>1 DEF n
  <2>2. CASE i \in 1..(n - 1)
    BY <2>2, <1>1 DEF ShortOnlyIfEmpty, n
  <2> QED BY <1>1, <2>1, <2>2
<1> QED BY <1>4, <1>5 DEF js

\* The CABInfos after a flush.
LEMMA FlushChain ==
  ASSUME TypeOK, WriterInv, session = "open", NEW tail \in BOOLEAN
  PROVE  LET js == [infos EXCEPT ![Len(infos)] = FlushedInfo(tail)]
         IN  /\ js \in Seq(Info) /\ js # <<>> /\ Len(js) = Len(infos)
             /\ js[Len(js)] = FlushedInfo(tail)
             /\ ChainOK(js) /\ ShortOnlyIfEmpty(js)
<1>1. infos \in Seq(Info) /\ infos # <<>> /\ ChainOK(infos) /\ ShortOnlyIfEmpty(infos)
  BY DEF TypeOK, WriterInv
<1>2. /\ FlushedInfo(tail) \in Info
      /\ FlushedInfo(tail).file_off = Cur.file_off
      /\ FlushedInfo(tail).item \in {Cur.item, item_info}
  BY <1>1, FlushedInfoFields
<1>3. /\ FlushedInfo(tail).item.bgn_recd = Cur.item.bgn_recd
      /\ FlushedInfo(tail).item.recd_num <= RecdCap
  <2>1. Len(infos) \in 1..Len(infos) /\ Cur \in Info
    BY <1>1, LastInfo DEF Cur
  <2>2. Cur.item.recd_num <= RecdCap
    BY <1>1, <2>1 DEF ChainOK, Cur
  <2> QED BY <1>2, <2>2 DEF WriterInv
<1>4. LET js == [infos EXCEPT ![Len(infos)] = FlushedInfo(tail)]
      IN  ChainOK(js) /\ ShortOnlyIfEmpty(js)
  BY <1>1, <1>2, <1>3, ChainReplace DEF Cur
<1>5. LET js == [infos EXCEPT ![Len(infos)] = FlushedInfo(tail)]
      IN  /\ js \in Seq(Info) /\ Len(js) = Len(infos)
          /\ js[Len(infos)] = FlushedInfo(tail)
  BY <1>1, <1>2, ReplaceLast
<1> QED BY <1>1, <1>4, <1>5, EmptySeq

\* The CABInfo of the open CAB after a flush.
LEMMA FlushedInfoOpen ==
  ASSUME TypeOK, WriterInv, OpenInv, session = "open", NEW tail \in BOOLEAN
  PROVE  LET fi   == FlushedInfo(tail)
             used == MergedUsed(item_info, tail)
         IN  /\ fi \in Info /\ fi.strg_size \in Nat
             /\ fi.file_off = file_off
             /\ fi.item.bgn_recd = item_info.bgn_recd
             /\ used = 0 => fi.strg_size = 0 /\ fi.item = Cur.item
             /\ used # 0 => fi.strg_size > 0 /\ fi.item = item_info
             /\ used # 0 => item_info.item_num > 0
             /\ used = 0 /\ tail => item_info.item_num = 0
<1>1. infos # <<>> /\ Cur.item.bgn_recd = item_info.bgn_recd /\ file_off = Cur.file_off
  BY DEF WriterInv, OpenInv
<1>2. item_info \in ItemInfo /\ item_info.item_num \in Nat
  BY DEF TypeOK, ItemInfo
<1>3. /\ MergedUsed(item_info, tail) \in Nat
      /\ MergedUsed(item_info, tail) > 0 => item_info.item_num > 0
      /\ tail /\ item_info.item_num > 0 => MergedUsed(item_info, tail) > 0
  BY <1>2, MergedUsedNat
<1>4. /\ FlushedInfo(tail) \in Info
      /\ FlushedInfo(tail).file_off = Cur.file_off
      /\ MergedUsed(item_info, tail) = 0 =>
           FlushedInfo(tail).strg_size = 0 /\ FlushedInfo(tail).item = Cur.item
      /\ MergedUsed(item_info, tail) # 0 =>
           FlushedInfo(tail).strg_size > 0 /\ FlushedInfo(tail).item = item_info
  BY <1>1, FlushedInfoFields
<1>5. FlushedInfo(tail).strg_size \in Nat
  BY <1>4 DEF Info
<1>6. MergedUsed(item_info, tail) = 0 /\ tail => item_info.item_num = 0
  BY <1>2, <1>3
<1>7. MergedUsed(item_info, tail) # 0 => item_info.item_num > 0
  BY <1>3
<1>8. FlushedInfo(tail).item.bgn_recd = item_info.bgn_recd
  BY <1>1, <1>4
<1> QED BY <1>1, <1>4, <1>5, <1>6, <1>7, <1>8

\* The file after a flush: other blocks are kept.
LEMMA FlushedDiskType ==
  ASSUME TypeOK, NEW tail \in BOOLEAN
  PROVE  /\ DOMAIN disk \subseteq DOMAIN FlushedDisk(tail)
         /\ DOMAIN FlushedDisk(tail) \subseteq Nat
         /\ \A o \in DOMAIN FlushedDisk(tail) : FlushedDisk(tail)[o] \in Seq(ColumnItem)
         /\ MergedUsed(item_info, tail) # 0 =>
              /\ file_off \in DOMAIN FlushedDisk(tail)
              /\ FlushedDisk(tail)[file_off] = items
  BY DEF TypeOK, FlushedDisk

\* A tail the appender loads was stored, and what it reads are as many items as
\* the CABInfo counts.
LEMMA LoadedTail ==
  ASSUME TypeOK, FileInv, session = "closed", info_file # NoFile, ~TailIsFull
  PROVE  /\ TailInfo \in Info
         /\ TailInfo.item.recd_num \in 1..RecdCap
         /\ TailInfo.item.recd_num <= TailInfo.item.item_num
         /\ ReadBlock(TailInfo) \in Seq(ColumnItem)
         /\ Len(ReadBlock(TailInfo)) = TailInfo.item.item_num
<1> DEFINE n == Len(info_file.infos)
<1>1. info_file.infos \in Seq(Info) /\ info_file.infos # <<>>
  BY DEF TypeOK, FileInv
<1>2. n \in 1..n /\ TailInfo \in Info
  BY <1>1, LastInfo DEF TailInfo
<1>3. TailInfo.item.recd_num \in Nat /\ TailInfo.item.recd_num <= RecdCap
  BY <1>1, <1>2 DEF FileInv, ChainOK, TailInfo, Info, ItemInfo
<1>4. TailInfo.item.recd_num \notin {0, RecdCap}
  BY <1>3, FullOrEmpty, ConstantsAssumption DEF TailIsFull
<1>5. /\ TailInfo.item.recd_num <= TailInfo.item.item_num
      /\ TailInfo.file_off \in DOMAIN disk
      /\ Len(disk[TailInfo.file_off]) = TailInfo.item.item_num
  BY <1>4 DEF FileInv, TailStored, Readable
<1>6. disk[TailInfo.file_off] \in Seq(ColumnItem)
  BY <1>5 DEF TypeOK
<1>7. TailInfo.item.item_num \in Nat
  BY <1>2 DEF Info, ItemInfo
<1>8. Trivial \in ColumnItem
  BY ConstantsAssumption DEF Trivial, ColumnItem
<1>9. ASSUME NEW it \in ColumnItem PROVE [it EXCEPT !.val = Null] \in ColumnItem
  BY DEF ColumnItem
<1>10. ASSUME NEW k \in 1..TailInfo.item.item_num
       PROVE  disk[TailInfo.file_off][k] \in ColumnItem
  BY <1>5, <1>6, ElementOfSeq
<1>11. GetType(TailInfo.item) \in {"trivial", "allnull", "crucial"}
  BY DEF GetType
<1>12. ReadBlock(TailInfo) \in [1..TailInfo.item.item_num -> ColumnItem]
  BY <1>8, <1>9, <1>10, <1>11 DEF ReadBlock
<1>13. /\ ReadBlock(TailInfo) \in Seq(ColumnItem)
       /\ Len(ReadBlock(TailInfo)) = TailInfo.item.item_num
  BY <1>7, <1>12, SeqDef, LenProperties
<1> QED BY <1>2, <1>3, <1>4, <1>5, <1>13, ConstantsAssumption

-----------------------------------------------------------------------------
(* Each action preserves the invariant.                                    *)

\* A new CABInfo is one.
LEMMA NewInfoType ==
  ASSUME NEW off \in Nat, NEW bgn \in Nat
  PROVE  /\ NewInfo(off, bgn) \in Info
         /\ NewInfo(off, bgn).file_off = off
         /\ NewInfo(off, bgn).strg_size = 0
         /\ NewInfo(off, bgn).item = EmptyItemInfo(bgn)
         /\ EmptyItemInfo(bgn) \in ItemInfo
  BY DEF NewInfo, Info, EmptyItemInfo, ItemInfo

\* No column exists yet: the state before the first session.
LEMMA InitIInv == Init => IInv
<1> SUFFICES ASSUME Init PROVE IInv
  OBVIOUS
<1>1. TypeOK
  BY EmptySeq DEF Init, TypeOK, EmptyItemInfo, ItemInfo
<1>2. session = "closed" /\ info_file = NoFile /\ log = durable
  BY DEF Init
<1> QED BY <1>1, <1>2 DEF IInv, WriterInv, OpenInv, FlushedInv, FileInv, LogInv

\* CABWriter::init2write.
LEMMA OpenWriteIInv ==
  ASSUME IInv, NEW rbgn \in FirstRecds, OpenWrite(rbgn)
  PROVE  IInv'
<1> DEFINE b == CalcAlignBegin(rbgn, RecdCap)
<1>1. rbgn \in Nat /\ b \in Nat /\ b % RecdCap = 0
  BY ConstantsAssumption, AlignBeginAligned
<1> HIDE DEF b
<1>2. /\ session = "closed" /\ info_file = NoFile /\ session' = "open" /\ info_file' = NoFile
      /\ recd_num' = b /\ file_off' = 0 /\ valid_recd' = rbgn
      /\ infos' = <<NewInfo(0, b)>> /\ item_info' = EmptyItemInfo(b) /\ items' = <<>>
      /\ log' = log /\ durable' = durable /\ opens' = opens + 1
      /\ disk' = [o \in {} |-> <<>>]
  BY DEF OpenWrite, Open, b
<1>3. log = durable
  BY <1>2 DEF IInv, LogInv
<1>4. /\ NewInfo(0, b) \in Info /\ NewInfo(0, b).item = EmptyItemInfo(b)
      /\ NewInfo(0, b).file_off = 0
      /\ EmptyItemInfo(b) \in ItemInfo
  BY <1>1, NewInfoType
<1>5. EmptyItemInfo(b).recd_num = 0 /\ EmptyItemInfo(b).item_num = 0
      /\ EmptyItemInfo(b).bgn_recd = b
  BY DEF EmptyItemInfo
<1>6. infos' \in Seq(Info) /\ Len(infos') = 1 /\ infos'[1] = NewInfo(0, b) /\ infos' # <<>>
  BY <1>2, <1>4
<1>7. TypeOK'
  BY <1>1, <1>2, <1>4, <1>6, EmptySeq DEF IInv, TypeOK
<1>8. WriterInv'
  <2>1. ChainOK(infos')
    BY <1>1, <1>4, <1>5, <1>6, ConstantsAssumption DEF ChainOK
  <2>2. ShortOnlyIfEmpty(infos')
    BY <1>6 DEF ShortOnlyIfEmpty
  <2>3. Cur' = NewInfo(0, b)
    BY <1>6 DEF Cur
  <2> QED
    BY <1>1, <1>2, <1>4, <1>5, <1>6, <2>1, <2>2, <2>3, ConstantsAssumption DEF WriterInv
<1>9. OpenInv'
  BY <1>2, <1>3, <1>4, <1>5, <1>6, EmptySeq DEF OpenInv, Cur, IInv, TypeOK
<1>10. FlushedInv' /\ FileInv' /\ LogInv'
  BY <1>2 DEF FlushedInv, FileInv, LogInv
<1> QED BY <1>7, <1>8, <1>9, <1>10 DEF IInv

\* CABAppender::init2append behind a tail that is full or was left empty.
LEMMA OpenAppendNextCABIInv ==
  ASSUME IInv, OpenAppendNextCAB
  PROVE  IInv'
<1> DEFINE is == info_file.infos
           n  == Len(is)
           b  == TailInfo.item.bgn_recd + TailInfo.item.recd_num
           f  == TailInfo.file_off + TailInfo.strg_size
<1>1. /\ session = "closed" /\ info_file # NoFile /\ TailIsFull /\ session' = "open"
      /\ UNCHANGED <<disk, info_file, durable, log>>
      /\ recd_num' = b /\ file_off' = f /\ valid_recd' = info_file.valid_recd
      /\ infos' = Append(is, NewInfo(f, b)) /\ item_info' = EmptyItemInfo(b) /\ items' = <<>>
      /\ opens' = opens + 1
  BY DEF OpenAppendNextCAB, OpenAppend, Open, fileVars
<1>2. /\ is \in Seq(Info) /\ is # <<>> /\ ChainOK(is) /\ ShortOnlyIfEmpty(is)
      /\ TailStored(TailInfo) /\ info_file.valid_recd \in Nat
  BY <1>1 DEF IInv, FileInv, TypeOK
<1>3. n \in 1..n /\ TailInfo = is[n] /\ TailInfo \in Info
  BY <1>2, LastInfo DEF TailInfo
<1>4. /\ TailInfo.item.recd_num \in Nat /\ TailInfo.item.bgn_recd \in Nat
      /\ TailInfo.file_off \in Nat /\ TailInfo.strg_size \in Nat
  BY <1>3 DEF Info, ItemInfo
<1>5. TailInfo.item.recd_num <= RecdCap
  BY <1>2, <1>3 DEF ChainOK
<1>6. TailInfo.item.recd_num \in {0, RecdCap}
  BY <1>1, <1>4, <1>5, FullOrEmpty, ConstantsAssumption DEF TailIsFull
<1>7. TailInfo.item.recd_num < RecdCap => TailInfo.strg_size = 0
  BY <1>2, <1>6, ConstantsAssumption DEF TailStored
<1>8. b \in Nat /\ f \in Nat /\ b \in {TailInfo.item.bgn_recd, TailInfo.item.bgn_recd + RecdCap}
  BY <1>4, <1>6, ConstantsAssumption
<1> HIDE DEF b
<1>9. /\ NewInfo(f, b) \in Info /\ NewInfo(f, b).file_off = f
      /\ NewInfo(f, b).item = EmptyItemInfo(b) /\ EmptyItemInfo(b) \in ItemInfo
      /\ EmptyItemInfo(b).recd_num = 0 /\ EmptyItemInfo(b).item_num = 0
      /\ EmptyItemInfo(b).bgn_recd = b
  <2> HIDE DEF f
  <2>1. /\ NewInfo(f, b) \in Info /\ NewInfo(f, b).file_off = f
        /\ NewInfo(f, b).item = EmptyItemInfo(b) /\ EmptyItemInfo(b) \in ItemInfo
    BY <1>8, NewInfoType
  <2> QED BY <2>1 DEF EmptyItemInfo
<1>10. ChainOK(infos') /\ ShortOnlyIfEmpty(infos')
  <2> DEFINE new == NewInfo(f, b)
  <2>1. /\ new \in Info /\ new.item.bgn_recd = b /\ new.item.recd_num <= RecdCap
        /\ new.file_off = is[n].file_off + is[n].strg_size
    BY <1>3, <1>9, ConstantsAssumption
  <2>2. infos' = Append(is, new)
    BY <1>1
  <2> HIDE DEF new, f
  <2> QED BY <1>2, <1>3, <1>7, <1>8, <2>1, <2>2, ChainAppend
<1>11. infos' \in Seq(Info) /\ infos' # <<>> /\ Cur' = NewInfo(f, b)
  <2>1. infos' \in Seq(Info) /\ Len(infos') = n + 1 /\ infos'[n + 1] = NewInfo(f, b)
    BY <1>1, <1>2, <1>9, AppendProperties
  <2> QED BY <1>1, <1>2, <1>9, <2>1, AppendProperties DEF Cur
<1>12. TypeOK'
  BY <1>1, <1>2, <1>8, <1>9, <1>11, EmptySeq DEF IInv, TypeOK
<1>13. WriterInv'
  BY <1>1, <1>8, <1>9, <1>10, <1>11, ConstantsAssumption DEF WriterInv
<1>14. OpenInv'
  <2>1. log' = durable' /\ log' \in Seq(Item)
    BY <1>1 DEF IInv, LogInv, TypeOK
  <2> QED BY <1>1, <1>9, <1>11, <2>1, LenProperties, EmptySeq DEF OpenInv
<1>15. FlushedInv' /\ LogInv'
  BY <1>1 DEF FlushedInv, LogInv
<1>16. FileInv'
  BY <1>1 DEF IInv, FileInv, TailInfo, TailStored
<1> QED BY <1>12, <1>13, <1>14, <1>15, <1>16 DEF IInv

\* CABAppender::init2append, loading a partly filled tail.
LEMMA OpenAppendTailIInv ==
  ASSUME IInv, OpenAppendTail
  PROVE  IInv'
<1>1. /\ session = "closed" /\ info_file # NoFile /\ ~TailIsFull /\ session' = "open"
      /\ UNCHANGED <<disk, info_file, durable, log>>
      /\ recd_num' = TailInfo.item.bgn_recd + TailInfo.item.recd_num
      /\ file_off' = TailInfo.file_off /\ valid_recd' = info_file.valid_recd
      /\ infos' = info_file.infos /\ item_info' = TailInfo.item
      /\ items' = ReadBlock(TailInfo) /\ opens' = opens + 1
  BY DEF OpenAppendTail, ReopenTail, OpenAppend, Open, fileVars
<1>2. /\ TailInfo \in Info
      /\ TailInfo.item.recd_num \in 1..RecdCap
      /\ TailInfo.item.recd_num <= TailInfo.item.item_num
      /\ ReadBlock(TailInfo) \in Seq(ColumnItem)
      /\ Len(ReadBlock(TailInfo)) = TailInfo.item.item_num
  BY <1>1, LoadedTail DEF IInv
<1>3. /\ info_file.infos \in Seq(Info) /\ info_file.infos # <<>>
      /\ ChainOK(info_file.infos) /\ ShortOnlyIfEmpty(info_file.infos)
      /\ info_file.valid_recd \in Nat
  BY <1>1 DEF IInv, FileInv, TypeOK
<1>4. Cur' = TailInfo
  BY <1>1 DEF Cur, TailInfo
<1>5. /\ TailInfo.item \in ItemInfo /\ TailInfo.item.bgn_recd \in Nat
      /\ TailInfo.item.recd_num \in Nat /\ TailInfo.file_off \in Nat
  BY <1>2 DEF Info, ItemInfo
<1>6. TypeOK'
  <2>1. recd_num' \in Nat
    BY <1>1, <1>5
  <2>2. opens' \in Nat
    BY <1>1 DEF IInv, TypeOK
  <2> QED BY <1>1, <1>2, <1>3, <1>5, <2>1, <2>2 DEF IInv, TypeOK
<1>7. WriterInv'
  BY <1>1, <1>2, <1>3, <1>4, <1>5, ConstantsAssumption DEF WriterInv
<1>8. OpenInv'
  <2>1. log' = durable' /\ log' \in Seq(Item)
    BY <1>1 DEF IInv, LogInv, TypeOK
  <2> QED BY <1>1, <1>2, <1>4, <2>1, LenProperties DEF OpenInv
<1>9. FlushedInv' /\ LogInv'
  BY <1>1 DEF FlushedInv, LogInv
<1>10. FileInv'
  BY <1>1 DEF IInv, FileInv, TailInfo, TailStored
<1> QED BY <1>6, <1>7, <1>8, <1>9, <1>10 DEF IInv

\* Opening fails because the tail does not fit the buffer.
LEMMA OpenAppendTailFailsIInv ==
  ASSUME IInv, OpenAppendTailFails
  PROVE  IInv'
<1>1. /\ session = "closed" /\ session' = "died" /\ opens' = opens + 1
      /\ UNCHANGED <<disk, info_file, durable, infos, item_info, items, recd_num, file_off,
                     valid_recd, log>>
  BY DEF OpenAppendTailFails, Open, fileVars, cabVars
<1>2. TypeOK'
  BY <1>1 DEF IInv, TypeOK
<1>3. WriterInv' /\ OpenInv' /\ FlushedInv' /\ LogInv'
  BY <1>1 DEF IInv, LogInv, WriterInv, OpenInv, FlushedInv
<1>4. FileInv'
  BY <1>1 DEF IInv, FileInv, TailInfo, TailStored, Readable
<1> QED BY <1>2, <1>3, <1>4 DEF IInv

\* An item the open CAB takes.
LEMMA WriteInCABIInv ==
  ASSUME IInv, NEW it \in Item, WriteInCAB(it)
  PROVE  IInv'
<1>1. /\ session = "open" /\ ~CheckFull(it.rep)
      /\ it.rep > 0 => Len(log) > Len(durable)
      /\ UNCHANGED <<disk, info_file, durable, session, valid_recd, infos, file_off, opens>>
      /\ item_info' = Update(item_info, it) /\ items' = Append(items, it)
      /\ recd_num' = recd_num + (IF it.rep = 0 THEN 1 ELSE 0)
      /\ log' = Append(log, it)
  BY DEF WriteInCAB, CanWrite, CountRecord, fileVars
<1>2. it \in ColumnItem /\ it.rep \in Nat
  BY DEF Item, ColumnItem
<1>3. /\ item_info \in ItemInfo /\ items \in Seq(ColumnItem) /\ log \in Seq(Item)
      /\ durable \in Seq(Item) /\ recd_num \in Nat
      /\ item_info.recd_num \in Nat /\ item_info.item_num \in Nat /\ item_info.bgn_recd \in Nat
  BY DEF IInv, TypeOK, ItemInfo
<1>4. /\ item_info' \in ItemInfo
      /\ item_info'.bgn_recd = item_info.bgn_recd
      /\ item_info'.item_num = item_info.item_num + 1
      /\ item_info'.recd_num = item_info.recd_num + (IF it.rep = 0 THEN 1 ELSE 0)
  BY <1>1, <1>2, <1>3, UpdateCounts
<1>5. /\ items' \in Seq(ColumnItem) /\ Len(items') = Len(items) + 1
      /\ log' \in Seq(Item) /\ Len(log') = Len(log) + 1
  BY <1>1, <1>2, <1>3, AppendProperties
<1>6. TypeOK'
  BY <1>1, <1>3, <1>4, <1>5 DEF IInv, TypeOK
<1>7. /\ item_info'.recd_num <= item_info'.item_num
      /\ item_info'.recd_num <= RecdCap
      /\ item_info'.recd_num > 0
      /\ item_info.recd_num <= item_info'.recd_num
  <2>1. /\ item_info.recd_num <= item_info.item_num /\ item_info.recd_num <= RecdCap
        /\ item_info.item_num > 0 => item_info.recd_num > 0
        /\ Len(log) > Len(durable) => item_info.item_num > 0
    BY <1>1 DEF IInv, WriterInv, OpenInv
  <2>2. it.rep = 0 => item_info.recd_num + 1 <= RecdCap
    BY <1>1, <1>3, ConstantsAssumption DEF CheckFull
  <2>3. it.rep > 0 => item_info.recd_num > 0
    BY <1>1, <2>1
  <2>4. CASE it.rep = 0
    BY <1>3, <1>4, <2>1, <2>2, <2>4
  <2>5. CASE it.rep > 0
    BY <1>3, <1>4, <2>1, <2>3, <2>5
  <2> QED BY <1>2, <2>4, <2>5
<1>8. WriterInv'
  <2>1. Cur' = Cur /\ Cur \in Info
    BY <1>1, LastInfo DEF Cur, IInv, TypeOK, WriterInv
  <2>2. Cur.item.bgn_recd \in Nat /\ Cur.item.recd_num \in Nat
    BY <2>1 DEF Info, ItemInfo
  <2>3. recd_num = Cur.item.bgn_recd + item_info.recd_num /\ Cur.item.recd_num <= item_info.recd_num
    BY <1>1 DEF IInv, WriterInv
  <2>4. item_info'.recd_num \in Nat
    BY <1>4 DEF ItemInfo
  <2>5. recd_num' = Cur.item.bgn_recd + item_info'.recd_num
    <3> DEFINE d == IF it.rep = 0 THEN 1 ELSE 0
    <3>1. /\ recd_num' = recd_num + d /\ item_info'.recd_num = item_info.recd_num + d
          /\ d \in Nat
      BY <1>1, <1>4
    <3> HIDE DEF d
    <3>2. recd_num' = (Cur.item.bgn_recd + item_info.recd_num) + d
      BY <2>3, <3>1
    <3>3. item_info.recd_num \in Nat
      BY <1>3
    <3> QED BY <2>2, <3>1, <3>2, <3>3, CountBoth
  <2>6. Cur.item.recd_num <= item_info'.recd_num
    BY <1>3, <1>7, <2>2, <2>3, <2>4
  <2> QED BY <1>1, <1>4, <1>7, <2>1, <2>5, <2>6 DEF IInv, WriterInv
<1>9. OpenInv'
  <2>1. Cur' = Cur
    BY <1>1 DEF Cur
  <2> QED BY <1>1, <1>3, <1>4, <1>5, <2>1 DEF IInv, OpenInv
<1>10. FlushedInv' /\ LogInv'
  BY <1>1 DEF FlushedInv, LogInv
<1>11. FileInv'
  BY <1>1 DEF IInv, FileInv, TailInfo, TailStored
<1> QED BY <1>6, <1>8, <1>9, <1>10, <1>11 DEF IInv

\* The CAB is full: it is flushed and the item begins the next one.
LEMMA WriteToNextCABIInv ==
  ASSUME IInv, NEW it \in Item, WriteToNextCAB(it)
  PROVE  IInv'
<1> DEFINE fi == FlushedInfo(FALSE)
           js == [infos EXCEPT ![Len(infos)] = fi]
           f  == file_off + fi.strg_size
<1>1. /\ session = "open" /\ it.rep = 0 /\ item_info.recd_num + 1 > RecdCap
      /\ UNCHANGED <<info_file, durable, session, valid_recd, opens>>
      /\ disk' = FlushedDisk(FALSE) /\ file_off' = f
      /\ infos' = Append(js, NewInfo(f, recd_num))
      /\ item_info' = Update(EmptyItemInfo(recd_num), it) /\ items' = <<it>>
      /\ recd_num' = recd_num + 1
      /\ log' = Append(log, it)
  BY DEF WriteToNextCAB, CanWrite, CheckFull, CountRecord
<1>2. TypeOK /\ WriterInv /\ OpenInv /\ FileInv
  BY DEF IInv
<1>3. /\ item_info \in ItemInfo /\ log \in Seq(Item) /\ recd_num \in Nat
      /\ durable \in Seq(Item) /\ file_off \in Nat
      /\ item_info.recd_num \in Nat
  BY <1>2 DEF TypeOK, ItemInfo
<1>4. item_info.recd_num = RecdCap
  BY <1>1, <1>2, <1>3, ConstantsAssumption DEF WriterInv
<1>5. /\ js \in Seq(Info) /\ js # <<>> /\ Len(js) = Len(infos)
      /\ js[Len(js)] = fi
      /\ ChainOK(js) /\ ShortOnlyIfEmpty(js)
  BY <1>1, <1>2, FlushChain
<1>6. /\ fi \in Info
      /\ fi.strg_size \in Nat
      /\ fi.file_off = file_off
      /\ fi.item.bgn_recd = item_info.bgn_recd
      /\ fi.item.recd_num < RecdCap => fi.strg_size = 0
  <2>1. fi.item = item_info \/ fi.strg_size = 0
    BY <1>1, <1>2, FlushedInfoOpen
  <2>2. RecdCap \in Nat
    BY ConstantsAssumption
  <2>3. fi.item.recd_num < RecdCap => fi.strg_size = 0
    <3> HIDE DEF fi
    <3> QED BY <1>4, <2>1, <2>2
  <2> QED BY <1>1, <1>2, <2>3, FlushedInfoOpen
<1>7. /\ f \in Nat
      /\ recd_num = item_info.bgn_recd + RecdCap
  <2>1. recd_num = item_info.bgn_recd + item_info.recd_num
    BY <1>1, <1>2 DEF WriterInv
  <2> HIDE DEF fi
  <2> QED BY <1>3, <1>4, <1>6, <2>1
<1>8. /\ NewInfo(f, recd_num) \in Info /\ NewInfo(f, recd_num).file_off = f
      /\ NewInfo(f, recd_num).item = EmptyItemInfo(recd_num)
      /\ EmptyItemInfo(recd_num) \in ItemInfo
      /\ EmptyItemInfo(recd_num).recd_num = 0 /\ EmptyItemInfo(recd_num).item_num = 0
      /\ EmptyItemInfo(recd_num).bgn_recd = recd_num
  BY <1>3, <1>7, NewInfoType DEF EmptyItemInfo
<1>9. ChainOK(infos') /\ ShortOnlyIfEmpty(infos')
  <2> DEFINE last == js[Len(js)]
             new  == NewInfo(f, recd_num)
  <2>1. last = fi
    BY <1>5
  <2>2. /\ new \in Info /\ new.file_off = last.file_off + last.strg_size
        /\ new.item.bgn_recd = last.item.bgn_recd + RecdCap
        /\ new.item.recd_num <= RecdCap
        /\ last.item.recd_num < RecdCap => last.strg_size = 0
    <3> HIDE DEF last, new, js, fi
    <3>1. /\ new \in Info /\ new.file_off = f /\ new.item = EmptyItemInfo(recd_num)
          /\ new.item.bgn_recd = recd_num /\ new.item.recd_num = 0
      BY <1>8 DEF new
    <3>2. f = last.file_off + last.strg_size
      BY <1>6, <2>1
    <3> HIDE DEF f
    <3> QED BY <1>6, <1>7, <2>1, <3>1, <3>2, ConstantsAssumption
  <2> HIDE DEF js, new, f
  <2>3. infos' = Append(js, new)
    BY <1>1 DEF new
  <2> QED BY <1>5, <2>2, <2>3, ChainAppend
<1>10. infos' \in Seq(Info) /\ infos' # <<>> /\ Cur' = NewInfo(f, recd_num)
  <2> HIDE DEF js, f
  <2>1. infos' \in Seq(Info) /\ Len(infos') = Len(js) + 1
        /\ infos'[Len(js) + 1] = NewInfo(f, recd_num)
    BY <1>1, <1>5, <1>8, AppendProperties
  <2> QED BY <1>1, <1>5, <1>8, <2>1, AppendProperties DEF Cur
<1>11. it \in ColumnItem
  BY DEF Item
<1>12. /\ item_info' \in ItemInfo
       /\ item_info'.bgn_recd = recd_num
       /\ item_info'.item_num = 1
       /\ item_info'.recd_num = 1
  BY <1>1, <1>8, <1>11, UpdateCounts
<1>13. TypeOK'
  <2>1. items' \in Seq(ColumnItem) /\ log' \in Seq(Item)
    BY <1>1, <1>3, <1>11, AppendProperties
  <2>2. DOMAIN disk' \subseteq Nat /\ \A o \in DOMAIN disk' : disk'[o] \in Seq(ColumnItem)
    BY <1>1, <1>2, FlushedDiskType
  <2>3. recd_num' \in Nat /\ file_off' \in Nat
    <3> HIDE DEF f
    <3> QED BY <1>1, <1>3, <1>7
  <2> QED BY <1>1, <1>2, <1>10, <1>12, <2>1, <2>2, <2>3 DEF TypeOK
<1>14. Cur'.item.bgn_recd = recd_num /\ Cur'.item.recd_num = 0 /\ Cur'.file_off = f
  <2> HIDE DEF f
  <2> QED BY <1>8, <1>10
<1>15. WriterInv'
  <2> HIDE DEF f, js
  <2>1. RecdCap >= 1 /\ recd_num' = Cur'.item.bgn_recd + item_info'.recd_num
    BY <1>1, <1>12, <1>14, ConstantsAssumption
  <2> QED BY <1>3, <1>9, <1>10, <1>12, <1>14, <2>1, ConstantsAssumption DEF WriterInv
<1>16. OpenInv'
  <2> HIDE DEF f, js
  <2>1. Len(items') = 1 /\ file_off' = Cur'.file_off
    BY <1>1, <1>14
  <2> QED BY <1>12, <2>1 DEF OpenInv
<1>17. FlushedInv' /\ LogInv'
  BY <1>1 DEF FlushedInv, LogInv
<1>18. FileInv'
  <2>1. DOMAIN disk \subseteq DOMAIN disk'
    BY <1>1, <1>2, FlushedDiskType
  <2> QED BY <1>1, <1>2, <2>1 DEF FileInv, TailInfo, TailStored
<1> QED BY <1>13, <1>15, <1>16, <1>17, <1>18 DEF IInv

\* ~CABWriter stores the tail CAB.
LEMMA CloseFlushIInv ==
  ASSUME IInv, CloseFlush
  PROVE  IInv'
<1> DEFINE js == [infos EXCEPT ![Len(infos)] = FlushedInfo(TRUE)]
           fi == FlushedInfo(TRUE)
<1>1. /\ session = "open" /\ session' = "flushed"
      /\ UNCHANGED <<info_file, durable, valid_recd, item_info, items, recd_num, log, opens>>
      /\ disk' = FlushedDisk(TRUE) /\ infos' = js /\ file_off' = file_off + fi.strg_size
  BY DEF CloseFlush
<1>2. TypeOK /\ WriterInv /\ OpenInv /\ FileInv
  BY DEF IInv
<1>3. /\ item_info \in ItemInfo /\ file_off \in Nat
      /\ item_info.recd_num \in Nat /\ item_info.item_num \in Nat
      /\ infos \in Seq(Info) /\ infos # <<>>
  BY <1>1, <1>2 DEF TypeOK, ItemInfo, WriterInv
<1>4. /\ js \in Seq(Info) /\ js # <<>> /\ Len(js) = Len(infos)
      /\ js[Len(js)] = fi
      /\ ChainOK(js) /\ ShortOnlyIfEmpty(js)
  BY <1>1, <1>2, FlushChain
<1>5. Cur' = fi
  BY <1>1, <1>4 DEF Cur
<1>6. /\ Cur.item.recd_num \in Nat /\ Cur.item.item_num \in Nat
      /\ Cur.item.recd_num <= item_info.recd_num
      /\ item_info.recd_num <= item_info.item_num
      /\ item_info.item_num > 0 => item_info.recd_num > 0
  <2>1. Cur \in Info
    BY <1>3, LastInfo DEF Cur
  <2> QED BY <1>1, <1>2, <2>1 DEF Info, ItemInfo, WriterInv
<1>7. /\ fi \in Info /\ fi.strg_size \in Nat /\ fi.file_off = file_off
      /\ fi.item.bgn_recd = item_info.bgn_recd
  BY <1>1, <1>2, FlushedInfoOpen
<1>8. /\ fi.item.recd_num <= item_info.recd_num
      /\ fi.item.recd_num <= fi.item.item_num
      /\ fi.item.recd_num \notin {0, RecdCap} => fi.strg_size # 0
      /\ fi.strg_size # 0 => /\ fi.item.recd_num > 0
                             /\ file_off \in DOMAIN disk'
                             /\ Len(disk'[file_off]) = fi.item.item_num
  <2>1. CASE MergedUsed(item_info, TRUE) = 0
    <3>1. fi.strg_size = 0 /\ fi.item = Cur.item /\ item_info.item_num = 0
      BY <1>1, <1>2, <2>1, FlushedInfoOpen
    <3>2. Cur.item.recd_num = 0
      BY <1>3, <1>6, <3>1
    <3> HIDE DEF fi
    <3> QED BY <1>3, <1>6, <3>1, <3>2
  <2>2. CASE MergedUsed(item_info, TRUE) # 0
    <3>1. fi.strg_size > 0 /\ fi.item = item_info /\ item_info.item_num > 0
      BY <1>1, <1>2, <2>2, FlushedInfoOpen
    <3>2. file_off \in DOMAIN disk' /\ disk'[file_off] = items
      BY <1>1, <1>2, <2>2, FlushedDiskType
    <3>3. Len(items) = item_info.item_num
      BY <1>1, <1>2 DEF OpenInv
    <3> HIDE DEF fi
    <3> QED BY <1>3, <1>6, <1>7, <3>1, <3>2, <3>3
  <2> QED BY <2>1, <2>2
<1>9. /\ TailStored(Cur)' /\ Readable(Cur)' /\ Cur'.item.bgn_recd = item_info.bgn_recd
      /\ Cur'.item.recd_num <= item_info.recd_num
  <2> HIDE DEF fi, js
  <2> QED BY <1>5, <1>7, <1>8 DEF TailStored, Readable
<1>10. TypeOK'
  <2>1. DOMAIN disk' \subseteq Nat /\ \A o \in DOMAIN disk' : disk'[o] \in Seq(ColumnItem)
    BY <1>1, <1>2, FlushedDiskType
  <2>2. file_off' \in Nat /\ infos' \in Seq(Info)
    <3> HIDE DEF fi, js
    <3> QED BY <1>1, <1>3, <1>4, <1>7
  <2> QED BY <1>1, <1>2, <2>1, <2>2 DEF TypeOK
<1>11. WriterInv'
  BY <1>1, <1>2, <1>4, <1>9 DEF WriterInv
<1>12. OpenInv' /\ FlushedInv' /\ LogInv'
  BY <1>1, <1>9 DEF OpenInv, FlushedInv, LogInv
<1>13. FileInv'
  <2>1. DOMAIN disk \subseteq DOMAIN disk'
    BY <1>1, <1>2, FlushedDiskType
  <2> QED BY <1>1, <1>2, <2>1 DEF FileInv, TailInfo, TailStored
<1> QED BY <1>10, <1>11, <1>12, <1>13 DEF IInv

\* The writer object goes away.
LEMMA DestroyTypes ==
  ASSUME Destroy
  PROVE  /\ valid_recd' \in Nat /\ recd_num' \in Nat /\ file_off' \in Nat
         /\ infos' \in Seq(Info) /\ item_info' \in ItemInfo /\ items' \in Seq(ColumnItem)
  BY EmptySeq DEF Destroy, EmptyItemInfo, ItemInfo

\* ~CABInfoBuffer writes the CABInfos and the footer.
LEMMA CloseInfoIInv ==
  ASSUME IInv, CloseInfo
  PROVE  IInv'
<1>1. /\ session = "flushed" /\ session' = "closed" /\ Destroy
      /\ info_file' = [infos |-> infos, valid_recd |-> valid_recd]
      /\ durable' = log
      /\ UNCHANGED <<disk, log, opens>>
  BY DEF CloseInfo
<1>2. TypeOK /\ WriterInv /\ FlushedInv
  BY DEF IInv
<1>3. TypeOK'
  BY <1>1, <1>2, DestroyTypes DEF TypeOK
<1>4. WriterInv' /\ OpenInv' /\ FlushedInv' /\ LogInv'
  BY <1>1 DEF WriterInv, OpenInv, FlushedInv, LogInv
<1>5. FileInv'
  <2>1. TailInfo' = Cur /\ info_file'.infos = infos
    BY <1>1 DEF TailInfo, Cur
  <2> QED BY <1>1, <1>2, <2>1 DEF WriterInv, FlushedInv, FileInv, TailStored, Readable
<1> QED BY <1>3, <1>4, <1>5 DEF IInv

\* The process stops with a writer open: the file is closed again only if all
\* that its .info describes is readable, its tail included.
LEMMA CrashIInv ==
  ASSUME IInv, Crash
  PROVE  IInv'
<1>1. /\ session \in {"open", "flushed"} /\ Destroy /\ log' = durable
      /\ session' = IF FilesIntact THEN "closed" ELSE "damaged"
      /\ UNCHANGED <<disk, info_file, durable, opens>>
  BY DEF Crash, fileVars
<1>2. TypeOK /\ FileInv
  BY DEF IInv
<1>3. TypeOK'
  BY <1>1, <1>2, DestroyTypes DEF TypeOK
<1>4. WriterInv' /\ OpenInv' /\ FlushedInv' /\ LogInv'
  BY <1>1 DEF WriterInv, OpenInv, FlushedInv, LogInv
<1>5. ASSUME session' \in {"closed", "died"}, info_file # NoFile
      PROVE  Readable(TailInfo)
  <2>1. FilesIntact
    BY <1>1, <1>5
  <2>2. Len(info_file.infos) \in 1..Len(info_file.infos)
    BY <1>2, <1>5, LastInfo DEF TypeOK, FileInv
  <2> QED BY <1>5, <2>1, <2>2 DEF FilesIntact, FilesDecode, TailInfo
<1>6. FileInv'
  BY <1>1, <1>2, <1>5 DEF FileInv, TailInfo, TailStored, Readable
<1> QED BY <1>3, <1>4, <1>6 DEF IInv

\* The process that died while opening is started again.
LEMMA RestartIInv ==
  ASSUME IInv, Restart
  PROVE  IInv'
<1>1. /\ session = "died" /\ session' = "closed"
      /\ UNCHANGED <<disk, info_file, durable, infos, item_info, items, recd_num, file_off,
                     valid_recd, log, opens>>
  BY DEF Restart, fileVars, cabVars
<1>2. TypeOK'
  BY <1>1 DEF IInv, TypeOK
<1>3. WriterInv' /\ OpenInv' /\ FlushedInv' /\ LogInv'
  BY <1>1 DEF IInv, LogInv, WriterInv, OpenInv, FlushedInv
<1>4. FileInv'
  BY <1>1 DEF IInv, FileInv, TailInfo, TailStored, Readable
<1> QED BY <1>2, <1>3, <1>4 DEF IInv

-----------------------------------------------------------------------------
(* The theorems.                                                           *)

\* Every step keeps the inductive invariant.
LEMMA IInvStep ==
  ASSUME IInv, [Next]_vars
  PROVE  IInv'
<1>1. CASE \E rbgn \in FirstRecds : OpenWrite(rbgn)
  BY <1>1, OpenWriteIInv
<1>2. CASE OpenAppendNextCAB
  BY <1>2, OpenAppendNextCABIInv
<1>3. CASE OpenAppendTail
  BY <1>3, OpenAppendTailIInv
<1>4. CASE OpenAppendTailFails
  BY <1>4, OpenAppendTailFailsIInv
<1>5. CASE \E it \in Item : WriteInCAB(it)
  BY <1>5, WriteInCABIInv
<1>6. CASE \E it \in Item : WriteToNextCAB(it)
  BY <1>6, WriteToNextCABIInv
<1>7. CASE CloseFlush
  BY <1>7, CloseFlushIInv
<1>8. CASE CloseInfo
  BY <1>8, CloseInfoIInv
<1>9. CASE Crash
  BY <1>9, CrashIInv
<1>10. CASE Restart
  BY <1>10, RestartIInv
<1>11. CASE UNCHANGED vars
  BY <1>11
  DEF vars, fileVars, cabVars, IInv, TypeOK, WriterInv, OpenInv, FlushedInv, FileInv, LogInv,
      Cur, TailInfo, TailStored, Readable
<1> QED
  BY <1>1, <1>2, <1>3, <1>4, <1>5, <1>6, <1>7, <1>8, <1>9, <1>10, <1>11 DEF Next

\* The invariant holds of every behaviour of the column's files and writer.
THEOREM Invariant == Spec => []IInv
  BY InitIInv, IInvStep, PTL DEF Spec

\* The fields of the writer and what is in the files always have their types.
THEOREM TypeCorrect == Spec => []TypeOK
<1>1. IInv => TypeOK
  BY DEF IInv
<1> QED BY Invariant, <1>1, PTL

\* However often the column is closed, reopened, interrupted and appended to,
\* its CABs partition the record ids at multiples of RecdCap, blocks do not
\* overlap, and the writer is at the position of the last CAB.
THEOREM Partition == Spec => []CABsPartitionRecords
<1>1. IInv => CABsPartitionRecords
  BY DEF IInv, WriterInv, OpenInv, FileInv, CABsPartitionRecords
<1> QED BY Invariant, <1>1, PTL

\* The counters a CABInfo can lose are those of a CAB that stored nothing.
THEOREM ShortCABs == Spec => []OnlyEmptyCABsAreShort
<1>1. IInv => OnlyEmptyCABsAreShort
  BY DEF IInv, WriterInv, FileInv, OnlyEmptyCABsAreShort
<1> QED BY Invariant, <1>1, PTL

-----------------------------------------------------------------------------
(* Blocks of finished CABs are final.                                      *)

\* Blocks lie one behind the other.  (That each CAB ends where the next begins
\* is part of ChainOK; the order of any two needs no induction if it is kept as
\* an invariant.)
Ordered(is) ==
  \A i, j \in 1..Len(is) : i < j => is[i].file_off + is[i].strg_size <= is[j].file_off

\* A finished CAB that stored something has a block.
StoredBlocks(is) ==
  \A i \in 1..(Len(is) - 1) : is[i].strg_size # 0 => is[i].file_off \in DOMAIN disk

\* The writer is behind every finished CAB of the file.
OrderInv ==
  /\ session \in {"open", "flushed"} => StoredBlocks(infos)
  /\ info_file # NoFile => StoredBlocks(info_file.infos)
  /\ session \in {"open", "flushed"} => Ordered(infos)
  /\ info_file # NoFile => Ordered(info_file.infos)
  /\ session = "open" /\ info_file # NoFile =>
       \A i \in 1..(Len(info_file.infos) - 1) :
         info_file.infos[i].file_off + info_file.infos[i].strg_size <= file_off

\* The order of blocks is kept when the last CAB is flushed ...
LEMMA OrderReplace ==
  ASSUME NEW is \in Seq(Info), is # <<>>, NEW info \in Info, Ordered(is),
         info.file_off = is[Len(is)].file_off
  PROVE  Ordered([is EXCEPT ![Len(is)] = info])
<1> DEFINE js == [is EXCEPT ![Len(is)] = info]
<1>1. /\ Len(js) = Len(is) /\ js[Len(is)] = info
      /\ \A i \in 1..(Len(is) - 1) : js[i] = is[i]
      /\ Len(is) \in Nat
  BY ReplaceLast, LenProperties
<1> HIDE DEF js
<1>2. \A i \in 1..Len(is) : js[i].file_off = is[i].file_off
  BY <1>1
<1>3. ASSUME NEW i \in 1..Len(is), NEW j \in 1..Len(is), i < j
      PROVE  js[i].file_off + js[i].strg_size <= js[j].file_off
  <2>1. i \in 1..(Len(is) - 1)
    BY <1>1, <1>3
  <2> QED BY <1>1, <1>2, <1>3, <2>1 DEF Ordered
<1> QED BY <1>1, <1>3 DEF Ordered, js

\* ... and when a CABInfo behind the last one is appended.
LEMMA OrderAppend ==
  ASSUME NEW is \in Seq(Info), is # <<>>, NEW new \in Info, Ordered(is),
         new.file_off = is[Len(is)].file_off + is[Len(is)].strg_size
  PROVE  /\ Ordered(Append(is, new))
         /\ \A i \in 1..Len(is) : is[i].file_off + is[i].strg_size <= new.file_off
<1> DEFINE js == Append(is, new)
           n  == Len(is)
<1>1. /\ js \in Seq(Info) /\ Len(js) = n + 1 /\ n \in Nat \ {0}
      /\ js[n + 1] = new
      /\ \A i \in 1..n : js[i] = is[i]
  BY AppendProperties, EmptySeq, LenProperties
<1>2. \A i \in 1..n : is[i].file_off \in Nat /\ is[i].strg_size \in Nat
  <2>1. \A i \in 1..n : is[i] \in Info
    BY ElementOfSeq
  <2> HIDE DEF n
  <2> QED BY <2>1 DEF Info
<1>3. ASSUME NEW i \in 1..n PROVE is[i].file_off + is[i].strg_size <= new.file_off
  <2>1. CASE i = n
    BY <1>1, <1>2, <2>1
  <2>2. CASE i < n
    <3>1. n \in 1..n /\ is[i].file_off + is[i].strg_size <= is[n].file_off
      BY <1>1, <2>2 DEF Ordered
    <3> QED BY <1>1, <1>2, <3>1
  <2> QED BY <1>1, <2>1, <2>2
<1> HIDE DEF js, n
<1>4. ASSUME NEW i \in 1..(n + 1), NEW j \in 1..(n + 1), i < j
      PROVE  js[i].file_off + js[i].strg_size <= js[j].file_off
  <2>1. i \in 1..n /\ js[i] = is[i]
    BY <1>1, <1>4
  <2>2. CASE j = n + 1
    BY <1>1, <1>3, <2>1, <2>2
  <2>3. CASE j \in 1..n
    BY <1>1, <1>4, <2>1, <2>3 DEF Ordered, n
  <2> QED BY <1>1, <2>2, <2>3
<1> QED BY <1>1, <1>3, <1>4 DEF Ordered, js, n

\* Opening to append behind a tail or at a tail.
LEMMA OpenAppendOrder ==
  ASSUME IInv, OrderInv, OpenAppendNextCAB \/ OpenAppendTail
  PROVE  OrderInv'
<1> DEFINE is == info_file.infos
           n  == Len(is)
<1>1. /\ session = "closed" /\ info_file # NoFile /\ session' = "open"
      /\ UNCHANGED <<disk, info_file>>
  BY DEF OpenAppendNextCAB, OpenAppendTail, ReopenTail, OpenAppend, Open, fileVars
<1>2. /\ is \in Seq(Info) /\ is # <<>> /\ TailStored(TailInfo)
      /\ Ordered(is) /\ StoredBlocks(is)
  BY <1>1 DEF IInv, FileInv, TypeOK, OrderInv
<1>3. /\ n \in 1..n /\ n \in Nat /\ TailInfo = is[n] /\ TailInfo \in Info
      /\ TailInfo.file_off \in Nat /\ TailInfo.strg_size \in Nat
  BY <1>2, LastInfo, LenProperties DEF TailInfo, Info
<1>4. ASSUME OpenAppendNextCAB PROVE OrderInv'
  <2> DEFINE new == NewInfo(TailInfo.file_off + TailInfo.strg_size, recd_num')
  <2>1. infos' = Append(is, new) /\ file_off' = new.file_off
    BY <1>4 DEF OpenAppendNextCAB, NewInfo
  <2>2. recd_num' \in Nat
    BY <1>4, OpenAppendNextCABIInv DEF IInv, TypeOK
  <2>3. new \in Info /\ new.file_off = is[n].file_off + is[n].strg_size
    <3> DEFINE off == TailInfo.file_off + TailInfo.strg_size
    <3>1. off \in Nat /\ off = is[n].file_off + is[n].strg_size
      BY <1>3
    <3> HIDE DEF off
    <3>2. /\ NewInfo(off, recd_num') \in Info
          /\ NewInfo(off, recd_num').file_off = off
      BY <2>2, <3>1, NewInfoType
    <3> QED BY <3>1, <3>2 DEF off
  <2> HIDE DEF new
  <2>4. /\ Ordered(infos')
        /\ \A i \in 1..n : is[i].file_off + is[i].strg_size <= file_off'
    BY <1>2, <2>1, <2>3, OrderAppend
  <2>5. /\ Len(infos') = n + 1
        /\ \A i \in 1..n : infos'[i] = is[i]
    BY <1>2, <2>1, <2>3, AppendProperties
  <2>6. StoredBlocks(infos)'
    <3> SUFFICES ASSUME NEW i \in 1..n, is[i].strg_size # 0
                 PROVE  is[i].file_off \in DOMAIN disk
      BY <1>1, <1>3, <2>5 DEF StoredBlocks
    <3>1. CASE i = n
      BY <1>2, <1>3, <3>1 DEF TailStored
    <3>2. CASE i \in 1..(n - 1)
      BY <1>2, <3>2 DEF StoredBlocks
    <3> QED BY <1>3, <3>1, <3>2
  <2>7. (info_file # NoFile => StoredBlocks(info_file.infos) /\ Ordered(info_file.infos))'
    BY <1>1, <1>2 DEF StoredBlocks, Ordered
  <2>8. \A i \in 1..(Len(info_file'.infos) - 1) :
          info_file'.infos[i].file_off + info_file'.infos[i].strg_size <= file_off'
    BY <1>1, <1>3, <2>4
  <2> QED BY <1>1, <2>4, <2>6, <2>7, <2>8 DEF OrderInv, Ordered
<1>5. ASSUME OpenAppendTail PROVE OrderInv'
  <2>1. infos' = is /\ file_off' = is[n].file_off
    BY <1>5 DEF OpenAppendTail, ReopenTail, TailInfo
  <2>2. \A i \in 1..(n - 1) : is[i].file_off + is[i].strg_size <= file_off'
    BY <1>2, <1>3, <2>1 DEF Ordered
  <2> QED BY <1>1, <1>2, <2>1, <2>2 DEF OrderInv, Ordered, StoredBlocks
<1> QED BY <1>4, <1>5

\* What a flush of the open CAB does to the order, for both callers.
LEMMA FlushOrder ==
  ASSUME IInv, OrderInv, session = "open", NEW tail \in BOOLEAN,
         disk' = FlushedDisk(tail)
  PROVE  LET js == [infos EXCEPT ![Len(infos)] = FlushedInfo(tail)]
         IN  /\ js \in Seq(Info) /\ js # <<>> /\ Len(js) = Len(infos)
             /\ js[Len(js)] = FlushedInfo(tail)
             /\ Ordered(js)
             /\ \A i \in 1..Len(js) :
                  js[i].strg_size # 0 => js[i].file_off \in DOMAIN disk'
<1> DEFINE fi == FlushedInfo(tail)
           js == [infos EXCEPT ![Len(infos)] = fi]
<1>1. /\ TypeOK /\ WriterInv /\ OpenInv
      /\ infos \in Seq(Info) /\ infos # <<>> /\ Ordered(infos) /\ StoredBlocks(infos)
      /\ file_off = infos[Len(infos)].file_off
  BY DEF IInv, TypeOK, WriterInv, OpenInv, OrderInv, Cur
<1>2. /\ fi \in Info /\ fi.file_off = file_off
      /\ fi.strg_size # 0 => MergedUsed(item_info, tail) # 0
  BY <1>1, FlushedInfoOpen
<1>3. fi.strg_size # 0 => fi.file_off \in DOMAIN disk'
  BY <1>1, <1>2, FlushedDiskType
<1>4. DOMAIN disk \subseteq DOMAIN disk'
  BY <1>1, FlushedDiskType
<1> HIDE DEF fi
<1>5. /\ js \in Seq(Info) /\ Len(js) = Len(infos) /\ js[Len(infos)] = fi
      /\ \A i \in 1..(Len(infos) - 1) : js[i] = infos[i]
      /\ Len(infos) \in Nat \ {0}
  BY <1>1, <1>2, ReplaceLast, EmptySeq, LenProperties
<1>6. Ordered(js)
  BY <1>1, <1>2, OrderReplace
<1> HIDE DEF js
<1>7. ASSUME NEW i \in 1..Len(js), js[i].strg_size # 0
      PROVE  js[i].file_off \in DOMAIN disk'
  <2>1. CASE i = Len(js)
    BY <1>3, <1>5, <1>7, <2>1
  <2>2. CASE i \in 1..(Len(infos) - 1)
    BY <1>1, <1>4, <1>5, <1>7, <2>2 DEF StoredBlocks
  <2> QED BY <1>5, <2>1, <2>2
<1>8. js # <<>>
  BY <1>5, EmptySeq
<1> QED BY <1>5, <1>6, <1>7, <1>8 DEF js, fi

\* Writing an item into the next CAB flushes the full one.
LEMMA WriteToNextCABOrder ==
  ASSUME IInv, OrderInv, NEW it \in Item, WriteToNextCAB(it)
  PROVE  OrderInv'
<1> DEFINE fi  == FlushedInfo(FALSE)
           js  == [infos EXCEPT ![Len(infos)] = fi]
           new == NewInfo(file_off', recd_num)
<1>1. /\ session = "open" /\ session' = "open" /\ info_file' = info_file
      /\ disk' = FlushedDisk(FALSE) /\ file_off' = file_off + fi.strg_size
      /\ infos' = Append(js, new)
  BY DEF WriteToNextCAB, CanWrite
<1>2. /\ js \in Seq(Info) /\ js # <<>> /\ Len(js) \in Nat \ {0}
      /\ js[Len(js)] = fi /\ Ordered(js)
      /\ \A i \in 1..Len(js) : js[i].strg_size # 0 => js[i].file_off \in DOMAIN disk'
  BY <1>1, FlushOrder, EmptySeq, LenProperties
<1>3. /\ TypeOK /\ WriterInv /\ OpenInv
      /\ file_off \in Nat /\ recd_num \in Nat /\ file_off' \in Nat
  BY WriteToNextCABIInv DEF IInv, TypeOK
<1>4. fi.file_off = file_off /\ fi.strg_size \in Nat
  BY <1>1, <1>3, FlushedInfoOpen
<1>5. new \in Info /\ new.file_off = js[Len(js)].file_off + js[Len(js)].strg_size
  <2>1. new \in Info /\ new.file_off = file_off'
    BY <1>3, NewInfoType
  <2>2. js[Len(js)] = fi
    BY <1>2
  <2> HIDE DEF fi, js, new
  <2> QED BY <1>1, <1>4, <2>1, <2>2
<1>6. DOMAIN disk \subseteq DOMAIN disk'
  BY <1>1, <1>3, FlushedDiskType
<1>7. file_off <= file_off'
  <2> HIDE DEF fi
  <2> QED BY <1>1, <1>3, <1>4
<1> HIDE DEF fi, js, new
<1>8. Ordered(infos')
  BY <1>1, <1>2, <1>5, OrderAppend
<1>9. StoredBlocks(infos)'
  <2>1. Len(infos') = Len(js) + 1 /\ \A i \in 1..Len(js) : infos'[i] = js[i]
    BY <1>1, <1>2, <1>5, AppendProperties
  <2> QED BY <1>2, <2>1 DEF StoredBlocks
<1>10. ASSUME info_file # NoFile
       PROVE  /\ StoredBlocks(info_file.infos)' /\ Ordered(info_file.infos)
              /\ \A i \in 1..(Len(info_file.infos) - 1) :
                   info_file.infos[i].file_off + info_file.infos[i].strg_size <= file_off'
  <2>1. info_file.infos \in Seq(Info)
    BY <1>3, <1>10 DEF TypeOK
  <2>2. \A i \in 1..(Len(info_file.infos) - 1) :
          /\ info_file.infos[i].file_off \in Nat
          /\ info_file.infos[i].strg_size \in Nat
    <3>1. \A i \in 1..Len(info_file.infos) : info_file.infos[i] \in Info
      BY <2>1, ElementOfSeq
    <3>2. Len(info_file.infos) \in Nat
      BY <2>1, LenProperties
    <3> QED BY <3>1, <3>2 DEF Info
  <2>3. /\ Ordered(info_file.infos) /\ StoredBlocks(info_file.infos)
        /\ \A i \in 1..(Len(info_file.infos) - 1) :
             info_file.infos[i].file_off + info_file.infos[i].strg_size <= file_off
    BY <1>1, <1>10 DEF OrderInv
  <2>4. StoredBlocks(info_file.infos)'
    BY <1>1, <1>6, <2>3 DEF StoredBlocks
  <2>5. ASSUME NEW i \in 1..(Len(info_file.infos) - 1)
        PROVE  info_file.infos[i].file_off + info_file.infos[i].strg_size <= file_off'
    BY <1>3, <1>7, <2>2, <2>3
  <2> QED BY <2>3, <2>4, <2>5
<1> QED BY <1>1, <1>8, <1>9, <1>10 DEF OrderInv, Ordered

\* ~CABWriter flushes the tail.
LEMMA CloseFlushOrder ==
  ASSUME IInv, OrderInv, CloseFlush
  PROVE  OrderInv'
<1> DEFINE js == [infos EXCEPT ![Len(infos)] = FlushedInfo(TRUE)]
<1>1. /\ session = "open" /\ session' = "flushed" /\ info_file' = info_file
      /\ disk' = FlushedDisk(TRUE) /\ infos' = js
  BY DEF CloseFlush
<1>2. /\ js \in Seq(Info) /\ Len(js) \in Nat /\ Ordered(js)
      /\ \A i \in 1..Len(js) : js[i].strg_size # 0 => js[i].file_off \in DOMAIN disk'
  BY <1>1, FlushOrder, LenProperties
<1>3. DOMAIN disk \subseteq DOMAIN disk'
  BY <1>1, FlushedDiskType DEF IInv
<1> HIDE DEF js
<1>4. StoredBlocks(infos)'
  <2>1. \A i \in 1..(Len(js) - 1) : js[i].strg_size # 0 => js[i].file_off \in DOMAIN disk'
    BY <1>2
  <2> QED BY <1>1, <2>1 DEF StoredBlocks
<1>5. (info_file # NoFile => StoredBlocks(info_file.infos) /\ Ordered(info_file.infos))'
  BY <1>1, <1>3 DEF OrderInv, StoredBlocks, Ordered
<1> QED BY <1>1, <1>2, <1>4, <1>5 DEF OrderInv, Ordered

\* The order of blocks is an invariant.
LEMMA OrderStep ==
  ASSUME IInv, OrderInv, [Next]_vars
  PROVE  OrderInv'
<1>1. ASSUME NEW rbgn \in FirstRecds, OpenWrite(rbgn) PROVE OrderInv'
  <2>1. /\ session' = "open" /\ info_file' = NoFile
        /\ \E info : infos' = <<info>>
    BY <1>1 DEF OpenWrite, Open
  <2>2. Len(infos') = 1
    BY <2>1
  <2> QED BY <2>1, <2>2 DEF OrderInv, Ordered, StoredBlocks
<1>2. CASE OpenAppendNextCAB \/ OpenAppendTail
  BY <1>2, OpenAppendOrder
<1>3. CASE OpenAppendTailFails \/ Restart
  <2>1. /\ session' \in {"died", "closed"}
        /\ UNCHANGED <<disk, info_file>>
    BY <1>3 DEF OpenAppendTailFails, Restart, fileVars
  <2> QED BY <2>1 DEF OrderInv, Ordered, StoredBlocks
<1>4. ASSUME NEW it \in Item, WriteInCAB(it) PROVE OrderInv'
  <2>1. UNCHANGED <<disk, info_file, session, infos, file_off>>
    BY <1>4 DEF WriteInCAB, fileVars
  <2> QED BY <2>1 DEF OrderInv, Ordered, StoredBlocks
<1>5. ASSUME NEW it \in Item, WriteToNextCAB(it) PROVE OrderInv'
  BY <1>5, WriteToNextCABOrder
<1>6. CASE CloseFlush
  BY <1>6, CloseFlushOrder
<1>7. CASE CloseInfo
  <2>1. /\ session = "flushed" /\ session' = "closed" /\ disk' = disk
        /\ info_file'.infos = infos
    BY <1>7 DEF CloseInfo
  <2> QED BY <2>1 DEF OrderInv, Ordered, StoredBlocks
<1>8. CASE Crash
  <2>1. session' \in {"closed", "damaged"} /\ UNCHANGED <<disk, info_file>>
    BY <1>8 DEF Crash, fileVars
  <2> QED BY <2>1 DEF OrderInv, Ordered, StoredBlocks
<1>9. CASE UNCHANGED vars
  BY <1>9 DEF vars, fileVars, cabVars, OrderInv, Ordered, StoredBlocks
<1> QED BY <1>1, <1>2, <1>3, <1>4, <1>5, <1>6, <1>7, <1>8, <1>9 DEF Next

\* A flush leaves the blocks of the finished CABs alone.
LEMMA FlushKeepsFinished ==
  ASSUME IInv, OrderInv, session = "open", info_file # NoFile, NEW tail \in BOOLEAN,
         NEW i \in 1..(Len(info_file.infos) - 1), info_file.infos[i].strg_size # 0
  PROVE  FlushedDisk(tail)[info_file.infos[i].file_off] = disk[info_file.infos[i].file_off]
<1> DEFINE info == info_file.infos[i]
<1>1. info_file.infos \in Seq(Info) /\ file_off \in Nat
  BY DEF IInv, TypeOK
<1>2. info \in Info
  <2>1. i \in 1..Len(info_file.infos)
    BY <1>1, LenProperties
  <2> QED BY <1>1, <2>1, ElementOfSeq
<1>3. info.file_off + info.strg_size <= file_off /\ info.file_off \in DOMAIN disk
  BY DEF OrderInv, StoredBlocks
<1>4. info.file_off \in Nat /\ info.strg_size \in Nat
  BY <1>2 DEF Info
<1>5. info.file_off # file_off
  <2>1. info.strg_size # 0
    OBVIOUS
  <2> HIDE DEF info
  <2> QED BY <1>1, <1>3, <1>4, <2>1
<1> HIDE DEF info
<1>6. FlushedDisk(tail)[info.file_off] = disk[info.file_off]
  BY <1>3, <1>5 DEF FlushedDisk
<1> QED BY <1>6 DEF info

\* No write, no rewriting of a tail and no interruption ever changes a stored
\* block of a CAB that the .info file lists before its tail.
THEOREM FinishedBlocks == Spec => FinishedBlocksAreFinal
<1> DEFINE Kept == info_file # NoFile =>
             \A i \in 1..(Len(info_file.infos) - 1) :
               LET info == info_file.infos[i]
               IN  info.strg_size # 0 => disk'[info.file_off] = disk[info.file_off]
<1>1. Init => OrderInv
  BY DEF Init, OrderInv
<1>2. IInv /\ OrderInv /\ [Next]_vars => OrderInv'
  BY OrderStep
<1>3. ASSUME IInv, OrderInv, [Next]_vars PROVE [Kept]_vars
  <2>2. CASE \E rbgn \in FirstRecds : OpenWrite(rbgn)
    <3>1. info_file = NoFile
      BY <2>2 DEF OpenWrite
    <3> QED BY <3>1
  <2>3. CASE (\E it \in Item : WriteToNextCAB(it)) \/ CloseFlush
    <3>1. session = "open" /\ \E tail \in BOOLEAN : disk' = FlushedDisk(tail)
      BY <2>3 DEF WriteToNextCAB, CloseFlush, CanWrite
    <3> QED BY <1>3, <3>1, FlushKeepsFinished
  <2>4. CASE OpenAppendNextCAB \/ OpenAppendTail \/ OpenAppendTailFails \/ CloseInfo
             \/ Crash \/ Restart \/ UNCHANGED vars \/ \E it \in Item : WriteInCAB(it)
    <3>1. disk' = disk
      BY <2>4 DEF OpenAppendNextCAB, OpenAppendTail, ReopenTail, OpenAppend, OpenAppendTailFails, CloseInfo,
                  Crash, Restart, WriteInCAB, fileVars, vars
    <3> QED BY <3>1
  <2> QED BY <1>3, <2>2, <2>3, <2>4 DEF Next
<1>4. Spec => [][Kept]_vars
  <2> HIDE DEF Kept
  <2> QED BY Invariant, <1>1, <1>2, <1>3, PTL DEF Spec
<1> QED BY <1>4 DEF FinishedBlocksAreFinal

=============================================================================
