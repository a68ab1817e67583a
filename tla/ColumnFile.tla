---------------------------- MODULE ColumnFile ----------------------------
(***************************************************************************)
(* One leaf column on disk, and the objects that write it.                 *)
(*                                                                         *)
(* A column is two files.  `<leaf>.cab` holds Column Align Blocks (CABs):  *)
(* a CAB covers RecdCap consecutive records and stores their column items. *)
(* `<leaf>.cab.info` holds one CABInfo per CAB and a footer; it is written *)
(* only when the writer is destroyed.  A CABWriter creates the pair, a     *)
(* CABAppender reopens it and rewrites a partly filled tail CAB in place.  *)
(*                                                                         *)
(* Items keep their repetition and definition levels because the counters  *)
(* of CABItemInfo, the type of a CAB and what a flush stores depend on     *)
(* them; a stored block is the sequence of its items.                      *)
(***************************************************************************)
EXTENDS Integers, Sequences, FiniteSets

CONSTANTS
  RecdCap,       \* records of one CAB (cab_recd_num)
  MaxRep,        \* maximal repetition level of the leaf
  MaxDef,        \* maximal definition level of the leaf (its path length)
  Values,        \* leaf values
  Null,          \* the value of an item that has none
  AlignSize,     \* storage alignment (mem_align_size), in units of one field
  TailBufferCap, \* bytes of the default Buffer the appender copies a tail to
  NoFile,        \* the .info file does not exist or has no footer
  FirstRecds,    \* record ids at which the column may appear
  MaxItems,      \* bound: items ever written
  MaxOpens       \* bound: times a writer is opened

ASSUME ConstantsAssumption ==
  /\ RecdCap \in Nat \ {0}
  /\ MaxRep \in Nat /\ MaxDef \in Nat \ {0} /\ MaxRep <= MaxDef
  /\ AlignSize \in Nat \ {0} /\ TailBufferCap \in Nat
  /\ Null \notin Values
  /\ FirstRecds \subseteq Nat
  /\ MaxItems \in Nat /\ MaxOpens \in Nat

VARIABLES
  disk,       \* .cab content: the block last stored at each file offset
  info_file,  \* .info content: NoFile, or the CABInfos and the valid record id
  session,    \* state of the writer object
  valid_recd, \* footer: first record for which the column has items
  infos,      \* CABInfoBuffer: the CABInfos of the open writer
  item_info,  \* CAB::m_item_info: counters of the current CAB
  items,      \* items buffered in the current CAB
  recd_num,   \* CABWriter::m_recd_num
  file_off,   \* CABWriter::m_file_off
  log,        \* history: every item accepted so far
  durable,    \* history: the log at the last complete close
  opens       \* history: writers opened so far

fileVars == <<disk, info_file, durable>>
cabVars  == <<infos, item_info, items, recd_num, file_off>>
vars     == <<fileVars, cabVars, session, valid_recd, log, opens>>

-----------------------------------------------------------------------------
(* Column items and the counters kept about them.                          *)

\* ColumnItem: <rep:def:value>.
ColumnItem == [rep : 0..MaxRep, def : 0..MaxDef, val : Values \cup {Null}]

\* The items that are written: only one at full definition has a value.
Item == { it \in ColumnItem : /\ it.rep <= it.def
                              /\ (it.val # Null) <=> (it.def = MaxDef) }

Trivial == [rep |-> 0, def |-> 0, val |-> Null]

ItemInfo == [bgn_recd : Nat, recd_num : Nat, item_num : Nat, null_num : Nat, triv_num : Nat]

EmptyItemInfo(bgn) ==
  [bgn_recd |-> bgn, recd_num |-> 0, item_num |-> 0, null_num |-> 0, triv_num |-> 0]

\* CABItemInfo::update
Update(ii, it) ==
  [bgn_recd |-> ii.bgn_recd,
   recd_num |-> ii.recd_num + (IF it.rep = 0 THEN 1 ELSE 0),
   item_num |-> ii.item_num + 1,
   null_num |-> ii.null_num + (IF it.def < MaxDef THEN 1 ELSE 0),
   triv_num |-> ii.triv_num + (IF it.def = 0 /\ it.rep = 0 THEN 1 ELSE 0)]

\* CABItemInfo::getType counts how many of the two tests hold.
GetType(ii) ==
  IF ii.triv_num = ii.item_num /\ ii.null_num = ii.item_num THEN "trivial"
  ELSE IF ii.triv_num = ii.item_num \/ ii.null_num = ii.item_num THEN "allnull"
  ELSE "crucial"

-----------------------------------------------------------------------------
(* The space a CAB takes and where records start.                          *)

\* Mutants of CalcAlignBegin: one step too low; no alignment.
MutantAlignBelow(num, align)  == ((num \div align) - 1) * align
MutantNotAligned(num, align)  == num

CalcAlignBegin(num, align) == (num \div align) * align
CalcAlignSize(num, align)  == ((num + align - 1) \div align) * align

\* Mutant of MergedUsed: the tail CAB is treated as any other.
MutantTailNotSpecial(ii, tail) ==
  CASE GetType(ii) = "trivial" -> 0
    [] GetType(ii) = "allnull" -> ii.item_num
    [] OTHER                   -> 2 * ii.item_num

\* CAB::getMergedUsed: levels and values take one unit per item each; a
\* trivial CAB stores nothing, an all-null CAB its levels, and the tail CAB
\* always everything, because it will be appended to.
MergedUsed(ii, tail) ==
  LET type == IF tail THEN "crucial" ELSE GetType(ii)
  IN  (IF type = "crucial" THEN ii.item_num ELSE 0)
        + (IF type \in {"crucial", "allnull"} THEN ii.item_num ELSE 0)

Info == [file_off : Nat, strg_size : Nat, item : ItemInfo]

\* A missing .info file is not taken for one that is there.
ASSUME NoFileAssumption == NoFile \notin [infos : Seq(Info), valid_recd : Nat]

\* CABWriter::getInfo2Write
NewInfo(off, bgn) == [file_off |-> off, strg_size |-> 0, item |-> EmptyItemInfo(bgn)]

Cur == infos[Len(infos)]

\* Mutant of FlushedInfo: the counters are never copied.
MutantCountersNotCopied(tail) ==
  [Cur EXCEPT !.strg_size = CalcAlignSize(MergedUsed(item_info, tail), AlignSize)]

\* CABLayouter::flush, on the CABInfo: when nothing is stored it returns before
\* CAB::merge2Buffer copies the counters of the CAB into the CABInfo.
FlushedInfo(tail) ==
  LET used == MergedUsed(item_info, tail)
  IN  IF used = 0
      THEN [Cur EXCEPT !.strg_size = 0]
      ELSE [Cur EXCEPT !.strg_size = CalcAlignSize(used, AlignSize), !.item = item_info]

\* CABLayouter::flush, on the .cab file.
FlushedDisk(tail) ==
  IF MergedUsed(item_info, tail) = 0
  THEN disk
  ELSE [o \in DOMAIN disk \cup {file_off} |-> IF o = file_off THEN items ELSE disk[o]]

\* CAB::checkFull: a CAB takes the items of RecdCap records.
CheckFull(rep) == rep = 0 /\ item_info.recd_num + 1 > RecdCap

-----------------------------------------------------------------------------
(* Opening a writer.                                                       *)

Init ==
  /\ disk = [o \in {} |-> <<>>]
  /\ info_file = NoFile
  /\ session = "closed"
  /\ infos = <<>> /\ items = <<>>
  /\ item_info = EmptyItemInfo(0)
  /\ recd_num = 0 /\ file_off = 0 /\ valid_recd = 0
  /\ log = <<>>
  /\ durable = <<>>
  /\ opens = 0

Open == session = "closed" /\ opens < MaxOpens /\ opens' = opens + 1

\* CABWriter::init2write: truncates both files; record ids start at the CAB
\* that covers record rbgn.
OpenWrite(rbgn) ==
  /\ Open /\ info_file = NoFile
  /\ session' = "open"
  /\ valid_recd' = rbgn
  /\ disk' = [o \in {} |-> <<>>]
  /\ recd_num' = CalcAlignBegin(rbgn, RecdCap)
  /\ file_off' = 0
  /\ infos' = <<NewInfo(0, recd_num')>>
  /\ item_info' = EmptyItemInfo(recd_num')
  /\ items' = <<>>
  /\ UNCHANGED <<info_file, log, durable>>

TailInfo == info_file.infos[Len(info_file.infos)]

\* What a reader of a stored block gets back, by the type of its CABInfo
\* (ColumnItemArray::init2read and read).
ReadBlock(info) ==
  LET type == GetType(info.item)
      Stored(k) ==
        CASE type = "trivial" -> Trivial
          [] type = "allnull" -> [disk[info.file_off][k] EXCEPT !.val = Null]
          [] type = "crucial" -> disk[info.file_off][k]
  IN  [k \in 1..info.item.item_num |-> Stored(k)]

TailIsFull == TailInfo.item.recd_num % RecdCap = 0

OpenAppend ==
  /\ Open /\ info_file # NoFile
  /\ session' = "open"
  /\ valid_recd' = info_file.valid_recd
  /\ recd_num' = TailInfo.item.bgn_recd + TailInfo.item.recd_num
  /\ UNCHANGED <<fileVars, log>>

\* Mutant of OpenAppendNextCAB: the next CAB is stored where the tail is.
MutantNextCABAtTail ==
  /\ OpenAppend
  /\ TailIsFull
  /\ file_off' = TailInfo.file_off
  /\ infos' = Append(info_file.infos, NewInfo(file_off', recd_num'))
  /\ item_info' = EmptyItemInfo(recd_num')
  /\ items' = <<>>

\* CABAppender::init2append, tail CAB full or empty: go on behind it.
OpenAppendNextCAB ==
  /\ OpenAppend
  /\ TailIsFull
  /\ file_off' = TailInfo.file_off + TailInfo.strg_size
  /\ infos' = Append(info_file.infos, NewInfo(file_off', recd_num'))
  /\ item_info' = EmptyItemInfo(recd_num')
  /\ items' = <<>>

\* Reopening a partly filled tail CAB, if it fits the default Buffer.
ReopenTail(off, info, its) ==
  /\ OpenAppend
  /\ ~TailIsFull
  /\ MergedUsed(TailInfo.item, TRUE) <= TailBufferCap
  /\ file_off' = off
  /\ infos' = info_file.infos
  /\ item_info' = info
  /\ items' = its

\* Mutants of OpenAppendTail: the tail is written to the begin of the file; its
\* counters are not restored.
MutantTailAtBegin   == ReopenTail(0, TailInfo.item, ReadBlock(TailInfo))
MutantTailUncounted ==
  ReopenTail(TailInfo.file_off, EmptyItemInfo(TailInfo.item.bgn_recd), ReadBlock(TailInfo))

\* CABAppender::init2append, tail CAB partly filled: load it and overwrite it.
OpenAppendTail == ReopenTail(TailInfo.file_off, TailInfo.item, ReadBlock(TailInfo))

\* The same when the tail content exceeds the default Buffer: allocate gives
\* a null pointer, the copy into it is fatal, and no destructor runs.
OpenAppendTailFails ==
  /\ Open /\ info_file # NoFile
  /\ ~TailIsFull
  /\ MergedUsed(TailInfo.item, TRUE) > TailBufferCap
  /\ session' = "died"
  /\ UNCHANGED <<fileVars, cabVars, valid_recd, log>>

-----------------------------------------------------------------------------
(* Writing items: CABWriter::writeNull, writeText and writeBinVal.         *)

CanWrite(it) ==
  /\ session = "open"
  /\ Len(log) < MaxItems
  /\ it.rep > 0 => Len(log) > Len(durable) \* continues a record of this session

\* recd_num counts the records begun.
CountRecord(it) == recd_num' = recd_num + (IF it.rep = 0 THEN 1 ELSE 0)

WriteInCAB(it) ==
  /\ CanWrite(it)
  /\ ~CheckFull(it.rep)
  /\ item_info' = Update(item_info, it)
  /\ items' = Append(items, it)
  /\ CountRecord(it)
  /\ log' = Append(log, it)
  /\ UNCHANGED <<fileVars, session, valid_recd, infos, file_off, opens>>

\* The CAB is full: flush it, prepare the next CAB, write the item there.
WriteToNextCAB(it) ==
  /\ CanWrite(it)
  /\ CheckFull(it.rep)
  /\ disk' = FlushedDisk(FALSE)
  /\ file_off' = file_off + FlushedInfo(FALSE).strg_size
  /\ infos' = Append([infos EXCEPT ![Len(infos)] = FlushedInfo(FALSE)],
                     NewInfo(file_off', recd_num))
  /\ item_info' = Update(EmptyItemInfo(recd_num), it)
  /\ items' = <<it>>
  /\ CountRecord(it)
  /\ log' = Append(log, it)
  /\ UNCHANGED <<info_file, durable, session, valid_recd, opens>>

-----------------------------------------------------------------------------
(* Closing, and stopping without closing.                                  *)

\* The writer object and its buffers are gone.
Destroy ==
  /\ infos' = <<>> /\ items' = <<>>
  /\ item_info' = EmptyItemInfo(0)
  /\ recd_num' = 0 /\ file_off' = 0 /\ valid_recd' = 0

\* ~CABWriter, first half: flush(true) stores the tail CAB.
CloseFlush ==
  /\ session = "open"
  /\ session' = "flushed"
  /\ disk' = FlushedDisk(TRUE)
  /\ infos' = [infos EXCEPT ![Len(infos)] = FlushedInfo(TRUE)]
  /\ file_off' = file_off + FlushedInfo(TRUE).strg_size
  /\ UNCHANGED <<info_file, durable, valid_recd, item_info, items, recd_num, log, opens>>

\* ~CABWriter, second half: ~CABInfoBuffer writes the CABInfos and the footer.
CloseInfo ==
  /\ session = "flushed"
  /\ session' = "closed"
  /\ info_file' = [infos |-> infos, valid_recd |-> valid_recd]
  /\ durable' = log
  /\ Destroy
  /\ UNCHANGED <<disk, log, opens>>

\* Every item the two files describe, in order.  A CAB that stored nothing is
\* known only by the distance to the next CAB.
BlockItems(is, i) ==
  IF is[i].strg_size # 0 THEN ReadBlock(is[i])
  ELSE IF i < Len(is)
  THEN [k \in 1..(is[i + 1].item.bgn_recd - is[i].item.bgn_recd) |-> Trivial]
  ELSE <<>>

\* b[1] \o ... \o b[n].
Concatenated(b, n) ==
  LET upTo[i \in 0..n] == IF i = 0 THEN <<>> ELSE upTo[i - 1] \o b[i]
  IN  upTo[n]

\* The items of the first n CABs of is.
Decoded(is, n) == Concatenated([i \in 1..n |-> BlockItems(is, i)], n)

\* A block is readable when the file still holds what its CABInfo describes.
Readable(info) ==
  info.strg_size # 0 => Len(disk[info.file_off]) = info.item.item_num

FilesDecode(n) ==
  /\ \A i \in 1..n : Readable(info_file.infos[i])
  /\ Decoded(info_file.infos, n) = SubSeq(durable, 1, Len(Decoded(info_file.infos, n)))

FilesIntact ==
  \/ info_file = NoFile
  \/ /\ FilesDecode(Len(info_file.infos))
     /\ Len(Decoded(info_file.infos, Len(info_file.infos))) = Len(durable)

\* The process stops between two steps of an open writer.  What the buffers
\* held is gone; a rewritten tail that no longer fits the old .info is damage.
Crash ==
  /\ session \in {"open", "flushed"}
  /\ session' = IF FilesIntact THEN "closed" ELSE "damaged"
  /\ log' = durable
  /\ Destroy
  /\ UNCHANGED <<fileVars, opens>>

\* A process that died while opening left the files alone.
Restart ==
  /\ session = "died"
  /\ session' = "closed"
  /\ UNCHANGED <<fileVars, cabVars, valid_recd, log, opens>>

-----------------------------------------------------------------------------
Next ==
  \/ \E rbgn \in FirstRecds : OpenWrite(rbgn)
  \/ OpenAppendNextCAB
  \/ OpenAppendTail
  \/ OpenAppendTailFails
  \/ \E it \in Item : WriteInCAB(it)
  \/ \E it \in Item : WriteToNextCAB(it)
  \/ CloseFlush
  \/ CloseInfo
  \/ Crash
  \/ Restart

Spec == Init /\ [][Next]_vars

-----------------------------------------------------------------------------
(* Properties.                                                             *)

\* The variables have the types of the fields they stand for.
TypeOK ==
  /\ DOMAIN disk \subseteq Nat
  /\ \A o \in DOMAIN disk : disk[o] \in Seq(ColumnItem)
  /\ info_file = NoFile \/
       (info_file.infos \in Seq(Info) /\ info_file.valid_recd \in Nat)
  /\ session \in {"closed", "open", "flushed", "damaged", "died"}
  /\ valid_recd \in Nat /\ recd_num \in Nat /\ file_off \in Nat /\ opens \in Nat
  /\ infos \in Seq(Info)
  /\ item_info \in ItemInfo
  /\ items \in Seq(ColumnItem)
  /\ log \in Seq(Item) /\ durable \in Seq(Item)

RecordsIn(is)  == Cardinality({k \in DOMAIN is : is[k].rep = 0})
NullsIn(is)    == Cardinality({k \in DOMAIN is : is[k].def < MaxDef})
TrivialsIn(is) == Cardinality({k \in DOMAIN is : is[k].def = 0 /\ is[k].rep = 0})

\* The counters that decide what a flush stores and how a reader decodes it
\* are those of the items in the CAB, also after a tail was reloaded; a CAB
\* never holds the items of more than RecdCap records (CABItemInfo.h:82,83,
\* CAB.h:208).
CountersMatchItems ==
  session = "open" =>
    /\ item_info.item_num = Len(items)
    /\ item_info.recd_num = RecordsIn(items)
    /\ item_info.null_num = NullsIn(items)
    /\ item_info.triv_num = TrivialsIn(items)
    /\ item_info.recd_num <= RecdCap

\* The CABs of a file partition its record ids: each starts at a multiple of
\* RecdCap (assert in CABWriter_inline.h:52), the next one RecdCap further or,
\* behind a CAB opened and left empty, at the same id; blocks do not overlap.
ChainOK(is) ==
  \A i \in 1..Len(is) :
    /\ is[i].item.bgn_recd % RecdCap = 0
    /\ is[i].item.recd_num <= RecdCap
    /\ i < Len(is) =>
         /\ is[i + 1].file_off = is[i].file_off + is[i].strg_size
         /\ is[i + 1].item.bgn_recd \in
              {is[i].item.bgn_recd, is[i].item.bgn_recd + RecdCap}

\* ... and the CAB being written is the last of them, at the writer's position.
CABsPartitionRecords ==
  /\ session \in {"open", "flushed"} =>
       /\ ChainOK(infos) /\ infos # <<>>
       /\ recd_num = Cur.item.bgn_recd + item_info.recd_num
       /\ item_info.bgn_recd = Cur.item.bgn_recd
       /\ session = "open" => file_off = Cur.file_off
  /\ info_file # NoFile => ChainOK(info_file.infos) /\ info_file.infos # <<>>

\* A CABInfo that is not the last and that counts fewer than RecdCap records
\* belongs to a CAB that stored nothing: only such CABs lose their counters.
ShortOnlyIfEmpty(is) ==
  \A i \in 1..(Len(is) - 1) :
    is[i].item.recd_num < RecdCap => is[i].strg_size = 0

\* ... in the file and in the writer's buffer.
OnlyEmptyCABsAreShort ==
  /\ session \in {"open", "flushed"} => ShortOnlyIfEmpty(infos)
  /\ info_file # NoFile => ShortOnlyIfEmpty(info_file.infos)

\* After a complete close the two files together determine every item that was
\* written in this and in all earlier sessions, in order.
ClosedFilesHoldLog == session = "closed" => FilesIntact

\* Whatever is written, rewritten or interrupted, all CABs of the last complete
\* close but the tail still read back as the items written then.
SealedCABsSurvive ==
  info_file # NoFile => FilesDecode(Len(info_file.infos) - 1)

\* A file is damaged only when its partly filled tail CAB was being rewritten:
\* never by a session that went on behind a full tail.
DamageNeedsPartialTail ==
  session = "damaged" => ~TailIsFull

\* A stored block of a finished CAB is never written again (only the tail is).
FinishedBlocksAreFinal ==
  [][info_file # NoFile =>
       \A i \in 1..(Len(info_file.infos) - 1) :
         LET info == info_file.infos[i]
         IN  info.strg_size # 0 => disk'[info.file_off] = disk[info.file_off]]_vars

-----------------------------------------------------------------------------
(* The files implement a log (module ColumnLog): no history variables, only *)
(* what can be decoded from the files and from the open writer.            *)

\* The items a reader of the files would find, unreadable blocks skipped.
FileLog ==
  IF info_file = NoFile THEN <<>>
  ELSE LET is == info_file.infos
           found(i) == IF Readable(is[i]) THEN BlockItems(is, i) ELSE <<>>
       IN  Concatenated([i \in 1..Len(is) |-> found(i)], Len(is))

\* The items of the open writer: its finished CABs and the one in memory.
WriterLog ==
  CASE session = "open"    -> Decoded(infos, Len(infos) - 1) \o items
    [] session = "flushed" -> Decoded(infos, Len(infos))
    [] OTHER               -> FileLog

ColumnLog == INSTANCE ColumnLog WITH
  durable <- FileLog,
  pending <- WriterLog,
  open    <- session \in {"open", "flushed"}

\* Opening, writing, closing and losing writers of one file is appending to a
\* log that keeps all complete groups of RecdCap records at every moment.
ImplementsColumnLog == ColumnLog!Spec

=============================================================================
