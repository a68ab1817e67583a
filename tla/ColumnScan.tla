---------------------------- MODULE ColumnScan ----------------------------
(***************************************************************************)
(* Reading a column record by record: ColumnReader over CABReader, over    *)
(* the files that ColumnFile writes, byte by byte as CABContent has them.  *)
(*                                                                         *)
(* A reader keeps the CABInfos it loaded when it was opened, the CAB last  *)
(* loaded and a position in it.  A request names a record; unless it lies  *)
(* ahead in the loaded CAB the reader walks the CABInfos one at a time,    *)
(* forward or backward, until one covers the record: SeekStep is one turn  *)
(* of that loop.  A scan asks for one record after the other; here a       *)
(* request may also skip records, or go back within the loaded CAB.        *)
(* Reader and writer objects belong to one thread and take turns on a      *)
(* file.                                                                   *)
(***************************************************************************)
EXTENDS CABContent

CONSTANTS
  MaxSkip,  \* bound: records a request may jump over
  NoInfo,   \* CABReader::m_cur_info == nullptr
  NoItem    \* item index uint64_t(-1)

\* A null pointer is no CABInfo, uint64_t(-1) no index of an item.
ASSUME ScanAssumption ==
  MaxSkip \in Nat /\ NoInfo \notin Info /\ NoItem \notin Nat

VARIABLES
  phase,    \* "none" (no reader), "idle", "seeking", "reading", "ended"
  rinfos,   \* CABInfoBuffer of the reader
  cab_idx,  \* CABReader::m_cab_idx, an index from 0
  cur,      \* CABReader::m_cur_info
  loaded,   \* items of CABReader::m_cur_cab
  recd_idx, \* ColumnReader::m_recd_idx
  item_idx, \* ColumnReader::m_item_idx, an index from 0
  ridx,     \* the record requested
  got       \* history: items read of the requested record

readerVars == <<phase, rinfos, cab_idx, cur, loaded, recd_idx, item_idx, ridx, got>>
scanVars   == <<contentVars, readerVars>>

ScanInit ==
  /\ ContentInit
  /\ phase = "none" /\ rinfos = <<>> /\ cab_idx = 0
  /\ cur = NoInfo /\ loaded = <<>>
  /\ recd_idx = 0 /\ item_idx = 0 /\ ridx = 0 /\ got = <<>>

-----------------------------------------------------------------------------
\* Mutant of SkipRecds: skips items.
MutantSkipItems(blk, num, idx) == IF idx + num >= Len(blk) THEN NoItem ELSE idx + num

\* CABReader::skipRecds: the item index reached in blk by skipping num records
\* from the record that starts at idx, NoItem when the CAB ends before.  A
\* negative distance is a huge unsigned number there.
SkipRecds(blk, num, idx) ==
  LET starts == {k \in (idx + 1)..(Len(blk) - 1) : blk[k + 1].rep = 0}
  IN  IF idx >= Len(blk) \/ num \notin 0..Cardinality(starts) THEN NoItem
      ELSE IF num = 0 THEN idx
      ELSE CHOOSE k \in starts : Cardinality({j \in starts : j <= k}) = num

\* ColumnReader::init2read; the first record asked for is the valid one.
OpenReader ==
  /\ phase = "none" /\ session = "closed" /\ info_file # NoFile
  /\ phase' = "idle"
  /\ rinfos' = info_file.infos
  /\ cab_idx' = 0 /\ cur' = NoInfo /\ loaded' = <<>>
  /\ recd_idx' = 0 /\ item_idx' = 0
  /\ ridx' = info_file.valid_recd
  /\ got' = <<>>
  /\ UNCHANGED contentVars

\* Mutant of Position: the record reached is not remembered.
MutantRecdIdxKept(blk, num, idx) ==
  /\ phase' = "reading"
  /\ recd_idx' = recd_idx
  /\ item_idx' = SkipRecds(blk, num, idx)

\* ColumnReader::prepare2ReadRecord and loadCAB4Record position the reader.
Position(blk, num, idx) ==
  /\ phase' = "reading"
  /\ recd_idx' = ridx
  /\ item_idx' = SkipRecds(blk, num, idx)

\* Mutant of Covers: off by one at the end of the range.
MutantLastExcluded(info) ==
  /\ ridx >= info.item.bgn_recd
  /\ ridx + 1 < info.item.bgn_recd + info.item.recd_num

Covers(info) ==
  /\ ridx >= info.item.bgn_recd
  /\ ridx < info.item.bgn_recd + info.item.recd_num

\* Mutant of Ahead: the end of the CAB is not noticed.
MutantAlwaysAhead == cur # NoInfo

Ahead == cur # NoInfo /\ SkipRecds(loaded, ridx - recd_idx, item_idx) # NoItem

\* ColumnReader::prepare2ReadRecord, record ahead in the loaded CAB.
PrepareInCAB ==
  /\ phase = "idle" /\ Ahead
  /\ Position(loaded, ridx - recd_idx, item_idx)
  /\ UNCHANGED <<contentVars, rinfos, cab_idx, cur, loaded, ridx, got>>

\* CABReader::loadCAB4Record, the record is not ahead but in the loaded CAB.
PrepareFromBegin ==
  /\ phase = "idle" /\ ~Ahead
  /\ cur # NoInfo /\ Covers(cur)
  /\ Position(loaded, ridx - cur.item.bgn_recd, 0)
  /\ UNCHANGED <<contentVars, rinfos, cab_idx, cur, loaded, ridx, got>>

\* CABReader::loadCAB4Record, the record is elsewhere: enter calcCABIndex.
PrepareBySeek ==
  /\ phase = "idle" /\ ~Ahead
  /\ ~(cur # NoInfo /\ Covers(cur))
  /\ phase' = "seeking"
  /\ UNCHANGED <<contentVars, rinfos, cab_idx, cur, loaded, recd_idx, item_idx, ridx, got>>

\* CABReader::compareCABIndex4Record
Compare(info) ==
  IF ridx < info.item.bgn_recd THEN -1 ELSE IF Covers(info) THEN 0 ELSE 1

\* One turn of the loop in CABReader::calcCABIndex that moves on.
SeekStep ==
  /\ phase = "seeking"
  /\ cab_idx \in 0..(Len(rinfos) - 1)
  /\ Compare(rinfos[cab_idx + 1]) # 0
  /\ cab_idx' = cab_idx + Compare(rinfos[cab_idx + 1])
  /\ UNCHANGED <<contentVars, phase, rinfos, cur, loaded, recd_idx, item_idx, ridx, got>>

\* The loop stops at a CABInfo that covers the record: prepareNextCAB loads the
\* CAB, and prepareCABInfo leaves the index one behind it.
LoadCAB ==
  /\ phase = "seeking"
  /\ cab_idx \in 0..(Len(rinfos) - 1)
  /\ LET info == rinfos[cab_idx + 1]
     IN  /\ Compare(info) = 0
         /\ cur' = info
         /\ loaded' = ReadContent(info)
         /\ cab_idx' = cab_idx + 1
         /\ Position(loaded', ridx - info.item.bgn_recd, 0)
  /\ UNCHANGED <<contentVars, rinfos, ridx, got>>

\* The index left the CABInfo array: end of file.  (The code moves the index once
\* more.  getNext does not stop a caller that asks again behind the end; both callers
\* in the repository, assemble_to_file and assemble_to_string, stop there.)
SeekEnd ==
  /\ phase = "seeking"
  /\ cab_idx \notin 0..(Len(rinfos) - 1)
  /\ phase' = "ended"
  /\ UNCHANGED <<contentVars, rinfos, cab_idx, cur, loaded, recd_idx, item_idx, ridx, got>>

\* ColumnReader::readItem, called until the item that ends the record.
NextRep == IF item_idx + 1 < Len(loaded) THEN loaded[item_idx + 2].rep ELSE 0

AtRecordEnd == item_idx < Len(loaded) => loaded[item_idx + 1].rep = 0

RecordDone == got # <<>> /\ AtRecordEnd

ReadItem ==
  /\ phase = "reading"
  /\ ~RecordDone
  /\ item_idx \in 0..(Len(loaded) - 1)
  /\ got' = Append(got, loaded[item_idx + 1])
  /\ item_idx' = item_idx + 1
  /\ recd_idx' = recd_idx + (IF NextRep = 0 THEN 1 ELSE 0)
  /\ UNCHANGED <<contentVars, phase, rinfos, cab_idx, cur, loaded, ridx>>

Requests == IF phase = "reading" THEN cur.item.bgn_recd..(ridx + 1 + MaxSkip) ELSE {}

\* The caller asks for another record, the next one in a scan.
Request(r) ==
  /\ phase = "reading"
  /\ RecordDone
  /\ phase' = "idle"
  /\ ridx' = r
  /\ got' = <<>>
  /\ UNCHANGED <<contentVars, rinfos, cab_idx, cur, loaded, recd_idx, item_idx>>

\* The reader is deleted after the end, or when the scan has what it needs.
CloseReader ==
  /\ phase \in {"idle", "ended"}
  /\ phase' = "none"
  /\ rinfos' = <<>> /\ cab_idx' = 0 /\ cur' = NoInfo /\ loaded' = <<>>
  /\ recd_idx' = 0 /\ item_idx' = 0 /\ ridx' = 0 /\ got' = <<>>
  /\ UNCHANGED contentVars

-----------------------------------------------------------------------------
WriterStep == phase = "none" /\ ContentNext /\ UNCHANGED readerVars

Seeking == SeekStep \/ LoadCAB \/ SeekEnd

Preparing == PrepareInCAB \/ PrepareFromBegin \/ PrepareBySeek

ScanNext ==
  \/ WriterStep
  \/ OpenReader
  \/ Preparing
  \/ Seeking
  \/ ReadItem
  \/ \E r \in Requests : Request(r)
  \/ CloseReader

ScanSpec == ScanInit /\ [][ScanNext]_scanVars

\* The search is a loop of one thread inside a call: once entered, it goes on.
FairScanSpec == ScanSpec /\ WF_scanVars(Seeking)

-----------------------------------------------------------------------------
(* Properties.                                                             *)

\* The items of the n-th record (from 0) of is.
RecordOf(is, n) ==
  LET starts == {k \in 1..Len(is) : is[k].rep = 0}
      first  == CHOOSE k \in starts : Cardinality({j \in starts : j < k}) = n
      behind == {k \in starts : k > first}
  IN  SubSeq(is, first, IF behind = {} THEN Len(is) ELSE Min(behind) - 1)

\* The record id of the first item in the file.
FirstRecd == rinfos[1].item.bgn_recd

\* The reader's variables have the types of the fields they stand for.
ScanTypeOK ==
  /\ phase \in {"none", "idle", "seeking", "reading", "ended"}
  /\ rinfos \in Seq(Info) /\ cab_idx \in Int
  /\ cur \in Info \cup {NoInfo}
  /\ loaded \in Seq(ColumnItem) /\ got \in Seq(ColumnItem)
  /\ recd_idx \in Nat /\ ridx \in Nat /\ item_idx \in Nat

\* What a reader returns for a record are the items written for it, whichever
\* sessions wrote them, whether its CAB was stored, stored without values or
\* not stored at all, and however the reader got to it.
ReadsMatchLog ==
  phase = "reading" /\ RecordDone =>
    /\ ridx - FirstRecd < RecordsIn(durable)
    /\ got = RecordOf(durable, ridx - FirstRecd)

\* The two positions of a reader agree: as many records of the loaded CAB begin
\* before the next item as lie between the CAB's first record and recd_idx.
PositionsAgree ==
  cur # NoInfo /\ phase # "ended" =>
    LET passed == RecordsIn(SubSeq(loaded, 1, item_idx))
        inside == item_idx < Len(loaded) /\ loaded[item_idx + 1].rep > 0
    IN  recd_idx = cur.item.bgn_recd + passed - (IF inside THEN 1 ELSE 0)

\* A stored block, read as the content of a single unit, has the items that
\* were written to its CAB: however many units they were in, whether the CAB
\* was reloaded on the way, and also when only its levels were stored
\* (CAB.h:74-76: a CAB is aligned by record, no matter how many items in it).
\* A reader does not change them.
BlocksReadBack == phase = "none" => BlocksDecode

\* End of file is answered only for a record behind the last one written.
EndIsReal ==
  phase = "ended" => ridx >= FirstRecd + RecordsIn(durable)

CountsComplete ==
  \A i \in 1..(Len(rinfos) - 1) :
    rinfos[i].item.bgn_recd + rinfos[i].item.recd_num = rinfos[i + 1].item.bgn_recd

\* If every CABInfo counts its records, the search for a CAB ends.
SearchEnds == (phase = "seeking" /\ CountsComplete) ~> phase # "seeking"

\* CABReader.h:130-134: calcCABIndex returns, with success, end of file or an
\* error, whatever was written.
SearchAlwaysEnds == phase = "seeking" ~> phase # "seeking"

=============================================================================
