---------------------------- MODULE Collection ----------------------------
(***************************************************************************)
(* One collection: the sessions that parse records into its columns and    *)
(* the scans that assemble records from them.                              *)
(*                                                                         *)
(* A parser session (ColumnParser, ColumnItemGenerator, CollectionWriter)  *)
(* opens a writer for every leaf of the SchemaTree, turns each record into *)
(* one item per leaf, buffers the items and hands them to the writers      *)
(* after every batch.  A leaf that appears for the first time gets a new   *)
(* writer.  Closing saves the SchemaTree first and the columns after it,   *)
(* one by one.  A column is here what ColumnFile keeps for it: the valid   *)
(* record, the first record id and the items, one per record; a tail CAB   *)
(* that was stored over under an old .info file, and the records that no   *)
(* CABInfo counts, as ColumnFile and ColumnScan show in detail.            *)
(*                                                                         *)
(* Leaves are optional fields of the root: levels add nothing to which     *)
(* record an item belongs to.  The item of column c in the n-th record of  *)
(* the collection is n when c is present there, and 0, a null, if not.     *)
(***************************************************************************)
EXTENDS Integers, Sequences, FiniteSets

CONSTANTS
  Columns,    \* names of leaf columns
  RecdCap,    \* records of one CAB (cab_recd_num)
  BatchCap,   \* records generated between two flushes (text_recd_num)
  ItemLen,    \* what the levels and the value of an item take in each column
  TailBufferCap, \* the default Buffer an appender copies a tail CAB to
  NoTree,     \* no SchemaTree: not in SchemaTreeMap, not in a file
  NoColumn,   \* no writer for a column; no files
  Partial,    \* column files that have no CABInfos and no footer yet
  RowCap,     \* rows buffered at a time (recd_cap)
  BufferCap,  \* the first capacity of the row buffer (assemble_buf_cap)
  RecdMaxLen, \* room there must be for a row (recd_max_len)
  MaxRecds,   \* bound: records ever parsed
  Fits(_, _), \* bound: the SchemaTrees looked at, for each length of columns
  MaxOpens    \* bound: parser sessions

ASSUME ConstantsAssumption ==
  /\ RecdCap \in Nat \ {0} /\ BatchCap \in Nat \ {0}
  /\ ItemLen \in [Columns -> Nat] /\ TailBufferCap \in Nat
  /\ MaxRecds \in Nat /\ MaxOpens \in Nat
  /\ RowCap \in Nat \ {0} /\ RecdMaxLen \in Nat /\ BufferCap \in Nat
  /\ RecdMaxLen <= BufferCap  \* else the first getNext finds no room: no record
  /\ IsFiniteSet(Columns)

VARIABLES
  tree,        \* the SchemaTree in SchemaTreeMap: its leaves in creation order
  schema_file, \* the leaves of the SchemaTree in its file
  files,       \* the two files of each column
  phase,       \* "idle", "open", "closing", "scanning", "hanging", "died" or "undefined"
  col_wts,     \* CollectionWriter::m_col_wts
  txt_buf,     \* CollectionWriter::m_txt_buf
  root_cnt,    \* TreeCounter::m_root_count
  batch,       \* records generated since the last flush
  scan,        \* the state of a ColumnAssembler
  input,       \* history: the records parsed, each the set of its leaves
  closed_num,  \* history: records of the sessions closed so far
  founders,    \* history: leaves that appeared in the first session with records
  torn,        \* history: a session was lost while it was closing
  opens        \* history: parser sessions

sessionVars == <<col_wts, txt_buf, root_cnt, batch>>
history     == <<input, closed_num, founders, torn, opens>>
vars        == <<tree, schema_file, files, phase, sessionVars, scan, history>>

Leaves(t) == {t[i] : i \in 1..Len(t)}

\* What is decoded from a block that another one was stored over.
Garbage == -1

\* uncounted: the records that no CABInfo counts.
Column == [valid : Nat, bgn : Nat, recds : Seq(Garbage..MaxRecds), uncounted : SUBSET Nat]

\* A name for nothing, or for files that cannot be read yet, is no other thing's.
ASSUME NamesAssumption ==
  NoTree \notin Seq(Columns) /\ NoColumn \notin Column /\ Partial \notin Column \cup {NoColumn}

CalcAlignBegin(num, align) == (num \div align) * align

\* The record id behind the last record of a column, and the item of record r.
End(col)       == col.bgn + Len(col.recds)
ItemOf(col, r) == col.recds[r - col.bgn + 1]

\* The partly filled tail CAB begins here; if there is none, the next CAB does.
TailBgn(col)   == CalcAlignBegin(End(col), RecdCap)
TailRecds(col) == TailBgn(col)..(End(col) - 1)

\* CAB::getMergedUsed of the tail CAB of column c: its items' levels and values.
TailUsed(c, col) == ItemLen[c] * (End(col) % RecdCap)

\* An all-null tail is read by its counters alone, whatever is stored for it.
TailHasValue(col)  == \E r \in TailRecds(col) : ItemOf(col, r) # 0
TailIsDamaged(col) == \E r \in TailRecds(col) : ItemOf(col, r) = Garbage

\* Mutant of Damaged: the tail is stored over the CAB before it.
MutantDamagesCABBefore(col) ==
  [col EXCEPT !.recds =
     [i \in 1..Len(col.recds) |->
        IF col.bgn + i > TailBgn(col) - RecdCap THEN Garbage ELSE col.recds[i]]]

\* The column when another block was stored over its tail CAB.
Damaged(col) ==
  [col EXCEPT !.recds =
     [i \in 1..Len(col.recds) |-> IF col.bgn + i > TailBgn(col) THEN Garbage ELSE col.recds[i]]]

\* path, cur, reinit and recd_idx say what is read next, and rows, cap, used, num
\* and dbl are m_buf with its m_cap and m_used, m_buf_rnum and m_dbl_buf; filling:
\* bufferMore runs.  out: the rows getNext has returned.
NoScan == [path |-> {}, cur |-> {}, reinit |-> {}, recd_idx |-> 0,
           rows |-> <<>>, cap |-> BufferCap, used |-> 0, num |-> 0, dbl |-> FALSE,
           filling |-> FALSE, out |-> <<>>]

Init ==
  /\ tree = NoTree /\ schema_file = <<>>
  /\ files = [c \in Columns |-> NoColumn]
  /\ phase = "idle"
  /\ col_wts = [c \in Columns |-> NoColumn]
  /\ txt_buf = [c \in Columns |-> <<>>]
  /\ root_cnt = 0 /\ batch = 0
  /\ scan = NoScan
  /\ input = <<>> /\ closed_num = 0 /\ founders = {} /\ torn = FALSE /\ opens = 0

-----------------------------------------------------------------------------
(* Parser sessions.                                                        *)

\* SchemaTreeMap::getDefinedTree: the cached tree, or the one in the file.
GetDefinedTree == IF tree # NoTree THEN tree ELSE schema_file

HasFooter(c) == files[c] \notin {NoColumn, Partial}

\* Mutant of TailTooLong: the room is compared with that of a full CAB.
MutantFullCABTooLong(c) == HasFooter(c) /\ ItemLen[c] * RecdCap > TailBufferCap

TailTooLong(c) == HasFooter(c) /\ TailUsed(c, files[c]) > TailBufferCap

\* CABAppender::init2append opens column c.
CanAppend(c) == HasFooter(c) /\ ~TailTooLong(c) /\ ~TailIsDamaged(files[c])

\* The first leaf whose writer does not open is one with too long a tail.
DiesOpening(t) ==
  \E i \in 1..Len(t) : TailTooLong(t[i]) /\ \A j \in 1..(i - 1) : CanAppend(t[j])

\* ColumnParser::init and CollectionWriter::init2append.  first_leaf stays 0,
\* so the records of earlier sessions are never counted into root_cnt.
OpenParser ==
  /\ phase = "idle" /\ opens < MaxOpens
  /\ opens' = opens + 1
  /\ tree' = GetDefinedTree
  /\ root_cnt' = 0 /\ batch' = 0
  /\ txt_buf' = [c \in Columns |-> <<>>]
  /\ \/ /\ \A c \in Leaves(tree') : CanAppend(c)
        /\ phase' = "open"
        /\ col_wts' = [c \in Columns |-> IF c \in Leaves(tree') THEN files[c] ELSE NoColumn]
     \/ \* the copy of the tail has no room: memcpy to a null pointer
        /\ DiesOpening(tree')
        /\ phase' = "died"
        /\ UNCHANGED col_wts
     \/ \* a missing footer's CABInfo or a damaged tail is read anyway
        /\ ~DiesOpening(tree') /\ \E c \in Leaves(tree') : ~CanAppend(c)
        /\ phase' = "undefined"
        /\ UNCHANGED col_wts
  /\ UNCHANGED <<schema_file, files, scan, input, closed_num, founders, torn>>

\* Mutants of NewColumn: the record index is taken before the record is counted;
\* the CAB is not filled up.
MutantRecordNotCounted ==
  [valid |-> root_cnt - 1, bgn |-> CalcAlignBegin(root_cnt, RecdCap),
   recds |-> [i \in 1..(root_cnt % RecdCap) |-> 0], uncounted |-> {}]
MutantNotAligned ==
  [valid |-> root_cnt' - 1, bgn |-> CalcAlignBegin(root_cnt' - 1, RecdCap), recds |-> <<>>,
   uncounted |-> {}]

\* CollectionWriter::initColumnWriter and alignColumnWriter: a leaf that appears
\* with the record just counted is filled up with nulls from its CAB's begin.
NewColumn ==
  LET ridx == root_cnt' - 1
      rbgn == CalcAlignBegin(ridx, RecdCap)
  IN  [valid |-> ridx, bgn |-> rbgn, recds |-> [i \in 1..(ridx - rbgn) |-> 0],
       uncounted |-> {}]

\* Bound: how long the input and the columns of the session are.  (A column may be
\* longer than the input after a close that was cut short.)
Lengths == {Len(input)} \cup {End(col_wts[c]) + Len(txt_buf[c]) : c \in Leaves(tree)}

\* A record with the leaves cs, some of them new, in the order fresh, when what
\* the leaves in filled get is a null.
GenerateItems(cs, fresh, filled) ==
  /\ phase = "open" /\ batch < BatchCap
  /\ Len(input) < MaxRecds
  /\ \A n \in Lengths : Fits(tree \o fresh, n + 1)
  /\ root_cnt' = root_cnt + 1
  /\ tree' = tree \o fresh
  /\ col_wts' = [c \in Columns |-> IF c \in Leaves(fresh) THEN NewColumn ELSE col_wts[c]]
  /\ files' = [c \in Columns |-> IF c \in Leaves(fresh) THEN Partial ELSE files[c]]
  /\ txt_buf' = [c \in Columns |->
                   IF c \in cs THEN Append(txt_buf[c], Len(input) + 1)
                   ELSE IF c \in filled THEN Append(txt_buf[c], 0)
                   ELSE txt_buf[c]]
  /\ batch' = batch + 1
  /\ input' = Append(input, cs)
  /\ founders' = IF closed_num = 0 THEN founders \cup Leaves(fresh) ELSE founders
  /\ UNCHANGED <<schema_file, phase, scan, closed_num, torn, opens>>

\* Mutant of Generate: leaves that do not appear get nothing.
MutantNoNulls(cs, fresh) == GenerateItems(cs, fresh, {})

\* ColumnItemGenerator::generateByField on a record; checkChildAppeared then
\* gives a null to every leaf of the tree that did not appear.
Generate(cs, fresh) == GenerateItems(cs, fresh, Leaves(tree) \ cs)

Orders(cs) == {s \in [1..Cardinality(cs) -> cs] : Leaves(s) = cs}

ParseRecord ==
  /\ phase = "open"
  /\ \E cs \in SUBSET Columns :
       \E fresh \in Orders(cs \ Leaves(tree)) : Generate(cs, fresh)

\* The buffered items go to the writers.
FlushBuffers ==
  /\ phase = "open" /\ batch > 0
  /\ col_wts' = [c \in Columns |->
                   IF c \in Leaves(tree)
                   THEN [col_wts[c] EXCEPT !.recds = @ \o txt_buf[c]]
                   ELSE col_wts[c]]
  /\ txt_buf' = [c \in Columns |-> <<>>]
  /\ batch' = 0
  /\ UNCHANGED <<tree, files, phase, root_cnt, scan, history>>

\* Mutant of Flush: it saves the SchemaTree as well.
MutantFlushSavesSchema == FlushBuffers /\ schema_file' = tree

\* CollectionWriter::flush, at the end of every batch.
Flush == FlushBuffers /\ UNCHANGED schema_file

BeginClose ==
  /\ phase = "open" /\ batch = 0
  /\ phase' = "closing"
  /\ UNCHANGED <<tree, files, sessionVars, scan, history>>

\* Mutant of CloseSchema: the SchemaTree is not saved again.
MutantSchemaNotSaved == BeginClose /\ UNCHANGED schema_file

\* ~ColumnParser, first: the SchemaTree is saved.
CloseSchema == BeginClose /\ schema_file' = tree

OpenWriters == {i \in 1..Len(tree) : col_wts[tree[i]] # NoColumn}

\* ~ColumnParser, then: the writers are deleted in the order of their leaves.
\* This is the column of the next, if any.
NextToClose == {tree[i] : i \in {k \in OpenWriters : \A j \in OpenWriters : k <= j}}

\* Every item of the CAB that begins at record b is a null.
AllNull(col, b) ==
  \A r \in b..(b + RecdCap - 1) : r < End(col) => ItemOf(col, r) = 0

\* The records that the CABInfos of the last close count; old: the column then.
Counted(old, col) == IF old = Partial THEN col.bgn ELSE End(old)

\* Mutants of Uncounted: the last CAB is flushed like any other; the items a CAB
\* had when it was reopened do not count.
MutantTailNotSpecial(old, col) ==
  col.uncounted \cup
    {r \in Counted(old, col)..(End(col) - 1) : AllNull(col, CalcAlignBegin(r, RecdCap))}
MutantTailUncounted(old, col) ==
  col.uncounted \cup
    {r \in Counted(old, col)..(CalcAlignBegin(End(col) - 1, RecdCap) - 1) :
       \A q \in CalcAlignBegin(r, RecdCap)..(CalcAlignBegin(r, RecdCap) + RecdCap - 1) :
         q >= Counted(old, col) => ItemOf(col, q) = 0}

\* CABLayouter::flush of a CAB that is full and holds only nulls returns before
\* the CABInfo gets its counters: those of the last close stay.  The last CAB is
\* flushed as a tail and counted.
Uncounted(old, col) ==
  col.uncounted \cup
    {r \in Counted(old, col)..(CalcAlignBegin(End(col) - 1, RecdCap) - 1) :
       AllNull(col, CalcAlignBegin(r, RecdCap))}

\* What ~CABWriter leaves of column c.
ClosedColumn(c) == [col_wts[c] EXCEPT !.uncounted = Uncounted(files[c], col_wts[c])]

CloseColumn ==
  /\ phase = "closing"
  /\ \E c \in NextToClose :
       /\ files' = [files EXCEPT ![c] = ClosedColumn(c)]
       /\ col_wts' = [col_wts EXCEPT ![c] = NoColumn]
  /\ UNCHANGED <<tree, schema_file, phase, txt_buf, root_cnt, batch, scan, history>>

CloseParser ==
  /\ phase = "closing" /\ OpenWriters = {}
  /\ phase' = "idle"
  /\ closed_num' = Len(input)
  /\ root_cnt' = 0
  /\ UNCHANGED <<tree, schema_file, files, col_wts, txt_buf, batch, scan, input,
                 founders, torn, opens>>

\* Leaves with half of a step done: a flush goes through the leaves in order, and
\* ~CABWriter stores the tail CAB before it writes the .info file.
HalfDone ==
  CASE phase = "open"    -> {{tree[i] : i \in 1..n} : n \in 0..Len(tree)}
    [] phase = "closing" -> SUBSET NextToClose
    [] OTHER             -> {{}}

\* The tail CAB of column c has been stored over, and its .info is the old one: the
\* writer has left that CAB for the next, or is being destroyed.
Overwritten(c, half) ==
  /\ col_wts[c] # NoColumn /\ HasFooter(c)
  /\ TailHasValue(files[c])
  /\ LET written == End(col_wts[c]) + (IF c \in half THEN Len(txt_buf[c]) ELSE 0)
     IN  \/ written > TailBgn(files[c]) + RecdCap
         \/ phase = "closing" /\ c \in half /\ written > End(files[c])

\* The process stops: the map and the session are gone, and tail CABs that were
\* being rewritten are damaged.  From "undefined" nothing is modelled.
Crash ==
  /\ phase # "undefined"
  /\ \E half \in HalfDone :
       files' = [c \in Columns |-> IF Overwritten(c, half) THEN Damaged(files[c]) ELSE files[c]]
  /\ tree' = NoTree
  /\ phase' = "idle"
  /\ col_wts' = [c \in Columns |-> NoColumn]
  /\ txt_buf' = [c \in Columns |-> <<>>]
  /\ root_cnt' = 0 /\ batch' = 0
  /\ scan' = NoScan
  /\ torn' = (torn \/ phase = "closing")
  /\ input' = SubSeq(input, 1, closed_num)
  /\ founders' = IF closed_num = 0 THEN {} ELSE founders
  /\ UNCHANGED <<schema_file, closed_num, opens>>

-----------------------------------------------------------------------------
(* Scans: ColumnAssembler over AssembleColumn.                             *)

\* ColumnAssembler::init with a projection to the columns in path.  Only their
\* files are opened; whether they could be is not asked.
OpenScan(path) ==
  /\ phase = "idle"
  /\ tree' = GetDefinedTree
  /\ path \subseteq Leaves(tree')
  /\ \/ /\ \A c \in path : HasFooter(c)
        /\ phase' = "scanning"
        /\ scan' = [NoScan EXCEPT !.path = path,
                                  !.cur = {c \in path : files[c].valid <= 0},
                                  !.reinit = {files[c].valid : c \in path}]
     \/ \* what readFile takes for a footer is not one
        /\ \E c \in path : ~HasFooter(c)
        /\ phase' = "undefined"
        /\ UNCHANGED scan
  /\ UNCHANGED <<schema_file, files, sessionVars, history>>

\* Mutant of CurrentColumns: the columns to read are not updated.
MutantNotUpdated == scan.cur

\* AssembleColumn::need2update and updateColumn: which columns are read next.
CurrentColumns ==
  IF \E v \in scan.reinit : v <= scan.recd_idx
  THEN {c \in scan.path : files[c].valid <= scan.recd_idx}
  ELSE scan.cur

\* ColumnReader::prepare2ReadRecord finds a CAB with the record, when its search
\* ends: that of a record no CABInfo counts goes to and fro between two CABs.
IsCounted(c) == scan.recd_idx \notin files[c].uncounted

\* Mutant of HasRecord: a record that is not counted is taken for the end.
MutantUncountedIsEnd(c) ==
  IsCounted(c) /\ scan.recd_idx >= files[c].bgn /\ scan.recd_idx < End(files[c])

HasRecord(c)  == scan.recd_idx >= files[c].bgn /\ scan.recd_idx < End(files[c])
ItemRead(c)   == ItemOf(files[c], scan.recd_idx)
IsReadable(c) == HasRecord(c) /\ IsCounted(c) /\ ItemRead(c) # Garbage

\* The record assembled: the items of the columns that have a value there.
Assembled(cur) == [c \in {k \in cur : ItemRead(k) # 0} |-> ItemRead(c)]

\* The length of a row: what every row has, and its values.
RowLength(row) == 1 + Cardinality(DOMAIN row)

\* Buffer::available
Room == scan.cap - scan.used

Scanning(filling) == phase = "scanning" /\ scan.filling = filling

\* getNext when all buffered rows have been returned: bufferMore begins with an
\* empty buffer, twice as large if it was too small.
BeginBuffer ==
  /\ Scanning(FALSE) /\ scan.num = 0
  /\ scan' = [scan EXCEPT !.rows = <<>>, !.used = 0, !.filling = TRUE, !.dbl = FALSE,
                          !.cap = IF scan.dbl THEN 2 * @ ELSE @]
  /\ UNCHANGED <<tree, schema_file, files, phase, sessionVars, history>>

RowsFull  == Len(scan.rows) = RowCap
NeedsRoom == ~RowsFull /\ Room < RecdMaxLen
NextRow   == Assembled(CurrentColumns)

\* bufferMore gets as far as to prepare the readers.
ReadsNext == Scanning(TRUE) /\ ~RowsFull /\ ~NeedsRoom

\* One turn of its loop.
AssembleNext ==
  /\ ReadsNext
  /\ \A c \in CurrentColumns : IsReadable(c)
  /\ RowLength(NextRow) <= Room
  /\ scan' = [scan EXCEPT !.cur = CurrentColumns,
                          !.reinit = {v \in @ : v > scan.recd_idx},
                          !.recd_idx = @ + 1,
                          !.rows = Append(@, NextRow),
                          !.used = @ + RowLength(NextRow)]
  /\ UNCHANGED <<tree, schema_file, files, phase, sessionVars, history>>

\* It goes wrong: Buffer::allocate returns no position for a part of the row, and
\* it is used; a damaged tail CAB is decoded; a search for a record does not end.
\* (Of two columns that stop a turn the first in the projection does.)
ScanBreaks(outcome) ==
  /\ ReadsNext
  /\ phase' = outcome
  /\ UNCHANGED <<tree, schema_file, files, sessionVars, scan, history>>

RowTooLong ==
  /\ \A c \in CurrentColumns : IsReadable(c)
  /\ RowLength(NextRow) > Room
  /\ ScanBreaks("undefined")

ReadDamaged ==
  /\ \E c \in CurrentColumns : HasRecord(c) /\ ItemRead(c) = Garbage
  /\ ScanBreaks("undefined")

SearchForever ==
  /\ \E c \in CurrentColumns : HasRecord(c) /\ ~IsCounted(c)
  /\ ScanBreaks("hanging")

\* Mutant of ScanEnded: the record behind the last one is not the end yet.
MutantEndOffByOne == \E c \in CurrentColumns : scan.recd_idx > End(files[c])

\* A column without the record ends the loop of bufferMore.
ScanEnded == \E c \in CurrentColumns : ~HasRecord(c)

\* bufferMore ends: enough rows, too little room, or no more records.
EndBuffer ==
  /\ Scanning(TRUE) /\ scan.rows # <<>>
  /\ RowsFull \/ NeedsRoom \/ ScanEnded
  /\ scan' = [scan EXCEPT !.filling = FALSE, !.num = Len(scan.rows), !.dbl = NeedsRoom]
  /\ UNCHANGED <<tree, schema_file, files, phase, sessionVars, history>>

\* getNext returns the next of the buffered rows.
GetNext ==
  /\ Scanning(FALSE) /\ scan.num > 0
  /\ scan' = [scan EXCEPT !.num = @ - 1,
                          !.out = Append(@, scan.rows[Len(scan.rows) - scan.num + 1])]
  /\ UNCHANGED <<tree, schema_file, files, phase, sessionVars, history>>

\* getNext returns none, and its caller stops.
NoNext == Scanning(TRUE) /\ scan.rows = <<>> /\ (NeedsRoom \/ ScanEnded)

CloseScan ==
  /\ NoNext
  /\ phase' = "idle"
  /\ scan' = NoScan
  /\ UNCHANGED <<tree, schema_file, files, sessionVars, history>>

-----------------------------------------------------------------------------
Next ==
  \/ OpenParser
  \/ ParseRecord
  \/ Flush
  \/ CloseSchema
  \/ CloseColumn
  \/ CloseParser
  \/ Crash
  \/ \E path \in (SUBSET Columns) \ {{}} : OpenScan(path)
  \/ BeginBuffer
  \/ AssembleNext
  \/ RowTooLong
  \/ ReadDamaged
  \/ SearchForever
  \/ EndBuffer
  \/ GetNext
  \/ CloseScan

Spec == Init /\ [][Next]_vars

\* A scan is a loop of its caller, which goes on until it gets no record.
ScanStep ==
  \/ BeginBuffer \/ EndBuffer \/ GetNext \/ CloseScan
  \/ AssembleNext \/ RowTooLong \/ ReadDamaged \/ SearchForever

FairSpec == Spec /\ WF_vars(ScanStep)

-----------------------------------------------------------------------------
(* Properties.                                                             *)

\* The variables have the types of the fields they stand for.
TypeOK ==
  /\ tree \in Seq(Columns) \cup {NoTree} /\ schema_file \in Seq(Columns)
  /\ files \in [Columns -> Column \cup {NoColumn, Partial}]
  /\ phase \in {"idle", "open", "closing", "scanning", "hanging", "died", "undefined"}
  /\ col_wts \in [Columns -> Column \cup {NoColumn}]
  /\ txt_buf \in [Columns -> Seq(0..MaxRecds)]
  /\ root_cnt \in 0..MaxRecds /\ batch \in 0..BatchCap
  /\ scan.path \subseteq Columns /\ scan.cur \subseteq scan.path
  /\ scan.num \in 0..Len(scan.rows) /\ Len(scan.rows) <= RowCap /\ Room \in 0..scan.cap
  /\ input \in Seq(SUBSET Columns) /\ closed_num \in 0..MaxRecds
  /\ founders \subseteq Columns /\ torn \in BOOLEAN /\ opens \in 0..MaxOpens

\* What a column should hold of the record with id r (from 0).
Expected(c, r) == IF c \in input[r + 1] THEN r + 1 ELSE 0

Holds(col, c, n) ==
  /\ End(col) = n
  /\ \A r \in col.bgn..(n - 1) : ItemOf(col, r) = Expected(c, r)
  /\ \A r \in 0..(n - 1) : Expected(c, r) # 0 => r >= col.valid

\* The same of a column whose tail CAB may be damaged.
HoldsButTail(col, c, n) ==
  /\ End(col) = n
  /\ \A r \in col.bgn..(n - 1) :
       ItemOf(col, r) = Expected(c, r) \/ (ItemOf(col, r) = Garbage /\ r \in TailRecds(col))
  /\ \A r \in 0..(n - 1) : Expected(c, r) # 0 => r >= col.valid

\* The columns that appeared in the first session stay aligned with the input
\* and with each other through every later session: each holds all its values
\* at the record ids of their records.  A crash outside a close costs them at most
\* the partly filled tail CAB of the last close, and never in the session's eyes.
FoundersHoldInput ==
  ~torn =>
    \A c \in founders :
      /\ phase \notin {"closing", "undefined"} /\ HasFooter(c)
           => HoldsButTail(files[c], c, closed_num)
      /\ phase = "open" /\ batch = 0 => Holds(col_wts[c], c, Len(input))

\* Within a batch as between batches, the items written and the items buffered
\* of every column of the session add up to the records parsed.
SessionColumnsEndTogether ==
  phase = "open" /\ ~torn =>
    \A c \in Leaves(tree) :
      c \in founders \/ closed_num = 0 => End(col_wts[c]) + Len(txt_buf[c]) = Len(input)

\* A scan of such columns returns exactly the records parsed, in order, each
\* with the values the scanned columns have in it, and when it ends it has returned
\* the last.  (It may not get so far: see StopsHaveCause.)
ScanMatchesInput ==
  phase = "scanning" /\ ~torn /\ scan.path \subseteq founders =>
    /\ Len(scan.out) <= closed_num
    /\ \A r \in 0..(Len(scan.out) - 1) :
         scan.out[r + 1] = [c \in scan.path \cap input[r + 1] |-> r + 1]
    /\ NoNext => Len(scan.out) = closed_num

\* The SchemaTree file never knows less than the column files: it names every
\* column that was ever closed, so none is created a second time.
SchemaCoversFiles ==
  \A c \in Columns :
    HasFooter(c) => c \in Leaves(schema_file)

\* A CAB of nulls with more records behind it.
HasNullCAB(col) ==
  \E b \in col.bgn..(End(col) - RecdCap - 1) : b % RecdCap = 0 /\ AllNull(col, b)

\* What keeps a session from opening and a scan from going on: a session lost while
\* it was closing, a tail CAB that was stored over, a row longer than the room that
\* is kept for one; a tail CAB longer than the default Buffer; and, for a scan that
\* goes on forever, RecdCap nulls in a row in a column with more records behind.
StopsHaveCause ==
  /\ phase = "undefined" =>
       \/ torn
       \/ \E c \in Leaves(tree) : HasFooter(c) /\ TailIsDamaged(files[c])
       \/ scan # NoScan /\ RowLength(NextRow) > RecdMaxLen
  /\ phase = "died" => \E c \in Leaves(tree) : TailUsed(c, files[c]) > TailBufferCap
  /\ phase = "hanging" => \E c \in scan.path : HasNullCAB(files[c])

\* A scan of columns without such nulls ends, or breaks off; it never goes on forever.
ScanEnds ==
  phase = "scanning" /\ (\A c \in scan.path : ~HasNullCAB(files[c]))
    ~> phase \in {"idle", "undefined"}

\* CollectionWriter.h:62-64, TreeCounter.h:63 (append mode): the record index at
\* which a column appears is counted from the collection's first record, so that
\* all columns of a closed collection end at the same record.
ColumnsEndTogether ==
  phase = "idle" /\ ~torn =>
    \A c \in Columns :
      HasFooter(c) => End(files[c]) = closed_num

=============================================================================
