# A specification of Steed in TLA+

Steed is a columnar storage engine for JSON records (C++11).  It infers a schema from the records it is given,
shreds every record into one column per leaf of the schema, stores each column in blocks of a fixed number of
records, and assembles records back from the columns a query names.  These modules model its own logic: how a
column file is written, reopened, closed and read, down to the bytes of its blocks; how the columns of a collection
are kept aligned; how nested records are taken apart and put together again; and what the calls that create, drop
and parse into tables leave behind.

Paths below are relative to `src/src/steed/`.

## 1. The system

| component | state it keeps | operations | modelled in |
|---|---|---|---|
| column writer and appender (`store/CABWriter`, `CABAppender`, `CABInfo`, `CABLayouter`, `CAB`, `ColumnWriter`) | the current CAB (Column Align Block) and its counters, the CABInfos, the file offset, record number | init2write, init2append, writeNull / writeText / writeBinVal, flush, destructor | `ColumnFile`, abstractly `ColumnLog` |
| column reader (`store/CABReader`, `ColumnReader`) | CABInfos of the file, the loaded CAB, a record index and an item index | prepare2ReadRecord, loadCAB4Record, calcCABIndex, readItem | `ColumnScan` |
| bit vector (`util/BitVector`) | bits used, capacity, how far it has been cleared | init2write, init2read, append, set, get, copyContent | `BitVector` |
| parser session (`parse/ColumnParser`, `ColumnItemGenerator`, `CollectionWriter`) | one writer and one text buffer per leaf, the root counter, the SchemaTree | init, parseOne, flush of a batch, initColumnWriter + alignColumnWriter, destructor; generate, checkChildAppeared | `Collection`, nested records in `Shredding`, sessions among other calls in `Catalog` |
| column assembler (`assemble/ColumnAssembler`, `AssembleColumn`) | one reader per projected column, the set of columns valid so far, the record index, a buffer of rows | init, getNext, bufferMore, doubleBuffer | `Collection`, `Assembly` |
| query expressions (`assemble/ColumnExpressionParser`, `QueryPathes`) | the expressions found, the unique paths | parse, parseDefaultNode, parseSubTree, checkAndAppend | `ColumnExpression` |
| databases and tables (`steed.cpp`, `schema/SchemaTreeMap`) | directories, SchemaTree files, the process-wide map of SchemaTrees | createDatabase, dropDatabase, createTable, dropTable, parse_file, open_parser / insert_parser / close_parser, assemble_to_*, uninit | `Catalog` |
| item and value arrays (`store/ColumnItemArray`, `base/BinaryValueArray`, `base/RepetitionType`) | levels and values of the units of one CAB | write, read, merge to a buffer, copyContent | `CABContent`; what a read returns also in `ColumnFile` |
| schema tree (`schema/SchemaTree`, `SchemaNode`, `SchemaPath`) | nodes with name, type, category, parent | addNode, findNode, flush, load | as its set of leaves in `Collection` and `Catalog`; levels, paths and new nodes in `Shredding`, names in `ColumnExpression` |
| JSON input (`parse/JSON*`, `ColumnParser`) | record buffer, a pool of reused JSONBinTrees | readLine, readRecords, parseOne, parseAll, insert_parser | `RecordInput` |
| FSM and record assembly (`assemble/FSMTable`, `RecordNestedAssembler`, `store/RecordBuilder`, `assemble/RecordOutput`) | transition table, builders and buffer of the record under construction | initFSMTable, assemble, move2level, return2level, package, outJSON* | `Assembly`, `RecordBuilder` |
| row format (`store/Row*`, `base/Row.h`) | the bytes of a row | appendElem, appendValue, package, init2read, getBinVal, getBinSize | `RowFormat` |
| data types, compression, containers, configuration, Python binding | | | not modelled |

How they interact: `parse_file` opens a ColumnParser; each record becomes a JSONBinTree, the generator walks it
against the SchemaTree, adds leaves that appear for the first time (each gets a CABWriter, filled with nulls up
to the current record), and buffers `<rep:def:text>` items per column; CollectionWriter::flush hands a batch to
the writers.  Closing saves the SchemaTree, then deletes the writers one by one, and each destructor writes its
tail CAB and its CABInfos.  A scan opens one reader per projected column, asks each for the next record, and ends
when one of them has no such record.  All of this runs in the thread of the caller; there are no locks and
no recovery code.  What is hard is therefore not scheduling but long sequences of legal calls (append after
append, columns that appear late, drop and create again, a session open while other calls are made), a process that stops between two steps of a close,
state cached across calls, and the arithmetic at block and word boundaries.  PROJECT.json lists the hazards
with the line where each bites.

## 2. The modules

**ColumnFile.** `disk` and `info_file` are the two files of a column, `infos`, `item_info`, `items`, `recd_num`,
`file_off` the members of the open writer.  `OpenWrite`, `OpenAppendNextCAB`, `OpenAppendTail` are init2write and
the two branches of init2append (`OpenAppendTailFails`: the tail does not fit the Buffer it is copied to, and the
process dies); `WriteInCAB` and `WriteToNextCAB` are the writes, the second with the flush of a full CAB in
front; `CloseFlush` and `CloseInfo` are the two halves of the destructor, `Crash` may come before either.
`FlushedInfo` and `FlushedDisk` keep what CABLayouter::flush does to a CAB that stores nothing: it returns before
the counters are copied.  Space is counted in units of one field per item.  Bit vectors are ideal here; how the
real one deviates is `BitVector`'s subject.  After a crash that damaged the tail (`session = "damaged"`) nothing
more is modelled.

**ColumnLog** is what a column file promises: a log of items, durable up to the last close, of which an open
session may at worst lose the records of the last partly filled group of RecdCap records.  ColumnFile implements
it (`ImplementsColumnLog`): the refinement mapping decodes the files and the open writer, no history variable
enters it.

**ColumnScan** extends ColumnFile with one reader.  `PrepareInCAB`, `PrepareFromBegin` and `PrepareBySeek` are the
three ways prepare2ReadRecord and loadCAB4Record may find a record; `SeekStep`, `LoadCAB`, `SeekEnd` are the turns
of the loop in calcCABIndex; `ReadItem` reads until the record ends, `Request` asks for the next or a later one.
Reader and writer take turns on a file.

**CABContent** extends ColumnFile with what its blocks are in memory and on disk, and ColumnScan reads them.  `units`
is the major unit of the open CAB and the minor units added when it overflows, each with packed repetition and
definition levels and a value array of fixed or variable length; `bytes` holds what a flush stored.  `WriteToUnit` and
`WriteToMinorUnit` are the writes, `WriteToNextContent` the one that begins a CAB, `Merged` puts one kind of segment of all
units together (mergeSegment), `MergedBytes` and `FlushedBytes` are what merge2Buffer and flush make of the units, `ReadContent` what a reader makes of the block, `ReloadContent` what the
appender does with a tail.  Each action is conjoined with the one of ColumnFile it refines, so the log of items and
its bytes move together.

**BitVector** works on single bits of memory it shares with neighbours; element width and capacity vary.
`Resume` is what the appender does with a reloaded tail: init2read, then copyContent into a fresh buffer.

**Collection** reduces a column to its valid record, its first record id and its items, one per record (leaves
are optional fields of the root, so levels add nothing), and a SchemaTree to the order of its leaves.
`OpenParser` ... `CloseParser` are a parser session, `OpenScan` ... `CloseScan` a scan.  A scan works through a buffer of
rows: `BeginBuffer`, `AssembleNext` and `EndBuffer` are bufferMore, with the room it keeps for a row and the doubling
of a buffer that was too small; `GetNext` hands out a buffered row.  `RowTooLong` is a row for which the room kept
does not do: allocate returns no position and its result is used.

What ColumnFile and ColumnScan show of a single column is here as far as the columns of a collection and its scans
can tell.  An append session whose writer has left the tail CAB it reopened, or is being destroyed, has stored another
block over that tail while `.info` still tells the old one; `Crash` then leaves the column `Damaged`: the items
of its tail are `Garbage` (unless all are null, when nothing is read).  A crash may come between the leaves of a flush, so some
writers are further than others (`HalfDone`, `Overwritten`).  `OpenParser` opens the leaves in order (`CanAppend`) and ends in `"died"`
at a tail longer than the Buffer it is copied to (`TailTooLong`, `TailUsed`, with `ItemLen` for what an item of each column takes), in
`"undefined"` where it reads a footer that is not there or a damaged tail.  `CloseColumn` keeps which records no CABInfo counts: those
of a full CAB of nulls that is not the last, but for the ones counted when it was a tail (`Uncounted`).  A scan opens the
files of the projected columns only.  It goes on while all its columns have a record that is counted and not garbage (`IsReadable`);
`SearchForever` is the search of calcCABIndex for one that is not counted and ends in `"hanging"`, `ReadDamaged` the decoding of a damaged
tail, `ScanEnded` the end of a column.

**Catalog** keeps, per table, the saved tree, the trees in memory and, in each column file, the generations of the
table whose records it holds.  A generation begins with every successful createTable.  parse_file is one step.  A
session is several: `OpenParser` takes the tree of the map and remembers what is in each file, `InsertParser` may add
columns to that tree, `CloseParser` saves the tree and writes over the files what its writers know; any other call, of
another session too, may come in between.  Trees are objects with numbers, since a parser goes on with the tree it
has when a drop puts another one in the map.  `Crossing` marks the tables about which such a call was made
(`crossed`).  Where the code goes on with a writer or a directory that is not there, the process becomes
`"undefined"`; closing without a database directory ends it (`CloseExits`).

**RecordInput** follows a text from the stream, or from the caller of insert_parser, through the JSONRecordBuffer and
the JSONBinTrees to a record.  A text is reduced to how parsing it goes: the fields it completes, whether it leaves
one begun, how it ends, its length.  `OpenFile`, `OpenAll`, `OpenInsert` are the three uses (parse_file, parseAll,
open_parser).  `ReadLine` and `ReadRest` are readLine with the line it cuts when the buffer is full; `ParseText`,
`ParseNothing` (a tree for which the batch has no text) and `GenerateBatch` are readRecds2TreeInBatch and generate;
`Insert` is one call of insert_parser.  Where the code ends the process by a null pointer or an assertion the mode is
`"died"`, where it reads freed memory `"undefined"`.  The rounding of buffer capacities is left out.

**Shredding** is ColumnItemGenerator on a nested record: operators that take a record to the items `<rep:def:value>`
it writes to each leaf's column, with the counters of TreeCounter that decide where nulls go.  `GenerateByField`,
`GenerateByNaiveArray`, `GenerateByMatrix` and `CheckChildAppeared` are the functions of these names.  A record may
bring fields the tree does not have: `UpdateSchema` and `CreateNode` make their nodes, and `AlignColumn` writes to the
column of a new leaf the nulls of the elements the record had before.

**RowFormat** is the row as cells in a buffer: sizes, values, IDs, offsets in the narrowest of three widths, and the
Info that tells how many members there are and how wide the offsets are.  `PackageStruct` writes what stands behind the
values, `Init2Read`, `GetOffset`, `GetBinSize` and `GetMemberSize` find it again from the end.  An offset takes as many cells as the
code gives it bytes, each with `Byte` values, so that the three widths, and a width too small, occur in small rows.

**RecordBuilder** is the way back, one operator per function, on the builders of RowFormat and the buffer they write to;
`len` is m_struct_len.  A failed assertion is kept in `build.ok`.

**ColumnExpression** looks up the columns a query names.  A name on the way down may be that of several nodes, since
siblings of different type share it; an object stands for all leaves below it.

**Assembly** puts both ends together for one record: `GenerateRecord` writes its items, to a tree that has some of its
nodes (`known`) and gets the others (`fresh`); `BeginAssemble` looks up the columns asked for and builds the FSMTable (`TransColumn`
is initTransTable); `AssembleItem` is one turn of the loop in RecordNestedAssembler::assemble; and `OutJSONObj` and
`OutJSONArr` are what RecordOutput prints when it reads the row.  `RefuseQuery` is a query that init turns down,
`EndWithoutColumns` one of which no column is valid, `ReadBehindRecord` a loop that asks a column for an item its
record does not have.  `Selected` is the reference: the part of the record above the leaves asked for, where `Leaves`
takes a leaf as asked for by its own name or by that of an object or array above it.  null, {} and [] as a field are the same
to the generator as a field that is absent, so they are the same here.  An inner array of a matrix holds primitives of
one type.

The proofs (section 5) are in modules of their own: **ColumnFileProofs** and **ColumnContentProofs** about ColumnFile and
ColumnLog, and **ColumnScanProofs** about CABContent and ColumnScan, each on top of the one before, **CatalogProofs**, **CollectionProofs**,
**RecordInputProofs**, **BitVectorProofs**, and **NatInduction** with induction over the natural numbers and powers of two.
`MC_*` modules only give constants values for TLC.

## 3. The runs

| run | what it checks | bounds |
|---|---|---|
| column_file | type invariant, counters, CAB partition, content after close, what survives crashes, finished blocks, refinement of ColumnLog | 2 records per CAB, 4 items of a repeated optional leaf, 3 writers, first record 0 or 3 |
| column_scan | what readers return, their two positions, end of file, what the bytes of a block read back as, termination of the search | 5 items (the last one with a value or null at level 0), 2 writers, first record 3, values of two lengths in arrays of both kinds, bytes of 2 bits; requests skip up to 1 record or go back in the loaded CAB |
| column_scan_hang | violated: the search for a CAB ends whatever was written | flat column of 3 items |
| bit_vector | elements kept, room cleared, neighbours untouched | words of 8 bits, elements of 2 and 3 bits, 22 bits of memory |
| bit_vector_resume | violated: elements kept after a reload | 3-bit elements |
| collection | alignment of columns, scans against the input, schema file against column files, what leads to undefined behaviour, damage and hanging, scans end | 2 records per CAB and per batch, 3 sessions; 3 records of 2 leaves or of one with long items, or 5 of one leaf; a row buffer of 4 cells for 2 rows, room for 2 cells kept |
| collection_late | violated: all columns of a closed collection end together | the same, 2 sessions |
| catalog | map against files, which tables can show dropped records, column files exist, with up to two sessions open | 1 table, 2 columns, 2 parsers, 2 creations, any number of restarts; a session is opened beside another only before the second creation; columns and parsers are interchangeable |
| catalog_drop | violated: a table shows only records parsed since it was created | 1 table, 1 column, 2 creations, no open session needed |
| record_input | what records hold, what is lost, what the process dies of, which lines are cut | 4 texts of 9 kinds, batch of 2, buffer of 4 bytes, offsets below 6 |
| record_input_mix | violated: a record holds fields of its own text only | 3 texts |
| assembly | columns of a record agree, the printed record is the selected part of the parsed one, no read behind the record, everything is cleared for the next | a schema of 16 nodes with up to three nested repetitions, of which the record creates up to five; arrays of 1 or 2 elements; queries for 1 or 2 leaves by name, four larger ones, two for objects; bytes of 7 values, texts of two lengths |

Why the bounds are enough: 2 records per CAB is the smallest capacity with a partly filled CAB; 4 items give two
full CABs, an empty third one, a partly filled tail, and records of up to four items; three writers allow an
append to an appended tail.  First record 3 starts a column inside a CAB.  In column_scan a CAB begins with a unit for
two items, so that blocks of five items with one minor unit and with two are reached; bytes of two bits make levels that end on a
byte and levels that do not, and values of two lengths make offsets that are no multiples of one another.  In BitVector 13 bits end inside a
word, 16 with one, and 3-bit elements cross words.  In RecordInput a text of length 6
is longer than the buffer, two short ones fill a part of it, and two insertions pass the offset limit.  In Collection, two records per batch put the first appearance
of a leaf at the begin and inside a batch; a row takes one to three cells, so that the buffer is full by number, full
by room, doubled, and too small for a row that is longer than the room kept.  `Fits` bounds which trees occur
with columns of which length.  A scan hangs on two nulls that fill a CAB behind a value, with a record behind them: a value and
anything, two nulls and a fifth record.  That is also enough for a session to reopen a partly filled tail behind a full CAB, go past its end and
be lost.  A third leaf has items of which one is longer than the Buffer for tails, while those of the others fit; a third
session opens columns that the second has damaged, or extends what it has left.  In Catalog one table is enough because
no call changes what belongs to another (dropDatabase apart, which treats all alike); two parsers are the least that share a tree, two
columns let each of them add one.  After the second creation no session is
opened beside another one, to bound the run (`RoomToOverlap`); sessions opened before it go on behind it.  In Assembly what two columns share decides
every move of the automaton, so the pairs of leaves of one field meet every combination of common level and repeated ancestor the
schema has, and two leaves are paired with all others; two elements per array make a first and a repeated one, and a query of all leaves moves through all
columns.  Rows reach offsets of two and of four cells.  Nodes 6 and 4, and 16 and 11, have one name.  The records include absent fields, elements without content, duplicate fields and matrices.
Deadlock is not checked because the bounds stop every system.

Fairness is weak fairness of the reader's search (ColumnScan), a loop inside one call of one thread
that once entered goes on, and of `ScanStep` (Collection): the loop inside getNext, and around it the one of
assemble_to_file and assemble_to_string, which call getNext until it returns no record.  Nothing is assumed of
writers or sessions.

## 4. What the violated runs show

- **column_scan_hang**: a full CAB of trivial items (`<0:0:null>`, a field absent from RecdCap records in a row) is
  flushed without its counters (`store/CABLayouter.cpp:43`), so its CABInfo covers no record, and calcCABIndex
  moves forward from it and backward from its successor for ever.  `SearchEnds` is the part that holds, and the
  theorem `ShortCABs` says that only such CABs are affected.  In a collection the scan of such a column never
  returns (`SearchForever`): `StopsHaveCause` says that it hangs for no other reason, and `ScanEnds` speaks of scans of columns without
  such a CAB.
- **bit_vector_resume**: init2read swaps the arguments of calcAlignBegin; after a reload append may clear a
  word that already holds elements.  `KeptIfWordAligned` is the part that holds.
- **collection_late**: init2append never restores the root counter, so a column that first appears in a later
  session is stored as if the collection began with that session.  `FoundersHoldInput` is the part that holds.
- **catalog_drop**: dropTable removes files that do not exist (`.cab` is missing in their names) and keeps the tree
  in the map; parse, drop and create a table in one process and the old records are back.
  `OnlyStaleTreesInherit` is the part that holds.
- **record_input_mix**: when insert_parser refuses a text, its JSONBinTree is not cleared; the next text inserted is
  parsed into the same tree, and its record has the fields of both.  `MixOnlyAfterRejection` is the part that holds.

Seen, but named as a cause and not stated as a property of its own: appending to a column whose tail CAB takes more than 4096 bytes copies it to a null pointer
(`store/CABAppender.cpp:110-112`, modelled as `OpenAppendTailFails` of ColumnFile and `"died"` of Collection), and a crash in an
append session may leave the tail CAB it reopened unreadable (`store/CABAppender.cpp:137`, session `"damaged"` of ColumnFile, `Damaged` of
Collection).  `FoundersHoldInput` says that no more than this tail is lost, and `StopsHaveCause` lists both.
parseAll dies unless the number of lines is a multiple of the batch; a line longer than the buffer is cut and its
rest, which is no object, ends the process; so does a text that breaks off inside a value; a syntax error nested in a
value is dropped (`parse/JSONRecordNaiveParser.cpp`, parseValue).  `StopsHaveCauses` lists these causes of death.

What a session promises ends where calls cross it.  Two parsers open on one table share a tree, but a leaf one of them adds has no writer
in the other, whose next record dereferences none (`InsertFails`); and the CABInfos that the second writes when it is closed are those of
the file as it was when it was opened, so the records of the first are lost.  A drop or a parse_file while a session
is open ends likewise.  The properties of Catalog therefore speak of tables that are not in `crossed`, but
`MapMatchesFile` needs no such exception: the last session to close leaves the tree it shared in the file.

A query for an object, or for an array of objects, is refused although its leaves have been looked up: parseSubTree returns 0
(`assemble/ColumnExpressionParser.cpp:132`), which ColumnAssembler::init takes for a column that was not found
(`assemble/ColumnAssembler.cpp:50`; `ColumnExpressionParser.h` says "1 success; 0 got nothing").  Only where a leaf has the
same name as the object is the query accepted, and then it includes all leaves of the object.  `GotNum` and `RefuseQuery` are this
behaviour; `AssemblesWhatWasParsed` speaks of the queries that are accepted.

A row longer than the room that is kept for one (`recd_max_len`) is written to a null position: rows are allocated without growing the
buffer, and init ignores the result (`store/RowStructBuilder_inline.h:50-56`).  `StopsHaveCause` says that
nothing but this, a torn close and a damaged tail breaks a scan off.  With a first capacity below recd_max_len (both are read from the configuration file) every scan would end at once with no
record; `ConstantsAssumption` of Collection excludes this.

Numbers with a fraction are printed with six decimals ("%lf", `base/DataType.cpp:59`), so a number does not always come back as it
was written; the modules do not look inside values.

Nested records come back as they were parsed with these exceptions, which `Regular` excludes from the properties of
Assembly.  A name given twice in one object writes two items with the same levels, and columns no longer agree; at
the top of a record the second counts as a new record.  A matrix stored at a node that also has other children (the
same field was an array of objects in another record) gives those children one null for all its inner arrays
(`parse/ColumnItemGenerator.cpp:179`); a query for both kinds of columns silently loses inner arrays, or asks the
other column for an item behind the record, where a build with assertions ends at
`assemble/ColumnAssembler.cpp:130`.  And a leaf that a record creates behind elements of two levels: alignColumnWriter
(`parse/CollectionWriter.cpp:95-130`) knows how many elements there were on each level, not in which array, so all nulls of the inner level
follow the last one of the outer level, as if they were elements of that.  Behind elements of one level the column is aligned, which the properties include.  Within the properties, by the reference itself: a matrix comes back as an array
of objects with one field "0", its empty inner arrays are lost, and an array of mixed types (`[true,false]` is one) is an
object.

## 5. The proofs

Each theorem holds for all values of the constants that satisfy the assumptions of its module: any CAB capacity, batch,
buffer and word, any set of columns, tables, parsers, texts and values.  The assumptions say that sizes are positive where
the code divides by them or fills them, and that the value that stands for "no tree", "no session" or "no file" is none of the
values it is told apart from (`NoFileAssumption`, `NamesAssumption`); TLC evaluates them in the runs.  Every invariant of a passing
run is proved, except those of Assembly.

| module | what is proved | about |
|---|---|---|
| ColumnFileProofs | `TypeCorrect`, `Partition`, `ShortCABs`, `FinishedBlocks` (an action property) | TypeOK, CABsPartitionRecords, OnlyEmptyCABsAreShort, FinishedBlocksAreFinal |
| ColumnContentProofs | `Content`, `Counters`, `ClosedFiles`, `SealedCABs`, `Damage` | the inductive invariant; CountersMatchItems, ClosedFilesHoldLog, SealedCABsSurvive, DamageNeedsPartialTail |
| | `Refinement` | ImplementsColumnLog |
| ColumnScanProofs | `ScanInvariance`, `ScanRefinesFile` | the inductive invariants of bytes, counts and reader; ColumnScan implements ColumnFile |
| | `ScanTypes`, `Blocks`, `Positions`, `EndOfColumn`, `ReadRecords` | ScanTypeOK, BlocksReadBack, PositionsAgree, EndIsReal, ReadsMatchLog |
| CatalogProofs | `Types`, `Invariance`, `MapIsSaved`, `SavedColumns`, `OnlyStaleInherit` | TypeOK, MapMatchesFile, SavedColumnsHaveFiles, OnlyStaleTreesInherit |
| CollectionProofs | `Invariance`, `Types`, `SchemaCovers`, `Causes`, `FoundersHold`, `ColumnsEndTogetherInSession`, `ScansMatch` | TypeOK, SchemaCoversFiles, StopsHaveCause, FoundersHoldInput, SessionColumnsEndTogether, ScanMatchesInput |
| RecordInputProofs | `Invariance`, `Types`, `ForeignFieldsWereRefused`, `LossIsBounded`, `CausesOfStops`, `OnlyLongLinesCut` | TypeOK, MixOnlyAfterRejection, LossStaysInBatch, StopsHaveCauses, CutsNeedLongLines |
| BitVectorProofs | `Invariance`, `Types`, `OthersUntouched`, `AppendsToClearBits`, `ElementsReadBack` | TypeOK, NeighboursUntouched, RoomIsClear, KeptIfWordAligned |

None of the invariants is inductive as it stands.  What each proof adds:

**The column file.**  `IInv` ties the open writer to the file it came from: the counters of the current CAB never exceed RecdCap
records, the CABInfo being written begins where the CAB does, and a reopened file's CABInfos are a prefix of the
writer's.  `OrderInv` adds that blocks lie in the file in the order of their CABInfos and that an open writer stands behind all
finished CABs, so that a step can only write at a position no finished CAB has.  `ContentInv` follows the items: the
counters of the open CAB are those of its items; decoding the CABInfos of the writer, or of the files, gives the log up to the open
CAB; and after a crash the tail that was being rewritten either still has the length the .info file tells, and is then
the one that was closed, or cannot be read.  That a flush stores what a reader will expect is where counters and items
meet: which arrays a block has is decided from the counters alone.

**The refinement.**  The mapping decodes the files, so every step of ColumnFile needs to be shown a step of ColumnLog, or a
stutter, about the decoded sequence.  `GroupInv` has what is missing for this: CABs begin where groups of RecdCap records
begin, the durable part is a prefix of the log, and a tail is overwritten at most once before the file is damaged.  The
concatenation of blocks is a recursive function; that it exists, is unique, and grows by one block is proved first.

**The bytes of a block.**  `WInv` says of every block on disk, and of the units of the open CAB, that their cells code the items:
the packed levels, behind them for each item a slot or an offset, behind these the values.  Levels are read back because the bits of
a number below 2^n determine it, and because position i * width lies in the byte the reader computes (`LevelRead`).  What needs
the invariant is that units can be put together: every unit but the last is full, its capacity a multiple of the bits of a byte, so its levels
end on a byte and the next unit's may follow (`MergedLevels`), and the offsets of a unit count from the values of the
units before it.  That a block without values is not read as one that has them is again the meeting of counters and items.
A reloaded tail is a unit that holds what is read of the block (`CopyHolds`), so appends go on with it.

**The reader.**  A request is answered by record numbers in CABInfos, so `CountInv` says what these numbers are: a CAB
that was stored is followed by one that begins at its end; one that was not stored keeps counters taken before it was full, and is
trivial, so the records it leaves uncounted are nulls that a reader may skip.  With it the log is a sequence of blocks, each with the
number of the record it begins with (`FileLayout`), and the last one ends where the log ends (`FileEnd`, which needs `GroupInv`).
`ReaderInv` places the reader in this sequence: in each phase, which CAB is loaded, how many records begin before its item, and in the middle of a
record, that what was read is the part of that record so far.  recd_idx counts a record when its last item is read, so inside a
record it is one less than the number of records begun (`Inside`).  ReadsMatchLog then follows at the end of a record from the
record's place in the log.  A CAB whose CABInfo counts no records, on which the search never ends (section 4), is never loaded: of its
records ReadsMatchLog says nothing, since none is returned.

**The scan implements the files.**  A step of ColumnScan is one of ColumnFile together with its bytes, or leaves all variables of ColumnFile
alone (`ScanRefinesFile`), so what ColumnFileProofs and ColumnContentProofs prove holds while readers come and go.

**The catalog.**  A table's map entry, its file and its columns disagree while a session is open, since the session changes the
tree it shares and saves it when it is closed.  `TableInv` follows each session: which tree it has, that sessions
of a table that was not crossed share one (`OneTree`), what its writers found and what they will leave behind, and that a stale
tree is the only other way to old records.  It speaks of one table; lemma `Frame` is that calls about other tables leave it alone, so the
one table of the run stands for any number.

**The collection.**  For each phase (a batch in the text buffers, a session half closed, a scan) the invariant says where the items of a
column are, and that files, writers and buffers together hold the items of the first n records (`Kept`); a column in files
may have lost the items of its tail CAB (`KeptButTail`), but a session only ever opens one that has not, so what it writes is whole again.
`SoundInv` is what holds of every column whatever was lost: it begins with a CAB, only items of its last, partly filled CAB are
garbage, and a record that no CABInfo counts means that it has a CAB of nulls with records behind it.  It goes through a close because
records are only added behind those of the files, so a CAB of nulls stays one (`Written` columns have no garbage).  For a scan it says
which columns are read next, which rows are buffered and how many were handed out, which is what relates the doubling of the row
buffer to the rows returned.

**The input.**  A record is made of whatever its tree holds, so the invariant follows the trees: empty between batches, in a
batch the i-th holds the fields of the i-th text, in insert_parser the one tree holds fields of texts refused since the last record.
With it goes an account of the texts: each is in a record, in the batch, or refused.  For the lines that are cut, it counts how often the
buffer was doubled: BufferCap * 2^n is no more than the capacity after n cuts, and parse_file finds the buffer empty.

**The bit vector.**  The invariant looks at single bits: those of an element are the bits of its value, the room is
clear, and next_64bit is a multiple of the word no smaller than the bits used.  The last part is what Resume loses when the number of bits
does not divide a word.  That getByBit returns the value is an induction over the bits it has added up.

Induction.  The provers cannot instantiate an induction theorem that takes a predicate, so NatInduction proves it for a
set of numbers (`SetInduction`, `InductionUpTo`), from the well-foundedness of < in the library: a proof by induction names the
set of the numbers for which its formula holds.  What the provers do not know of 2^n comes from the number of subsets of a set (`Powers`).

Only model-checked are: liveness (`ScanEnds`, `SearchEnds`), since the prover handles neither fairness nor ENABLED; and Assembly, which
uses RECURSIVE operators over nested records (Shredding, RecordBuilder), which the prover cannot expand.  What these operators compute for
every record would be an induction over the record, which is out of its reach as well.

## 6. Not modelled

- The text of JSON and of values, type conversion and comparison: string handling without state.
- Compression, which the writers never switch on.
- The minimum and maximum of a CAB (`ColumnValueInfo`): the one function that reads them back (`store/CABReader_inline.h`, candByValueInfo) is compiled out.
- The bytes of the SchemaTree file, and of the footer of a column file beyond its counters.
- make_clean, which removes the whole store, and the Python binding, a wrapper around calls that are modelled.
- Resuming a row that was packaged (`RowObjectOperator::init2append`) and lookupID: not called by the engine.
- parse_file and open_parser of a table that was never created, or whose database was dropped: ColumnParser::init
  makes an empty tree for it and goes on (`parse/ColumnParser.cpp:48-57`); Catalog's calls need the table's directory.
- Asking a ColumnAssembler for records again after it has returned none.
- What is left of a table after undefined behaviour, and the order in which a file system makes writes durable.
- Several nested records in one collection: Collection has flat leaves, Assembly one record.

## 7. Plan

Written first were the column files with their proofs, then readers, collections, the catalog, input, nested
records; then the bytes of blocks and rows, late columns inside arrays, sessions among other calls, the row buffer and the
columns of a query.  To come:

1. Several nested records in one collection: Shredding's counters with Collection's batches and sessions.
2. The SchemaTree file: saving and loading nodes by name, type and category.
3. Shredding's counters as functions over the sequence of a record's elements, so that the alignment of columns can be proved
   for records of any size.
