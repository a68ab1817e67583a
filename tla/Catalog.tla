------------------------------ MODULE Catalog ------------------------------
(***************************************************************************)
(* Databases and tables: what the calls of steed.h that create and drop    *)
(* them do to the directories, to the SchemaTree files and to the          *)
(* process-wide SchemaTreeMap, and what parsing and assembling then find.  *)
(*                                                                         *)
(* There is one database.  A SchemaTree is the set of its leaf columns.    *)
(* parse_file is one call here (it opens, parses and closes); a session of *)
(* open_parser, insert_parser and close_parser is three, with other calls  *)
(* in between.  Module Collection looks inside.  Every creation of a table *)
(* begins a new generation of it, and a column file remembers the          *)
(* generations whose records it holds.                                     *)
(*                                                                         *)
(* SchemaTrees are objects: a parser and the map may share one, until the  *)
(* map takes another for the table.  The objects of a table are numbered,  *)
(* and the number of one that nobody uses is taken again.                  *)
(***************************************************************************)
EXTENDS Integers, FiniteSets

CONSTANTS
  Tables,
  Columns,    \* names of leaf columns
  Parsers,    \* names for the parsers open at a time
  NoTree,     \* no SchemaTree
  None,       \* no session, no writer
  Unlinked,   \* a writer whose file has been removed
  MaxCreates  \* bound: creations of a table; see also RoomToOverlap

ASSUME ConstantsAssumption ==
  IsFiniteSet(Parsers) /\ MaxCreates \in Nat

VARIABLES
  process,     \* "up", "ended", or "undefined" after undefined behaviour
  db_dir,      \* the database directory exists
  data_dir,    \* tables that have a directory for their columns
  schema_file, \* the SchemaTree saved for each table
  map,         \* SchemaTreeMap::s_map: the number of a tree, or NoTree
  tree,        \* the trees of each table
  parser,      \* the sessions
  col_files,   \* generations in each column's files; none, if there are no files
  gen,         \* history: creations of each table
  stale,       \* history: tables dropped by this process or its database
  inherited,   \* history: tables parsed into while stale
  crossed      \* history: tables created, dropped or parsed into by another call
               \* while a session was open

disk     == <<db_dir, data_dir, schema_file, col_files>>
memory   == <<process, map, tree, parser>>
history  == <<gen, stale, inherited, crossed>>
vars     == <<disk, memory, history>>

TreeIds  == 0..Cardinality(Parsers)
Trees    == (SUBSET Columns) \cup {NoTree}
Contents == SUBSET (0..MaxCreates)

Session == [table : Tables, tree : TreeIds, gens : Contents,
            files : [Columns -> Contents \cup {None, Unlinked}]]

\* A name for nothing is the name of something else nowhere.
ASSUME NamesAssumption ==
  /\ NoTree \notin TreeIds /\ \A cs \in SUBSET Columns : cs # NoTree
  /\ None \notin Session
  /\ None # Unlinked /\ \A gs \in Contents : gs \notin {None, Unlinked}

NoFiles == [c \in Columns |-> {}]
NoTrees == [t \in Tables |-> [k \in TreeIds |-> {}]]

Init ==
  /\ process = "up"
  /\ db_dir = FALSE /\ data_dir = {}
  /\ schema_file = [t \in Tables |-> NoTree]
  /\ map = [t \in Tables |-> NoTree]
  /\ tree = NoTrees
  /\ parser = [p \in Parsers |-> None]
  /\ col_files = [t \in Tables |-> NoFiles]
  /\ gen = [t \in Tables |-> 0]
  /\ stale = {} /\ inherited = {} /\ crossed = {}

Call == process = "up"

Sessions(t) == {p \in Parsers : parser[p] # None /\ parser[p].table = t}
Busy        == {t \in Tables : Sessions(t) # {}}

\* A call about t that is none of an open session's.
Crossing(t) == crossed' = IF t \in Busy THEN crossed \cup {t} ELSE crossed

\* A number for another tree of t, when the map gives up the one it has.
NewId(t) ==
  LET free == TreeIds \ {parser[p].tree : p \in Sessions(t)}
  IN  CHOOSE k \in free : \A j \in free : k <= j

\* SchemaTreeMap::getDefinedTree: NoTree when it returns 0.
GetDefinedTree(t) == IF map[t] # NoTree THEN tree[t][map[t]] ELSE schema_file[t]

\* The tree a parser begins with, an empty one if there is none.
Tree(t) == IF GetDefinedTree(t) = NoTree THEN {} ELSE GetDefinedTree(t)

\* The tree of t with the leaves cs, in the map.
PutTree(t, k, cs) ==
  /\ map' = [map EXCEPT ![t] = k]
  /\ tree' = [tree EXCEPT ![t] =
       [j \in TreeIds |-> IF j = k THEN cs
                          ELSE IF \E p \in Sessions(t) : parser[p].tree = j THEN tree[t][j] ELSE {}]]

MapId(t) == IF map[t] # NoTree THEN map[t] ELSE NewId(t)

HaveFiles(t, cs) == \A c \in cs : col_files[t][c] # {}

-----------------------------------------------------------------------------
\* createDatabase
CreateDatabase ==
  /\ Call /\ ~db_dir
  /\ db_dir' = TRUE
  /\ UNCHANGED <<data_dir, schema_file, col_files, memory, history>>

\* dropDatabase, when the directories in dirs are left.
RemoveDatabase(dirs) ==
  /\ Call /\ db_dir
  /\ db_dir' = FALSE
  /\ data_dir' = dirs
  /\ schema_file' = [t \in Tables |-> NoTree]
  /\ col_files' = [t \in Tables |-> NoFiles]
  /\ parser' = [p \in Parsers |->
       IF parser[p] = None THEN None
       ELSE [parser[p] EXCEPT !.files = [c \in Columns |-> IF @[c] = None THEN None ELSE Unlinked]]]
  /\ stale' = stale \cup {t \in Tables : map[t] # NoTree}
  /\ crossed' = Busy
  /\ UNCHANGED <<process, map, tree, gen, inherited>>

\* Mutant of DropDatabase: the directories of its tables stay.
MutantTableDirsStay == RemoveDatabase(data_dir)

\* dropDatabase removes the directory with all that is in it; the trees of its
\* tables stay in the map, and open writers keep files without a name.
DropDatabase == RemoveDatabase({})

\* createTable saves an empty SchemaTree, unless the table has one.
CreateTable(t) ==
  /\ Call /\ db_dir
  /\ schema_file[t] = NoTree
  /\ gen[t] < MaxCreates
  /\ schema_file' = [schema_file EXCEPT ![t] = {}]
  /\ data_dir' = data_dir \cup {t}
  /\ gen' = [gen EXCEPT ![t] = @ + 1]
  /\ Crossing(t)
  /\ UNCHANGED <<db_dir, col_files, memory, stale, inherited>>

\* dropTable loads the tree into the map, unlinks a path and a path.info for
\* every leaf, and removes the SchemaTree file.  The files of a column are
\* named path.cab and path.cab.info: they stay.  An open session keeps the tree
\* it has.
DropTable(t) ==
  /\ Call /\ schema_file[t] # NoTree
  /\ PutTree(t, NewId(t), schema_file[t])
  /\ schema_file' = [schema_file EXCEPT ![t] = NoTree]
  /\ stale' = stale \cup {t}
  /\ Crossing(t)
  /\ UNCHANGED <<db_dir, data_dir, col_files, process, parser, gen, inherited>>

\* The memory of a process that has ended, or of which nothing can be said.
Forget ==
  /\ map' = [t \in Tables |-> NoTree]
  /\ tree' = NoTrees
  /\ parser' = [p \in Parsers |-> None]
  /\ stale' = {}

Undefined ==
  /\ process' = "undefined"
  /\ Forget
  /\ UNCHANGED <<disk, gen, inherited, crossed>>

-----------------------------------------------------------------------------
(* Parsing.  The writers of known columns append, those of new ones        *)
(* truncate their files at once; records and CABInfos are there when the   *)
(* writer is closed.                                                       *)

Inheriting(t) == inherited' = IF t \in stale THEN inherited \cup {t} ELSE inherited

\* parse_file, when old holds what the writer of a new column finds.  (Of tables that
\* have a directory only: ColumnParser::init would go on with an empty tree for one
\* that was never created, or whose database is gone.)
ParseInto(t, cs, old) ==
  /\ Call /\ t \in data_dir
  /\ HaveFiles(t, Tree(t))
  /\ PutTree(t, MapId(t), Tree(t) \cup cs)
  /\ schema_file' = [schema_file EXCEPT ![t] = Tree(t) \cup cs]
  /\ col_files' = [col_files EXCEPT ![t] =
       [c \in Columns |-> IF c \in Tree(t) THEN col_files[t][c] \cup {gen[t]}
                          ELSE IF c \in cs THEN old[c] \cup {gen[t]}
                          ELSE col_files[t][c]]]
  /\ Inheriting(t) /\ Crossing(t)
  /\ UNCHANGED <<process, parser, db_dir, data_dir, gen, stale>>

\* Mutant of ParseFile: a new column does not truncate the files it finds.
MutantNotTruncated(t, cs) == ParseInto(t, cs, col_files[t])

\* parse_file, on a file in whose records the columns cs appear.
ParseFile(t, cs) == ParseInto(t, cs, NoFiles)

\* Bound: a session is opened beside another one only before the last creation.
RoomToOverlap(t) == t \in Busy => gen[t] < MaxCreates

\* open_parser: the session has the tree of the map, and a writer for each of
\* its columns, which knows what is in the files now.
OpenParser(p, t) ==
  /\ Call /\ parser[p] = None /\ t \in data_dir /\ RoomToOverlap(t)
  /\ HaveFiles(t, Tree(t))
  /\ PutTree(t, MapId(t), Tree(t))
  /\ parser' = [parser EXCEPT ![p] =
       [table |-> t, tree |-> MapId(t), gens |-> {},
        files |-> [c \in Columns |-> IF c \in Tree(t) THEN col_files[t][c] ELSE None]]]
  /\ Crossing(t)
  /\ UNCHANGED <<process, disk, gen, stale, inherited>>

\* The writers of known columns cannot be opened (no file, no tail CABInfo), or
\* what they read has been overwritten by another session.
OpenFails(t) ==
  /\ Call /\ t \in data_dir
  /\ ~HaveFiles(t, Tree(t)) \/ (t \in crossed /\ Tree(t) # {})
  /\ Undefined

TreeOf(s) == tree[s.table][s.tree]

\* insert_parser of a record that brings the columns new, when saved is in the
\* SchemaTree file behind it.  Every column of the tree gets a value or a null.
InsertInto(p, new, saved) ==
  LET s == parser[p] IN
  /\ Call /\ s # None
  /\ new \cap TreeOf(s) = {} /\ (new # {} => s.table \in data_dir)
  /\ \A c \in TreeOf(s) : s.files[c] # None
  /\ tree' = [tree EXCEPT ![s.table][s.tree] = @ \cup new]
  /\ parser' = [parser EXCEPT
       ![p].gens = @ \cup {gen[s.table]},
       ![p].files = [c \in Columns |-> IF c \in new THEN {} ELSE @[c]]]
  /\ schema_file' = [schema_file EXCEPT ![s.table] = saved]
  /\ col_files' = [col_files EXCEPT ![s.table] =
       [c \in Columns |-> IF c \in new THEN {} ELSE @[c]]]
  /\ UNCHANGED <<process, db_dir, data_dir, map, history>>

\* Mutant of InsertParser: the SchemaTree is saved as soon as it has a new column.
MutantSavedAtOnce(p, new) ==
  parser[p] # None /\ InsertInto(p, new, TreeOf(parser[p]) \cup new)

InsertParser(p, new) ==
  parser[p] # None /\ InsertInto(p, new, schema_file[parser[p].table])

\* A column that another session has added to the tree has no writer in this
\* one; a new column finds no directory.
InsertFails(p) ==
  /\ Call /\ parser[p] # None
  /\ \/ \E c \in TreeOf(parser[p]) : parser[p].files[c] = None
     \/ parser[p].table \notin data_dir /\ TreeOf(parser[p]) # Columns
  /\ Undefined

\* close_parser, when saved is the SchemaTree saved.  The writers know nothing of
\* what others have written since they were opened.
CloseInto(p, saved) ==
  LET s == parser[p] IN
  /\ Call /\ db_dir
  /\ schema_file' = [schema_file EXCEPT ![s.table] = saved]
  /\ col_files' = [col_files EXCEPT ![s.table] =
       [c \in Columns |-> IF s.files[c] \in {None, Unlinked} THEN @[c] ELSE s.files[c] \cup s.gens]]
  /\ parser' = [parser EXCEPT ![p] = None]
  /\ tree' = IF s.tree = map[s.table] \/ \E q \in Sessions(s.table) \ {p} : parser[q].tree = s.tree
             THEN tree ELSE [tree EXCEPT ![s.table][s.tree] = {}]
  /\ Inheriting(s.table)
  /\ UNCHANGED <<process, map, db_dir, data_dir, gen, stale, crossed>>

\* Mutant of CloseParser: the SchemaTree is not saved.
MutantTreeNotSaved(p) == parser[p] # None /\ CloseInto(p, schema_file[parser[p].table])

CloseParser(p) == parser[p] # None /\ CloseInto(p, TreeOf(parser[p]))

\* The SchemaTree cannot be saved: the destructor ends the process.
CloseExits(p) ==
  /\ Call /\ parser[p] # None /\ ~db_dir
  /\ process' = "ended"
  /\ Forget
  /\ UNCHANGED <<disk, gen, inherited, crossed>>

-----------------------------------------------------------------------------
\* ColumnAssembler::init returns 0, a success for its callers, when the table
\* has no tree, and ignores readers that found no files; getNext uses them.  A
\* reader may also find a tail CAB half replaced by an open session.
AssembleFails(t) ==
  /\ Call
  /\ \/ GetDefinedTree(t) = NoTree
     \/ ~HaveFiles(t, Tree(t))
     \/ t \in Busy \cup crossed /\ Tree(t) # {}
  /\ Undefined

\* Otherwise it only brings the tree into the map.
Assemble(t) ==
  /\ Call
  /\ GetDefinedTree(t) # NoTree /\ HaveFiles(t, Tree(t))
  /\ PutTree(t, MapId(t), Tree(t))
  /\ UNCHANGED <<process, parser, disk, history>>

\* The end of the process, or uninit, which leaves the map empty.
Restart ==
  /\ process' = "up"
  /\ Forget
  /\ UNCHANGED <<disk, gen, inherited, crossed>>

Next ==
  \/ CreateDatabase
  \/ DropDatabase
  \/ Restart
  \/ \E t \in Tables :
       \/ CreateTable(t)
       \/ DropTable(t)
       \/ \E cs \in SUBSET Columns : ParseFile(t, cs)
       \/ OpenFails(t)
       \/ Assemble(t)
       \/ AssembleFails(t)
  \/ \E p \in Parsers :
       \/ \E t \in Tables : OpenParser(p, t)
       \/ \E cs \in SUBSET Columns : InsertParser(p, cs)
       \/ InsertFails(p)
       \/ CloseParser(p)
       \/ CloseExits(p)

Spec == Init /\ [][Next]_vars

-----------------------------------------------------------------------------
(* Properties.                                                             *)

\* The variables have the types of the fields they stand for; a table's
\* directory lies in that of the database; a tree that nobody uses is empty.
TypeOK ==
  /\ process \in {"up", "ended", "undefined"}
  /\ db_dir \in BOOLEAN /\ data_dir \subseteq (IF db_dir THEN Tables ELSE {})
  /\ schema_file \in [Tables -> Trees] /\ map \in [Tables -> TreeIds \cup {NoTree}]
  /\ tree \in [Tables -> [TreeIds -> SUBSET Columns]]
  /\ \A t \in Tables, k \in TreeIds :
       tree[t][k] # {} => map[t] = k \/ \E p \in Sessions(t) : parser[p].tree = k
  /\ parser \in [Parsers -> Session \cup {None}]
  /\ col_files \in [Tables -> [Columns -> Contents]]
  /\ gen \in [Tables -> 0..MaxCreates]
  /\ stale \subseteq Tables /\ inherited \subseteq Tables /\ crossed \subseteq Tables

\* The records of a dropped table can come back in a table created later only
\* when it was parsed into by the process that had dropped it, or calls crossed a
\* session; otherwise what is parsed into a table is in its columns.
OnlyStaleTreesInherit ==
  \A t \in Tables \ (stale \cup inherited \cup crossed \cup Busy) :
    GetDefinedTree(t) # NoTree =>
      \A c \in GetDefinedTree(t) : col_files[t][c] = {gen[t]}

\* A tree in the map that no drop has made stale is the saved one, when no
\* session is open: also when several were, as they share it.
MapMatchesFile ==
  \A t \in Tables \ (stale \cup Busy) :
    map[t] # NoTree => tree[t][map[t]] = schema_file[t]

\* Every column a saved SchemaTree names has its files, dropped before or not,
\* with a session open or abandoned: a table can be appended to after a restart.
\* The tree that one of several sessions saves names columns of the others.
SavedColumnsHaveFiles ==
  \A t \in Tables \ crossed : schema_file[t] # NoTree => HaveFiles(t, schema_file[t])

\* steed.cpp:105,131: createTable saves an empty SchemaTree and dropTable deletes
\* the column files, so what is found of a table are records parsed into it
\* since it was created, never those of a dropped table of its name.
TablesHoldTheirOwn ==
  \A t \in Tables :
    GetDefinedTree(t) # NoTree =>
      \A c \in GetDefinedTree(t) : col_files[t][c] \subseteq {gen[t]}

=============================================================================
