--------------------------- MODULE CatalogProofs ---------------------------
(***************************************************************************)
(* Theorems about databases and tables (module Catalog), for any tables,   *)
(* columns and parsers.                                                    *)
(*                                                                         *)
(* Neither the tree in the map being the saved one nor saved columns       *)
(* having files is kept by every step: a session changes the tree it       *)
(* shares with the map, and saves it when it is closed.  The invariant     *)
(* follows a session from one end to the other: which tree it has, what    *)
(* its writers have found, and what they will leave behind.  It speaks of  *)
(* one table, and calls about others do not touch it (lemma Frame).        *)
(***************************************************************************)
EXTENDS Catalog, FiniteSetTheorems, NatInduction

-----------------------------------------------------------------------------
(* Numbers for trees, and what the map gives.                              *)

\* There are more numbers than parsers, so one is always free: the map can take
\* another tree for a table whatever the sessions hold.
LEMMA NewIdIsFree ==
  ASSUME NEW t \in Tables, TypeOK
  PROVE  NewId(t) \in TreeIds \ {parser[p].tree : p \in Sessions(t)}
<1> DEFINE used == {parser[p].tree : p \in Sessions(t)}
           free == TreeIds \ used
           f    == [p \in Sessions(t) |-> parser[p].tree]
<1>1. IsFiniteSet(Sessions(t)) /\ Cardinality(Sessions(t)) <= Cardinality(Parsers)
  <2>1. Sessions(t) \in SUBSET Parsers
    BY DEF Sessions
  <2> QED BY <2>1, ConstantsAssumption, FS_Subset
<1>2. f \in Surjection(Sessions(t), used)
  BY DEF Surjection
<1>3. IsFiniteSet(used) /\ Cardinality(used) <= Cardinality(Sessions(t))
  <2> HIDE DEF f, used
  <2> QED BY <1>1, <1>2, FS_Surjection
<1>4. /\ Cardinality(Parsers) \in Nat /\ Cardinality(Sessions(t)) \in Nat
      /\ Cardinality(used) \in Nat
  <2> HIDE DEF used
  <2> QED BY <1>1, <1>3, ConstantsAssumption, FS_CardinalityType
<1>5. IsFiniteSet(TreeIds) /\ Cardinality(TreeIds) = Cardinality(Parsers) + 1
  <2>1. 0 \in Int /\ Cardinality(Parsers) \in Int
    BY <1>4
  <2>2. /\ IsFiniteSet(0..Cardinality(Parsers))
        /\ Cardinality(0..Cardinality(Parsers)) =
             IF 0 > Cardinality(Parsers) THEN 0 ELSE Cardinality(Parsers) - 0 + 1
    BY <2>1, FS_Interval
  <2> QED BY <1>4, <2>2 DEF TreeIds
<1>6. free # {}
  <2>1. SUFFICES ASSUME TreeIds \subseteq used PROVE FALSE
    OBVIOUS
  <2> HIDE DEF used
  <2>2. Cardinality(TreeIds) <= Cardinality(used)
    BY <1>3, <2>1, FS_Subset
  <2> QED BY <1>1, <1>3, <1>4, <1>5, <2>2
<1>7. free \in SUBSET Nat
  BY DEF TreeIds
<1>8. \E k \in free : \A j \in free : k <= j
  <2> HIDE DEF free
  <2> QED BY <1>6, <1>7, LeastNumber
<1> QED BY <1>8 DEF NewId

\* The map and the files give a set of columns or nothing.
LEMMA TreeType ==
  ASSUME NEW t \in Tables, TypeOK
  PROVE  /\ GetDefinedTree(t) \in Trees
         /\ Tree(t) \in SUBSET Columns
         /\ MapId(t) \in TreeIds
<1>1. GetDefinedTree(t) \in Trees
  BY DEF TypeOK, GetDefinedTree, Trees
<1>2. MapId(t) \in TreeIds
  BY NewIdIsFree DEF TypeOK, MapId
<1> QED BY <1>1, <1>2 DEF Tree, Trees

\* What the map gives for a table once it has its tree there: the tree it began
\* with, and no tree of the sessions has been taken from them.
LEMMA PutTreeEffect ==
  ASSUME NEW t \in Tables, NEW k \in TreeIds, NEW cs \in SUBSET Columns,
         TypeOK, PutTree(t, k, cs)
  PROVE  /\ map' \in [Tables -> TreeIds \cup {NoTree}]
         /\ tree' \in [Tables -> [TreeIds -> SUBSET Columns]]
         /\ map'[t] = k /\ tree'[t][k] = cs
         /\ \A u \in Tables \ {t} : map'[u] = map[u] /\ tree'[u] = tree[u]
         /\ \A j \in TreeIds \ {k} :
              tree'[t][j] = IF \E p \in Sessions(t) : parser[p].tree = j THEN tree[t][j] ELSE {}
  BY DEF TypeOK, PutTree

-----------------------------------------------------------------------------
(* Types, and the trees that are in use.                                   *)

\* What a table has when a call puts a tree into the map, and leaves the
\* sessions as they are or opens one with that tree.
LEMMA PutTreeKeepsInUse ==
  ASSUME NEW t \in Tables, NEW k \in TreeIds, NEW cs \in SUBSET Columns,
         TypeOK, PutTree(t, k, cs),
         \A u \in Tables : \A p \in Sessions(u) : p \in Sessions(u)' /\ parser'[p].tree = parser[p].tree
  PROVE  \A u \in Tables, j \in TreeIds :
           tree'[u][j] # {} => map'[u] = j \/ \E p \in Sessions(u)' : parser'[p].tree = j
<1> SUFFICES ASSUME NEW u \in Tables, NEW j \in TreeIds, tree'[u][j] # {}, map'[u] # j
             PROVE  \E p \in Sessions(u)' : parser'[p].tree = j
  OBVIOUS
<1>1. \E p \in Sessions(u) : parser[p].tree = j
  <2>1. CASE u = t
    BY <2>1, PutTreeEffect
  <2>2. CASE u # t
    <3>1. tree[u][j] # {} /\ map[u] # j
      BY <2>2, PutTreeEffect
    <3> QED BY <3>1 DEF TypeOK
  <2> QED BY <2>1, <2>2
<1> QED BY <1>1

\* The state at the start.
LEMMA InitType == Init => TypeOK
<1> SUFFICES ASSUME Init PROVE TypeOK
  OBVIOUS
<1>1. tree \in [Tables -> [TreeIds -> SUBSET Columns]] /\ \A t \in Tables, k \in TreeIds : tree[t][k] = {}
  BY DEF Init, NoTrees
<1>2. col_files \in [Tables -> [Columns -> Contents]]
  BY DEF Init, NoFiles, Contents
<1>3. gen \in [Tables -> 0..MaxCreates]
  BY ConstantsAssumption DEF Init
<1>4. schema_file \in [Tables -> Trees] /\ map \in [Tables -> TreeIds \cup {NoTree}]
  BY DEF Init, Trees
<1>5. parser \in [Parsers -> Session \cup {None}]
  BY DEF Init
<1> QED BY <1>1, <1>2, <1>3, <1>4, <1>5 DEF Init, TypeOK

\* The calls on the database.
LEMMA DatabaseCallsType ==
  ASSUME TypeOK, CreateDatabase \/ DropDatabase
  PROVE  TypeOK'
<1> USE DEF disk, memory, history
<1>1. CASE CreateDatabase
  <2>1. /\ db_dir' \in BOOLEAN /\ data_dir' \subseteq (IF db_dir' THEN Tables ELSE {})
        /\ UNCHANGED <<process, schema_file, map, tree, parser, col_files, gen, stale, inherited, crossed>>
    BY <1>1 DEF CreateDatabase, TypeOK
  <2>2. \A u \in Tables : Sessions(u)' = Sessions(u)
    BY <2>1 DEF Sessions
  <2>3. \A u \in Tables, k \in TreeIds :
          tree'[u][k] # {} => map'[u] = k \/ \E p \in Sessions(u)' : parser'[p].tree = k
    BY <2>1, <2>2 DEF TypeOK
  <2> QED BY <2>1, <2>3 DEF TypeOK
<1>2. CASE DropDatabase
  <2>0. /\ parser' = [p \in Parsers |->
             IF parser[p] = None THEN None
             ELSE [parser[p] EXCEPT !.files = [c \in Columns |-> IF @[c] = None THEN None ELSE Unlinked]]]
        /\ UNCHANGED <<process, map, tree, gen, inherited>>
        /\ db_dir' = FALSE /\ data_dir' = {}
        /\ schema_file' = [u \in Tables |-> NoTree] /\ col_files' = [u \in Tables |-> NoFiles]
        /\ stale' = stale \cup {u \in Tables : map[u] # NoTree} /\ crossed' = Busy
    BY <1>2 DEF DropDatabase, RemoveDatabase
  <2>1. \A p \in Parsers : /\ parser'[p] \in Session \cup {None}
                           /\ parser'[p] = None <=> parser[p] = None
                           /\ parser[p] # None => /\ parser'[p].tree = parser[p].tree
                                                  /\ parser'[p].table = parser[p].table
    <3> TAKE p \in Parsers
    <3>1. CASE parser[p] = None
      BY <2>0, <3>1
    <3>2. CASE parser[p] # None
      <4>1. parser[p] \in Session
        BY <3>2 DEF TypeOK
      <4> DEFINE fs == [c \in Columns |-> IF parser[p].files[c] = None THEN None ELSE Unlinked]
      <4>2. fs \in [Columns -> Contents \cup {None, Unlinked}]
        OBVIOUS
      <4>3. parser'[p] = [parser[p] EXCEPT !.files = fs]
        BY <2>0, <3>2
      <4> HIDE DEF fs
      <4>4. /\ parser'[p] \in Session
            /\ parser'[p].tree = parser[p].tree /\ parser'[p].table = parser[p].table
        BY <4>1, <4>2, <4>3 DEF Session
      <4> QED BY <3>2, <4>4, NamesAssumption
    <3> QED BY <3>1, <3>2
  <2>2. parser' \in [Parsers -> Session \cup {None}]
    BY <2>0, <2>1
  <2>3. \A u \in Tables : Sessions(u)' = Sessions(u)
    BY <2>1 DEF Sessions
  <2>4. \A u \in Tables, k \in TreeIds :
          tree'[u][k] # {} => map'[u] = k \/ \E p \in Sessions(u)' : parser'[p].tree = k
    <3>1. tree' = tree /\ map' = map
      BY <2>0
    <3> SUFFICES ASSUME NEW u \in Tables, NEW k \in TreeIds, tree[u][k] # {}, map[u] # k
                 PROVE  \E p \in Sessions(u) : parser'[p].tree = k
      BY <2>3, <3>1
    <3>2. PICK p \in Sessions(u) : parser[p].tree = k
      BY DEF TypeOK
    <3> QED BY <2>1, <3>2 DEF Sessions
  <2>5. col_files' \in [Tables -> [Columns -> Contents]]
    BY <2>0 DEF NoFiles, Contents
  <2>6. schema_file' \in [Tables -> Trees]
    BY <2>0 DEF Trees
  <2> QED BY <2>0, <2>2, <2>4, <2>5, <2>6 DEF TypeOK, Busy
<1> QED BY <1>1, <1>2

\* The calls that create and drop a table.
LEMMA TableCallsType ==
  ASSUME TypeOK, NEW t \in Tables, CreateTable(t) \/ DropTable(t)
  PROVE  TypeOK'
<1> USE DEF disk, memory, history
<1>1. CASE CreateTable(t)
  <2>1. gen' \in [Tables -> 0..MaxCreates]
    BY <1>1, ConstantsAssumption DEF CreateTable, TypeOK
  <2>2. schema_file' \in [Tables -> Trees]
    BY <1>1 DEF CreateTable, TypeOK, Trees
  <2>3. crossed' \subseteq Tables
    BY <1>1 DEF CreateTable, Crossing, TypeOK
  <2> QED BY <1>1, <2>1, <2>2, <2>3 DEF CreateTable, TypeOK, Sessions
<1>2. CASE DropTable(t)
  <2> USE <1>2 DEF DropTable
  <2>1. NewId(t) \in TreeIds /\ schema_file[t] \in SUBSET Columns
    BY NewIdIsFree DEF TypeOK, Trees
  <2>2. /\ map' \in [Tables -> TreeIds \cup {NoTree}]
        /\ tree' \in [Tables -> [TreeIds -> SUBSET Columns]]
    BY <2>1, PutTreeEffect
  <2>3. \A u \in Tables : Sessions(u)' = Sessions(u)
    BY DEF Sessions
  <2>4. \A u \in Tables, j \in TreeIds :
          tree'[u][j] # {} => map'[u] = j \/ \E p \in Sessions(u)' : parser'[p].tree = j
    BY <2>1, <2>3, PutTreeKeepsInUse
  <2>5. schema_file' \in [Tables -> Trees]
    BY DEF TypeOK, Trees
  <2>6. crossed' \subseteq Tables /\ stale' \subseteq Tables
    BY DEF Crossing, TypeOK
  <2> QED BY <2>2, <2>4, <2>5, <2>6 DEF TypeOK
<1> QED BY <1>1, <1>2

\* A process that ends, or of which nothing can be said, forgets its sessions.
LEMMA ForgetType ==
  ASSUME TypeOK, Forget, process' \in {"up", "ended", "undefined"},
         UNCHANGED <<disk, gen, inherited, crossed>>
  PROVE  TypeOK'
<1>1. /\ tree' \in [Tables -> [TreeIds -> SUBSET Columns]]
      /\ \A t \in Tables, k \in TreeIds : tree'[t][k] = {}
  BY DEF Forget, NoTrees
<1>2. map' \in [Tables -> TreeIds \cup {NoTree}] /\ parser' \in [Parsers -> Session \cup {None}]
  BY DEF Forget
<1> QED BY <1>1, <1>2 DEF Forget, TypeOK, disk

-----------------------------------------------------------------------------
(* What the calls on sessions do, field by field.                          *)

\* parse_file of records with the columns cs: the tree has them, and the files
\* of all its columns hold this generation of the table.
LEMMA ParseEffect ==
  ASSUME TypeOK, NEW t \in Tables, NEW cs \in SUBSET Columns, ParseFile(t, cs)
  PROVE  /\ t \in data_dir /\ HaveFiles(t, Tree(t))
         /\ PutTree(t, MapId(t), Tree(t) \cup cs)
         /\ schema_file' \in [Tables -> Trees] /\ schema_file'[t] = Tree(t) \cup cs
         /\ col_files' \in [Tables -> [Columns -> Contents]]
         /\ \A c \in Columns : col_files'[t][c] =
              IF c \in Tree(t) THEN col_files[t][c] \cup {gen[t]}
              ELSE IF c \in cs THEN {gen[t]} ELSE col_files[t][c]
         /\ \A u \in Tables \ {t} : schema_file'[u] = schema_file[u] /\ col_files'[u] = col_files[u]
         /\ inherited' = IF t \in stale THEN inherited \cup {t} ELSE inherited
         /\ crossed' = IF t \in Busy THEN crossed \cup {t} ELSE crossed
         /\ UNCHANGED <<process, parser, db_dir, data_dir, gen, stale>>
<1> DEFINE new == [c \in Columns |-> IF c \in Tree(t) THEN col_files[t][c] \cup {gen[t]}
                                     ELSE IF c \in cs THEN NoFiles[c] \cup {gen[t]}
                                     ELSE col_files[t][c]]
<1>1. /\ t \in data_dir /\ HaveFiles(t, Tree(t))
      /\ PutTree(t, MapId(t), Tree(t) \cup cs)
      /\ schema_file' = [schema_file EXCEPT ![t] = Tree(t) \cup cs]
      /\ col_files' = [col_files EXCEPT ![t] = new]
      /\ inherited' = IF t \in stale THEN inherited \cup {t} ELSE inherited
      /\ crossed' = IF t \in Busy THEN crossed \cup {t} ELSE crossed
      /\ UNCHANGED <<process, parser, db_dir, data_dir, gen, stale>>
  BY DEF ParseFile, ParseInto, Inheriting, Crossing
<1>2. gen[t] \in 0..MaxCreates
  BY DEF TypeOK
<1>3. \A c \in Columns : new[c] =
        IF c \in Tree(t) THEN col_files[t][c] \cup {gen[t]}
        ELSE IF c \in cs THEN {gen[t]} ELSE col_files[t][c]
  BY DEF NoFiles
<1>4. new \in [Columns -> Contents]
  <2>1. \A c \in Columns : col_files[t][c] \in Contents
    BY DEF TypeOK
  <2>2. \A c \in Columns : new[c] \in Contents
    BY <1>2, <1>3, <2>1 DEF Contents
  <2>3. new = [c \in Columns |-> new[c]]
    OBVIOUS
  <2> HIDE DEF new
  <2> QED BY <2>2, <2>3
<1> HIDE DEF new
<1>5. /\ col_files' \in [Tables -> [Columns -> Contents]] /\ col_files'[t] = new
      /\ \A u \in Tables \ {t} : col_files'[u] = col_files[u]
  BY <1>1, <1>4 DEF TypeOK
<1>6. /\ schema_file' \in [Tables -> Trees] /\ schema_file'[t] = Tree(t) \cup cs
      /\ \A u \in Tables \ {t} : schema_file'[u] = schema_file[u]
  BY <1>1, TreeType DEF TypeOK, Trees
<1> QED BY <1>1, <1>3, <1>5, <1>6

\* open_parser: the session has the tree that is now in the map, and for each of
\* its columns a writer that knows what the files hold.
LEMMA OpenEffect ==
  ASSUME TypeOK, NEW t \in Tables, NEW p \in Parsers, OpenParser(p, t)
  PROVE  /\ parser[p] = None /\ t \in data_dir /\ HaveFiles(t, Tree(t))
         /\ PutTree(t, MapId(t), Tree(t))
         /\ parser' \in [Parsers -> Session \cup {None}]
         /\ parser'[p] \in Session
         /\ parser'[p].table = t /\ parser'[p].tree = MapId(t) /\ parser'[p].gens = {}
         /\ \A c \in Columns : parser'[p].files[c] = IF c \in Tree(t) THEN col_files[t][c] ELSE None
         /\ \A q \in Parsers \ {p} : parser'[q] = parser[q]
         /\ Sessions(t)' = Sessions(t) \cup {p}
         /\ \A u \in Tables \ {t} : Sessions(u)' = Sessions(u)
         /\ crossed' = IF t \in Busy THEN crossed \cup {t} ELSE crossed
         /\ UNCHANGED <<process, disk, gen, stale, inherited>>
<1> DEFINE fs == [c \in Columns |-> IF c \in Tree(t) THEN col_files[t][c] ELSE None]
           s  == [table |-> t, tree |-> MapId(t), gens |-> {}, files |-> fs]
<1>1. /\ parser[p] = None /\ t \in data_dir /\ HaveFiles(t, Tree(t))
      /\ PutTree(t, MapId(t), Tree(t))
      /\ parser' = [parser EXCEPT ![p] = s]
      /\ crossed' = IF t \in Busy THEN crossed \cup {t} ELSE crossed
      /\ UNCHANGED <<process, disk, gen, stale, inherited>>
  BY DEF OpenParser, Crossing
<1>2. fs \in [Columns -> Contents \cup {None, Unlinked}]
  BY DEF TypeOK
<1>3. s \in Session
  <2>1. {} \in Contents /\ MapId(t) \in TreeIds
    BY TreeType DEF Contents
  <2> HIDE DEF fs
  <2> QED BY <1>2, <2>1 DEF Session
<1>4. s.table = t /\ s.tree = MapId(t) /\ s.gens = {} /\ s.files = fs
  OBVIOUS
<1> HIDE DEF s
<1>5. /\ parser' \in [Parsers -> Session \cup {None}] /\ parser'[p] = s
      /\ \A q \in Parsers \ {p} : parser'[q] = parser[q]
  BY <1>1, <1>3 DEF TypeOK
<1>6. /\ Sessions(t)' = Sessions(t) \cup {p}
      /\ \A u \in Tables \ {t} : Sessions(u)' = Sessions(u)
  BY <1>1, <1>3, <1>4, <1>5, NamesAssumption DEF Sessions
<1> QED BY <1>1, <1>3, <1>4, <1>5, <1>6

\* What insert_parser of a record with new columns does, to table t.
InsertOutcome(p, new, t) ==
  /\ parser[p] \in Session /\ t \in Tables /\ p \in Sessions(t)
  /\ new \cap TreeOf(parser[p]) = {}
  /\ parser' \in [Parsers -> Session \cup {None}]
  /\ parser'[p] \in Session
  /\ parser'[p].table = t /\ parser'[p].tree = parser[p].tree
  /\ parser'[p].gens = parser[p].gens \cup {gen[t]}
  /\ \A c \in Columns : parser'[p].files[c] = IF c \in new THEN {} ELSE parser[p].files[c]
  /\ \A q \in Parsers \ {p} : parser'[q] = parser[q]
  /\ \A u \in Tables : Sessions(u)' = Sessions(u)
  /\ tree' \in [Tables -> [TreeIds -> SUBSET Columns]]
  /\ tree'[t][parser[p].tree] = TreeOf(parser[p]) \cup new
  /\ \A k \in TreeIds \ {parser[p].tree} : tree'[t][k] = tree[t][k]
  /\ col_files' \in [Tables -> [Columns -> Contents]]
  /\ \A c \in Columns : col_files'[t][c] = IF c \in new THEN {} ELSE col_files[t][c]
  /\ \A u \in Tables \ {t} : tree'[u] = tree[u] /\ col_files'[u] = col_files[u]
  /\ UNCHANGED <<process, db_dir, data_dir, map, schema_file, gen, stale, inherited, crossed>>

\* insert_parser of a record with the new columns: they are in the tree of the
\* session and have empty files, and this generation is in what it will write.
LEMMA InsertEffect ==
  ASSUME TypeOK, NEW p \in Parsers, NEW new \in SUBSET Columns, InsertParser(p, new),
         NEW t, t = parser[p].table
  PROVE  InsertOutcome(p, new, t)
<1> DEFINE s  == parser[p]
           gs == s.gens \cup {gen[t]}
           fs == [c \in Columns |-> IF c \in new THEN {} ELSE s.files[c]]
           cf == [c \in Columns |-> IF c \in new THEN {} ELSE col_files[t][c]]
<1>1. s # None /\ s \in Session
  BY DEF InsertParser, TypeOK
<1>2. t \in Tables /\ s.tree \in TreeIds
  BY <1>1 DEF Session
<1>3. /\ new \cap TreeOf(s) = {}
      /\ tree' = [tree EXCEPT ![t][s.tree] = @ \cup new]
      /\ parser' = [parser EXCEPT ![p].gens = gs, ![p].files = fs]
      /\ schema_file' = [schema_file EXCEPT ![t] = schema_file[t]]
      /\ col_files' = [col_files EXCEPT ![t] = cf]
      /\ UNCHANGED <<process, db_dir, data_dir, map, gen, stale, inherited, crossed>>
  BY <1>1 DEF InsertParser, InsertInto, history, TypeOK
<1>4. gs \in Contents /\ fs \in [Columns -> Contents \cup {None, Unlinked}]
  <2>1. gen[t] \in 0..MaxCreates /\ s.gens \in Contents /\ {} \in Contents
    BY <1>1, <1>2 DEF Session, Contents, TypeOK
  <2>2. s.files \in [Columns -> Contents \cup {None, Unlinked}]
    BY <1>1 DEF Session
  <2> QED BY <2>1, <2>2 DEF Contents
<1>5. cf \in [Columns -> Contents]
  BY <1>2 DEF TypeOK, Contents
<1>6. \A c \in Columns : /\ fs[c] = IF c \in new THEN {} ELSE s.files[c]
                         /\ cf[c] = IF c \in new THEN {} ELSE col_files[t][c]
  OBVIOUS
<1> HIDE DEF fs, cf, gs
<1>7. /\ parser'[p] \in Session /\ parser'[p].table = t /\ parser'[p].tree = s.tree
      /\ parser'[p].gens = gs /\ parser'[p].files = fs
      /\ parser' \in [Parsers -> Session \cup {None}]
      /\ \A q \in Parsers \ {p} : parser'[q] = parser[q]
  <2>1. parser'[p] = [s EXCEPT !.gens = gs, !.files = fs]
    BY <1>3 DEF TypeOK
  <2>2. /\ parser'[p] \in Session /\ parser'[p].table = t /\ parser'[p].tree = s.tree
        /\ parser'[p].gens = gs /\ parser'[p].files = fs
    BY <1>1, <1>4, <2>1 DEF Session
  <2>3. /\ parser' = [q \in Parsers |-> parser'[q]]
        /\ \A q \in Parsers \ {p} : parser'[q] = parser[q]
    BY <1>3 DEF TypeOK
  <2> QED BY <2>2, <2>3 DEF TypeOK
<1>8. \A u \in Tables : Sessions(u)' = Sessions(u)
  BY <1>1, <1>7, NamesAssumption DEF Sessions
<1>9. /\ tree' \in [Tables -> [TreeIds -> SUBSET Columns]]
      /\ tree'[t][s.tree] = TreeOf(s) \cup new
      /\ \A k \in TreeIds \ {s.tree} : tree'[t][k] = tree[t][k]
      /\ \A u \in Tables \ {t} : tree'[u] = tree[u]
  BY <1>2, <1>3 DEF TypeOK, TreeOf
<1>10. /\ col_files' \in [Tables -> [Columns -> Contents]]
       /\ col_files'[t] = cf
       /\ \A u \in Tables \ {t} : col_files'[u] = col_files[u]
  BY <1>2, <1>3, <1>5 DEF TypeOK
<1>11. schema_file' = schema_file
  BY <1>2, <1>3 DEF TypeOK
<1>12. p \in Sessions(t)
  BY <1>1 DEF Sessions
<1>13. /\ new \cap TreeOf(parser[p]) = {}
       /\ UNCHANGED <<process, db_dir, data_dir, map, schema_file, gen, stale, inherited, crossed>>
  BY <1>3, <1>11
<1>14. /\ parser'[p].gens = s.gens \cup {gen[t]}
       /\ \A c \in Columns : parser'[p].files[c] = IF c \in new THEN {} ELSE s.files[c]
       /\ \A c \in Columns : col_files'[t][c] = IF c \in new THEN {} ELSE col_files[t][c]
  BY <1>6, <1>7, <1>10 DEF gs
<1> QED BY <1>1, <1>2, <1>7, <1>8, <1>9, <1>10, <1>12, <1>13, <1>14 DEF InsertOutcome

\* What close_parser does, to table t.
CloseOutcome(p, t) ==
  /\ parser[p] \in Session /\ t \in Tables /\ p \in Sessions(t)
  /\ parser' \in [Parsers -> Session \cup {None}]
  /\ parser'[p] = None
  /\ \A q \in Parsers \ {p} : parser'[q] = parser[q]
  /\ Sessions(t)' = Sessions(t) \ {p}
  /\ \A u \in Tables \ {t} : Sessions(u)' = Sessions(u)
  /\ schema_file' \in [Tables -> Trees] /\ schema_file'[t] = TreeOf(parser[p])
  /\ col_files' \in [Tables -> [Columns -> Contents]]
  /\ \A c \in Columns : col_files'[t][c] =
       IF parser[p].files[c] \in {None, Unlinked} THEN col_files[t][c]
       ELSE parser[p].files[c] \cup parser[p].gens
  /\ tree' \in [Tables -> [TreeIds -> SUBSET Columns]]
  /\ \/ /\ parser[p].tree = map[t] \/ \E q \in Sessions(t) \ {p} : parser[q].tree = parser[p].tree
        /\ tree' = tree
     \/ parser[p].tree # map[t] /\ tree' = [tree EXCEPT ![t][parser[p].tree] = {}]
  /\ \A u \in Tables \ {t} : /\ schema_file'[u] = schema_file[u]
                             /\ col_files'[u] = col_files[u] /\ tree'[u] = tree[u]
  /\ inherited' = IF t \in stale THEN inherited \cup {t} ELSE inherited
  /\ UNCHANGED <<process, map, db_dir, data_dir, gen, stale, crossed>>

\* close_parser: the tree of the session is saved, its writers leave what they
\* have known and written, and a tree that nobody uses any more is given up.
LEMMA CloseEffect ==
  ASSUME TypeOK, NEW p \in Parsers, CloseParser(p), NEW t, t = parser[p].table
  PROVE  CloseOutcome(p, t)
<1> DEFINE s  == parser[p]
           cf == [c \in Columns |-> IF s.files[c] \in {None, Unlinked} THEN col_files[t][c]
                                    ELSE s.files[c] \cup s.gens]
<1>1. s # None /\ s \in Session
  BY DEF CloseParser, TypeOK
<1>2. t \in Tables /\ s.tree \in TreeIds
  BY <1>1 DEF Session
<1>3. /\ schema_file' = [schema_file EXCEPT ![t] = TreeOf(s)]
      /\ col_files' = [col_files EXCEPT ![t] = cf]
      /\ parser' = [parser EXCEPT ![p] = None]
      /\ tree' = IF s.tree = map[t] \/ \E q \in Sessions(t) \ {p} : parser[q].tree = s.tree
                 THEN tree ELSE [tree EXCEPT ![t][s.tree] = {}]
      /\ inherited' = IF t \in stale THEN inherited \cup {t} ELSE inherited
      /\ UNCHANGED <<process, map, db_dir, data_dir, gen, stale, crossed>>
  BY <1>1, <1>2 DEF CloseParser, CloseInto, Inheriting, TypeOK
<1>4. cf \in [Columns -> Contents]
  <2>1. /\ s.files \in [Columns -> Contents \cup {None, Unlinked}] /\ s.gens \in Contents
        /\ col_files[t] \in [Columns -> Contents]
    BY <1>1, <1>2 DEF Session, TypeOK
  <2>2. \A x, y \in Contents : x \cup y \in Contents
    BY DEF Contents
  <2>3. \A c \in Columns : cf[c] \in Contents
    <3> TAKE c \in Columns
    <3>1. CASE s.files[c] \in {None, Unlinked}
      BY <2>1, <3>1
    <3>2. CASE s.files[c] \notin {None, Unlinked}
      BY <2>1, <2>2, <3>2
    <3> QED BY <3>1, <3>2
  <2>4. cf = [c \in Columns |-> cf[c]]
    OBVIOUS
  <2> HIDE DEF cf
  <2> QED BY <2>3, <2>4
<1>5. \A c \in Columns : cf[c] = IF s.files[c] \in {None, Unlinked} THEN col_files[t][c]
                                 ELSE s.files[c] \cup s.gens
  OBVIOUS
<1> HIDE DEF cf
<1>6. /\ parser' \in [Parsers -> Session \cup {None}] /\ parser'[p] = None
      /\ \A q \in Parsers \ {p} : parser'[q] = parser[q]
  BY <1>3 DEF TypeOK
<1>7. /\ Sessions(t)' = Sessions(t) \ {p} /\ p \in Sessions(t)
      /\ \A u \in Tables \ {t} : Sessions(u)' = Sessions(u)
  BY <1>1, <1>6 DEF Sessions
<1>8. TreeOf(s) \in SUBSET Columns
  BY <1>2 DEF TreeOf, TypeOK
<1>9. /\ schema_file' \in [Tables -> Trees] /\ schema_file'[t] = TreeOf(s)
      /\ \A u \in Tables \ {t} : schema_file'[u] = schema_file[u]
  BY <1>2, <1>3, <1>8 DEF TypeOK, Trees
<1>10. /\ col_files' \in [Tables -> [Columns -> Contents]] /\ col_files'[t] = cf
       /\ \A u \in Tables \ {t} : col_files'[u] = col_files[u]
  BY <1>2, <1>3, <1>4 DEF TypeOK
<1>11. /\ tree' \in [Tables -> [TreeIds -> SUBSET Columns]]
       /\ \A u \in Tables \ {t} : tree'[u] = tree[u]
  BY <1>2, <1>3 DEF TypeOK
<1> QED BY <1>1, <1>2, <1>3, <1>5, <1>6, <1>7, <1>9, <1>10, <1>11 DEF CloseOutcome

\* parse_file and the assembling of a table.
LEMMA ParseCallsType ==
  ASSUME TypeOK, NEW t \in Tables, NEW cs \in SUBSET Columns, ParseFile(t, cs) \/ Assemble(t)
  PROVE  TypeOK'
<1> USE DEF disk, history
<1>1. CASE ParseFile(t, cs)
  <2>1. PutTree(t, MapId(t), Tree(t) \cup cs) /\ MapId(t) \in TreeIds /\ Tree(t) \cup cs \in SUBSET Columns
    BY <1>1, ParseEffect, TreeType
  <2>2. /\ map' \in [Tables -> TreeIds \cup {NoTree}]
        /\ tree' \in [Tables -> [TreeIds -> SUBSET Columns]]
    BY <2>1, PutTreeEffect
  <2>3. UNCHANGED <<process, parser, db_dir, data_dir, gen, stale>>
    BY <1>1, ParseEffect
  <2>4. \A u \in Tables : Sessions(u)' = Sessions(u)
    BY <2>3 DEF Sessions
  <2>5. \A u \in Tables, j \in TreeIds :
          tree'[u][j] # {} => map'[u] = j \/ \E q \in Sessions(u)' : parser'[q].tree = j
    BY <2>1, <2>3, <2>4, PutTreeKeepsInUse
  <2>6. inherited' \subseteq Tables /\ crossed' \subseteq Tables
    <3>1. /\ inherited' = IF t \in stale THEN inherited \cup {t} ELSE inherited
          /\ crossed' = IF t \in Busy THEN crossed \cup {t} ELSE crossed
      BY <1>1, ParseEffect
    <3> QED BY <3>1 DEF TypeOK
  <2>7. schema_file' \in [Tables -> Trees] /\ col_files' \in [Tables -> [Columns -> Contents]]
    BY <1>1, ParseEffect
  <2> QED BY <2>2, <2>3, <2>5, <2>6, <2>7 DEF TypeOK
<1>2. CASE Assemble(t)
  <2>1. PutTree(t, MapId(t), Tree(t)) /\ MapId(t) \in TreeIds /\ Tree(t) \in SUBSET Columns
    BY <1>2, TreeType DEF Assemble
  <2>2. /\ map' \in [Tables -> TreeIds \cup {NoTree}]
        /\ tree' \in [Tables -> [TreeIds -> SUBSET Columns]]
    BY <2>1, PutTreeEffect
  <2>3. UNCHANGED <<process, parser, disk, history>>
    BY <1>2 DEF Assemble
  <2>4. \A u \in Tables : Sessions(u)' = Sessions(u)
    BY <2>3 DEF Sessions
  <2>5. \A u \in Tables, j \in TreeIds :
          tree'[u][j] # {} => map'[u] = j \/ \E q \in Sessions(u)' : parser'[q].tree = j
    BY <2>1, <2>3, <2>4, PutTreeKeepsInUse
  <2> QED BY <2>2, <2>3, <2>5 DEF TypeOK
<1> QED BY <1>1, <1>2

\* open_parser.
LEMMA OpenType ==
  ASSUME TypeOK, NEW t \in Tables, NEW p \in Parsers, OpenParser(p, t)
  PROVE  TypeOK'
<1> USE DEF disk
<1>1. PutTree(t, MapId(t), Tree(t)) /\ MapId(t) \in TreeIds /\ Tree(t) \in SUBSET Columns
  BY TreeType, OpenEffect
<1>2. /\ map' \in [Tables -> TreeIds \cup {NoTree}]
      /\ tree' \in [Tables -> [TreeIds -> SUBSET Columns]]
  BY <1>1, PutTreeEffect
<1>3. \A u \in Tables : \A q \in Sessions(u) : q \in Sessions(u)' /\ parser'[q].tree = parser[q].tree
  <2>1. parser[p] = None /\ \A q \in Parsers \ {p} : parser'[q] = parser[q]
    BY OpenEffect
  <2> QED BY <2>1 DEF Sessions
<1>4. \A u \in Tables, j \in TreeIds :
        tree'[u][j] # {} => map'[u] = j \/ \E q \in Sessions(u)' : parser'[q].tree = j
  BY <1>1, <1>3, PutTreeKeepsInUse
<1>5. parser' \in [Parsers -> Session \cup {None}] /\ crossed' \subseteq Tables
  <2>1. /\ parser' \in [Parsers -> Session \cup {None}]
        /\ crossed' = IF t \in Busy THEN crossed \cup {t} ELSE crossed
    BY OpenEffect
  <2> QED BY <2>1 DEF TypeOK
<1>6. UNCHANGED <<process, disk, gen, stale, inherited>>
  BY OpenEffect
<1> QED BY <1>2, <1>4, <1>5, <1>6 DEF TypeOK

\* insert_parser.
LEMMA InsertType ==
  ASSUME TypeOK, NEW p \in Parsers, NEW cs \in SUBSET Columns, InsertParser(p, cs)
  PROVE  TypeOK'
<1> SUFFICES ASSUME NEW t, t = parser[p].table PROVE TypeOK'
  OBVIOUS
<1>1. InsertOutcome(p, cs, t)
  BY InsertEffect
<1>2. /\ parser' \in [Parsers -> Session \cup {None}]
      /\ tree' \in [Tables -> [TreeIds -> SUBSET Columns]]
      /\ col_files' \in [Tables -> [Columns -> Contents]]
      /\ UNCHANGED <<process, db_dir, data_dir, map, schema_file, gen, stale, inherited, crossed>>
  BY <1>1 DEF InsertOutcome
<1>3. \A x \in Tables, k \in TreeIds :
        tree'[x][k] # {} => map'[x] = k \/ \E q \in Sessions(x)' : parser'[q].tree = k
  <2> TAKE x \in Tables, k \in TreeIds
  <2>1. HAVE tree'[x][k] # {}
  <2>2. Sessions(x)' = Sessions(x) /\ \A q \in Sessions(x) : parser'[q].tree = parser[q].tree
    BY <1>1 DEF InsertOutcome, Sessions
  <2>3. CASE tree[x][k] # {}
    <3>1. map'[x] = map[x]
      BY <1>2
    <3>2. map[x] = k \/ \E q \in Sessions(x) : parser[q].tree = k
      BY <2>3 DEF TypeOK
    <3> QED BY <2>2, <3>1, <3>2
  <2>4. CASE tree[x][k] = {}
    <3>1. x = t /\ k = parser[p].tree /\ p \in Sessions(t)
      BY <1>1, <2>1, <2>4 DEF InsertOutcome
    <3> QED BY <2>2, <3>1
  <2> QED BY <2>3, <2>4
<1> QED BY <1>2, <1>3 DEF TypeOK

\* close_parser.
LEMMA CloseType ==
  ASSUME TypeOK, NEW p \in Parsers, CloseParser(p)
  PROVE  TypeOK'
<1> SUFFICES ASSUME NEW t, t = parser[p].table PROVE TypeOK'
  OBVIOUS
<1>1. CloseOutcome(p, t)
  BY CloseEffect
<1>2. /\ parser' \in [Parsers -> Session \cup {None}]
      /\ tree' \in [Tables -> [TreeIds -> SUBSET Columns]]
      /\ col_files' \in [Tables -> [Columns -> Contents]]
      /\ schema_file' \in [Tables -> Trees]
      /\ t \in Tables /\ parser[p] \in Session
      /\ UNCHANGED <<process, map, db_dir, data_dir, gen, stale, crossed>>
  BY <1>1 DEF CloseOutcome
<1>3. \A x \in Tables, k \in TreeIds :
        tree'[x][k] # {} => map'[x] = k \/ \E q \in Sessions(x)' : parser'[q].tree = k
  <2> TAKE x \in Tables, k \in TreeIds
  <2>1. HAVE tree'[x][k] # {}
  <2>2. /\ \A q \in Parsers \ {p} : parser'[q] = parser[q]
        /\ Sessions(t)' = Sessions(t) \ {p}
        /\ \A z \in Tables \ {t} : Sessions(z)' = Sessions(z)
    BY <1>1 DEF CloseOutcome
  <2>3. parser[p].tree \in TreeIds
    BY <1>2 DEF Session
  <2> DEFINE kept == parser[p].tree = map[t] \/ \E q \in Sessions(t) \ {p} : parser[q].tree = parser[p].tree
  <2>4. \/ kept /\ tree' = tree
        \/ tree' = [tree EXCEPT ![t][parser[p].tree] = {}]
    BY <1>1 DEF CloseOutcome
  <2>5. tree[x][k] # {} /\ (kept \/ x # t \/ k # parser[p].tree)
    <3> HIDE DEF kept
    <3> QED BY <1>2, <2>1, <2>3, <2>4 DEF TypeOK
  <2>6. CASE map[x] = k
    BY <1>2, <2>6
  <2>7. CASE map[x] # k
    <3>1. PICK q \in Sessions(x) : parser[q].tree = k
      BY <2>5, <2>7 DEF TypeOK
    <3>2. CASE q # p
      <4>1. q \in Sessions(x)' /\ parser'[q] = parser[q]
        BY <2>2, <3>2 DEF Sessions
      <4> QED BY <3>1, <4>1
    <3>3. CASE q = p
      <4>1. x = t
        BY <3>3 DEF Sessions
      <4>2. \E y \in Sessions(x) \ {p} : parser[y].tree = k
        BY <2>5, <2>7, <3>1, <3>3, <4>1
      <4>3. PICK y \in Sessions(x) \ {p} : parser[y].tree = k
        BY <4>2
      <4>4. y \in Sessions(x)' /\ parser'[y] = parser[y]
        BY <2>2, <4>1 DEF Sessions
      <4> QED BY <4>3, <4>4
    <3> QED BY <3>2, <3>3
  <2> QED BY <2>6, <2>7
<1>4. inherited' \subseteq Tables
  <2>1. inherited' = IF t \in stale THEN inherited \cup {t} ELSE inherited
    BY <1>1 DEF CloseOutcome
  <2> QED BY <1>2, <2>1 DEF TypeOK
<1> QED BY <1>2, <1>3, <1>4 DEF TypeOK

\* Every step keeps the types.
LEMMA NextType == TypeOK /\ [Next]_vars => TypeOK'
<1> SUFFICES ASSUME TypeOK, [Next]_vars PROVE TypeOK'
  OBVIOUS
<1>1. CASE UNCHANGED vars
  <2>1. /\ UNCHANGED <<process, db_dir, data_dir, schema_file, map, tree, parser>>
        /\ UNCHANGED <<col_files, gen, stale, inherited, crossed>>
    BY <1>1 DEF vars, disk, memory, history
  <2>2. \A t \in Tables : Sessions(t)' = Sessions(t)
    BY <2>1 DEF Sessions
  <2>3. \A t \in Tables, k \in TreeIds :
          tree'[t][k] # {} => map'[t] = k \/ \E p \in Sessions(t)' : parser'[p].tree = k
    BY <2>1, <2>2 DEF TypeOK
  <2> QED BY <2>1, <2>3 DEF TypeOK
<1>2. CASE Restart \/ Undefined \/ \E p \in Parsers : CloseExits(p)
  <2>1. /\ Forget /\ process' \in {"up", "ended", "undefined"}
        /\ UNCHANGED <<disk, gen, inherited, crossed>>
    BY <1>2 DEF Restart, Undefined, CloseExits
  <2> QED BY <2>1, ForgetType
<1>3. CASE CreateDatabase \/ DropDatabase
  BY <1>3, DatabaseCallsType
<1>4. CASE \E t \in Tables : CreateTable(t) \/ DropTable(t)
  BY <1>4, TableCallsType
<1>5. CASE \/ \E t \in Tables, cs \in SUBSET Columns : ParseFile(t, cs)
           \/ \E t \in Tables : Assemble(t)
           \/ \E t \in Tables, p \in Parsers : OpenParser(p, t)
           \/ \E p \in Parsers, cs \in SUBSET Columns : InsertParser(p, cs)
           \/ \E p \in Parsers : CloseParser(p)
  <2>1. {} \in SUBSET Columns
    OBVIOUS
  <2> QED BY <1>5, <2>1, ParseCallsType, OpenType, InsertType, CloseType
<1>6. CASE \/ \E t \in Tables : OpenFails(t) \/ AssembleFails(t)
           \/ \E p \in Parsers : InsertFails(p)
  BY <1>2, <1>6 DEF OpenFails, AssembleFails, InsertFails
<1> QED BY <1>1, <1>2, <1>3, <1>4, <1>5, <1>6 DEF Next

\* The variables keep their types, and a tree that neither the map nor a session
\* has stays empty: a number is taken again only with nothing left in it.
THEOREM Types == Spec => []TypeOK
<1> QED BY InitType, NextType, PTL DEF Spec

-----------------------------------------------------------------------------
(* The inductive invariant, a table at a time.                             *)

\* The sessions of a table and the map share one tree, until the table is
\* dropped while one of them is open.
OneTree(t) ==
  t \notin stale \/ t \notin crossed => \A p \in Sessions(t) : parser[p].tree = map[t]

\* A tree in the map is the saved one when no session is open, unless the table
\* has been dropped.
Synced(t) ==
  t \notin stale \cup Busy /\ map[t] # NoTree => tree[t][map[t]] = schema_file[t]

\* Of a table whose sessions no other call has crossed: it has one session at
\* most; a tree in memory has all the columns of the saved one; a session's
\* columns have writers with something to leave in their files; the columns of
\* the saved tree have files.
Uncrossed(t) ==
  t \notin crossed =>
    /\ \A p, q \in Sessions(t) : p = q
    /\ map[t] # NoTree /\ schema_file[t] # NoTree => schema_file[t] \subseteq tree[t][map[t]]
    /\ \A p \in Sessions(t) : \A c \in TreeOf(parser[p]) :
         /\ parser[p].files[c] \notin {None, Unlinked}
         /\ parser[p].files[c] \cup parser[p].gens # {}
    /\ schema_file[t] # NoTree => HaveFiles(t, schema_file[t])

\* If moreover nothing was parsed into it while it was stale, the saved columns
\* hold its last generation and no other, and a session will leave no other.
Own(t) ==
  t \notin inherited \cup crossed =>
    /\ schema_file[t] # NoTree => \A c \in schema_file[t] : col_files[t][c] = {gen[t]}
    /\ t \notin stale =>
         \A p \in Sessions(t) :
           /\ parser[p].gens \subseteq {gen[t]}
           /\ \A c \in TreeOf(parser[p]) : parser[p].files[c] \subseteq {gen[t]}

TableInv(t) == OneTree(t) /\ Synced(t) /\ Uncrossed(t) /\ Own(t)

IInv == TypeOK /\ \A t \in Tables : TableInv(t)

\* A table of which a call changes nothing, nor its sessions.
Same(t) ==
  /\ Sessions(t)' = Sessions(t) /\ \A p \in Sessions(t) : parser'[p] = parser[p]
  /\ map'[t] = map[t] /\ tree'[t] = tree[t] /\ schema_file'[t] = schema_file[t]
  /\ col_files'[t] = col_files[t] /\ gen'[t] = gen[t]
  /\ t \in stale' <=> t \in stale
  /\ t \in inherited' <=> t \in inherited
  /\ t \in crossed' <=> t \in crossed

\* Calls about other tables leave what holds of a table.
LEMMA Frame == ASSUME NEW t \in Tables, TableInv(t), Same(t) PROVE TableInv(t)'
<1>1. t \in Busy' <=> t \in Busy
  BY DEF Same, Busy
<1>2. \A p \in Sessions(t) : TreeOf(parser[p])' = TreeOf(parser[p])
  BY DEF Same, TreeOf, Sessions
<1>3. OneTree(t)'
  BY DEF TableInv, OneTree, Same
<1>4. Synced(t)'
  BY <1>1 DEF TableInv, Synced, Same
<1>5. Uncrossed(t)'
  BY <1>2 DEF TableInv, Uncrossed, Same, HaveFiles
<1>6. Own(t)'
  BY <1>2 DEF TableInv, Own, Same
<1> QED BY <1>3, <1>4, <1>5, <1>6 DEF TableInv

-----------------------------------------------------------------------------
(* One lemma for each call.                                                *)

\* dropDatabase leaves no saved tree; the sessions go on with what they have.
LEMMA DropDatabaseInv ==
  ASSUME IInv, DropDatabase, NEW t \in Tables
  PROVE  TableInv(t)'
<1>1. /\ parser' = [p \in Parsers |->
           IF parser[p] = None THEN None
           ELSE [parser[p] EXCEPT !.files = [c \in Columns |-> IF @[c] = None THEN None ELSE Unlinked]]]
      /\ map' = map /\ schema_file' = [u \in Tables |-> NoTree]
      /\ stale' = stale \cup {u \in Tables : map[u] # NoTree} /\ crossed' = Busy
  BY DEF DropDatabase, RemoveDatabase
<1>2. \A p \in Parsers : /\ parser'[p] = None <=> parser[p] = None
                         /\ parser[p] # None => /\ parser'[p].tree = parser[p].tree
                                                /\ parser'[p].table = parser[p].table
  <2> TAKE p \in Parsers
  <2>1. CASE parser[p] = None
    BY <1>1, <2>1
  <2>2. CASE parser[p] # None
    <3>1. parser[p] \in Session
      BY <2>2 DEF IInv, TypeOK
    <3> DEFINE fs == [c \in Columns |-> IF parser[p].files[c] = None THEN None ELSE Unlinked]
    <3>2. fs \in [Columns -> Contents \cup {None, Unlinked}]
      OBVIOUS
    <3>3. parser'[p] = [parser[p] EXCEPT !.files = fs]
      BY <1>1, <2>2
    <3> HIDE DEF fs
    <3>4. /\ parser'[p] \in Session
          /\ parser'[p].tree = parser[p].tree /\ parser'[p].table = parser[p].table
      BY <3>1, <3>2, <3>3 DEF Session
    <3> QED BY <2>2, <3>4, NamesAssumption
  <2> QED BY <2>1, <2>2
<1>3. Sessions(t)' = Sessions(t)
  BY <1>2 DEF Sessions
<1>4. map'[t] = map[t] /\ schema_file'[t] = NoTree
  BY <1>1
<1>5. t \notin crossed' => Sessions(t) = {}
  BY <1>1 DEF Busy
<1>6. OneTree(t)'
  <2>1. OneTree(t)
    BY DEF IInv, TableInv
  <2>2. ASSUME NEW p \in Sessions(t), t \notin stale' \/ t \notin crossed'
        PROVE  parser'[p].tree = map'[t]
    <3>1. t \notin stale /\ parser'[p].tree = parser[p].tree
      BY <1>1, <1>2, <1>5, <2>2 DEF Sessions
    <3> QED BY <1>4, <2>1, <3>1 DEF OneTree
  <2> QED BY <1>3, <2>2 DEF OneTree
<1>7. Synced(t)'
  BY <1>1, <1>4 DEF Synced
<1>8. Uncrossed(t)'
  BY <1>3, <1>4, <1>5 DEF Uncrossed
<1>9. Own(t)'
  BY <1>3, <1>4, <1>5 DEF Own
<1> QED BY <1>6, <1>7, <1>8, <1>9 DEF TableInv

\* createTable finds no saved tree, so no tree in the map either, unless the
\* table was dropped.
LEMMA CreateTableInv ==
  ASSUME IInv, NEW t \in Tables, CreateTable(t), NEW u \in Tables
  PROVE  TableInv(u)'
<1>1. /\ schema_file[t] = NoTree
      /\ schema_file' = [schema_file EXCEPT ![t] = {}]
      /\ gen' = [gen EXCEPT ![t] = @ + 1]
      /\ crossed' = IF t \in Busy THEN crossed \cup {t} ELSE crossed
      /\ UNCHANGED <<col_files, map, tree, parser, stale, inherited>>
  BY DEF CreateTable, Crossing, memory
<1>2. TypeOK /\ TableInv(u)
  BY DEF IInv
<1>3. \A x \in Tables : Sessions(x)' = Sessions(x)
  BY <1>1 DEF Sessions
<1>4. CASE u # t
  <2>1. Same(u)
    BY <1>1, <1>2, <1>3, <1>4 DEF Same, TypeOK
  <2> QED BY <1>2, <2>1, Frame
<1>5. CASE u = t
  <2>1. schema_file'[t] = {}
    BY <1>1, <1>2 DEF TypeOK
  <2>2. t \notin crossed' => t \notin crossed /\ Sessions(t) = {}
    BY <1>1 DEF Busy
  <2>3. OneTree(t)'
    BY <1>1, <1>2, <1>3, <1>5, <2>2 DEF TableInv, OneTree
  <2>4. Synced(t)'
    <3>1. Busy' = Busy
      BY <1>3 DEF Busy
    <3>2. map[t] # NoTree => tree[t][map[t]] # NoTree
      <4>1. map[t] # NoTree => tree[t][map[t]] \in SUBSET Columns
        BY <1>2 DEF TypeOK
      <4> QED BY <4>1, NamesAssumption
    <3> QED BY <1>1, <1>2, <1>5, <3>1, <3>2 DEF TableInv, Synced
  <2>5. Uncrossed(t)'
    BY <1>1, <1>3, <2>1, <2>2 DEF Uncrossed, HaveFiles
  <2>6. Own(t)'
    BY <1>3, <2>1, <2>2 DEF Own
  <2> QED BY <1>5, <2>3, <2>4, <2>5, <2>6 DEF TableInv
<1> QED BY <1>4, <1>5

\* dropTable leaves the tree in the map, and a session with a tree of its own.
LEMMA DropTableInv ==
  ASSUME IInv, NEW t \in Tables, DropTable(t), NEW u \in Tables
  PROVE  TableInv(u)'
<1>1. /\ PutTree(t, NewId(t), schema_file[t]) /\ schema_file[t] # NoTree
      /\ schema_file' = [schema_file EXCEPT ![t] = NoTree]
      /\ stale' = stale \cup {t}
      /\ crossed' = IF t \in Busy THEN crossed \cup {t} ELSE crossed
      /\ UNCHANGED <<col_files, parser, gen, inherited>>
  BY DEF DropTable, Crossing
<1>2. TypeOK /\ TableInv(u)
  BY DEF IInv
<1>3. \A x \in Tables : Sessions(x)' = Sessions(x)
  BY <1>1 DEF Sessions
<1>4. CASE u # t
  <2>1. NewId(t) \in TreeIds /\ schema_file[t] \in SUBSET Columns
    BY <1>1, <1>2, NewIdIsFree DEF TypeOK, Trees
  <2>2. map'[u] = map[u] /\ tree'[u] = tree[u]
    BY <1>1, <1>2, <1>4, <2>1, PutTreeEffect
  <2>3. Same(u)
    BY <1>1, <1>2, <1>3, <1>4, <2>2 DEF Same, TypeOK
  <2> QED BY <1>2, <2>3, Frame
<1>5. CASE u = t
  <2>1. schema_file'[t] = NoTree /\ t \in stale'
    BY <1>1, <1>2 DEF TypeOK
  <2>2. t \notin crossed' => Sessions(t)' = {}
    BY <1>1, <1>3 DEF Busy
  <2>3. OneTree(t)' /\ Synced(t)'
    BY <2>1, <2>2 DEF OneTree, Synced
  <2>4. Uncrossed(t)' /\ Own(t)'
    BY <2>1, <2>2 DEF Uncrossed, Own
  <2> QED BY <1>5, <2>3, <2>4 DEF TableInv
<1> QED BY <1>4, <1>5

\* With the sessions go the trees in memory; what is saved stays as it was.
LEMMA ForgetInv ==
  ASSUME IInv, Forget, UNCHANGED <<disk, gen, inherited, crossed>>, NEW t \in Tables
  PROVE  TableInv(t)'
<1>1. map'[t] = NoTree /\ Sessions(t)' = {}
  BY DEF Forget, Sessions
<1>2. UNCHANGED <<schema_file, col_files, gen, inherited, crossed>>
  BY DEF disk
<1>3. Uncrossed(t) /\ Own(t)
  BY DEF IInv, TableInv
<1>4. OneTree(t)' /\ Synced(t)'
  BY <1>1 DEF OneTree, Synced
<1>5. Uncrossed(t)'
  BY <1>1, <1>2, <1>3 DEF Uncrossed, HaveFiles
<1>6. Own(t)'
  BY <1>1, <1>2, <1>3 DEF Own
<1> QED BY <1>4, <1>5, <1>6 DEF TableInv

\* When the sessions and the map share a tree, it is the one the next call takes.
LEMMA SharedTree ==
  ASSUME TypeOK, NEW t \in Tables, OneTree(t), t \notin stale \/ t \notin crossed
  PROVE  \A p \in Sessions(t) : parser[p].tree = MapId(t) /\ map[t] = MapId(t) /\ map[t] # NoTree
<1> SUFFICES ASSUME NEW p \in Sessions(t)
             PROVE  parser[p].tree = MapId(t) /\ map[t] = MapId(t) /\ map[t] # NoTree
  OBVIOUS
<1>1. parser[p] \in Session /\ parser[p].tree = map[t]
  BY DEF TypeOK, Sessions, OneTree
<1>2. map[t] # NoTree
  BY <1>1, NamesAssumption DEF Session
<1> QED BY <1>1, <1>2 DEF MapId

\* Without a session and a drop, the tree that is found is the saved one.
LEMMA SavedTree ==
  ASSUME TypeOK, NEW t \in Tables, Synced(t), t \notin stale \cup Busy
  PROVE  /\ GetDefinedTree(t) = schema_file[t]
         /\ schema_file[t] = NoTree => Tree(t) = {}
         /\ schema_file[t] # NoTree => Tree(t) = schema_file[t]
  BY DEF Synced, GetDefinedTree, Tree

\* parse_file saves the tree that it leaves in the map, and every column of it
\* has files, of this generation alone unless what it found was of a dropped table.
LEMMA ParseFileInv ==
  ASSUME IInv, NEW t \in Tables, NEW cs \in SUBSET Columns, ParseFile(t, cs), NEW u \in Tables
  PROVE  TableInv(u)'
<1>1. TypeOK /\ TableInv(t) /\ TableInv(u)
  BY DEF IInv
<1>2. /\ HaveFiles(t, Tree(t)) /\ PutTree(t, MapId(t), Tree(t) \cup cs)
      /\ schema_file'[t] = Tree(t) \cup cs
      /\ \A c \in Columns : col_files'[t][c] =
           IF c \in Tree(t) THEN col_files[t][c] \cup {gen[t]}
           ELSE IF c \in cs THEN {gen[t]} ELSE col_files[t][c]
      /\ \A x \in Tables \ {t} : schema_file'[x] = schema_file[x] /\ col_files'[x] = col_files[x]
  BY <1>1, ParseEffect
<1>3. /\ inherited' = IF t \in stale THEN inherited \cup {t} ELSE inherited
      /\ crossed' = IF t \in Busy THEN crossed \cup {t} ELSE crossed
      /\ UNCHANGED <<parser, gen, stale>>
  BY <1>1, ParseEffect
<1>4. MapId(t) \in TreeIds /\ Tree(t) \in SUBSET Columns
  BY <1>1, TreeType
<1>5. /\ map'[t] = MapId(t) /\ tree'[t][MapId(t)] = Tree(t) \cup cs
      /\ \A x \in Tables \ {t} : map'[x] = map[x] /\ tree'[x] = tree[x]
  BY <1>1, <1>2, <1>4, PutTreeEffect
<1>6. \A x \in Tables : Sessions(x)' = Sessions(x)
  BY <1>3 DEF Sessions
<1>7. CASE u # t
  <2>1. Same(u)
    BY <1>2, <1>3, <1>5, <1>6, <1>7 DEF Same
  <2> QED BY <1>1, <2>1, Frame
<1>8. CASE u = t
  <2>1. t \notin crossed' => t \notin crossed /\ Sessions(t) = {}
    BY <1>3 DEF Busy
  <2>2. OneTree(t)'
    <3>1. OneTree(t)
      BY <1>1 DEF TableInv
    <3>2. ASSUME NEW p \in Sessions(t), t \notin stale \/ t \notin crossed
          PROVE  parser[p].tree = map'[t]
      BY <1>1, <1>5, <3>1, <3>2, SharedTree
    <3> QED BY <1>3, <1>6, <2>1, <3>2 DEF OneTree
  <2>3. Synced(t)'
    BY <1>2, <1>5 DEF Synced
  <2>4. Uncrossed(t)'
    <3>1. \A c \in Tree(t) \cup cs : col_files'[t][c] # {}
      BY <1>2, <1>4
    <3> QED BY <1>2, <1>5, <1>6, <2>1, <3>1 DEF Uncrossed, HaveFiles
  <2>5. Own(t)'
    <3>1. SUFFICES ASSUME t \notin inherited' \cup crossed'
                   PROVE  \A c \in Tree(t) \cup cs : col_files'[t][c] = {gen[t]}
      BY <1>2, <1>3, <1>6, <2>1 DEF Own
    <3>2. t \notin inherited \cup crossed /\ t \notin stale \cup Busy
      BY <1>3, <3>1 DEF Busy
    <3>3. \A c \in Tree(t) : col_files[t][c] = {gen[t]}
      <4>1. Own(t) /\ Synced(t)
        BY <1>1 DEF TableInv
      <4>2. schema_file[t] # NoTree => \A c \in schema_file[t] : col_files[t][c] = {gen[t]}
        BY <3>2, <4>1 DEF Own
      <4> QED BY <1>1, <3>2, <4>1, <4>2, SavedTree
    <3> QED BY <1>2, <1>4, <3>3
  <2> QED BY <1>8, <2>2, <2>3, <2>4, <2>5 DEF TableInv
<1> QED BY <1>7, <1>8

\* A call that only brings the tree it finds into the map leaves the trees of
\* the sessions as they are.
LEMMA PutFoundTree ==
  ASSUME TypeOK, NEW t \in Tables, OneTree(t), t \notin stale \/ t \notin crossed,
         PutTree(t, MapId(t), Tree(t))
  PROVE  /\ \A p \in Sessions(t) : /\ parser[p].tree = map'[t]
                                   /\ tree'[t][parser[p].tree] = TreeOf(parser[p])
         /\ map'[t] = MapId(t) /\ map'[t] # NoTree /\ tree'[t][MapId(t)] = Tree(t)
<1>1. MapId(t) \in TreeIds /\ Tree(t) \in SUBSET Columns
  BY TreeType
<1>2. map'[t] = MapId(t) /\ tree'[t][MapId(t)] = Tree(t)
  BY <1>1, PutTreeEffect
<1>3. map'[t] # NoTree
  BY <1>1, <1>2, NamesAssumption
<1>4. ASSUME NEW p \in Sessions(t)
      PROVE  parser[p].tree = map'[t] /\ tree'[t][parser[p].tree] = TreeOf(parser[p])
  <2>1. parser[p].tree = MapId(t) /\ map[t] = MapId(t) /\ map[t] # NoTree
    BY SharedTree
  <2>2. Tree(t) = tree[t][map[t]]
    <3>1. tree[t][map[t]] \in SUBSET Columns
      BY <1>1, <2>1 DEF TypeOK
    <3> QED BY <2>1, <3>1, NamesAssumption DEF Tree, GetDefinedTree
  <2>3. TreeOf(parser[p]) = tree[t][map[t]]
    BY <2>1 DEF TreeOf, Sessions
  <2> QED BY <1>2, <2>1, <2>2, <2>3
<1> QED BY <1>2, <1>3, <1>4

\* What is found has the saved columns, unless a call crossed a session.
LEMMA FoundHasSaved ==
  ASSUME TypeOK, NEW t \in Tables, Uncrossed(t), t \notin crossed, schema_file[t] # NoTree
  PROVE  schema_file[t] \subseteq Tree(t)
<1>1. CASE map[t] = NoTree
  BY <1>1 DEF Tree, GetDefinedTree
<1>2. CASE map[t] # NoTree
  <2>1. schema_file[t] \subseteq tree[t][map[t]] /\ tree[t][map[t]] \in SUBSET Columns
    BY <1>2 DEF Uncrossed, TypeOK
  <2> QED BY <1>2, <2>1, NamesAssumption DEF Tree, GetDefinedTree
<1> QED BY <1>1, <1>2

\* Assembling brings the tree it finds into the map.
LEMMA AssembleInv ==
  ASSUME IInv, NEW t \in Tables, Assemble(t), NEW u \in Tables
  PROVE  TableInv(u)'
<1>1. TypeOK /\ TableInv(t) /\ TableInv(u)
  BY DEF IInv
<1>2. /\ GetDefinedTree(t) # NoTree /\ PutTree(t, MapId(t), Tree(t))
      /\ UNCHANGED <<parser, schema_file, col_files, gen, stale, inherited, crossed>>
  BY DEF Assemble, disk, history
<1>3. \A x \in Tables : Sessions(x)' = Sessions(x)
  BY <1>2 DEF Sessions
<1>4. MapId(t) \in TreeIds /\ Tree(t) \in SUBSET Columns
  BY <1>1, TreeType
<1>5. /\ map'[t] = MapId(t) /\ tree'[t][MapId(t)] = Tree(t)
      /\ \A x \in Tables \ {t} : map'[x] = map[x] /\ tree'[x] = tree[x]
  BY <1>1, <1>2, <1>4, PutTreeEffect
<1>6. CASE u # t
  <2>1. Same(u)
    BY <1>2, <1>3, <1>5, <1>6 DEF Same
  <2> QED BY <1>1, <2>1, Frame
<1>7. CASE u = t
  <2>1. OneTree(t) /\ Synced(t) /\ Uncrossed(t) /\ Own(t)
    BY <1>1 DEF TableInv
  <2>2. t \notin stale \/ t \notin crossed =>
          /\ \A p \in Sessions(t) : parser[p].tree = map'[t] /\ TreeOf(parser[p])' = TreeOf(parser[p])
          /\ map'[t] # NoTree
    <3>1. \A p \in Sessions(t) : parser'[p] = parser[p] /\ parser[p].table = t
      BY <1>2 DEF Sessions
    <3>2. \A p \in Sessions(t) : TreeOf(parser[p])' = tree'[t][parser[p].tree]
      BY <3>1 DEF TreeOf
    <3> QED BY <1>1, <1>2, <2>1, <3>2, PutFoundTree
  <2>3. OneTree(t)'
    BY <1>2, <1>3, <2>2 DEF OneTree
  <2>4. Synced(t)'
    <3>1. Busy' = Busy
      BY <1>3 DEF Busy
    <3> QED BY <1>1, <1>2, <1>5, <2>1, <3>1, SavedTree DEF Synced
  <2>5. Uncrossed(t)'
    <3>1. t \notin crossed /\ schema_file[t] # NoTree => schema_file[t] \subseteq Tree(t)
      BY <1>1, <2>1, FoundHasSaved
    <3> QED BY <1>2, <1>3, <1>5, <2>1, <2>2, <3>1 DEF Uncrossed, HaveFiles
  <2>6. Own(t)'
    BY <1>2, <1>3, <2>1, <2>2 DEF Own
  <2> QED BY <1>7, <2>3, <2>4, <2>5, <2>6 DEF TableInv
<1> QED BY <1>6, <1>7

\* open_parser of a table in use counts as a crossing; alone, the session has
\* writers that have read the files of all the columns found.
LEMMA OpenParserInv ==
  ASSUME IInv, NEW t \in Tables, NEW p \in Parsers, OpenParser(p, t), NEW u \in Tables
  PROVE  TableInv(u)'
<1>1. TypeOK /\ TableInv(t) /\ TableInv(u)
  BY DEF IInv
<1>2. /\ HaveFiles(t, Tree(t)) /\ PutTree(t, MapId(t), Tree(t))
      /\ crossed' = IF t \in Busy THEN crossed \cup {t} ELSE crossed
      /\ UNCHANGED <<process, disk, gen, stale, inherited>>
  BY <1>1, OpenEffect
<1>3. /\ parser'[p].table = t /\ parser'[p].tree = MapId(t) /\ parser'[p].gens = {}
      /\ \A c \in Columns : parser'[p].files[c] = IF c \in Tree(t) THEN col_files[t][c] ELSE None
      /\ parser[p] = None /\ \A q \in Parsers \ {p} : parser'[q] = parser[q]
      /\ Sessions(t)' = Sessions(t) \cup {p}
      /\ \A x \in Tables \ {t} : Sessions(x)' = Sessions(x)
  BY <1>1, OpenEffect
<1>4. MapId(t) \in TreeIds /\ Tree(t) \in SUBSET Columns
  BY <1>1, TreeType
<1>5. /\ map'[t] = MapId(t) /\ tree'[t][MapId(t)] = Tree(t)
      /\ \A x \in Tables \ {t} : map'[x] = map[x] /\ tree'[x] = tree[x]
  BY <1>1, <1>2, <1>4, PutTreeEffect
<1>6. \A q \in Parsers : parser[q] # None => parser'[q] = parser[q]
  BY <1>3
<1>7. UNCHANGED <<schema_file, col_files, gen, stale, inherited>>
  BY <1>2 DEF disk
<1>8. CASE u # t
  <2>1. \A q \in Sessions(u) : parser'[q] = parser[q]
    BY <1>6 DEF Sessions
  <2>2. u \in crossed' <=> u \in crossed
    BY <1>2, <1>8
  <2>3. Same(u)
    BY <1>3, <1>5, <1>7, <1>8, <2>1, <2>2 DEF Same
  <2> QED BY <1>1, <2>3, Frame
<1>9. CASE u = t
  <2>1. OneTree(t) /\ Synced(t) /\ Uncrossed(t) /\ Own(t)
    BY <1>1 DEF TableInv
  <2>2. t \notin crossed' => t \notin crossed /\ t \notin Busy /\ Sessions(t)' = {p}
    BY <1>2, <1>3 DEF Busy
  <2>3. OneTree(t)'
    <3>1. ASSUME t \notin stale \/ t \notin crossed, NEW q \in Sessions(t)
          PROVE  parser'[q].tree = map'[t]
      <4>1. parser[q].tree = map'[t]
        BY <1>1, <1>2, <2>1, <3>1, PutFoundTree
      <4>2. parser'[q] = parser[q]
        BY <1>6 DEF Sessions
      <4> QED BY <4>1, <4>2
    <3>2. parser'[p].tree = map'[t]
      BY <1>3, <1>5
    <3>3. t \notin stale' \/ t \notin crossed' => t \notin stale \/ t \notin crossed
      BY <1>7, <2>2
    <3> QED BY <1>3, <3>1, <3>2, <3>3 DEF OneTree
  <2>4. Synced(t)'
    <3>1. t \in Busy'
      BY <1>3 DEF Busy
    <3> QED BY <3>1 DEF Synced
  <2>5. TreeOf(parser[p])' = Tree(t)
    BY <1>3, <1>5 DEF TreeOf
  <2>6. Uncrossed(t)'
    <3>1. SUFFICES ASSUME t \notin crossed'
                   PROVE  /\ map'[t] # NoTree /\ schema_file'[t] # NoTree => schema_file'[t] \subseteq tree'[t][map'[t]]
                          /\ \A c \in Tree(t) : /\ parser'[p].files[c] \notin {None, Unlinked}
                                                /\ parser'[p].files[c] \cup parser'[p].gens # {}
                          /\ schema_file'[t] # NoTree => HaveFiles(t, schema_file[t])'
      BY <2>2, <2>5 DEF Uncrossed
    <3>2. schema_file[t] # NoTree => schema_file[t] \subseteq Tree(t)
      BY <1>1, <2>1, <2>2, <3>1, FoundHasSaved
    <3>3. ASSUME NEW c \in Tree(t)
          PROVE  /\ parser'[p].files[c] \notin {None, Unlinked}
                 /\ parser'[p].files[c] \cup parser'[p].gens # {}
      <4>1. c \in Columns /\ parser'[p].files[c] = col_files[t][c]
        BY <1>3, <1>4
      <4>2. col_files[t][c] \in Contents /\ col_files[t][c] # {}
        BY <1>1, <1>2, <4>1 DEF TypeOK, HaveFiles
      <4> QED BY <4>1, <4>2, NamesAssumption
    <3>4. schema_file[t] # NoTree => HaveFiles(t, schema_file[t])
      BY <2>1, <2>2, <3>1 DEF Uncrossed
    <3> QED BY <1>5, <1>7, <3>2, <3>3, <3>4 DEF HaveFiles
  <2>7. Own(t)'
    <3>1. SUFFICES ASSUME t \notin inherited' \cup crossed'
                   PROVE  /\ schema_file[t] # NoTree => \A c \in schema_file[t] : col_files[t][c] = {gen[t]}
                          /\ t \notin stale => \A c \in Tree(t) : parser'[p].files[c] \subseteq {gen[t]}
      BY <1>3, <1>7, <2>2, <2>5 DEF Own
    <3>2. t \notin inherited \cup crossed /\ t \notin Busy
      BY <1>7, <2>2, <3>1
    <3>3. schema_file[t] # NoTree => \A c \in schema_file[t] : col_files[t][c] = {gen[t]}
      BY <2>1, <3>2 DEF Own
    <3>4. ASSUME t \notin stale, NEW c \in Tree(t) PROVE parser'[p].files[c] \subseteq {gen[t]}
      <4>1. c \in Columns /\ parser'[p].files[c] = col_files[t][c]
        BY <1>3, <1>4
      <4>2. schema_file[t] # NoTree /\ c \in schema_file[t]
        BY <1>1, <2>1, <3>2, <3>4, SavedTree
      <4> QED BY <3>3, <4>1, <4>2
    <3> QED BY <3>3, <3>4
  <2> QED BY <1>9, <2>3, <2>4, <2>6, <2>7 DEF TableInv
<1> QED BY <1>8, <1>9

\* insert_parser empties the files of columns the saved tree does not name, as
\* that one has none but those of the session's tree.
LEMMA InsertParserInv ==
  ASSUME IInv, NEW p \in Parsers, NEW new \in SUBSET Columns, InsertParser(p, new), NEW u \in Tables
  PROVE  TableInv(u)'
<1> SUFFICES ASSUME NEW t, t = parser[p].table PROVE TableInv(u)'
  OBVIOUS
<1> DEFINE s == parser[p]
<1>1. TypeOK /\ TableInv(u)
  BY DEF IInv
<1>2. InsertOutcome(p, new, t)
  BY <1>1, InsertEffect
<1>3. /\ s \in Session /\ t \in Tables /\ p \in Sessions(t) /\ new \cap TreeOf(s) = {}
      /\ parser'[p].table = t /\ parser'[p].tree = s.tree
      /\ parser'[p].gens = s.gens \cup {gen[t]}
      /\ \A c \in Columns : parser'[p].files[c] = IF c \in new THEN {} ELSE s.files[c]
      /\ \A q \in Parsers \ {p} : parser'[q] = parser[q]
      /\ \A x \in Tables : Sessions(x)' = Sessions(x)
  BY <1>2 DEF InsertOutcome
<1>4. /\ tree'[t][s.tree] = TreeOf(s) \cup new
      /\ \A x \in Tables \ {t} : tree'[x] = tree[x] /\ col_files'[x] = col_files[x]
  BY <1>2 DEF InsertOutcome
<1>5. UNCHANGED <<map, schema_file, gen, stale, inherited, crossed>>
  <2>1. UNCHANGED <<process, db_dir, data_dir, map, schema_file, gen, stale, inherited, crossed>>
    BY <1>2 DEF InsertOutcome
  <2> QED BY <2>1
<1>6. \A c \in Columns : col_files'[t][c] = IF c \in new THEN {} ELSE col_files[t][c]
  BY <1>2 DEF InsertOutcome
<1>7. CASE u # t
  <2>1. \A q \in Sessions(u) : parser'[q] = parser[q]
    BY <1>3, <1>7 DEF Sessions
  <2>2. Same(u)
    BY <1>3, <1>4, <1>5, <1>7, <2>1 DEF Same
  <2> QED BY <1>1, <2>2, Frame
<1>8. CASE u = t
  <2>1. OneTree(t) /\ Uncrossed(t) /\ Own(t)
    BY <1>1, <1>8 DEF TableInv
  <2>2. OneTree(t)'
    <3>1. \A q \in Sessions(t) : parser'[q].tree = parser[q].tree
      BY <1>3 DEF Sessions
    <3> QED BY <1>3, <1>5, <2>1, <3>1 DEF OneTree
  <2>3. Synced(t)'
    <3>1. t \in Busy'
      BY <1>3 DEF Busy
    <3> QED BY <3>1 DEF Synced
  <2>4. TreeOf(parser[p])' = TreeOf(s) \cup new /\ TreeOf(s) \in SUBSET Columns
    <3>1. s.tree \in TreeIds /\ TreeOf(s) = tree[t][s.tree]
      BY <1>3 DEF TreeOf, Session
    <3> QED BY <1>1, <1>3, <1>4, <3>1 DEF TreeOf, TypeOK
  <2>5. t \notin crossed =>
          /\ Sessions(t) = {p} /\ s.tree = map[t]
          /\ schema_file[t] # NoTree => schema_file[t] \subseteq TreeOf(s) /\ schema_file[t] \cap new = {}
    <3>1. SUFFICES ASSUME t \notin crossed, schema_file[t] # NoTree
                   PROVE  schema_file[t] \subseteq TreeOf(s)
      BY <1>3, <2>1 DEF Uncrossed, OneTree
    <3>2. s.tree = map[t] /\ s.table = t
      BY <1>3, <2>1, <3>1 DEF OneTree
    <3>3. map[t] # NoTree
      BY <1>3, <3>2, NamesAssumption DEF Session
    <3> QED BY <2>1, <3>1, <3>2, <3>3 DEF Uncrossed, TreeOf
  <2>6. schema_file[t] # NoTree => schema_file[t] \subseteq Columns
    BY <1>1, <1>3 DEF TypeOK, Trees
  <2>7. Uncrossed(t)'
    <3>1. SUFFICES ASSUME t \notin crossed
                   PROVE  /\ schema_file[t] # NoTree => schema_file[t] \subseteq TreeOf(s) \cup new
                          /\ \A c \in TreeOf(s) \cup new : /\ parser'[p].files[c] \notin {None, Unlinked}
                                                           /\ parser'[p].files[c] \cup parser'[p].gens # {}
                          /\ schema_file[t] # NoTree => \A c \in schema_file[t] : col_files'[t][c] # {}
      BY <1>3, <1>4, <1>5, <2>4, <2>5 DEF Uncrossed, HaveFiles
    <3>2. ASSUME NEW c \in TreeOf(s) \cup new
          PROVE  /\ parser'[p].files[c] \notin {None, Unlinked}
                 /\ parser'[p].files[c] \cup parser'[p].gens # {}
      <4>1. parser'[p].files[c] \cup parser'[p].gens # {}
        BY <1>3
      <4>2. CASE c \in new
        <5>1. parser'[p].files[c] = {} /\ {} \in Contents
          BY <1>3, <4>2 DEF Contents
        <5> QED BY <4>1, <5>1, NamesAssumption
      <4>3. CASE c \notin new
        <5>1. c \in TreeOf(s) /\ parser'[p].files[c] = s.files[c]
          BY <1>3, <2>4, <4>3
        <5> QED BY <1>3, <2>1, <3>1, <4>1, <5>1 DEF Uncrossed
      <4> QED BY <4>2, <4>3
    <3>3. schema_file[t] # NoTree => \A c \in schema_file[t] : col_files'[t][c] # {}
      BY <1>6, <2>1, <2>5, <2>6, <3>1 DEF Uncrossed, HaveFiles
    <3> QED BY <2>5, <3>1, <3>2, <3>3
  <2>8. Own(t)'
    <3>1. SUFFICES ASSUME t \notin inherited \cup crossed
                   PROVE  /\ schema_file[t] # NoTree => \A c \in schema_file[t] : col_files'[t][c] = {gen[t]}
                          /\ t \notin stale =>
                               /\ parser'[p].gens \subseteq {gen[t]}
                               /\ \A c \in TreeOf(s) \cup new : parser'[p].files[c] \subseteq {gen[t]}
      BY <1>3, <1>5, <2>4, <2>5 DEF Own
    <3>2. schema_file[t] # NoTree => \A c \in schema_file[t] : col_files'[t][c] = {gen[t]}
      BY <1>6, <2>1, <2>5, <2>6, <3>1 DEF Own
    <3>3. ASSUME t \notin stale
          PROVE  /\ parser'[p].gens \subseteq {gen[t]}
                 /\ \A c \in TreeOf(s) \cup new : parser'[p].files[c] \subseteq {gen[t]}
      <4>1. s.gens \subseteq {gen[t]} /\ \A c \in TreeOf(s) : s.files[c] \subseteq {gen[t]}
        BY <1>3, <2>1, <3>1, <3>3 DEF Own
      <4> QED BY <1>3, <2>4, <4>1
    <3> QED BY <3>2, <3>3
  <2> QED BY <1>8, <2>2, <2>3, <2>7, <2>8 DEF TableInv
<1> QED BY <1>7, <1>8

\* close_parser saves the tree in the map, and its writers leave in the files of
\* every column what they found and wrote.
LEMMA CloseParserInv ==
  ASSUME IInv, NEW p \in Parsers, CloseParser(p), NEW u \in Tables
  PROVE  TableInv(u)'
<1> SUFFICES ASSUME NEW t, t = parser[p].table PROVE TableInv(u)'
  OBVIOUS
<1> DEFINE s == parser[p]
<1>1. TypeOK /\ TableInv(u)
  BY DEF IInv
<1>2. CloseOutcome(p, t)
  BY <1>1, CloseEffect
<1>3. /\ s \in Session /\ t \in Tables /\ p \in Sessions(t)
      /\ \A q \in Parsers \ {p} : parser'[q] = parser[q]
      /\ Sessions(t)' = Sessions(t) \ {p}
      /\ \A x \in Tables \ {t} : Sessions(x)' = Sessions(x)
      /\ schema_file'[t] = TreeOf(s)
  BY <1>2 DEF CloseOutcome
<1>4. \A c \in Columns : col_files'[t][c] =
        IF s.files[c] \in {None, Unlinked} THEN col_files[t][c] ELSE s.files[c] \cup s.gens
  BY <1>2 DEF CloseOutcome
<1>5. /\ s.tree = map[t] => tree' = tree
      /\ \A x \in Tables \ {t} : schema_file'[x] = schema_file[x] /\ col_files'[x] = col_files[x] /\ tree'[x] = tree[x]
  BY <1>2 DEF CloseOutcome
<1>6. /\ UNCHANGED <<map, gen, stale, crossed>>
      /\ \A x \in Tables \ {t} : x \in inherited' <=> x \in inherited
      /\ t \notin inherited' => t \notin inherited /\ t \notin stale
  <2>1. UNCHANGED <<process, map, db_dir, data_dir, gen, stale, crossed>>
    BY <1>2 DEF CloseOutcome
  <2>2. inherited' = IF t \in stale THEN inherited \cup {t} ELSE inherited
    BY <1>2 DEF CloseOutcome
  <2> QED BY <2>1, <2>2
<1>7. CASE u # t
  <2>1. \A q \in Sessions(u) : parser'[q] = parser[q]
    BY <1>3, <1>7 DEF Sessions
  <2>2. Same(u)
    BY <1>3, <1>5, <1>6, <1>7, <2>1 DEF Same
  <2> QED BY <1>1, <2>2, Frame
<1>8. CASE u = t
  <2>1. OneTree(t) /\ Uncrossed(t) /\ Own(t)
    BY <1>1, <1>8 DEF TableInv
  <2>2. OneTree(t)'
    <3>1. \A q \in Sessions(t)' : q \in Sessions(t) /\ parser'[q] = parser[q]
      BY <1>3 DEF Sessions
    <3> QED BY <1>6, <2>1, <3>1 DEF OneTree
  <2>3. t \notin stale \/ t \notin crossed => tree'[t][map'[t]] = schema_file'[t]
    <3>1. SUFFICES ASSUME t \notin stale \/ t \notin crossed PROVE tree'[t][map'[t]] = TreeOf(s)
      BY <1>3
    <3>2. s.tree = map[t] /\ s.table = t
      BY <1>3, <2>1, <3>1 DEF OneTree
    <3> QED BY <1>5, <1>6, <3>2 DEF TreeOf
  <2>4. Synced(t)'
    BY <1>6, <2>3 DEF Synced
  <2>5. t \notin crossed => /\ Sessions(t)' = {}
                            /\ \A c \in TreeOf(s) : /\ s.files[c] \notin {None, Unlinked}
                                                    /\ s.files[c] \cup s.gens # {}
    BY <1>3, <2>1 DEF Uncrossed
  <2>6. TreeOf(s) \subseteq Columns
    BY <1>1, <1>3 DEF TreeOf, TypeOK, Session
  <2>7. t \notin crossed => \A c \in TreeOf(s) : col_files'[t][c] = s.files[c] \cup s.gens
    BY <1>4, <2>5, <2>6
  <2>8. Uncrossed(t)'
    BY <1>3, <1>6, <2>3, <2>5, <2>7 DEF Uncrossed, HaveFiles
  <2>9. Own(t)'
    <3>1. SUFFICES ASSUME t \notin inherited' \cup crossed'
                   PROVE  \A c \in TreeOf(s) : s.files[c] \cup s.gens = {gen[t]}
      BY <1>3, <1>6, <2>5, <2>7 DEF Own
    <3>2. t \notin inherited \cup crossed /\ t \notin stale
      BY <1>6, <3>1
    <3>3. s.gens \subseteq {gen[t]} /\ \A c \in TreeOf(s) : s.files[c] \subseteq {gen[t]}
      BY <1>3, <2>1, <3>2 DEF Own
    <3> QED BY <2>5, <3>2, <3>3
  <2> QED BY <1>8, <2>2, <2>4, <2>8, <2>9 DEF TableInv
<1> QED BY <1>7, <1>8

-----------------------------------------------------------------------------
(* The theorems.                                                           *)

\* At the start there is nothing.
LEMMA InitInv == Init => IInv
<1> SUFFICES ASSUME Init PROVE IInv
  OBVIOUS
<1>1. TypeOK
  BY InitType
<1>2. ASSUME NEW t \in Tables PROVE TableInv(t)
  <2>1. Sessions(t) = {} /\ map[t] = NoTree /\ schema_file[t] = NoTree
    BY DEF Init, Sessions
  <2> QED BY <2>1 DEF TableInv, OneTree, Synced, Uncrossed, Own
<1> QED BY <1>1, <1>2 DEF IInv

\* Every step keeps the invariant.
LEMMA NextInv == IInv /\ [Next]_vars => IInv'
<1> SUFFICES ASSUME IInv, [Next]_vars PROVE IInv'
  OBVIOUS
<1>1. TypeOK'
  BY NextType DEF IInv
<1>2. SUFFICES ASSUME NEW t \in Tables PROVE TableInv(t)'
  BY <1>1 DEF IInv
<1>3. CASE CreateDatabase \/ UNCHANGED vars
  <2>1. UNCHANGED <<schema_file, col_files, map, tree, parser, gen, stale, inherited, crossed>>
    BY <1>3 DEF CreateDatabase, vars, disk, memory, history
  <2>2. Same(t)
    BY <2>1 DEF Same, Sessions
  <2> QED BY <2>2, Frame DEF IInv
<1>4. CASE DropDatabase
  BY <1>4, DropDatabaseInv
<1>5. CASE Restart \/ Undefined \/ \E p \in Parsers : CloseExits(p)
  <2>1. Forget /\ UNCHANGED <<disk, gen, inherited, crossed>>
    BY <1>5 DEF Restart, Undefined, CloseExits
  <2> QED BY <2>1, ForgetInv
<1>6. CASE \E u \in Tables : \/ CreateTable(u) \/ DropTable(u) \/ Assemble(u)
                             \/ \E cs \in SUBSET Columns : ParseFile(u, cs)
  BY <1>6, CreateTableInv, DropTableInv, AssembleInv, ParseFileInv
<1>7. CASE \E p \in Parsers : \/ \E u \in Tables : OpenParser(p, u)
                              \/ \E cs \in SUBSET Columns : InsertParser(p, cs)
                              \/ CloseParser(p)
  BY <1>7, OpenParserInv, InsertParserInv, CloseParserInv
<1>8. CASE \/ \E u \in Tables : OpenFails(u) \/ AssembleFails(u)
           \/ \E p \in Parsers : InsertFails(p)
  BY <1>5, <1>8 DEF OpenFails, AssembleFails, InsertFails
<1> QED BY <1>3, <1>4, <1>5, <1>6, <1>7, <1>8 DEF Next

\* The invariant holds of every table, however many there are and however their
\* calls and sessions interleave.
THEOREM Invariance == Spec => []IInv
<1> QED BY InitInv, NextInv, PTL DEF Spec

\* A tree in the map that no drop has made stale is the saved one when no session
\* of its table is open: the map and the files of steed.cpp never diverge otherwise.
THEOREM MapIsSaved == Spec => []MapMatchesFile
<1>1. IInv => MapMatchesFile
  BY DEF IInv, TableInv, Synced, MapMatchesFile
<1> QED BY <1>1, Invariance, PTL

\* Every column that a saved SchemaTree names has its files, so that a table can be
\* appended to after any restart, unless a call crossed one of its sessions.
THEOREM SavedColumns == Spec => []SavedColumnsHaveFiles
<1>1. IInv => SavedColumnsHaveFiles
  BY DEF IInv, TableInv, Uncrossed, SavedColumnsHaveFiles
<1> QED BY <1>1, Invariance, PTL

\* The records of a dropped table come back only in one that was parsed into by
\* the process that dropped it, or in one whose sessions were crossed.
THEOREM OnlyStaleInherit == Spec => []OnlyStaleTreesInherit
<1>1. IInv => OnlyStaleTreesInherit
  <2> SUFFICES ASSUME IInv, NEW t \in Tables \ (stale \cup inherited \cup crossed \cup Busy),
                      GetDefinedTree(t) # NoTree
               PROVE  \A c \in GetDefinedTree(t) : col_files[t][c] = {gen[t]}
    BY DEF OnlyStaleTreesInherit
  <2>1. GetDefinedTree(t) = schema_file[t]
    BY SavedTree DEF IInv, TableInv
  <2> QED BY <2>1 DEF IInv, TableInv, Own
<1> QED BY <1>1, Invariance, PTL

=============================================================================
