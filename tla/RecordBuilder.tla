--------------------------- MODULE RecordBuilder ---------------------------
(***************************************************************************)
(* How RecordBuilder puts the row of a record together: on each level of   *)
(* the SchemaTree one RowObjectBuilder and one RowArrayBuilder, packaged   *)
(* from below when the assembler returns to a higher level.                *)
(*                                                                         *)
(* A build b has m_next_idx (next), m_struct_len (len: what was packaged   *)
(* last and not appended yet), the Buffer from where the record begins     *)
(* (buf), the builders and the flags of array elements that are still      *)
(* empty.  Indexes begin at 0 as in the code, so that SchemaPath[i] is     *)
(* path[i + 1].                                                            *)
(***************************************************************************)
EXTENDS Shredding, RowFormat

CONSTANTS
  MaxLevel,        \* m_max_level: the longest path
  ValueLength(_)   \* the length of a binary value

BuilderIndexes == 0..(MaxLevel - 1)

\* After the constructor and after a record.  ok: every assertion has held.
NoBuild == [next |-> 0, len |-> 0, buf |-> <<>>, ok |-> TRUE,
            objs |-> [i \in BuilderIndexes |-> Off],
            arrs |-> [i \in BuilderIndexes |-> Off],
            empty |-> [i \in BuilderIndexes |-> FALSE]]

Asserting(b, cond) == [b EXCEPT !.ok = @ /\ cond]

\* init of the builder on level i: its Size is allocated.
InitObject(b, i) == [b EXCEPT !.objs[i] = InitAt(Len(b.buf)), !.buf = Allocate(@, SizeUsed)]
InitArray(b, i)  == [b EXCEPT !.arrs[i] = InitAt(Len(b.buf)), !.buf = Allocate(@, SizeUsed)]

-----------------------------------------------------------------------------
(* Packaging.  The package functions return the Size they have written.    *)

Packaged(b, bgn, buf) == [b EXCEPT !.buf = buf, !.len = Cell(buf, bgn)]

PackageArrayByIndex(b, i) ==
  LET arr == IF b.empty[i] THEN AppendElem(b.arrs[i]) ELSE AppendValue(b.arrs[i], b.len)
      ok  == b.empty[i] => b.len = 0
  IN  IF ~b.arrs[i].init THEN b
      ELSE [Packaged(Asserting(b, ok), b.arrs[i].rbgn, PackageStruct(b.buf, arr)) EXCEPT
              !.empty[i] = FALSE, !.arrs[i] = Off]

PackageObject(b, i) ==
  Packaged(b, b.objs[i].rbgn, PackageStruct(b.buf, AppendValue(b.objs[i], b.len)))

\* Mutant of PackageObjectByIndex: the builder is not cleared.
MutantObjectNotCleared(b, i) == PackageObject(b, i)

PackageObjectByIndex(b, i) ==
  [PackageObject(Asserting(b, b.objs[i].init), i) EXCEPT !.objs[i] = Off]

PackageByIndex(b, i) == PackageObjectByIndex(PackageArrayByIndex(b, i), i)

RECURSIVE Return2BuildObject(_, _)

\* Package what is below tgt_lvl.
Return2BuildObject(b, tgt_lvl) ==
  IF b.next <= tgt_lvl THEN b
  ELSE Return2BuildObject([PackageByIndex(b, b.next - 1) EXCEPT !.next = @ - 1], tgt_lvl)

\* What was packaged last becomes the value of the last field on level n.
TakeValue(b, n) == [b EXCEPT !.objs[n] = AppendValue(@, b.len), !.len = 0]

-----------------------------------------------------------------------------
(* Going down.                                                             *)

Begin2Build(b) == [InitObject(Asserting(b, b.next = 0), 0) EXCEPT !.next = 1, !.len = 0]

CloseField(b, n) ==
  IF b.objs[n].ids = <<>> THEN b ELSE TakeValue(PackageArrayByIndex(b, n), n)

\* An array begins with an element that is still empty.
BeginArray(b, n) == [InitArray(Asserting(b, ~b.arrs[n].init), n) EXCEPT !.empty[n] = TRUE]

AddField(b, s, n) ==
  LET added == [b EXCEPT !.objs[n] = AppendMember(@, s)]
  IN  IF s \in Multi THEN BeginArray(added, n) ELSE added

\* The field path[n] of the object on its level; the field before is closed.
AppendField2Struct(b, path, n) ==
  LET ids   == b.objs[n].ids
      begun == ids # <<>> /\ Last(ids) = path[n + 1]
  IN  Asserting(IF begun THEN b ELSE AddField(CloseField(b, n), path[n + 1], n), b.objs[n].init)

AppendElement2Array(b, path, n) ==
  IF path[n + 1] \notin Multi THEN b
  ELSE [Asserting(b, b.arrs[n].init) EXCEPT !.arrs[n] = AppendElem(@), !.empty[n] = FALSE]

\* The value of a leaf, copied to the buffer before its length is appended.
AppendLeafValue(b, v) ==
  LET i      == b.next - 1
      copied == [b EXCEPT !.buf = @ \o [k \in 1..ValueLength(v) |-> v]]
  IN  IF b.arrs[i].init THEN [copied EXCEPT !.arrs[i] = AppendValue(@, ValueLength(v))]
      ELSE IF b.objs[i].init THEN [copied EXCEPT !.objs[i] = AppendValue(@, ValueLength(v))]
      ELSE copied

\* The field of the path in a new object on level i.
OpenLevel(b, path, i) ==
  AppendField2Struct([InitObject(Asserting(b, ~b.objs[i].init), i) EXCEPT !.next = i + 1], path, i)

RECURSIVE OpenLevels(_, _, _)

OpenLevels(b, path, tgt_lvl) ==
  IF b.next >= tgt_lvl THEN b
  ELSE OpenLevels(OpenLevel(AppendElement2Array(b, path, b.next - 1), path, b.next), path, tgt_lvl)

\* A leaf that is an array gets its element.
ReachLeaf(b, path) ==
  IF b.next = Len(path) THEN AppendElement2Array(b, path, b.next - 1) ELSE b

\* Open the objects and arrays down to tgt_lvl, a definition value.  app_elem:
\* the path is visited again, for one more element of the array on this level.
Move2Level(b, tgt_lvl, path, app_elem) ==
  LET cur      == b.next - 1
      one_more == [Asserting(b, b.arrs[cur].init) EXCEPT !.empty[cur] = TRUE]
      begun    == IF app_elem THEN one_more ELSE AppendField2Struct(b, path, cur)
  IN  IF tgt_lvl = 0 \/ b.next > tgt_lvl THEN b
      ELSE IF app_elem /\ b.next = Len(path)
      THEN [one_more EXCEPT !.arrs[cur] = AppendElem(@), !.empty[cur] = FALSE]
      ELSE ReachLeaf(OpenLevels(begun, path, tgt_lvl), path)

-----------------------------------------------------------------------------
(* Going up.                                                               *)

\* The element on level i is complete: what was packaged, or nothing.
TakeElement(b, i) ==
  LET arr == IF b.empty[i] THEN AppendElem(b.arrs[i]) ELSE b.arrs[i]
      ok  == b.arrs[i].init /\ (b.empty[i] => b.len = 0)
  IN  [Asserting(b, ok) EXCEPT !.empty[i] = FALSE, !.arrs[i] = AppendValue(arr, b.len), !.len = 0]

\* To the array on level com_lvl, which gets another element.
Return2BuildArray(b, com_lvl, path) ==
  IF Len(path) = b.next /\ Len(path) = com_lvl THEN Asserting(b, b.arrs[com_lvl - 1].init)
  ELSE TakeElement(Return2BuildObject(b, com_lvl), com_lvl - 1)

\* To the object below tgt_lvl, whose array is complete.
Return2Object(b, tgt_lvl) ==
  TakeValue(PackageArrayByIndex(Return2BuildObject(b, tgt_lvl + 1), tgt_lvl), tgt_lvl)

\* tgt_lvl is unsigned: level 0 has no index above any other.
Return2Level(b, tgt_lvl, path, app_elem) ==
  IF app_elem
  THEN IF tgt_lvl = 0 \/ b.next < tgt_lvl THEN b
       ELSE Return2BuildArray(Asserting(b, path[tgt_lvl] \in Multi), tgt_lvl, path)
  ELSE IF b.next <= tgt_lvl THEN b
       ELSE Return2Object(b, tgt_lvl)

\* The record is complete in the buffer.
End2Build(b) ==
  [PackageByIndex(Asserting(b, b.next = 1), 0) EXCEPT !.next = 0, !.len = 0]

=============================================================================
