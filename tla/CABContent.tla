----------------------------- MODULE CABContent -----------------------------
(***************************************************************************)
(* What the items of a CAB are in memory and in the .cab file.             *)
(*                                                                         *)
(* ColumnFile takes a stored block for the sequence of its items.  Here a  *)
(* block is its bytes.  A CAB in memory is a major unit, made for one item *)
(* per record, and minor units that are added when it overflows; a unit (a *)
(* ColumnItemArray) has packed repetition levels, packed definition levels *)
(* and a BinaryValueArray of a fixed or a variable value length.  A flush  *)
(* merges the units segment by segment, and whoever reads the block takes  *)
(* it for the content of one large unit.                                   *)
(*                                                                         *)
(* The bytes are a sequence of cells: a byte of levels is the tuple of its *)
(* bits; an offset and a value of fixed length are one cell, a value of    *)
(* variable length ValLen cells.  Packed levels keep their elements here;  *)
(* module BitVector says when that is so.                                  *)
(***************************************************************************)
EXTENDS ColumnFile, SequencesExt

CONSTANTS
  ByteBits,  \* bits of a byte, which capacities are aligned to as well (8)
  RepLevels, \* the levels of the path that repeat; MaxRep is the last
  Kinds,     \* BinaryValueArrays: "fixed", "var"
  ValLen,    \* cells a value takes in a VarLengthValueArray
  Reserve,   \* m_reserve_factor in thousandths (1618)
  ItemInputs \* bound: what the item behind i items may be

\* The record capacity of a CAB is a multiple of 8: unittest/Config.cpp:28.
ASSUME ContentAssumption ==
  /\ ByteBits \in Nat \ {0} /\ RecdCap % ByteBits = 0
  /\ RepLevels \subseteq 1..MaxRep
  /\ MaxRep > 0 => MaxRep \in RepLevels
  /\ Kinds \subseteq {"fixed", "var"}
  /\ ValLen \in [Values -> Nat \ {0}]
  /\ Reserve \in Nat /\ Reserve >= 1000
  /\ ItemInputs \in [0..MaxItems -> SUBSET Item]

VARIABLES
  kind,        \* the BinaryValueArray of the column's data type
  units,       \* m_major_unit and m_minor_units of the writer's CAB
  bva_bgn_off, \* CAB::m_bva_bgn_off
  bytes        \* the .cab file: the bytes last stored at each file offset

contentVars == <<vars, kind, units, bva_bgn_off, bytes>>

-----------------------------------------------------------------------------
(* Levels.                                                                 *)

\* RepetitionType: when one level repeats, one bit says whether it does.
Single == Cardinality(RepLevels) = 1

GetReptBits == IF Single THEN 1 ELSE MaxRep
Encode(rep) == IF ~Single THEN rep ELSE IF rep = MaxRep THEN 1 ELSE 0
Decode(bin) == IF Single /\ bin > 0 THEN MaxRep ELSE bin

CalcUsedBitNum(n) == Cardinality({k \in 0..n : 2^k <= n})
CalcBytesUsed(bits) == (bits + ByteBits - 1) \div ByteBits

RepBits == CalcUsedBitNum(GetReptBits)
DefBits == CalcUsedBitNum(MaxDef)

\* The bytes that hold the levels, width bits each, lowest bit first.
LevelBytes(levels, width) ==
  LET bit(pos) == IF pos >= width * Len(levels) THEN 0
                  ELSE (levels[pos \div width + 1] \div 2^(pos % width)) % 2
  IN  [b \in 1..CalcBytesUsed(width * Len(levels)) |->
         [k \in 1..ByteBits |-> bit((b - 1) * ByteBits + k - 1)]]

\* A cell of a block; behind its end there is nothing to be read.
CellAt(blk, i) == IF i \in DOMAIN blk THEN blk[i] ELSE <<-1>>

\* BitVector::get: element i (from 0) of the levels behind the first bgn cells,
\* the number that has the bits stored.
LevelAt(blk, bgn, width, i) ==
  LET bit(pos) == LET byte == CellAt(blk, bgn + pos \div ByteBits + 1)
                      k    == (pos % ByteBits) + 1
                  IN  IF k \in DOMAIN byte /\ byte[k] = 1 THEN 1 ELSE 0
  IN  CHOOSE level \in 0..(2^width - 1) :
        \A k \in 0..(width - 1) : (level \div 2^k) % 2 = bit(i * width + k)

-----------------------------------------------------------------------------
(* A ColumnItemArray with its BinaryValueArray.                            *)

InvalidOff == -1

ValueBytes(v) == [k \in 1..ValLen[v] |-> <<v, k>>]

\* offs: the offset array (m_offsets); vals: the values; cur_off: m_cur_off.
NewUnit(cap, off) ==
  [cap |-> cap, reps |-> <<>>, defs |-> <<>>, offs |-> <<>>, vals |-> <<>>, cur_off |-> off]

\* FixLengthValueArray: init2write has filled all its places with null.
WriteFixed(u, val) == [u EXCEPT !.vals = Append(@, <<val>>)]

\* VarLengthValueArray: a null has an invalid offset and takes no place.
WriteVar(u, val) ==
  IF val = Null THEN [u EXCEPT !.offs = Append(@, <<InvalidOff>>)]
  ELSE [u EXCEPT !.offs = Append(@, <<u.cur_off>>), !.vals = @ \o ValueBytes(val),
                 !.cur_off = @ + ValLen[val]]

\* ColumnItemArray::writeNull, writeText and writeBinVal, not full.
WriteItem(u, it) ==
  [(IF kind = "fixed" THEN WriteFixed(u, it.val) ELSE WriteVar(u, it.val)) EXCEPT
     !.reps = Append(@, Encode(it.rep)), !.defs = Append(@, it.def)]

IsFull(u) == Len(u.defs) = u.cap

\* CAB's constructor: room for an item per record, or for what was stored.
MajorCap(item_num) == IF item_num > RecdCap THEN item_num ELSE RecdCap

MajorUnit == NewUnit(MajorCap(0), 0)

\* Mutant of MinorCap: not aligned.
MutantCapNotAligned ==
  (Reserve * item_info.item_num * (RecdCap - item_info.recd_num + 1))
    \div (1000 * item_info.recd_num)

\* Items expected for the rest of the records, aligned so that the levels of a
\* full unit end on a byte.
MinorCap ==
  CalcAlignSize((Reserve * item_info.item_num * (RecdCap - item_info.recd_num + 1))
                  \div (1000 * item_info.recd_num), ByteBits)

\* CAB::createMinorUnit: offsets go on where the values of the units before end.
NextBeginOffset == bva_bgn_off + Len(Last(units).vals)

-----------------------------------------------------------------------------
(* The bytes of a block.                                                   *)

\* CAB::mergeSegment: one segment of all units.
Merged(segments) == Concatenated(segments, Len(units))

\* CAB::merge2Buffer
MergedBytes(tail) ==
  LET type == IF tail THEN "crucial" ELSE GetType(item_info)
      reps == [i \in DOMAIN units |-> LevelBytes(units[i].reps, RepBits)]
      defs == [i \in DOMAIN units |-> LevelBytes(units[i].defs, DefBits)]
      offs == [i \in DOMAIN units |-> units[i].offs]
      vals == [i \in DOMAIN units |-> units[i].vals]
  IN  (IF type \in {"crucial", "allnull"} THEN Merged(reps) \o Merged(defs) ELSE <<>>)
        \o (IF type = "crucial" THEN Merged(offs) \o Merged(vals) ELSE <<>>)

\* What CABLayouter::flush writes to the .cab file.
FlushedBytes(tail) ==
  IF MergedUsed(item_info, tail) = 0 THEN bytes
  ELSE [o \in DOMAIN bytes \cup {file_off} |->
          IF o = file_off THEN MergedBytes(tail) ELSE bytes[o]]

\* ColumnItemArray::init2read: where the segments of n items end.
RepEnd(n) == CalcBytesUsed(RepBits * n)
DefEnd(n) == RepEnd(n) + CalcBytesUsed(DefBits * n)

Garbage == "garbage"

\* FixLengthValueArray::read and VarLengthValueArray::read; a string is read up
\* to its end.
ValueAt(blk, n, i) ==
  LET cell  == CellAt(blk, DefEnd(n) + i)[1]
      bgn   == DefEnd(n) + n + cell
      found == {v \in Values : \A k \in 1..ValLen[v] : CellAt(blk, bgn + k) = <<v, k>>}
  IN  CASE kind = "fixed" -> cell
        [] kind = "var" /\ cell = InvalidOff -> Null
        [] OTHER -> IF cell \in Nat /\ found # {} THEN CHOOSE v \in found : TRUE ELSE Garbage

\* CAB::init2read and read: the items of a block, by the type of its CABInfo.
ReadContent(info) ==
  LET n       == info.item.item_num
      type    == GetType(info.item)
      blk     == bytes[info.file_off]
      level(i) == [rep |-> Decode(LevelAt(blk, 0, RepBits, i - 1)),
                   def |-> LevelAt(blk, RepEnd(n), DefBits, i - 1), val |-> Null]
  IN  [i \in 1..n |->
         CASE type = "trivial" -> Trivial
           [] type = "allnull" -> level(i)
           [] type = "crucial" -> [level(i) EXCEPT !.val = ValueAt(blk, n, i)]]

\* ColumnItemArray::copyContent: the unit in which a reloaded tail CAB goes on.
\* Levels and values that its type does not have are 0 and null.
CopyContent(info) ==
  LET n      == info.item.item_num
      type   == GetType(info.item)
      blk    == bytes[info.file_off]
      vals   == SubSeq(blk, DefEnd(n) + n + 1, Len(blk))
      levels(bgn, width) ==
        [i \in 1..n |-> IF type = "trivial" THEN 0 ELSE LevelAt(blk, bgn, width, i - 1)]
      slots(none) ==
        [i \in 1..n |-> IF type = "crucial" THEN CellAt(blk, DefEnd(n) + i) ELSE <<none>>]
      cap    == CalcAlignSize(n, ByteBits)
      copied == [NewUnit(IF cap > MajorCap(n) THEN cap ELSE MajorCap(n), 0) EXCEPT
                   !.reps = levels(0, RepBits), !.defs = levels(RepEnd(n), DefBits)]
  IN  IF kind = "fixed" THEN [copied EXCEPT !.vals = slots(Null)]
      ELSE IF type # "crucial" THEN [copied EXCEPT !.offs = slots(InvalidOff)]
      ELSE [copied EXCEPT !.offs = slots(InvalidOff), !.vals = vals, !.cur_off = Len(vals)]

-----------------------------------------------------------------------------
(* The steps of ColumnFile, with what they do to the content.              *)

ContentInit ==
  /\ Init
  /\ kind \in Kinds
  /\ units = <<>> /\ bva_bgn_off = 0
  /\ bytes = [o \in {} |-> <<>>]

\* The CAB in memory begins with this unit.
Begin(unit) == units' = <<unit>> /\ bva_bgn_off' = 0

NoCAB == units' = <<>> /\ bva_bgn_off' = 0

CreateContent(rbgn) ==
  /\ OpenWrite(rbgn)
  /\ bytes' = [o \in {} |-> <<>>]
  /\ Begin(MajorUnit)
  /\ UNCHANGED kind

ExtendContent ==
  /\ OpenAppendNextCAB
  /\ Begin(MajorUnit)
  /\ UNCHANGED <<kind, bytes>>

ReloadContent ==
  /\ OpenAppendTail
  /\ Begin(CopyContent(TailInfo))
  /\ UNCHANGED <<kind, bytes>>

\* The items that are written, of the values their place allows.
Inputs == {it \in ItemInputs[Len(log)] : it.rep \in RepLevels \cup {0}}

WriteToUnit(it) ==
  /\ WriteInCAB(it)
  /\ ~IsFull(Last(units))
  /\ units' = [units EXCEPT ![Len(units)] = WriteItem(@, it)]
  /\ UNCHANGED <<kind, bva_bgn_off, bytes>>

WriteToMinorUnit(it) ==
  /\ WriteInCAB(it)
  /\ IsFull(Last(units))
  /\ bva_bgn_off' = NextBeginOffset
  /\ units' = Append(units, WriteItem(NewUnit(MinorCap, bva_bgn_off'), it))
  /\ UNCHANGED <<kind, bytes>>

WriteToNextContent(it) ==
  /\ WriteToNextCAB(it)
  /\ bytes' = FlushedBytes(FALSE)
  /\ Begin(WriteItem(MajorUnit, it))
  /\ UNCHANGED kind

FlushContent ==
  /\ CloseFlush
  /\ bytes' = FlushedBytes(TRUE)
  /\ UNCHANGED <<kind, units, bva_bgn_off>>

DropContent ==
  /\ CloseInfo \/ Crash
  /\ NoCAB
  /\ UNCHANGED <<kind, bytes>>

ContentNext ==
  \/ \E rbgn \in FirstRecds : CreateContent(rbgn)
  \/ ExtendContent
  \/ ReloadContent
  \/ \E it \in Inputs : WriteToUnit(it) \/ WriteToMinorUnit(it) \/ WriteToNextContent(it)
  \/ FlushContent
  \/ DropContent
  \/ (OpenAppendTailFails \/ Restart) /\ UNCHANGED <<kind, units, bva_bgn_off, bytes>>

-----------------------------------------------------------------------------
(* What the blocks say.                                                    *)

\* The CABInfos whose blocks have been stored.
StoredInfos ==
  (IF info_file = NoFile THEN {} ELSE Range(info_file.infos))
    \cup {infos[i] : i \in 1..(Len(infos) - (IF session = "open" THEN 1 ELSE 0))}

\* Stored blocks, read as the content of a single unit, are the items of their CABs.
BlocksDecode ==
  \A info \in StoredInfos :
    info.strg_size # 0 /\ Readable(info) => ReadContent(info) = ReadBlock(info)

=============================================================================
