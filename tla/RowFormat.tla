----------------------------- MODULE RowFormat -----------------------------
(***************************************************************************)
(* The binary row: objects and arrays as RowObjectBuilder and              *)
(* RowArrayBuilder lay them out in a Buffer, and as RowObjectOperator and  *)
(* RowArrayOperator read them.                                             *)
(*                                                                         *)
(*   | Size | values of the members | IDs | offsets | Info |               *)
(*                                                                         *)
(* Arrays have no IDs.  An offset is where a member begins behind Size;    *)
(* where it ends is not stored.  A buffer is a sequence of cells.  Size    *)
(* and an ID take one, Info takes one for its flag and one for its number, *)
(* an offset takes as many as the code gives it bytes, and one of these    *)
(* holds Byte values.  Positions begin at 0, so that p is buf[p + 1].      *)
(***************************************************************************)
EXTENDS Integers, Sequences, SequencesExt

CONSTANTS Byte  \* values one byte of an offset can have

ASSUME RowAssumption == Byte \in Nat \ {0, 1}

SizeUsed == 1
InfoUsed == 2

Flags == 1..3  \* s_flag_8, s_flag_16, s_flag_32

\* The width of the offsets, from the length of all values: an empty member at
\* the end has the offset vlen.
CalcFlag(vlen) == IF vlen < Byte THEN 1 ELSE IF vlen < Byte * Byte THEN 2 ELSE 3

GetOffsetUsed(flag) == 2^(flag - 1)

\* An offset as it is stored, cut to its width, and what is read of its cells.
OffsetCells(flag, off) == [k \in 1..GetOffsetUsed(flag) |-> (off \div Byte^(k - 1)) % Byte]
CellsOffset(cells) == FoldRight(LAMBDA c, acc : c + Byte * acc, cells, 0)

-----------------------------------------------------------------------------
(* Builders.  m_vlen is the length of the values appended, m_rbgn the      *)
(* position of Size.                                                       *)

Off == [init |-> FALSE, rbgn |-> 0, ids |-> <<>>, offs |-> <<>>, vlen |-> 0]

\* Buffer::allocate.
Allocate(buf, len) == buf \o [k \in 1..len |-> 0]

InitAt(pos) == [Off EXCEPT !.init = TRUE, !.rbgn = pos]

\* appendElem of an object and of an array, and appendValue of both.
AppendMember(bld, id)   == [bld EXCEPT !.ids = Append(@, id), !.offs = Append(@, bld.vlen)]
AppendElem(bld)         == [bld EXCEPT !.offs = Append(@, bld.vlen)]
AppendValue(bld, blen)  == [bld EXCEPT !.vlen = @ + blen]

\* The cells overwritten from position pos on; what is behind used is not kept.
Overwrite(buf, pos, cells) ==
  [p \in DOMAIN buf |-> IF p \in (pos + 1)..(pos + Len(cells)) THEN cells[p - pos] ELSE buf[p]]

\* What stands behind the values: IDs, offsets and Info.
Behind(bld) ==
  LET flag == CalcFlag(bld.vlen)
  IN  bld.ids \o FlattenSeq([k \in DOMAIN bld.offs |-> OffsetCells(flag, bld.offs[k])])
        \o <<flag, Len(bld.offs)>>

\* It is written where the values should end, and the place for it is allocated
\* where the buffer ends.
Written(buf, rbgn, vlen, behind) ==
  Overwrite(Overwrite(Allocate(buf, Len(behind)), rbgn + SizeUsed + vlen, behind),
            rbgn, <<SizeUsed + vlen + Len(behind)>>)

\* package of both.
PackageStruct(buf, bld) == Written(buf, bld.rbgn, bld.vlen, Behind(bld))

-----------------------------------------------------------------------------
(* Operators.  Init2Read finds the sections of a struct from its end.      *)

Cell(buf, p)        == IF p + 1 \in DOMAIN buf THEN buf[p + 1] ELSE 0
Cells(buf, p, len)  == [k \in 1..len |-> Cell(buf, p + k - 1)]

Init2Read(buf, bgn) ==
  LET total == Cell(buf, bgn)
      info  == bgn + total - InfoUsed
      flag  == Cell(buf, info)
      num   == Cell(buf, info + 1)
  IN  [vals |-> bgn + SizeUsed, total |-> total, flag |-> flag, num |-> num,
       offs |-> info - num * GetOffsetUsed(flag)]

GetOffset(buf, s, i) ==
  LET w == GetOffsetUsed(s.flag) IN CellsOffset(Cells(buf, s.offs + i * w, w))

GetBinVal(buf, s, i) == s.vals + GetOffset(buf, s, i)

GetValSize(s) == s.total - SizeUsed - InfoUsed - s.num * GetOffsetUsed(s.flag)

\* The size of a member: up to the next one, of the last up to the offsets.
GetBinSize(buf, s, i) ==
  (IF i + 1 = s.num THEN GetValSize(s) ELSE GetOffset(buf, s, i + 1)) - GetOffset(buf, s, i)

GetRowID(buf, o, i) == Cell(buf, o.offs - o.num + i)

\* The same of an object, where the IDs stand between values and offsets.
GetMemberSize(buf, o, i) == GetBinSize(buf, o, i) - (IF i + 1 = o.num THEN o.num ELSE 0)

=============================================================================
