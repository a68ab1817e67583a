----------------------------- MODULE BitVector -----------------------------
(***************************************************************************)
(* The packed array that stores repetition and definition levels.          *)
(*                                                                         *)
(* Elements of mask_size bits lie one behind the other in a buffer that    *)
(* other arrays share.  append only sets bits, so the bits it will use     *)
(* must be zero: each time it enters a new word it clears it, and          *)
(* next_64bit remembers how far it has cleared.  init2read computes        *)
(* next_64bit anew, and copyContent hands it to the vector that goes on    *)
(* appending to a reloaded tail CAB.                                       *)
(***************************************************************************)
EXTENDS Integers, Sequences

CONSTANTS
  WordBits,  \* bits of a word (64)
  MaskSizes, \* bits an element may have
  MemBits,   \* bits of the buffer the vector lies at the start of
  Caps,      \* capacities in bits a vector may be given
  Patterns   \* the values appended, cut to the bits of an element

ASSUME ConstantsAssumption ==
  /\ WordBits \in Nat \ {0} /\ MaskSizes \subseteq 1..WordBits
  /\ MemBits \in Nat
  /\ Caps \subseteq 1..MemBits
  /\ Patterns \subseteq Nat

VARIABLES
  mask_size,  \* m_mask_size, given to the constructor
  mem,        \* m_cont and what follows it: a bit for every position
  bits_cap,   \* m_bits_cap; 0 before init2write
  bits_used,  \* m_bits_used
  elem_used,  \* m_elem_used
  next_64bit, \* m_next_64bit
  elems,      \* history: the elements appended or set
  resumed     \* history: bits used when the vector was last copied, 0 if never

vars == <<mask_size, mem, bits_cap, bits_used, elem_used, next_64bit, elems, resumed>>

\* The elements of mask_size bits to append.
Elements == {p % 2^mask_size : p \in Patterns}

CalcAlignBegin(num, align) == (num \div align) * align

\* Mutant of Bit: the higher bits are not masked out.
MutantBitUnmasked(val, k) == val \div 2^k

Bit(val, k) == (val \div 2^k) % 2

\* BitVector::getByBit
GetByBit(m, bi) ==
  LET sum[k \in 0..mask_size] ==
        IF k = 0 THEN 0 ELSE sum[k - 1] + m[bi + k - 1] * 2^(k - 1)
  IN  sum[mask_size]

Get(ei) == GetByBit(mem, ei * mask_size)

\* Mutant of Cleared: the first bit is missed.
MutantFirstBitKept(m, bgn, end) == [i \in DOMAIN m |-> IF i > bgn /\ i < end THEN 0 ELSE m[i]]

Cleared(m, bgn, end) == [i \in DOMAIN m |-> IF i >= bgn /\ i < end THEN 0 ELSE m[i]]

\* The buffer belongs to others before; every bit of it is set.
Init ==
  /\ mask_size \in MaskSizes
  /\ mem = [i \in 0..(MemBits - 1) |-> 1]
  /\ bits_cap = 0 /\ bits_used = 0 /\ elem_used = 0 /\ next_64bit = 0
  /\ elems = <<>>
  /\ resumed = 0

\* BitVector::init2write
Init2Write(cap) ==
  /\ bits_cap = 0
  /\ bits_cap' = cap
  /\ mem' = Cleared(mem, 0, cap)
  /\ UNCHANGED <<mask_size, bits_used, elem_used, next_64bit, elems, resumed>>

\* Mutant of EntersWord: the element's own bits are not looked at.
MutantEntersLate == bits_used >= next_64bit

\* The clearing at the beginning of BitVector::append.
EntersWord == bits_used + mask_size > next_64bit

WordBegin == CalcAlignBegin(next_64bit, WordBits)

\* Mutant of MemToAppend: a last, shared word is cleared whole.
MutantClearsWholeWord ==
  IF ~EntersWord THEN mem ELSE Cleared(mem, WordBegin, WordBegin + WordBits)

MemToAppend ==
  IF ~EntersWord THEN mem
  ELSE IF next_64bit + WordBits <= bits_cap
  THEN Cleared(mem, WordBegin, WordBegin + WordBits)
  ELSE Cleared(mem, WordBegin, WordBegin + (bits_cap - next_64bit))

\* BitVector::append; the item array stops at its capacity.  appendNotZero ORs
\* the element's bits in.
AppendElem(val) ==
  /\ bits_cap > 0
  /\ bits_used + mask_size <= bits_cap
  /\ next_64bit' = next_64bit + (IF EntersWord THEN WordBits ELSE 0)
  /\ mem' = [i \in DOMAIN mem |->
               IF i \in bits_used..(bits_used + mask_size - 1) /\ Bit(val, i - bits_used) = 1
               THEN 1 ELSE MemToAppend[i]]
  /\ bits_used' = bits_used + mask_size
  /\ elem_used' = elem_used + 1
  /\ elems' = Append(elems, val)
  /\ UNCHANGED <<mask_size, bits_cap, resumed>>

\* BitVector::set
SetElem(ei, val) ==
  /\ ei < elem_used
  /\ mem' = [i \in DOMAIN mem |->
               IF i \in (ei * mask_size)..(ei * mask_size + mask_size - 1)
               THEN Bit(val, i - ei * mask_size) ELSE mem[i]]
  /\ elems' = [elems EXCEPT ![ei + 1] = val]
  /\ UNCHANGED <<mask_size, bits_cap, bits_used, elem_used, next_64bit, resumed>>

\* A vector reloaded with capacity cap, what follows the copied bits, and how
\* far it counts as cleared.
Reloaded(cap, rest, next) ==
  /\ bits_used > 0 /\ resumed = 0
  /\ cap >= bits_used
  /\ bits_cap' = cap
  /\ mem' = [i \in DOMAIN mem |->
               IF i < bits_used THEN mem[i] ELSE IF i < cap THEN rest ELSE 1]
  /\ next_64bit' = next
  /\ resumed' = bits_used
  /\ UNCHANGED <<mask_size, bits_used, elem_used, elems>>

\* The stored content is read back (init2read) and copied (copyContent) into a
\* vector in a fresh buffer, to append to it.
Resume(cap) == Reloaded(cap, 0, CalcAlignBegin(WordBits, bits_used) + WordBits)

Next ==
  \/ \E cap \in Caps : Init2Write(cap)
  \/ \E val \in Elements : AppendElem(val)
  \/ \E ei \in 0..(Len(elems) - 1), val \in Elements : SetElem(ei, val)
  \/ \E cap \in Caps : Resume(cap)

Spec == Init /\ [][Next]_vars

-----------------------------------------------------------------------------
(* Properties.                                                             *)

\* The variables have the types of the fields they stand for.
TypeOK ==
  /\ mask_size \in MaskSizes
  /\ mem \in [0..(MemBits - 1) -> {0, 1}]
  /\ bits_cap \in Nat /\ bits_used \in Nat /\ elem_used \in Nat /\ next_64bit \in Nat
  /\ elems \in Seq(0..(2^mask_size - 1)) /\ resumed \in Nat

\* get returns, for every element, the value last appended or set there
\* (BitVector.h:147-154; unittest/Util.cpp:249-270 checks it after init2read).
ElementsKept ==
  /\ elem_used = Len(elems)
  /\ \A ei \in 0..(elem_used - 1) : Get(ei) = elems[ei + 1]

\* The same for every vector that was never reloaded, or was reloaded when its
\* used bits divided a word: append clears a word before it holds elements.
KeptIfWordAligned ==
  resumed = 0 \/ WordBits % resumed = 0 => ElementsKept

\* The bits append will OR an element into are zero when it does.
RoomIsClear ==
  resumed = 0 \/ WordBits % resumed = 0 =>
    \A i \in bits_used..(bits_cap - 1) : mem[i] = 0

\* The vector never touches a bit behind its capacity, also in its last,
\* shared word (the comment "keeps other's bits" in append).
NeighboursUntouched == \A i \in bits_cap..(MemBits - 1) : mem[i] = 1

=============================================================================
