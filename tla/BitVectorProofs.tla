-------------------------- MODULE BitVectorProofs --------------------------
(***************************************************************************)
(* Theorems about the bit vector (module BitVector), for any size of word  *)
(* and element, any buffer and any values.                                 *)
(*                                                                         *)
(* The invariant looks at single bits: those of the elements are the bits  *)
(* of the values, those the vector has room for are zero, those behind it  *)
(* are another's.  getByBit, which adds the bits up, then returns the      *)
(* value.                                                                  *)
(***************************************************************************)
EXTENDS BitVector, SequenceTheorems, NatInduction

-----------------------------------------------------------------------------
(* Reading an element back.                                                *)

\* f is the function that GetByBit(m, bi) builds.
Adds(f, m, bi) ==
  f = [k \in 0..mask_size |->
         IF k = 0 THEN 0 ELSE f[k - 1] + m[bi + k - 1] * 2^(k - 1)]

\* What Adds says of the values.
LEMMA AddsValues ==
  ASSUME NEW m, NEW bi, NEW f, Adds(f, m, bi), mask_size \in Nat
  PROVE  /\ f[0] = 0
         /\ \A k \in 1..mask_size : f[k] = f[k - 1] + m[bi + k - 1] * 2^(k - 1)
<1> DEFINE body(k) == IF k = 0 THEN 0 ELSE f[k - 1] + m[bi + k - 1] * 2^(k - 1)
<1>1. f = [k \in 0..mask_size |-> body(k)]
  BY DEF Adds
<1>2. \A k \in 0..mask_size : f[k] = body(k)
  <2> HIDE DEF body
  <2> QED BY <1>1
<1>3. 0 \in 0..mask_size /\ \A k \in 1..mask_size : k \in 0..mask_size /\ k # 0
  OBVIOUS
<1> QED BY <1>2, <1>3

\* There is such a function.
LEMMA SumExists ==
  ASSUME NEW m, NEW bi, mask_size \in Nat
  PROVE  \E f : Adds(f, m, bi)
<1> DEFINE term(k) == m[bi + k - 1] * 2^(k - 1)
           Upto(f, n) == f[0] = 0 /\ \A k \in 1..n : f[k] = f[k - 1] + term(k)
           T == {n \in Nat : \E f : DOMAIN f = 0..n /\ Upto(f, n)}
<1> HIDE DEF term
<1>1. 0 \in T
  <2> DEFINE f == [k \in 0..0 |-> 0]
  <2>1. DOMAIN f = 0..0 /\ Upto(f, 0)
    OBVIOUS
  <2> QED BY <2>1
<1>2. ASSUME NEW n \in T PROVE n + 1 \in T
  <2>1. PICK f : DOMAIN f = 0..n /\ Upto(f, n)
    OBVIOUS
  <2>2. n \in Nat /\ n + 1 \in Nat /\ (n + 1) - 1 = n
    OBVIOUS
  <2> DEFINE g == [k \in 0..(n + 1) |-> IF k = n + 1 THEN f[n] + term(n + 1) ELSE f[k]]
  <2>3. DOMAIN g = 0..(n + 1)
    OBVIOUS
  <2>4. \A k \in 0..n : g[k] = f[k]
    BY <2>2
  <2>5. g[n + 1] = f[n] + term(n + 1)
    BY <2>2
  <2> HIDE DEF g
  <2>6. ASSUME NEW k \in 1..(n + 1) PROVE g[k] = g[k - 1] + term(k)
    <3>1. CASE k = n + 1
      <4>1. n \in 0..n /\ k - 1 = n
        BY <2>2, <3>1
      <4> QED BY <2>4, <2>5, <3>1, <4>1
    <3>2. CASE k # n + 1
      <4>1. k \in 1..n /\ k \in 0..n /\ k - 1 \in 0..n
        BY <2>2, <3>2
      <4> QED BY <2>1, <2>4, <4>1
    <3> QED BY <3>1, <3>2
  <2>7. g[0] = 0
    BY <2>1, <2>2, <2>4
  <2> QED BY <2>2, <2>3, <2>6, <2>7
<1>3. T = Nat
  <2>1. T \subseteq Nat
    OBVIOUS
  <2> HIDE DEF T
  <2> QED BY <1>1, <1>2, <2>1, SetInduction
<1>4. PICK f : DOMAIN f = 0..mask_size /\ Upto(f, mask_size)
  BY <1>3
<1> DEFINE h == [k \in 0..mask_size |-> f[k]]
           body(k) == IF k = 0 THEN 0 ELSE h[k - 1] + term(k)
<1>5. \A k \in 0..mask_size : h[k] = f[k]
  OBVIOUS
<1>6. h = [k \in 0..mask_size |-> h[k]]
  OBVIOUS
<1> HIDE DEF h
<1>7. ASSUME NEW k \in 0..mask_size PROVE h[k] = body(k)
  <2>1. k # 0 => k \in 1..mask_size /\ k - 1 \in 0..mask_size
    OBVIOUS
  <2> QED BY <1>4, <1>5, <2>1
<1>8. h = [k \in 0..mask_size |-> body(k)]
  <2> HIDE DEF body
  <2> QED BY <1>6, <1>7
<1>9. Adds(h, m, bi)
  BY <1>8 DEF Adds, term
<1> QED BY <1>9

\* What is left of a value above its k lowest bits is halved by the next one.
LEMMA NextBit ==
  ASSUME NEW v \in Nat, NEW k \in Nat, NEW s \in Nat,
         s < 2^k, v = (v \div 2^k) * 2^k + s
  PROVE  /\ Bit(v, k) \in {0, 1}
         /\ s + Bit(v, k) * 2^k < 2^(k + 1)
         /\ v = (v \div 2^(k + 1)) * 2^(k + 1) + (s + Bit(v, k) * 2^k)
<1>1. /\ 2^k \in Nat \ {0} /\ 2^(k + 1) = 2 * 2^k
      /\ v \div 2^k \in Nat
  <2>1. 2^k \in Nat \ {0} /\ 2^(k + 1) = 2 * 2^k
    BY Powers
  <2> QED BY <2>1
<1> DEFINE d == v \div 2^k
           b == Bit(v, k)
           e == d \div 2
           p == 2^k
           q == 2^(k + 1)
<1>2. d = 2 * e + b /\ b \in {0, 1} /\ e \in Nat
  <2>1. \A x \in Nat : x = 2 * (x \div 2) + (x % 2) /\ x % 2 \in {0, 1} /\ x \div 2 \in Nat
    OBVIOUS
  <2>2. b = d % 2
    BY DEF Bit
  <2> HIDE DEF d, b
  <2> QED BY <1>1, <2>1, <2>2 DEF d
<1>3. p \in Nat \ {0} /\ q = 2 * p /\ v = d * p + s /\ s < p
  BY <1>1
<1> HIDE DEF d, b, e, p, q
<1>4. s + b * p < q /\ s + b * p \in Nat
  BY <1>2, <1>3
<1>5. v = e * q + (s + b * p)
  <2>1. \A x, y, z \in Nat : (2 * x + y) * z + s = x * (2 * z) + (s + y * z)
    OBVIOUS
  <2> QED BY <1>2, <1>3, <2>1
<1>6. v \div q = e
  <2>1. q \in Nat \ {0} /\ s + b * p \in 0..(q - 1)
    BY <1>3, <1>4
  <2>2. ASSUME NEW x \in Nat, NEW y \in Nat \ {0}, NEW r \in 0..(y - 1)
        PROVE  (x * y + r) \div y = x
    OBVIOUS
  <2> QED BY <1>2, <1>5, <2>1, <2>2
<1> QED BY <1>2, <1>4, <1>5, <1>6 DEF p, q, b

\* getByBit returns the value whose bits it finds.
LEMMA ReadsBack ==
  ASSUME mask_size \in Nat, NEW m, NEW bi \in Nat, NEW v \in 0..(2^mask_size - 1),
         \A k \in 0..(mask_size - 1) : m[bi + k] = Bit(v, k)
  PROVE  GetByBit(m, bi) = v
<1> DEFINE up == CHOOSE f : Adds(f, m, bi)
<1>1. GetByBit(m, bi) = up[mask_size]
  BY Zenon DEF GetByBit, Adds
<1>2. Adds(up, m, bi)
  BY SumExists
<1> HIDE DEF up
<1>3. /\ up[0] = 0
      /\ \A k \in 1..mask_size : up[k] = up[k - 1] + m[bi + k - 1] * 2^(k - 1)
  BY <1>2, AddsValues
<1> DEFINE Sum(k) == up[k] \in Nat /\ up[k] < 2^k /\ v = (v \div 2^k) * 2^k + up[k]
           T == {k \in Nat : Sum(k)}
<1>4. 2^0 = 1 /\ 2^mask_size \in Nat \ {0} /\ v \in Nat
  <2>1. 2^0 = 1 /\ 2^mask_size \in Nat \ {0}
    BY Powers
  <2> QED BY <2>1
<1>5. Sum(0)
  <2>1. v \div 1 = v
    BY <1>4
  <2> QED BY <1>3, <1>4, <2>1
<1>6. ASSUME NEW k \in Nat, k < mask_size, Sum(k) PROVE Sum(k + 1)
  <2>1. /\ k + 1 \in 1..mask_size /\ (k + 1) - 1 = k /\ bi + (k + 1) - 1 = bi + k
        /\ k \in 0..(mask_size - 1)
    BY <1>6
  <2>2. up[k + 1] = up[k] + Bit(v, k) * 2^k
    BY <1>3, <2>1
  <2>3. /\ Bit(v, k) \in {0, 1} /\ up[k] + Bit(v, k) * 2^k < 2^(k + 1)
        /\ v = (v \div 2^(k + 1)) * 2^(k + 1) + (up[k] + Bit(v, k) * 2^k)
    BY <1>4, <1>6, NextBit
  <2>4. 2^k \in Nat
    BY <1>6, Powers
  <2> QED BY <1>6, <2>2, <2>3, <2>4
<1>7. Sum(mask_size)
  <2>1. 0 \in T
    BY <1>5
  <2>2. \A k \in Nat : k < mask_size /\ k \in T => k + 1 \in T
    BY <1>6
  <2>3. mask_size \in T
    <3> HIDE DEF T
    <3> QED BY <2>1, <2>2, InductionUpTo
  <2> QED BY <2>3
<1>8. v \div 2^mask_size = 0
  <2>1. \A x \in Nat \ {0} : \A y \in 0..(x - 1) : y \div x = 0
    OBVIOUS
  <2> QED BY <1>4, <2>1
<1> QED BY <1>1, <1>4, <1>7, <1>8

-----------------------------------------------------------------------------
(* The invariant.                                                          *)

\* append knows how far the words are cleared.
Aligned == resumed = 0 \/ WordBits % resumed = 0

Typing ==
  /\ mask_size \in MaskSizes
  /\ mem \in [0..(MemBits - 1) -> {0, 1}]
  /\ bits_cap \in Nat /\ bits_cap <= MemBits /\ bits_used \in Nat /\ bits_used <= bits_cap
  /\ elem_used \in Nat /\ next_64bit \in Nat /\ resumed \in Nat
  /\ elems \in Seq(0..(2^mask_size - 1)) /\ Len(elems) = elem_used
  /\ bits_used = elem_used * mask_size

\* The bits of the elements, while no word is cleared that holds some.
BitsKept ==
  Aligned =>
    /\ bits_used <= next_64bit
    /\ \E q \in Nat : next_64bit = q * WordBits
    /\ \A ei \in 0..(elem_used - 1), k \in 0..(mask_size - 1) :
         mem[ei * mask_size + k] = Bit(elems[ei + 1], k)

IInv == Typing /\ BitsKept /\ RoomIsClear /\ NeighboursUntouched

\* The facts about the constants.
LEMMA Sizes ==
  ASSUME Typing
  PROVE  /\ mask_size \in Nat \ {0} /\ mask_size <= WordBits /\ WordBits \in Nat \ {0}
         /\ MemBits \in Nat /\ 2^mask_size \in Nat \ {0}
         /\ \A c \in Caps : c \in Nat \ {0} /\ c <= MemBits
<1>1. mask_size \in Nat \ {0} /\ mask_size <= WordBits
  BY ConstantsAssumption DEF Typing
<1> QED BY <1>1, Powers, ConstantsAssumption

\* The bits of element ei are bits of the used part, and of no other element.
LEMMA BitPlace ==
  ASSUME NEW n \in Nat \ {0}, NEW e \in Nat, NEW ei \in 0..(e - 1), NEW k \in 0..(n - 1)
  PROVE  /\ ei * n + k \in Nat /\ ei * n + k < e * n
         /\ \A ej \in Nat : ei # ej => ei * n + k \notin (ej * n)..(ej * n + n - 1)
<1>1. \A a, b \in Nat : a < b => a * n + n <= b * n
  <2> SUFFICES ASSUME NEW a \in Nat, NEW b \in Nat, a < b PROVE a * n + n <= b * n
    OBVIOUS
  <2>1. (a + 1) * n <= b * n
    OBVIOUS
  <2> QED BY <2>1
<1>2. ei * n \in Nat /\ ei * n + n <= e * n
  BY <1>1
<1>3. ASSUME NEW ej \in Nat, ei # ej PROVE ei * n + k \notin (ej * n)..(ej * n + n - 1)
  <2>1. ei < ej \/ ej < ei
    BY <1>3
  <2>2. ei * n + n <= ej * n \/ ej * n + n <= ei * n
    BY <1>1, <2>1
  <2>3. ej * n \in Nat
    OBVIOUS
  <2> QED BY <1>2, <2>2, <2>3
<1> QED BY <1>2, <1>3

LEMMA InitInv == ASSUME Init PROVE IInv
<1>1. mask_size \in MaskSizes /\ mask_size \in Nat
  BY ConstantsAssumption DEF Init
<1>2. Typing
  <2>1. elems \in Seq(0..(2^mask_size - 1)) /\ Len(elems) = 0
    BY EmptySeq DEF Init
  <2>2. 0 = 0 * mask_size /\ 0 <= MemBits
    BY <1>1, ConstantsAssumption
  <2> QED BY <2>1, <2>2 DEF Init, Typing
<1>3. BitsKept
  <2>1. 0 = 0 * WordBits
    BY ConstantsAssumption
  <2> QED BY <2>1 DEF Init, BitsKept
<1>4. RoomIsClear /\ NeighboursUntouched
  BY DEF Init, RoomIsClear, NeighboursUntouched
<1> QED BY <1>2, <1>3, <1>4 DEF IInv

\* Clearing keeps bits bits and changes the bits from bgn to end only.
LEMMA ClearedBits ==
  ASSUME NEW m \in [0..(MemBits - 1) -> {0, 1}], NEW bgn \in Int, NEW end \in Int
  PROVE  /\ Cleared(m, bgn, end) \in [0..(MemBits - 1) -> {0, 1}]
         /\ \A i \in 0..(MemBits - 1) :
              Cleared(m, bgn, end)[i] = IF i >= bgn /\ i < end THEN 0 ELSE m[i]
BY DEF Cleared

\* A new vector takes the beginning of the buffer and clears it.
LEMMA Init2WriteStep == ASSUME IInv, NEW cap \in Caps, Init2Write(cap) PROVE IInv'
<1>1. /\ Typing /\ bits_cap = 0 /\ bits_cap' = cap /\ mem' = Cleared(mem, 0, cap)
      /\ UNCHANGED <<mask_size, bits_used, elem_used, next_64bit, elems, resumed>>
  BY DEF IInv, Init2Write
<1>2. /\ mask_size \in Nat \ {0} /\ cap \in Nat \ {0} /\ cap <= MemBits /\ MemBits \in Nat
      /\ 2^mask_size \in Nat \ {0}
  BY <1>1, Sizes
<1>3. bits_used = 0 /\ elem_used = 0
  <2>1. elem_used \in Nat /\ bits_used = elem_used * mask_size /\ bits_used = 0
    BY <1>1 DEF Typing
  <2>2. \A a \in Nat, b \in Nat \ {0} : a * b = 0 => a = 0
    OBVIOUS
  <2> QED BY <1>2, <2>1, <2>2
<1>4. /\ mem' \in [0..(MemBits - 1) -> {0, 1}]
      /\ \A i \in 0..(MemBits - 1) : mem'[i] = IF i >= 0 /\ i < cap THEN 0 ELSE mem[i]
  BY <1>1, <1>2, ClearedBits DEF Typing
<1>5. Typing'
  BY <1>1, <1>2, <1>3, <1>4 DEF Typing
<1>6. BitsKept'
  <2>1. elem_used' = 0 /\ 0..(0 - 1) = {}
    BY <1>1, <1>3
  <2>2. Aligned' = Aligned
    BY <1>1 DEF Aligned
  <2> QED BY <1>1, <2>1, <2>2 DEF IInv, BitsKept
<1>7. RoomIsClear'
  BY <1>1, <1>2, <1>3, <1>4 DEF RoomIsClear
<1>8. NeighboursUntouched'
  <2>1. \A i \in 0..(MemBits - 1) : mem[i] = 1
    BY <1>1 DEF IInv, NeighboursUntouched
  <2> QED BY <1>1, <1>2, <1>4, <2>1 DEF NeighboursUntouched
<1> QED BY <1>5, <1>6, <1>7, <1>8 DEF IInv

\* append clears bits the vector has room in: none of an element, none behind it.
LEMMA MemToAppendBits ==
  ASSUME IInv
  PROVE  /\ MemToAppend \in [0..(MemBits - 1) -> {0, 1}]
         /\ \A i \in 0..(MemBits - 1) :
              /\ MemToAppend[i] \in {0, mem[i]}
              /\ i >= bits_cap => MemToAppend[i] = mem[i]
              /\ Aligned /\ i < bits_used => MemToAppend[i] = mem[i]
<1> DEFINE w == WordBegin
           a == Cleared(mem, w, w + WordBits)
           z == Cleared(mem, w, w + (bits_cap - next_64bit))
<1>1. /\ Typing /\ mem \in [0..(MemBits - 1) -> {0, 1}] /\ bits_cap \in Nat
      /\ next_64bit \in Nat /\ bits_used \in Nat
  BY DEF IInv, Typing
<1>2. WordBits \in Nat \ {0} /\ mask_size \in Nat \ {0}
  BY <1>1, Sizes
<1>3. w \in Nat /\ w <= next_64bit
  <2>1. \A x \in Nat, y \in Nat \ {0} :
          x = y * (x \div y) + (x % y) /\ x % y \in Nat /\ x \div y \in Nat
    OBVIOUS
  <2>2. \A x, y, r, d \in Nat : x = y * d + r => d * y \in Nat /\ d * y <= x
    OBVIOUS
  <2>3. w = (next_64bit \div WordBits) * WordBits
    BY DEF WordBegin, CalcAlignBegin
  <2> HIDE DEF w
  <2>4. /\ next_64bit = WordBits * (next_64bit \div WordBits) + (next_64bit % WordBits)
        /\ next_64bit % WordBits \in Nat /\ next_64bit \div WordBits \in Nat
    BY <1>1, <1>2, <2>1
  <2> QED BY <1>1, <1>2, <2>2, <2>3, <2>4
<1>4. ASSUME Aligned PROVE w = next_64bit /\ bits_used <= next_64bit
  <2>1. PICK q \in Nat : next_64bit = q * WordBits
    BY <1>4 DEF IInv, BitsKept
  <2>2. (q * WordBits) \div WordBits = q
    BY <1>2
  <2>3. bits_used <= next_64bit
    BY <1>4 DEF IInv, BitsKept
  <2> QED BY <2>1, <2>2, <2>3 DEF WordBegin, CalcAlignBegin
<1> HIDE DEF w
<1>5. /\ a \in [0..(MemBits - 1) -> {0, 1}]
      /\ \A i \in 0..(MemBits - 1) : a[i] = IF i >= w /\ i < w + WordBits THEN 0 ELSE mem[i]
  <2> DEFINE end == w + WordBits
  <2>1. end \in Int /\ w \in Int
    BY <1>2, <1>3
  <2>2. a = Cleared(mem, w, end)
    OBVIOUS
  <2> HIDE DEF end, a
  <2>3. /\ a \in [0..(MemBits - 1) -> {0, 1}]
        /\ \A i \in 0..(MemBits - 1) : a[i] = IF i >= w /\ i < end THEN 0 ELSE mem[i]
    BY <1>1, <2>1, <2>2, ClearedBits
  <2> QED BY <2>3 DEF end
<1>6. /\ z \in [0..(MemBits - 1) -> {0, 1}]
      /\ \A i \in 0..(MemBits - 1) :
           z[i] = IF i >= w /\ i < w + (bits_cap - next_64bit) THEN 0 ELSE mem[i]
  <2> DEFINE end == w + (bits_cap - next_64bit)
  <2>1. end \in Int /\ w \in Int
    BY <1>1, <1>3
  <2>2. z = Cleared(mem, w, end)
    OBVIOUS
  <2> HIDE DEF end, z
  <2>3. /\ z \in [0..(MemBits - 1) -> {0, 1}]
        /\ \A i \in 0..(MemBits - 1) : z[i] = IF i >= w /\ i < end THEN 0 ELSE mem[i]
    BY <1>1, <2>1, <2>2, ClearedBits
  <2> QED BY <2>3 DEF end
<1> HIDE DEF a, z
<1>7. MemToAppend = IF ~EntersWord THEN mem
                    ELSE IF next_64bit + WordBits <= bits_cap THEN a ELSE z
  BY DEF MemToAppend, a, z, w
<1>8. CASE ~EntersWord
  BY <1>1, <1>7, <1>8
<1>9. CASE EntersWord /\ next_64bit + WordBits <= bits_cap
  <2>1. MemToAppend = a
    BY <1>7, <1>9
  <2>2. ASSUME NEW i \in 0..(MemBits - 1)
        PROVE  /\ a[i] \in {0, mem[i]}
               /\ i >= bits_cap => a[i] = mem[i]
               /\ Aligned /\ i < bits_used => a[i] = mem[i]
    BY <1>1, <1>2, <1>3, <1>4, <1>5, <1>9
  <2> QED BY <1>5, <2>1, <2>2
<1>10. CASE EntersWord /\ ~(next_64bit + WordBits <= bits_cap)
  <2>1. MemToAppend = z
    BY <1>7, <1>10
  <2>2. ASSUME NEW i \in 0..(MemBits - 1)
        PROVE  /\ z[i] \in {0, mem[i]}
               /\ i >= bits_cap => z[i] = mem[i]
               /\ Aligned /\ i < bits_used => z[i] = mem[i]
    BY <1>1, <1>2, <1>3, <1>4, <1>6
  <2> QED BY <1>6, <2>1, <2>2
<1> QED BY <1>8, <1>9, <1>10

LEMMA BitRange == ASSUME NEW v \in Nat, NEW k \in Nat PROVE Bit(v, k) \in {0, 1}
<1>1. 2^k \in Nat \ {0}
  BY Powers
<1>2. \A x \in Nat, y \in Nat \ {0} : x \div y \in Nat
  OBVIOUS
<1>3. \A x \in Nat : x % 2 \in {0, 1}
  OBVIOUS
<1> QED BY <1>1, <1>2, <1>3 DEF Bit

\* What is appended or set fits an element.
LEMMA ElementRange ==
  ASSUME Typing, NEW val \in Elements
  PROVE  val \in 0..(2^mask_size - 1) /\ val \in Nat
<1>1. PICK p \in Patterns : val = p % 2^mask_size
  BY DEF Elements
<1>2. p \in Nat /\ 2^mask_size \in Nat \ {0}
  BY Sizes, ConstantsAssumption
<1>3. \A x \in Nat, y \in Nat \ {0} : x % y \in 0..(y - 1)
  OBVIOUS
<1>4. val \in 0..(2^mask_size - 1)
  BY <1>1, <1>2, <1>3
<1> QED BY <1>2, <1>4

\* An element is appended: its bits go where the room was clear.
LEMMA AppendElemStep == ASSUME IInv, NEW val \in Elements, AppendElem(val) PROVE IInv'
<1> DEFINE before == MemToAppend
<1>1. /\ Typing /\ bits_used + mask_size <= bits_cap
      /\ next_64bit' = next_64bit + (IF EntersWord THEN WordBits ELSE 0)
      /\ bits_used' = bits_used + mask_size /\ elem_used' = elem_used + 1
      /\ elems' = Append(elems, val)
      /\ UNCHANGED <<mask_size, bits_cap, resumed>>
  BY DEF IInv, AppendElem
<1>2. /\ mask_size \in Nat \ {0} /\ mask_size <= WordBits /\ WordBits \in Nat \ {0}
      /\ MemBits \in Nat /\ 2^mask_size \in Nat \ {0}
  BY <1>1, Sizes
<1>3. /\ bits_used \in Nat /\ elem_used \in Nat /\ bits_cap \in Nat /\ bits_cap <= MemBits
      /\ next_64bit \in Nat /\ bits_used = elem_used * mask_size
      /\ mem \in [0..(MemBits - 1) -> {0, 1}] /\ Len(elems) = elem_used
      /\ elems \in Seq(0..(2^mask_size - 1))
  BY <1>1 DEF Typing
<1>4. val \in 0..(2^mask_size - 1) /\ val \in Nat
  BY <1>1, ElementRange
<1>5. /\ before \in [0..(MemBits - 1) -> {0, 1}]
      /\ \A i \in 0..(MemBits - 1) :
           /\ before[i] \in {0, mem[i]}
           /\ i >= bits_cap => before[i] = mem[i]
           /\ Aligned /\ i < bits_used => before[i] = mem[i]
  BY MemToAppendBits
<1>6. mem' = [i \in 0..(MemBits - 1) |->
                IF i \in bits_used..(bits_used + mask_size - 1) /\ Bit(val, i - bits_used) = 1
                THEN 1 ELSE before[i]]
  <2>1. DOMAIN mem = 0..(MemBits - 1)
    BY <1>3
  <2> QED BY <2>1 DEF AppendElem
<1> HIDE DEF before
<1>7. /\ mem' \in [0..(MemBits - 1) -> {0, 1}]
      /\ \A i \in 0..(MemBits - 1) :
           mem'[i] = IF i \in bits_used..(bits_used + mask_size - 1) /\ Bit(val, i - bits_used) = 1
                     THEN 1 ELSE before[i]
  <2>1. \A i \in 0..(MemBits - 1) :
          (IF i \in bits_used..(bits_used + mask_size - 1) /\ Bit(val, i - bits_used) = 1
           THEN 1 ELSE before[i]) \in {0, 1}
    BY <1>5
  <2> QED BY <1>6, <2>1
<1>8. /\ elems' \in Seq(0..(2^mask_size - 1)) /\ Len(elems') = elem_used + 1
      /\ elems'[elem_used + 1] = val
      /\ \A i \in 1..elem_used : elems'[i] = elems[i]
  BY <1>1, <1>3, <1>4, AppendProperties
<1>9. bits_used + mask_size = (elem_used + 1) * mask_size
  BY <1>2, <1>3
<1>10. Typing'
  BY <1>1, <1>2, <1>3, <1>7, <1>8, <1>9 DEF Typing
<1>11. ASSUME Aligned
       PROVE  bits_used + mask_size <= next_64bit' /\ \E q \in Nat : next_64bit' = q * WordBits
  <2>1. PICK q \in Nat : next_64bit = q * WordBits
    BY <1>11 DEF IInv, BitsKept
  <2>2. bits_used <= next_64bit
    BY <1>11 DEF IInv, BitsKept
  <2>3. CASE EntersWord
    <3>1. next_64bit' = (q + 1) * WordBits /\ q + 1 \in Nat
      BY <1>1, <1>2, <2>1, <2>3
    <3>2. bits_used + mask_size <= next_64bit'
      BY <1>1, <1>2, <1>3, <2>2, <2>3
    <3> QED BY <3>1, <3>2
  <2>4. CASE ~EntersWord
    BY <1>1, <1>2, <1>3, <2>1, <2>4 DEF EntersWord
  <2> QED BY <2>3, <2>4
<1>12. ASSUME Aligned, NEW i \in bits_used..(bits_cap - 1) PROVE i \in 0..(MemBits - 1) /\ mem[i] = 0
  <2>1. mem[i] = 0
    BY <1>12 DEF IInv, RoomIsClear, Aligned
  <2> QED BY <1>2, <1>3, <1>12, <2>1
<1>13. ASSUME Aligned, NEW ei \in 0..elem_used, NEW k \in 0..(mask_size - 1)
       PROVE  mem'[ei * mask_size + k] = Bit(elems'[ei + 1], k)
  <2> DEFINE j == ei * mask_size + k
  <2>1. CASE ei = elem_used
    <3>1. j = bits_used + k
      BY <1>3, <2>1
    <3> HIDE DEF j
    <3>2. /\ j \in bits_used..(bits_used + mask_size - 1) /\ j - bits_used = k
          /\ j \in bits_used..(bits_cap - 1) /\ k \in Nat
      BY <1>1, <1>2, <1>3, <3>1
    <3>3. j \in 0..(MemBits - 1) /\ before[j] = 0
      BY <1>5, <1>12, <1>13, <3>2
    <3>4. Bit(val, k) \in {0, 1}
      BY <1>4, <3>2, BitRange
    <3>5. mem'[j] = Bit(val, k)
      BY <1>7, <3>2, <3>3, <3>4
    <3> QED BY <1>8, <2>1, <3>5 DEF j
  <2>2. CASE ei # elem_used
    <3>1. ei \in 0..(elem_used - 1) /\ ei + 1 \in 1..elem_used
      BY <1>3, <2>2
    <3>2. j \in Nat /\ j < bits_used
      BY <1>2, <1>3, <3>1, BitPlace
    <3>3. mem[j] = Bit(elems[ei + 1], k)
      BY <1>13, <3>1 DEF IInv, BitsKept
    <3> HIDE DEF j
    <3>4. j \in 0..(MemBits - 1) /\ j \notin bits_used..(bits_used + mask_size - 1)
      BY <1>1, <1>2, <1>3, <3>2
    <3>5. mem'[j] = mem[j]
      BY <1>5, <1>7, <1>13, <3>2, <3>4
    <3> QED BY <1>8, <3>1, <3>3, <3>5 DEF j
  <2> QED BY <2>1, <2>2
<1>14. Aligned' = Aligned
  BY <1>1 DEF Aligned
<1>15. BitsKept'
  <2>1. elem_used' - 1 = elem_used
    BY <1>1, <1>3
  <2> QED BY <1>1, <1>11, <1>13, <1>14, <2>1 DEF BitsKept
<1>16. RoomIsClear'
  <2> SUFFICES ASSUME Aligned, NEW i \in (bits_used + mask_size)..(bits_cap - 1) PROVE mem'[i] = 0
    BY <1>1 DEF RoomIsClear, Aligned
  <2>1. i \in bits_used..(bits_cap - 1) /\ i \notin bits_used..(bits_used + mask_size - 1)
    BY <1>2, <1>3
  <2>2. i \in 0..(MemBits - 1) /\ mem[i] = 0
    BY <1>12, <2>1
  <2> QED BY <1>5, <1>7, <2>1, <2>2
<1>17. NeighboursUntouched'
  <2> SUFFICES ASSUME NEW i \in bits_cap..(MemBits - 1) PROVE mem'[i] = 1
    BY <1>1 DEF NeighboursUntouched
  <2>1. mem[i] = 1
    BY DEF IInv, NeighboursUntouched
  <2>2. i \in 0..(MemBits - 1) /\ i \notin bits_used..(bits_used + mask_size - 1) /\ i >= bits_cap
    BY <1>1, <1>2, <1>3
  <2> QED BY <1>5, <1>7, <2>1, <2>2
<1> QED BY <1>10, <1>15, <1>16, <1>17 DEF IInv

\* An element is set: its bits change and no others.
LEMMA SetElemStep ==
  ASSUME IInv, NEW ei \in 0..(Len(elems) - 1), NEW val \in Elements, SetElem(ei, val)
  PROVE  IInv'
<1> DEFINE bgn == ei * mask_size
<1>1. /\ Typing /\ ei < elem_used
      /\ elems' = [elems EXCEPT ![ei + 1] = val]
      /\ UNCHANGED <<mask_size, bits_cap, bits_used, elem_used, next_64bit, resumed>>
  BY DEF IInv, SetElem
<1>2. /\ mask_size \in Nat \ {0} /\ MemBits \in Nat /\ 2^mask_size \in Nat \ {0}
  BY <1>1, Sizes
<1>3. /\ bits_used \in Nat /\ elem_used \in Nat /\ bits_cap \in Nat /\ bits_cap <= MemBits
      /\ bits_used <= bits_cap /\ bits_used = elem_used * mask_size
      /\ mem \in [0..(MemBits - 1) -> {0, 1}] /\ Len(elems) = elem_used
      /\ elems \in Seq(0..(2^mask_size - 1)) /\ ei \in 0..(elem_used - 1) /\ ei \in Nat
  BY <1>1 DEF Typing
<1>4. val \in 0..(2^mask_size - 1) /\ val \in Nat
  BY <1>1, ElementRange
<1>5. bgn \in Nat /\ bgn + mask_size - 1 < bits_used
  <2>1. ei * mask_size + (mask_size - 1) < elem_used * mask_size
    <3>1. mask_size - 1 \in 0..(mask_size - 1)
      BY <1>2
    <3> QED BY <1>2, <1>3, <3>1, BitPlace
  <2>2. ei * mask_size \in Nat
    BY <1>2, <1>3
  <2> HIDE DEF bgn
  <2>3. bgn = ei * mask_size
    BY DEF bgn
  <2> QED BY <1>2, <1>3, <2>1, <2>2, <2>3
<1>6. mem' = [i \in 0..(MemBits - 1) |->
                IF i \in bgn..(bgn + mask_size - 1) THEN Bit(val, i - bgn) ELSE mem[i]]
  <2>1. DOMAIN mem = 0..(MemBits - 1)
    BY <1>3
  <2> QED BY <2>1 DEF SetElem
<1>7. /\ mem' \in [0..(MemBits - 1) -> {0, 1}]
      /\ \A i \in 0..(MemBits - 1) :
           mem'[i] = IF i \in bgn..(bgn + mask_size - 1) THEN Bit(val, i - bgn) ELSE mem[i]
  <2> HIDE DEF bgn
  <2>1. ASSUME NEW i \in bgn..(bgn + mask_size - 1) PROVE Bit(val, i - bgn) \in {0, 1}
    <3>1. i - bgn \in Nat
      BY <1>5
    <3> QED BY <1>4, <3>1, BitRange
  <2>2. \A i \in 0..(MemBits - 1) :
          (IF i \in bgn..(bgn + mask_size - 1) THEN Bit(val, i - bgn) ELSE mem[i]) \in {0, 1}
    BY <1>3, <2>1
  <2> QED BY <1>6, <2>2
<1>8. /\ elems' \in Seq(0..(2^mask_size - 1)) /\ Len(elems') = elem_used
      /\ elems'[ei + 1] = val
      /\ \A i \in 1..elem_used : i # ei + 1 => elems'[i] = elems[i]
  <2>1. ei + 1 \in 1..Len(elems)
    BY <1>3
  <2> QED BY <1>1, <1>3, <1>4, <2>1, ExceptSeq
<1>9. Typing'
  BY <1>1, <1>7, <1>8 DEF Typing
<1>10. ASSUME Aligned, NEW ej \in 0..(elem_used - 1), NEW k \in 0..(mask_size - 1)
       PROVE  mem'[ej * mask_size + k] = Bit(elems'[ej + 1], k)
  <2> DEFINE j == ej * mask_size + k
  <2>1. j \in Nat /\ j < bits_used
    BY <1>2, <1>3, BitPlace
  <2>2. j \in 0..(MemBits - 1)
    <3> HIDE DEF j
    <3> QED BY <1>2, <1>3, <2>1
  <2>3. CASE ej = ei
    <3>1. j = bgn + k
      BY <2>3
    <3> HIDE DEF j, bgn
    <3>2. j \in bgn..(bgn + mask_size - 1) /\ j - bgn = k
      BY <1>2, <1>5, <3>1
    <3>3. mem'[j] = Bit(val, k)
      BY <1>7, <2>2, <3>2
    <3> QED BY <1>8, <2>3, <3>3 DEF j
  <2>4. CASE ej # ei
    <3>1. ej + 1 \in 1..elem_used /\ ej + 1 # ei + 1
      BY <1>3, <2>4
    <3>2. j \notin bgn..(bgn + mask_size - 1)
      BY <1>2, <1>3, <2>4, BitPlace
    <3>3. mem[j] = Bit(elems[ej + 1], k)
      BY <1>10 DEF IInv, BitsKept
    <3>4. mem'[j] = mem[j]
      <4> HIDE DEF j, bgn
      <4> QED BY <1>7, <2>2, <3>2
    <3> QED BY <1>8, <3>1, <3>3, <3>4
  <2> QED BY <2>3, <2>4
<1>11. Aligned' = Aligned
  BY <1>1 DEF Aligned
<1>12. BitsKept'
  BY <1>1, <1>10, <1>11 DEF IInv, BitsKept
<1>13. ASSUME NEW i \in 0..(MemBits - 1), i >= bits_used PROVE mem'[i] = mem[i]
  <2>1. i \notin bgn..(bgn + mask_size - 1)
    <3> HIDE DEF bgn
    <3> QED BY <1>2, <1>3, <1>5, <1>13
  <2> HIDE DEF bgn
  <2> QED BY <1>7, <2>1
<1>14. RoomIsClear'
  <2> SUFFICES ASSUME Aligned, NEW i \in bits_used..(bits_cap - 1) PROVE mem'[i] = 0
    BY <1>1 DEF RoomIsClear, Aligned
  <2>1. mem[i] = 0
    BY DEF IInv, RoomIsClear, Aligned
  <2> QED BY <1>2, <1>3, <1>13, <2>1
<1>15. NeighboursUntouched'
  <2> SUFFICES ASSUME NEW i \in bits_cap..(MemBits - 1) PROVE mem'[i] = 1
    BY <1>1 DEF NeighboursUntouched
  <2>1. mem[i] = 1
    BY DEF IInv, NeighboursUntouched
  <2> QED BY <1>3, <1>13, <2>1
<1> QED BY <1>9, <1>12, <1>14, <1>15 DEF IInv

\* A vector is reloaded.  It counts two words as cleared when what it holds
\* divides a word, and then the elements end within the first.
LEMMA ResumeStep == ASSUME IInv, NEW cap \in Caps, Resume(cap) PROVE IInv'
<1> DEFINE next == CalcAlignBegin(WordBits, bits_used) + WordBits
<1>1. /\ Typing /\ bits_used > 0 /\ resumed = 0 /\ cap >= bits_used
      /\ bits_cap' = cap /\ next_64bit' = next /\ resumed' = bits_used
      /\ UNCHANGED <<mask_size, bits_used, elem_used, elems>>
  BY DEF IInv, Resume, Reloaded
<1>2. /\ mask_size \in Nat \ {0} /\ WordBits \in Nat \ {0} /\ MemBits \in Nat
      /\ cap \in Nat \ {0} /\ cap <= MemBits
  BY <1>1, Sizes
<1>3. /\ bits_used \in Nat \ {0} /\ elem_used \in Nat /\ bits_used = elem_used * mask_size
      /\ mem \in [0..(MemBits - 1) -> {0, 1}] /\ Len(elems) = elem_used
  BY <1>1 DEF Typing
<1>4. /\ mem' \in [0..(MemBits - 1) -> {0, 1}]
      /\ \A i \in 0..(MemBits - 1) :
           mem'[i] = IF i < bits_used THEN mem[i] ELSE IF i < cap THEN 0 ELSE 1
  <2>1. DOMAIN mem = 0..(MemBits - 1)
    BY <1>3
  <2>2. mem' = [i \in 0..(MemBits - 1) |->
                  IF i < bits_used THEN mem[i] ELSE IF i < cap THEN 0 ELSE 1]
    BY <2>1 DEF Resume, Reloaded
  <2> QED BY <1>3, <2>2
<1>5. /\ next \in Nat
      /\ WordBits % bits_used = 0 => bits_used <= WordBits /\ next = 2 * WordBits
  <2> DEFINE d == WordBits \div bits_used
             r == WordBits % bits_used
  <2>1. WordBits = bits_used * d + r /\ d \in Nat /\ r \in Nat
    <3>1. \A x \in Nat, y \in Nat \ {0} :
            x = y * (x \div y) + (x % y) /\ x % y \in Nat /\ x \div y \in Nat
      OBVIOUS
    <3> QED BY <1>2, <1>3, <3>1
  <2>2. next = d * bits_used + WordBits
    BY DEF CalcAlignBegin
  <2> HIDE DEF d, r, next
  <2>3. d * bits_used \in Nat /\ bits_used * d = d * bits_used
    BY <1>3, <2>1
  <2>4. ASSUME r = 0 PROVE bits_used <= WordBits
    <3>1. d # 0
      BY <1>2, <1>3, <2>1, <2>4
    <3>2. \A x, y \in Nat \ {0} : x <= x * y
      OBVIOUS
    <3> QED BY <1>3, <2>1, <2>4, <3>1, <3>2
  <2>5. r = 0 => d * bits_used = WordBits
    BY <1>2, <2>1, <2>3
  <2> QED BY <1>2, <2>2, <2>3, <2>4, <2>5 DEF r
<1> HIDE DEF next
<1>6. Typing'
  BY <1>1, <1>2, <1>4, <1>5 DEF Typing
<1>7. Aligned
  BY <1>1 DEF Aligned
<1>8. BitsKept'
  <2> SUFFICES ASSUME WordBits % bits_used = 0 PROVE BitsKept'
    BY <1>1, <1>3 DEF BitsKept, Aligned
  <2>1. bits_used <= next /\ next = 2 * WordBits
    BY <1>2, <1>3, <1>5
  <2>2. ASSUME NEW ei \in 0..(elem_used - 1), NEW k \in 0..(mask_size - 1)
        PROVE  mem'[ei * mask_size + k] = Bit(elems[ei + 1], k)
    <3> DEFINE j == ei * mask_size + k
    <3>1. j \in Nat /\ j < bits_used
      BY <1>2, <1>3, BitPlace
    <3>2. mem[j] = Bit(elems[ei + 1], k)
      BY <1>7 DEF IInv, BitsKept
    <3> HIDE DEF j
    <3>3. mem'[j] = mem[j]
      BY <1>1, <1>2, <1>3, <1>4, <3>1
    <3> QED BY <3>2, <3>3 DEF j
  <2> QED BY <1>1, <2>1, <2>2 DEF BitsKept
<1>9. RoomIsClear'
  <2>1. \A i \in bits_used..(cap - 1) : mem'[i] = 0
    BY <1>2, <1>3, <1>4
  <2> QED BY <1>1, <2>1 DEF RoomIsClear
<1>10. NeighboursUntouched'
  <2>1. \A i \in cap..(MemBits - 1) : mem'[i] = 1
    BY <1>1, <1>2, <1>3, <1>4
  <2> QED BY <1>1, <2>1 DEF NeighboursUntouched
<1> QED BY <1>6, <1>8, <1>9, <1>10 DEF IInv

LEMMA StepInv == ASSUME IInv, [Next]_vars PROVE IInv'
<1>1. CASE \E cap \in Caps : Init2Write(cap)
  BY <1>1, Init2WriteStep
<1>2. CASE \E val \in Elements : AppendElem(val)
  BY <1>2, AppendElemStep
<1>3. CASE \E ei \in 0..(Len(elems) - 1), val \in Elements : SetElem(ei, val)
  BY <1>3, SetElemStep
<1>4. CASE \E cap \in Caps : Resume(cap)
  BY <1>4, ResumeStep
<1>5. CASE UNCHANGED vars
  <2>1. UNCHANGED <<mask_size, mem, bits_cap, bits_used, elem_used, next_64bit, elems, resumed>>
    BY <1>5 DEF vars
  <2> QED BY <2>1 DEF IInv, Typing, BitsKept, Aligned, RoomIsClear, NeighboursUntouched
<1> QED BY <1>1, <1>2, <1>3, <1>4, <1>5 DEF Next

-----------------------------------------------------------------------------
(* The theorems.                                                           *)

\* Bits of elements, clear room and bits of others stay apart in every state.
THEOREM Invariance == Spec => []IInv
<1>1. Init => IInv
  BY InitInv
<1>2. IInv /\ [Next]_vars => IInv'
  BY StepInv
<1> QED BY <1>1, <1>2, PTL DEF Spec

\* The vector's variables keep their types.
THEOREM Types == Spec => []TypeOK
<1>1. IInv => TypeOK
  BY DEF IInv, Typing, TypeOK
<1> QED BY <1>1, Invariance, PTL

\* append and set touch no bit behind the capacity, also where the last word is
\* shared with another array (BitVector::append).
THEOREM OthersUntouched == Spec => []NeighboursUntouched
<1>1. IInv => NeighboursUntouched
  BY DEF IInv
<1> QED BY <1>1, Invariance, PTL

\* append ORs an element into bits that are zero, unless the vector was reloaded
\* with a number of bits that does not divide a word.
THEOREM AppendsToClearBits == Spec => []RoomIsClear
<1>1. IInv => RoomIsClear
  BY DEF IInv
<1> QED BY <1>1, Invariance, PTL

\* get returns what was last appended or set, under the same condition.
THEOREM ElementsReadBack == Spec => []KeptIfWordAligned
<1>1. ASSUME IInv PROVE KeptIfWordAligned
  <2> SUFFICES ASSUME Aligned PROVE ElementsKept
    BY DEF KeptIfWordAligned, Aligned
  <2>1. Typing /\ mask_size \in Nat \ {0} /\ elem_used \in Nat /\ Len(elems) = elem_used
    BY <1>1, Sizes DEF IInv, Typing
  <2>2. ASSUME NEW ei \in 0..(elem_used - 1) PROVE Get(ei) = elems[ei + 1]
    <3>1. elems[ei + 1] \in 0..(2^mask_size - 1)
      <4>1. ei + 1 \in 1..Len(elems)
        BY <2>1
      <4> QED BY <2>1, <4>1, ElementOfSeq DEF Typing
    <3>2. \A k \in 0..(mask_size - 1) : mem[ei * mask_size + k] = Bit(elems[ei + 1], k)
      BY <1>1 DEF IInv, BitsKept
    <3>3. ei * mask_size \in Nat
      BY <2>1
    <3> QED BY <2>1, <3>1, <3>2, <3>3, ReadsBack DEF Get
  <2> QED BY <2>1, <2>2 DEF ElementsKept
<1> QED BY <1>1, Invariance, PTL

=============================================================================
