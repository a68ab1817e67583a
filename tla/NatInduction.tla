---------------------------- MODULE NatInduction ----------------------------
(***************************************************************************)
(* Induction over the natural numbers, for the theorems about recursive    *)
(* functions, and powers of two.  The library states induction for a       *)
(* predicate P(_); the set form is the one a proof can instantiate: to     *)
(* show a formula for all n, take the set of the numbers for which it      *)
(* holds.                                                                  *)
(***************************************************************************)
EXTENDS Integers, FiniteSetTheorems, WellFoundedInduction, TLAPS

\* A set of natural numbers that contains 0 and with each number the next one
\* contains all of them: recursions over the blocks of a file end.
LEMMA SetInduction ==
  ASSUME NEW T \in SUBSET Nat, 0 \in T, \A n \in T : n + 1 \in T
  PROVE  T = Nat
<1> DEFINE U == Nat \ T
<1>1. SUFFICES ASSUME U # {} PROVE FALSE
  OBVIOUS
<1>2. PICK m \in U : \A y \in U : <<y, m>> \notin OpToRel(<, Nat)
  <2> DEFINE R == OpToRel(<, Nat)
  <2>1. IsWellFoundedOn(R, Nat)
    BY NatLessThanWellFounded
  <2>2. U \subseteq Nat
    OBVIOUS
  <2> HIDE DEF R, U
  <2>3. \E x \in U : \A y \in U : ~(<<y, x>> \in R)
    BY <1>1, <2>1, <2>2, WFMin
  <2> QED BY <2>3 DEF R
<1>3. m # 0 /\ m - 1 \in Nat
  OBVIOUS
<1>4. m - 1 \in U
  <2>1. ASSUME m - 1 \in T PROVE FALSE
    <3>1. (m - 1) + 1 \in T
      BY <2>1
    <3> QED BY <3>1
  <2> QED BY <1>3, <2>1
<1>5. <<m - 1, m>> \in OpToRel(<, Nat)
  BY <1>3 DEF OpToRel
<1> QED BY <1>2, <1>4, <1>5

\* The same up to a bound.
LEMMA InductionUpTo ==
  ASSUME NEW n \in Nat, NEW T, 0 \in T,
         \A k \in Nat : k < n /\ k \in T => k + 1 \in T
  PROVE  n \in T
<1> DEFINE U == {k \in Nat : k <= n => k \in T}
<1>1. 0 \in U /\ U \subseteq Nat
  OBVIOUS
<1>2. ASSUME NEW k \in U PROVE k + 1 \in U
  <2>1. k \in Nat /\ k + 1 \in Nat
    OBVIOUS
  <2>2. ASSUME k + 1 <= n PROVE k + 1 \in T
    <3>1. k < n /\ k \in T
      BY <2>1, <2>2
    <3> QED BY <2>1, <3>1
  <2> QED BY <2>1, <2>2
<1>3. U = Nat
  <2> HIDE DEF U
  <2> QED BY <1>1, <1>2, SetInduction
<1> QED BY <1>3

\* A set of numbers that is not empty has a least one.
LEMMA LeastNumber ==
  ASSUME NEW S \in SUBSET Nat, S # {}
  PROVE  \E k \in S : \A j \in S : k <= j
<1>1. IsWellFoundedOn(OpToRel(<, Nat), Nat)
  BY NatLessThanWellFounded
<1> DEFINE R == OpToRel(<, Nat)
<1> HIDE DEF R
<1>2. PICK k \in S : \A j \in S : ~(<<j, k>> \in R)
  BY <1>1, WFMin DEF R
<1>3. ASSUME NEW j \in S PROVE k <= j
  <2>1. j \in Nat /\ k \in Nat
    OBVIOUS
  <2>2. ~(j < k)
    BY <1>2, <2>1 DEF R, OpToRel
  <2> QED BY <2>1, <2>2
<1> QED BY <1>3

-----------------------------------------------------------------------------
(* Powers of two.  The provers know nothing of ^; the library knows how    *)
(* many subsets a finite set has.                                          *)

\* A set with one element more has twice as many subsets ...
LEMMA SubsetsDouble ==
  ASSUME NEW S, IsFiniteSet(S), NEW x, x \notin S
  PROVE  Cardinality(SUBSET (S \cup {x})) = 2 * Cardinality(SUBSET S)
<1> DEFINE A == SUBSET S
           B == {T \cup {x} : T \in A}
<1>1. SUBSET (S \cup {x}) = A \cup B
  <2>1. ASSUME NEW T \in SUBSET (S \cup {x}), x \in T PROVE T \in B
    <3>1. T \ {x} \in A /\ T = (T \ {x}) \cup {x}
      BY <2>1
    <3> QED BY <3>1
  <2>2. ASSUME NEW T \in SUBSET (S \cup {x}), x \notin T PROVE T \in A
    BY <2>2
  <2>3. A \cup B \subseteq SUBSET (S \cup {x})
    OBVIOUS
  <2> QED BY <2>1, <2>2, <2>3
<1>2. A \cap B = {}
  OBVIOUS
<1>3. IsFiniteSet(A) /\ Cardinality(A) \in Nat
  BY FS_SUBSET, FS_CardinalityType
<1>4. IsFiniteSet(B) /\ Cardinality(B) = Cardinality(A)
  <2> DEFINE f == [T \in A |-> T \cup {x}]
  <2>1. f \in Bijection(A, B)
    <3>1. f \in Injection(A, B)
      <4>1. f \in [A -> B]
        OBVIOUS
      <4>2. ASSUME NEW T \in A, NEW U \in A, f[T] = f[U] PROVE T = U
        <5>1. T \cup {x} = U \cup {x} /\ x \notin T /\ x \notin U
          BY <4>2
        <5> QED BY <5>1
      <4> QED BY <4>1, <4>2 DEF Injection, IsInjective
    <3>2. f \in Surjection(A, B)
      BY DEF Surjection
    <3> QED BY <3>1, <3>2 DEF Bijection
  <2> HIDE DEF f, A, B
  <2> QED BY <1>3, <2>1, FS_Bijection DEF ExistsBijection
<1> HIDE DEF A, B
<1>5. Cardinality(A \cup B) = Cardinality(A) + Cardinality(B) - Cardinality(A \cap B)
  BY <1>3, <1>4, FS_Union
<1>6. Cardinality(A \cap B) = 0
  BY <1>2, FS_EmptySet
<1>7. SUBSET S = A
  BY DEF A
<1>8. Cardinality(A \cup B) = 2 * Cardinality(A)
  BY <1>3, <1>4, <1>5, <1>6
<1> QED BY <1>1, <1>7, <1>8, Zenon

\* ... so 2^n, the number of subsets of n things, doubles with n.
LEMMA Powers ==
  ASSUME NEW n \in Nat
  PROVE  2^0 = 1 /\ 2^n \in Nat \ {0} /\ 2^(n + 1) = 2 * 2^n
<1>1. Cardinality(SUBSET {}) = 1 /\ Cardinality({}) = 0 /\ IsFiniteSet({})
  <2>1. SUBSET {} = {{}}
    OBVIOUS
  <2> QED BY <2>1, FS_EmptySet, FS_Singleton
<1>2. 2^0 = 1
  BY <1>1, FS_SUBSET
<1> DEFINE S == 1..n
<1>3. IsFiniteSet(S) /\ Cardinality(S) = n
  BY FS_Interval
<1>4. n + 1 \notin S /\ S \cup {n + 1} = 1..(n + 1)
  OBVIOUS
<1>5. IsFiniteSet(S \cup {n + 1}) /\ Cardinality(S \cup {n + 1}) = n + 1
  BY <1>3, <1>4, FS_AddElement
<1> HIDE DEF S
<1>6. 2^n = Cardinality(SUBSET S) /\ 2^(n + 1) = Cardinality(SUBSET (S \cup {n + 1}))
  BY <1>3, <1>5, FS_SUBSET
<1>7. Cardinality(SUBSET (S \cup {n + 1})) = 2 * Cardinality(SUBSET S)
  BY <1>3, <1>4, SubsetsDouble
<1>8. Cardinality(SUBSET S) \in Nat \ {0}
  <2>1. IsFiniteSet(SUBSET S) /\ {} \in SUBSET S
    BY <1>3, FS_SUBSET
  <2> QED BY <2>1, FS_CardinalityType, FS_EmptySet
<1> QED BY <1>2, <1>6, <1>7, <1>8

=============================================================================
