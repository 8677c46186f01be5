---------------------------- MODULE DataInduction ----------------------------
(***************************************************************************)
(* Induction over the numbers, stated for sets of numbers: the facts about *)
(* sums and recursive functions that the other proofs need are shown by    *)
(* taking the set of the numbers they hold for.                            *)
(***************************************************************************)
EXTENDS Integers, WellFoundedInduction, FiniteSetTheorems, TLAPS

(* A set of numbers has a least one.                                       *)
LEMMA LeastOf ==
  ASSUME NEW S \in SUBSET Nat, S # {}
  PROVE  \E n \in S : \A m \in S : n <= m
<1> DEFINE Below(n) == 0 .. n - 1
           T == {Below(n) : n \in S}
<1>1. IsWellFoundedOn(StrictSubsetOrdering(Nat), FiniteSubsetsOf(Nat))
  BY FS_StrictSubsetOrderingWellFounded
<1>2. T \subseteq FiniteSubsetsOf(Nat) /\ T # {}
  <2>1. \A n \in Nat : IsFiniteSet(Below(n)) /\ Below(n) \subseteq Nat
    BY FS_Interval
  <2> QED
    BY <2>1 DEF FiniteSubsetsOf
<1>3. PICK x \in T : \A y \in T : ~ (<<y, x>> \in StrictSubsetOrdering(Nat))
  BY <1>1, <1>2, WFMin
<1>4. PICK n \in S : x = Below(n)
  OBVIOUS
<1>5. ASSUME NEW m \in S, m < n PROVE FALSE
  <2>1. Below(m) \subseteq Below(n) /\ Below(m) # Below(n)
    <3>1. m \in Below(n) /\ m \notin Below(m)
      BY <1>5
    <3> QED
      BY <1>5, <3>1
  <2>2. Below(m) \subseteq Nat /\ Below(n) \subseteq Nat
    OBVIOUS
  <2>3. <<Below(m), Below(n)>> \in StrictSubsetOrdering(Nat)
    BY <2>1, <2>2 DEF StrictSubsetOrdering
  <2> QED
    BY <1>3, <1>4, <2>3
<1> QED
  BY <1>5

(* A set that holds 0 and with every number the next one holds them all.   *)
LEMMA NatSetInduction ==
  ASSUME NEW S \in SUBSET Nat, 0 \in S, \A n \in S : n + 1 \in S
  PROVE  S = Nat
<1> SUFFICES ASSUME Nat \ S # {} PROVE FALSE
  OBVIOUS
<1>1. PICK n \in Nat \ S : \A m \in Nat \ S : n <= m
  BY LeastOf
<1>2. n # 0 /\ n - 1 \in Nat /\ n - 1 \in S
  BY <1>1
<1> QED
  BY <1>1, <1>2

(* r adds up what add says of 1 .. len, one number after the other.        *)
AddsUp(r, add, len) ==
  /\ r \in [0 .. len -> Nat]
  /\ r[0] = 0
  /\ \A n \in 1 .. len : r[n] = r[n - 1] + add[n]

(* There is such a table for any numbers.                                  *)
LEMMA TableExists ==
  ASSUME NEW len \in Nat, NEW add \in [1 .. len -> Nat]
  PROVE  \E r : AddsUp(r, add, len)
<1> DEFINE S == {k \in Nat : k <= len => \E r : AddsUp(r, add, k)}
<1>1. 0 \in S
  <2>1. AddsUp([n \in 0 .. 0 |-> 0], add, 0)
    BY DEF AddsUp
  <2> QED
    BY <2>1
<1>2. ASSUME NEW k \in S PROVE k + 1 \in S
  <2> SUFFICES ASSUME k + 1 <= len PROVE \E r : AddsUp(r, add, k + 1)
    OBVIOUS
  <2>1. k \in Nat
    OBVIOUS
  <2>2. PICK r : AddsUp(r, add, k)
    BY <2>1
  <2> DEFINE s == [n \in 0 .. k + 1 |-> IF n = k + 1 THEN r[k] + add[k + 1]
                                                     ELSE r[n]]
  <2>3. r[k] \in Nat /\ add[k + 1] \in Nat
    BY <2>1, <2>2 DEF AddsUp
  <2>4. s \in [0 .. k + 1 -> Nat]
    BY <2>1, <2>2, <2>3 DEF AddsUp
  <2>5. s[0] = 0
    BY <2>1, <2>2 DEF AddsUp
  <2>6. ASSUME NEW n \in 1 .. k + 1 PROVE s[n] = s[n - 1] + add[n]
    <3>1. CASE n = k + 1
      BY <2>1, <2>3, <3>1
    <3>2. CASE n # k + 1
      <4>1. n \in 1 .. k /\ n - 1 \in 0 .. k
        BY <2>1, <3>2
      <4>2. s[n] = r[n] /\ s[n - 1] = r[n - 1]
        BY <2>1, <4>1
      <4> QED
        BY <2>2, <4>1, <4>2 DEF AddsUp
    <3> QED
      BY <3>1, <3>2
  <2>7. AddsUp(s, add, k + 1)
    BY <2>4, <2>5, <2>6 DEF AddsUp
  <2> QED
    BY <2>7
<1>3. S = Nat
  <2> HIDE DEF S
  <2>1. S \in SUBSET Nat
    BY DEF S
  <2> QED
    BY <1>1, <1>2, <2>1, NatSetInduction
<1>4. len \in S
  <2> HIDE DEF S
  <2> QED
    BY <1>3
<1> QED
  BY <1>4

(* Two tables agree as far as what they add up does.                       *)
LEMMA TablesAgree ==
  ASSUME NEW len \in Nat, NEW more \in Nat, len <= more,
         NEW add, NEW other, NEW r, NEW s,
         AddsUp(r, add, len), AddsUp(s, other, more),
         \A n \in 1 .. len : add[n] = other[n]
  PROVE  \A n \in 0 .. len : r[n] = s[n]
<1> DEFINE S == {k \in Nat : k <= len => r[k] = s[k]}
<1>1. 0 \in S
  BY DEF AddsUp
<1>2. ASSUME NEW k \in S PROVE k + 1 \in S
  <2> SUFFICES ASSUME k + 1 <= len PROVE r[k + 1] = s[k + 1]
    OBVIOUS
  <2>1. k \in Nat /\ k + 1 \in 1 .. len /\ k + 1 \in 1 .. more /\ r[k] = s[k]
    OBVIOUS
  <2>2. r[k + 1] = r[(k + 1) - 1] + add[k + 1]
    BY <2>1 DEF AddsUp
  <2>3. s[k + 1] = s[(k + 1) - 1] + other[k + 1]
    BY <2>1 DEF AddsUp
  <2>4. (k + 1) - 1 = k
    BY <2>1
  <2> QED
    BY <2>1, <2>2, <2>3, <2>4
<1>3. S = Nat
  <2> HIDE DEF S
  <2>1. S \in SUBSET Nat
    BY DEF S
  <2> QED
    BY <1>1, <1>2, <2>1, NatSetInduction
<1> QED
  BY <1>3

(* Where every number added is positive no two sums are the same.          *)
LEMMA SumsGrow ==
  ASSUME NEW len \in Nat, NEW add, NEW r, AddsUp(r, add, len),
         \A n \in 1 .. len : add[n] \in Nat \ {0}
  PROVE  \A m, n \in 0 .. len : m < n => r[m] < r[n]
<1> TAKE m \in 0 .. len
<1> DEFINE S == {k \in Nat : m + k + 1 <= len => r[m] < r[m + k + 1]}
<1>1. ASSUME NEW n \in 1 .. len PROVE r[n - 1] < r[n]
  <2>1. r[n] = r[n - 1] + add[n] /\ n - 1 \in 0 .. len
    BY DEF AddsUp
  <2>2. r[n - 1] \in Nat /\ add[n] \in Nat \ {0}
    BY <2>1 DEF AddsUp
  <2> QED
    BY <2>1, <2>2
<1>2. \A n \in 0 .. len : r[n] \in Nat
  BY DEF AddsUp
<1>3. 0 \in S
  <2> SUFFICES ASSUME m + 0 + 1 <= len PROVE r[m] < r[m + 0 + 1]
    OBVIOUS
  <2>1. m + 1 \in 1 .. len /\ (m + 1) - 1 = m /\ m + 0 + 1 = m + 1
    OBVIOUS
  <2>2. r[(m + 1) - 1] < r[m + 1]
    BY <1>1, <2>1
  <2> QED
    BY <2>1, <2>2
<1>4. ASSUME NEW k \in S PROVE k + 1 \in S
  <2> SUFFICES ASSUME m + (k + 1) + 1 <= len PROVE r[m] < r[m + (k + 1) + 1]
    OBVIOUS
  <2>1. k \in Nat /\ m + k + 2 \in 1 .. len /\ (m + k + 2) - 1 = m + k + 1
          /\ m + (k + 1) + 1 = m + k + 2 /\ m + k + 1 \in 0 .. len
          /\ m + k + 1 <= len
    OBVIOUS
  <2>2. r[m] < r[m + k + 1]
    BY <2>1
  <2>3. r[(m + k + 2) - 1] < r[m + k + 2]
    BY <1>1, <2>1
  <2> QED
    BY <1>2, <2>1, <2>2, <2>3
<1>5. S = Nat
  <2> HIDE DEF S
  <2>1. S \in SUBSET Nat
    BY DEF S
  <2> QED
    BY <1>3, <1>4, <2>1, NatSetInduction
<1> TAKE n \in 0 .. len
<1> HAVE m < n
<1>6. n - m - 1 \in S /\ m + (n - m - 1) + 1 = n
  <2>1. n - m - 1 \in Nat
    OBVIOUS
  <2> HIDE DEF S
  <2> QED
    BY <1>5, <2>1
<1> QED
  BY <1>6
==============================================================================
