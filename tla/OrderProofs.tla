----------------------------- MODULE OrderProofs -----------------------------
(***************************************************************************)
(* Facts about Min and Max on sets of natural numbers, which the models    *)
(* use for the position a search stops at, and about what concatenated     *)
(* sequences begin and end with.                                           *)
(***************************************************************************)
EXTENDS Integers, SequencesExt, FiniteSetTheorems, SequenceTheorems, TLAPS

\* A set of natural numbers has a least element: the position a search
\* stops at.  Strict inclusion of the intervals 0 .. x orders its members.
LEMMA MinNat ==
    ASSUME NEW S, S \subseteq Nat, S # {}
    PROVE  /\ Min(S) \in S
           /\ \A y \in S : Min(S) <= y
<1> DEFINE below == {0 .. x : x \in S}
           R     == StrictSubsetOrdering(Nat)
<1>1. below \subseteq FiniteSubsetsOf(Nat)
  <2>1. \A x \in S : 0 .. x \in SUBSET Nat
    BY SMT
  <2>2. \A x \in S : IsFiniteSet(0 .. x)
    BY FS_Interval
  <2>. QED  BY <2>1, <2>2 DEF FiniteSubsetsOf
<1>2. below # {}
  OBVIOUS
<1>3. IsWellFoundedOn(R, FiniteSubsetsOf(Nat))
  BY FS_StrictSubsetOrderingWellFounded
<1>4. PICK b \in below : \A c \in below : ~(<<c, b>> \in R)
  <2>. HIDE DEF below, R
  <2>. QED  BY <1>1, <1>2, <1>3, WFMin
<1>5. PICK x \in S : b = 0 .. x
  OBVIOUS
<1>6. ASSUME NEW y \in S, y < x PROVE FALSE
  <2>1. 0 .. y \subseteq 0 .. x /\ 0 .. y # 0 .. x
    <3>1. x \in 0 .. x /\ x \notin 0 .. y
      BY <1>6
    <3>. QED  BY <3>1, <1>6
  <2>2. 0 .. y \in SUBSET Nat /\ 0 .. x \in SUBSET Nat
    OBVIOUS
  <2>3. <<0 .. y, 0 .. x>> \in R
    BY <2>1, <2>2, Zenon DEF StrictSubsetOrdering
  <2>. QED  BY <2>3, <1>4, <1>5
<1>7. \A y \in S : x <= y
  BY <1>6
<1>. QED
  BY <1>7 DEF Min

\* A set of natural numbers with an upper bound has a greatest element.
LEMMA MaxNat ==
    ASSUME NEW n \in Nat, NEW S, S \subseteq 0 .. n, S # {}
    PROVE  /\ Max(S) \in S
           /\ \A y \in S : y <= Max(S)
<1> DEFINE T == {n - x : x \in S}
<1>1. T \subseteq Nat /\ T # {}
  <2>1. \A x \in S : x \in Nat /\ n - x \in Nat
    OBVIOUS
  <2>2. T \subseteq Nat
    BY <2>1
  <2>3. T # {}
    BY Zenon
  <2>. QED  BY <2>2, <2>3
<1>2. Min(T) \in T /\ \A y \in T : Min(T) <= y
  <2>. HIDE DEF T
  <2>. QED  BY <1>1, MinNat
<1>3. PICK x \in S : Min(T) = n - x
  BY <1>2
<1>4. \A y \in S : n - x <= n - y
  BY <1>2, <1>3
<1>5. \A y \in S : y <= x
  BY <1>4
<1>. QED
  BY <1>5 DEF Max

\* The least of n and some numbers from c to n lies between them.
LEMMA MinFromTo ==
    ASSUME NEW n \in Nat, NEW c \in 0 .. n, NEW P, P \subseteq c .. n
    PROVE  Min({n} \cup P) \in c .. n
<1> DEFINE S == {n} \cup P
<1>1. S \subseteq c .. n /\ S # {}
  <2>1. n \in c .. n
    OBVIOUS
  <2>. QED  BY <2>1
<1>2. S \subseteq Nat
  BY <1>1
<1>3. Min(S) \in S
  <2>. HIDE DEF S
  <2>. QED  BY <1>1, <1>2, MinNat
<1>. HIDE DEF S
<1>4. Min(S) \in c .. n
  BY <1>1, <1>3
<1>. QED
  BY <1>4 DEF S

\* The greatest of some numbers lies between any of them and their bound.
LEMMA MaxFromTo ==
    ASSUME NEW n \in Nat, NEW S, S \subseteq 0 .. n, NEW c \in S
    PROVE  Max(S) \in c .. n
<1>1. Max(S) \in S /\ c <= Max(S)
  BY MaxNat
<1>2. Max(S) \in 0 .. n /\ c \in 0 .. n
  BY <1>1
<1>. QED
  BY <1>1, <1>2

-----------------------------------------------------------------------------
(* Concatenation.                                                          *)

\* What a sequence ends in after something was appended to it.
LEMMA SuffixOfConcat ==
    ASSUME NEW S, NEW u \in Seq(S), NEW s \in Seq(S)
    PROVE  IsSuffix(s, u \o s)
<1>1. PICK m \in Nat : m = Len(u)
  OBVIOUS
<1>2. PICK n \in Nat : n = Len(s)
  OBVIOUS
<1>3. PICK t \in Seq(S) : t = u \o s
  BY ConcatProperties
<1>4. /\ Len(t) = m + n
      /\ \A i \in 1 .. m + n : t[i] = IF i <= m THEN u[i] ELSE s[i - m]
  BY <1>1, <1>2, <1>3
<1>5. \A i \in 1 .. n : t[(m + n - i) + 1] = s[(n - i) + 1]
  <2>. TAKE i \in 1 .. n
  <2>1. /\ (m + n - i) + 1 \in 1 .. m + n /\ ~((m + n - i) + 1 <= m)
        /\ (m + n - i) + 1 - m = (n - i) + 1
    OBVIOUS
  <2>. QED  BY <1>4, <2>1
<1>6. Reverse(s) \in Seq(S) /\ Len(Reverse(s)) = n
  BY <1>2 DEF Reverse
<1>7. Reverse(t) \in Seq(S) /\ Len(Reverse(t)) = m + n
  BY <1>4 DEF Reverse
<1>8. \A i \in 1 .. n : Reverse(s)[i] = Reverse(t)[i]
  BY <1>2, <1>4, <1>5 DEF Reverse
<1>. HIDE DEF Reverse
<1>9. n <= m + n
  OBVIOUS
<1>10. SubSeq(Reverse(s), 1, n) = SubSeq(Reverse(t), 1, n)
  BY <1>6, <1>7, <1>8, <1>9
<1>. QED
  BY <1>3, <1>6, <1>7, <1>9, <1>10 DEF IsSuffix, IsPrefix
=============================================================================
