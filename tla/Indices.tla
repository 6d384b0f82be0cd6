------------------------------- MODULE Indices -------------------------------
(***************************************************************************)
(* What the proofs about lines and packets need of natural numbers and of  *)
(* pieces of sequences.                                                    *)
(*                                                                         *)
(* A recursive function over a sequence is known only by induction.  The   *)
(* induction here is over sets: a set of naturals that is not empty has a  *)
(* least element, which follows from the library's theorem about           *)
(* well-founded relations, so a set with 0 that is closed under successor  *)
(* is all of them.                                                         *)
(***************************************************************************)
EXTENDS Integers, FiniteSetsExt, WellFoundedInduction, SequenceTheorems, TLAPS

-----------------------------------------------------------------------------
(* Induction over the naturals, for sets.                                   *)

Below == OpToRel(<, Nat)

\* The order of the naturals as a relation.
LEMMA BelowIsLess == \A i, j \in Nat : <<i, j>> \in Below <=> i < j
BY DEF OpToRel, Below

\* It has no infinite descent.
LEMMA BelowIsWellFounded == IsWellFoundedOn(Below, Nat)
BY NatLessThanWellFounded, Zenon DEF Below

\* A set of naturals that is not empty has a least element.
LEMMA LeastNatural ==
    ASSUME NEW T \in SUBSET Nat, T # {}
    PROVE  \E x \in T : \A y \in T : x <= y
<1>1. PICK x \in T : \A y \in T : ~ (<<y, x>> \in Below)
  BY WFMin, BelowIsWellFounded
<1>2. ASSUME NEW y \in T PROVE x <= y
  <2>1. ~ (<<y, x>> \in Below) /\ x \in Nat /\ y \in Nat
    BY <1>1
  <2>2. ~ (y < x)
    BY <2>1, BelowIsLess
  <2> QED
    BY <2>1, <2>2
<1> QED
  BY <1>2

\* A set with 0 and the successor of each of its elements holds every natural.
LEMMA SetInduction ==
    ASSUME NEW T \in SUBSET Nat, 0 \in T, \A n \in T : n + 1 \in T
    PROVE  T = Nat
<1> SUFFICES ASSUME Nat \ T # {} PROVE FALSE
  OBVIOUS
<1>1. PICK x \in Nat \ T : \A y \in Nat \ T : x <= y
  BY LeastNatural
<1>2. x # 0 /\ x - 1 \in Nat /\ x - 1 \in T
  BY <1>1
<1> QED
  BY <1>1, <1>2

\* A bounded set of naturals has a greatest element.
LEMMA GreatestNatural ==
    ASSUME NEW T \in SUBSET Nat, NEW bound \in Nat, T # {}, \A y \in T : y <= bound
    PROVE  \E x \in T : \A y \in T : y <= x
<1> DEFINE U == {n \in Nat : \E y \in T : n = bound - y}
<1>1. U \in SUBSET Nat /\ U # {}
  <2>1. PICK y \in T : y <= bound
    OBVIOUS
  <2>2. bound - y \in U
    BY <2>1
  <2> QED
    BY <2>2
<1>2. PICK u \in U : \A v \in U : u <= v
  BY <1>1, LeastNatural
<1>3. PICK x \in T : u = bound - x
  BY <1>2
<1>4. ASSUME NEW y \in T PROVE y <= x
  <2>1. bound - y \in U
    OBVIOUS
  <2> QED
    BY <1>2, <1>3, <2>1
<1> QED
  BY <1>4

\* Min and Max are what their names say.
LEMMA MinMaxOfIndices ==
    ASSUME NEW T \in SUBSET Nat, NEW bound \in Nat, T # {}, \A y \in T : y <= bound
    PROVE  /\ Min(T) \in T /\ \A y \in T : Min(T) <= y
           /\ Max(T) \in T /\ \A y \in T : y <= Max(T)
<1>1. \E x \in T : \A y \in T : x <= y
  BY LeastNatural
<1>2. \E x \in T : \A y \in T : x >= y
  <2>1. PICK x \in T : \A y \in T : y <= x
    BY GreatestNatural
  <2> QED
    BY <2>1
<1> QED
  BY <1>1, <1>2 DEF Min, Max

-----------------------------------------------------------------------------
(* Sequences.                                                               *)

\* A function on 1..n is a sequence of length n.
LEMMA FunctionIsSeq ==
    ASSUME NEW S, NEW n \in Nat, NEW f \in [1..n -> S]
    PROVE  f \in Seq(S) /\ Len(f) = n
<1>1. f \in Seq(S)
  BY SeqDef
<1> QED
  BY <1>1

\* A piece of a sequence grows at its end.
LEMMA PieceGrows ==
    ASSUME NEW S, NEW s \in Seq(S), NEW m \in Nat, m # 0,
           NEW n \in Nat, NEW k \in Nat, k = n + 1, m <= k, k <= Len(s)
    PROVE  SubSeq(s, m, k) = Append(SubSeq(s, m, n), s[k])
<1>1. SubSeq(s, m, k) = SubSeq(s, m, n) \o <<s[k]>>
  <2>1. m \in 1..Len(s) /\ k \in m..Len(s) /\ k - 1 = n
    OBVIOUS
  <2>2. SubSeq(s, m, k) = SubSeq(s, m, k - 1) \o <<s[k]>>
    BY <2>1, SubSeqRecursiveSecond
  <2> QED
    BY <2>1, <2>2
<1>2. SubSeq(s, m, n) \in Seq(S) /\ s[k] \in S
  <2>1. \A i \in m..n : s[i] \in S
    OBVIOUS
  <2> QED
    BY <2>1, SubSeqProperties
<1> QED
  BY <1>1, <1>2, AppendIsConcat

\* A piece of a sequence is the same in a longer one.
LEMMA PieceOfLonger ==
    ASSUME NEW S, NEW s \in Seq(S), NEW c \in S,
           NEW m \in Nat, m # 0, NEW n \in Nat, n <= Len(s)
    PROVE  SubSeq(Append(s, c), m, n) = SubSeq(s, m, n)
<1> DEFINE t == Append(s, c)
           a == SubSeq(t, m, n)
           b == SubSeq(s, m, n)
<1>1. t \in Seq(S) /\ Len(t) = Len(s) + 1 /\ \A i \in 1..Len(s) : t[i] = s[i]
  BY AppendProperties
<1>2. Len(s) \in Nat /\ \A i \in 1..Len(s) : s[i] \in S
  OBVIOUS
<1> HIDE DEF t
<1>3. (\A i \in m..n : s[i] \in S /\ t[i] \in S) /\ m \in Int /\ n \in Int
  BY <1>1, <1>2
<1>4. /\ a \in Seq(S) /\ Len(a) = IF m <= n THEN n - m + 1 ELSE 0
      /\ \A i \in 1..(n - m + 1) : a[i] = t[m + i - 1]
  BY <1>3, SubSeqProperties
<1>5. /\ b \in Seq(S) /\ Len(b) = IF m <= n THEN n - m + 1 ELSE 0
      /\ \A i \in 1..(n - m + 1) : b[i] = s[m + i - 1]
  BY <1>3, SubSeqProperties
<1> HIDE DEF a, b
<1>6. ASSUME NEW i \in 1..Len(a) PROVE a[i] = b[i]
  <2>1. i \in 1..(n - m + 1) /\ m + i - 1 \in 1..Len(s)
    BY <1>2, <1>4
  <2> QED
    BY <1>1, <1>4, <1>5, <2>1
<1>7. a = b
  BY <1>4, <1>5, <1>6, SeqEqual
<1> QED
  BY <1>7 DEF a, b, t

\* The elements of a piece are elements of the sequence.
LEMMA PieceType ==
    ASSUME NEW S, NEW s \in Seq(S), NEW m \in Nat, m # 0, NEW n \in Int, n <= Len(s)
    PROVE  /\ SubSeq(s, m, n) \in Seq(S)
           /\ Len(SubSeq(s, m, n)) = IF m <= n THEN n - m + 1 ELSE 0
<1>1. (\A i \in m..n : s[i] \in S) /\ m \in Int
  OBVIOUS
<1> QED
  BY <1>1, SubSeqProperties
=============================================================================
