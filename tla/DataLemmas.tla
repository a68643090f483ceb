----------------------------- MODULE DataLemmas -----------------------------
(***************************************************************************)
(* Facts about numbers, finite sets, sequences and sums that the proofs of *)
(* several components cite.                                                *)
(*                                                                         *)
(* The induction theorems of the library take an operator, which the       *)
(* provers cannot instantiate.  An induction is stated here of a set: the  *)
(* numbers of which something holds are all of them.                       *)
(***************************************************************************)
EXTENDS Integers, Sequences, Functions, FiniteSetTheorems, SequenceTheorems, TLAPS

(* Every nonempty set of natural numbers has a least element (from the     *)
(* library's theorem that strict inclusion of finite sets is well-founded).*)
LEMMA LeastNatural ==
  ASSUME NEW T, T \subseteq Nat, T # {}
  PROVE  \E x \in T : \A y \in T : x <= y
<1> DEFINE Segments == {0..x : x \in T}
           Below    == StrictSubsetOrdering(Nat)
<1>1. Segments \subseteq FiniteSubsetsOf(Nat)
  <2>1. \A x \in T : 0..x \subseteq Nat /\ x \in Int
    OBVIOUS
  <2>2. \A x \in T : IsFiniteSet(0..x)
    BY <2>1, FS_Interval
  <2> QED
    BY <2>1, <2>2 DEF FiniteSubsetsOf
<1>2. PICK s \in Segments : \A t \in Segments : <<t, s>> \notin Below
  <2>1. Segments # {}
    OBVIOUS
  <2> HIDE DEF Segments
  <2> QED
    BY <1>1, <2>1, WFMin, FS_StrictSubsetOrderingWellFounded
<1>3. PICK x \in T : s = 0..x
  OBVIOUS
<1>4. ASSUME NEW y \in T, y < x PROVE FALSE
  <2>1. 0..y \subseteq 0..x /\ 0..y # 0..x /\ 0..x \subseteq Nat
    BY <1>4
  <2>2. <<0..y, 0..x>> \in Below
    BY <2>1 DEF StrictSubsetOrdering
  <2> QED
    BY <1>2, <1>3, <2>2
<1> QED
  BY <1>4

(* A set that has zero, and with a number its successor, has them all.     *)
LEMMA InductiveSet ==
  ASSUME NEW T, 0 \in T, \A n \in Nat : n \in T => n + 1 \in T
  PROVE  Nat \subseteq T
<1> SUFFICES ASSUME Nat \ T # {} PROVE FALSE
  OBVIOUS
<1>1. PICK x \in Nat \ T : \A y \in Nat \ T : x <= y
  BY LeastNatural
<1>2. x # 0 /\ x - 1 \in Nat /\ x - 1 \notin Nat \ T
  BY <1>1
<1> QED
  BY <1>1, <1>2

(* Positions of a sequence are finitely many, and how many.                *)
LEMMA PositionsCount ==
  ASSUME NEW n \in Nat, NEW S, S \subseteq 1..n
  PROVE  IsFiniteSet(S) /\ Cardinality(S) \in 0..n
<1>1. IsFiniteSet(1..n) /\ Cardinality(1..n) = n
  BY FS_Interval
<1>2. IsFiniteSet(S) /\ Cardinality(S) <= n
  BY <1>1, FS_Subset
<1> QED
  BY <1>2, FS_CardinalityType

(* More positions, a larger count.                                         *)
LEMMA CountsMonotone ==
  ASSUME NEW n \in Nat, NEW S, NEW T, S \subseteq T, T \subseteq 1..n
  PROVE  Cardinality(S) <= Cardinality(T)
BY PositionsCount, FS_Subset

(* A part of a sequence, within its bounds.                                *)
LEMMA SubSeqType ==
  ASSUME NEW S, NEW s \in Seq(S), NEW m \in Nat \ {0}, NEW n \in 0..Len(s)
  PROVE  /\ SubSeq(s, m, n) \in Seq(S)
         /\ Len(SubSeq(s, m, n)) = IF m <= n THEN n - m + 1 ELSE 0
         /\ \A i \in 1..(n - m + 1) : SubSeq(s, m, n)[i] = s[m + i - 1]
BY SubSeqProperties

(* Where the elements of a concatenation come from.                        *)
LEMMA ConcatParts ==
  ASSUME NEW S, NEW s \in Seq(S), NEW t \in Seq(S)
  PROVE  /\ s \o t \in Seq(S)
         /\ Len(s \o t) = Len(s) + Len(t)
         /\ \A k \in 1..Len(s) : (s \o t)[k] = s[k]
         /\ \A k \in 1..Len(t) : (s \o t)[Len(s) + k] = t[k]
<1>1. /\ s \o t \in Seq(S) /\ Len(s \o t) = Len(s) + Len(t)
      /\ \A i \in 1..(Len(s) + Len(t)) :
           (s \o t)[i] = IF i <= Len(s) THEN s[i] ELSE t[i - Len(s)]
  BY ConcatProperties
<1>2. \A m, n \in Nat : /\ \A k \in 1..m : k \in 1..(m + n) /\ k <= m
                        /\ \A k \in 1..n : /\ m + k \in 1..(m + n) /\ ~(m + k <= m)
                                            /\ m + k - m = k
  OBVIOUS
<1>3. Len(s) \in Nat /\ Len(t) \in Nat
  OBVIOUS
<1>4. \A k \in 1..Len(s) : (s \o t)[k] = s[k]
  <2>1. \A k \in 1..Len(s) : k \in 1..(Len(s) + Len(t)) /\ k <= Len(s)
    BY <1>2, <1>3, Zenon
  <2> QED
    BY <1>1, <2>1, Zenon
<1>5. \A k \in 1..Len(t) : (s \o t)[Len(s) + k] = t[k]
  <2>1. \A k \in 1..Len(t) : /\ Len(s) + k \in 1..(Len(s) + Len(t))
                             /\ ~(Len(s) + k <= Len(s)) /\ Len(s) + k - Len(s) = k
    BY <1>2, <1>3, Zenon
  <2>2. ASSUME NEW k \in 1..Len(t) PROVE (s \o t)[Len(s) + k] = t[k]
    <3>1. (s \o t)[Len(s) + k] = t[Len(s) + k - Len(s)]
      BY <1>1, <2>1
    <3>2. Len(s) + k - Len(s) = k
      BY <2>1, Zenon
    <3> QED
      BY <3>1, <3>2, Zenon
  <2> QED
    BY <2>2
<1> QED
  BY <1>1, <1>4, <1>5, Zenon

(* x and y are parts of sequences, and agree element by element.           *)
PartsAgree(S, x, s, m, n, y, t, k, l) ==
  /\ x = SubSeq(s, m, n) /\ s \in Seq(S) /\ m \in Nat \ {0} /\ n \in 0..Len(s)
  /\ y = SubSeq(t, k, l) /\ t \in Seq(S) /\ k \in Nat \ {0} /\ l \in 0..Len(t)
  /\ n - m = l - k
  /\ \A i \in 1..(n - m + 1) : s[m + i - 1] = t[k + i - 1]

(* Parts that agree are the same.                                          *)
LEMMA SameParts ==
  ASSUME NEW S, NEW x, NEW s, NEW m, NEW n, NEW y, NEW t, NEW k, NEW l,
         PartsAgree(S, x, s, m, n, y, t, k, l)
  PROVE  x = y
<1> USE DEF PartsAgree
<1> DEFINE a == SubSeq(s, m, n)
           b == SubSeq(t, k, l)
<1>1. /\ a \in Seq(S) /\ Len(a) = IF m <= n THEN n - m + 1 ELSE 0
      /\ \A i \in 1..(n - m + 1) : a[i] = s[m + i - 1]
  BY SubSeqType
<1>2. /\ b \in Seq(S) /\ Len(b) = IF k <= l THEN l - k + 1 ELSE 0
      /\ \A i \in 1..(l - k + 1) : b[i] = t[k + i - 1]
  BY SubSeqType
<1> HIDE DEF a, b
<1>3. Len(a) = Len(b) /\ \A i \in 1..Len(a) : i \in 1..(n - m + 1)
  BY <1>1, <1>2, SMTT(30)
<1>4. \A i \in 1..Len(a) : a[i] = b[i]
  BY <1>1, <1>2, <1>3
<1>5. a = b
  BY <1>1, <1>2, <1>3, <1>4, SeqEqual
<1> QED
  BY <1>5 DEF a, b

-----------------------------------------------------------------------------
(* Sums.  SumFunctionOnSet takes the elements of a set one by one.         *)

Some(s) == CHOOSE x \in s : TRUE

Step(f, g, s) == IF s = {} THEN 0 ELSE f[Some(s)] + g[s \ {Some(s)}]

(* The sum of numbers over a finite set is the last of the sums over its   *)
(* subsets, each that of a smaller one and one number more.                *)
LEMMA SumIsIterated ==
  ASSUME NEW f, NEW S, IsFiniteSet(S), \A x \in S : f[x] \in Nat
  PROVE  \E sums \in [SUBSET S -> Nat] :
           /\ \A s \in SUBSET S : sums[s] = Step(f, sums, s)
           /\ SumFunctionOnSet(f, S) = sums[S]
<1> DEFINE Upto(n) == {s \in SUBSET S : Cardinality(s) <= n}
           Good == {n \in Nat : \E g \in [Upto(n) -> Nat] :
                                  \A s \in Upto(n) : g[s] = Step(f, g, s)}
           iter == CHOOSE g : g = [s \in SUBSET S |-> Step(f, g, s)]
<1>1. \A s \in SUBSET S : IsFiniteSet(s) /\ Cardinality(s) \in Nat
  BY FS_Subset, FS_CardinalityType
<1>2. ASSUME NEW s \in SUBSET S, s # {}
      PROVE  /\ Some(s) \in s /\ s \ {Some(s)} \in SUBSET S
             /\ Cardinality(s \ {Some(s)}) = Cardinality(s) - 1
  <2>1. Some(s) \in s
    BY <1>2 DEF Some
  <2> QED
    BY <1>1, <2>1, FS_RemoveElement
<1>3. 0 \in Good
  <2> DEFINE g == [s \in Upto(0) |-> 0]
  <2>1. \A s \in Upto(0) : s = {}
    BY <1>1, FS_EmptySet
  <2>2. g \in [Upto(0) -> Nat] /\ \A s \in Upto(0) : g[s] = Step(f, g, s)
    BY <2>1 DEF Step
  <2> QED
    BY <2>2
<1>4. ASSUME NEW n \in Nat, n \in Good PROVE n + 1 \in Good
  <2>1. PICK g \in [Upto(n) -> Nat] : \A s \in Upto(n) : g[s] = Step(f, g, s)
    BY <1>4
  <2> DEFINE h == [s \in Upto(n + 1) |-> Step(f, g, s)]
  <2>2. ASSUME NEW s \in Upto(n + 1), s # {}
        PROVE  s \ {Some(s)} \in Upto(n) /\ f[Some(s)] \in Nat
    BY <1>1, <1>2, <2>2
  <2>3. \A s \in Upto(n + 1) : Step(f, g, s) \in Nat
    BY <2>1, <2>2 DEF Step
  <2>4. \A s \in Upto(n) : s \in Upto(n + 1) /\ h[s] = g[s]
    BY <1>1, <2>1
  <2>5. \A s \in Upto(n + 1) : h[s] = Step(f, h, s)
    BY <2>2, <2>4 DEF Step
  <2>6. h \in [Upto(n + 1) -> Nat]
    BY <2>3
  <2> HIDE DEF h
  <2>7. \E k \in [Upto(n + 1) -> Nat] : \A s \in Upto(n + 1) : k[s] = Step(f, k, s)
    BY <2>5, <2>6, Zenon
  <2>8. n + 1 \in Nat
    BY <1>4
  <2> HIDE DEF Upto
  <2> QED
    BY <2>7, <2>8
<1>5. Cardinality(S) \in Good
  <2> HIDE DEF Good
  <2>1. Nat \subseteq Good
    BY <1>3, <1>4, InductiveSet
  <2> QED
    BY <1>1, <2>1
<1>6. PICK g \in [SUBSET S -> Nat] : \A s \in SUBSET S : g[s] = Step(f, g, s)
  <2>1. Upto(Cardinality(S)) = SUBSET S
    BY FS_Subset
  <2> QED
    BY <1>5, <2>1
<1>7. g = [s \in SUBSET S |-> Step(f, g, s)]
  BY <1>6
<1>8. iter = [s \in SUBSET S |-> Step(f, iter, s)]
  BY <1>7
<1> HIDE DEF iter
<1> DEFINE Agree == {n \in Nat : \A s \in Upto(n) : iter[s] \in Nat}
<1>9. 0 \in Agree
  BY <1>1, <1>8, FS_EmptySet DEF Step
<1>10. ASSUME NEW n \in Nat, n \in Agree PROVE n + 1 \in Agree
  <2>1. ASSUME NEW s \in Upto(n + 1), s # {}
        PROVE  s \ {Some(s)} \in Upto(n) /\ f[Some(s)] \in Nat
    BY <1>1, <1>2, <2>1
  <2>2. ASSUME NEW s \in Upto(n + 1) PROVE iter[s] \in Nat
    <3>1. iter[s] = Step(f, iter, s)
      BY <1>8
    <3>2. CASE s = {}
      BY <3>1, <3>2 DEF Step
    <3>3. CASE s # {}
      BY <1>10, <2>1, <3>1, <3>3 DEF Step
    <3> QED
      BY <3>2, <3>3
  <2> QED
    BY <2>2
<1>11. \A s \in SUBSET S : iter[s] \in Nat
  <2> HIDE DEF Agree
  <2>1. Nat \subseteq Agree
    BY <1>9, <1>10, InductiveSet
  <2>2. Upto(Cardinality(S)) = SUBSET S /\ Cardinality(S) \in Nat
    BY <1>1, FS_Subset
  <2> QED
    BY <2>1, <2>2 DEF Agree
<1>12. SumFunctionOnSet(f, S) = iter[S]
  BY DEF SumFunctionOnSet, FoldFunctionOnSet, MapThenFoldSet, Step, Some, iter
<1>13. iter \in [SUBSET S -> Nat] /\ \A s \in SUBSET S : iter[s] = Step(f, iter, s)
  BY <1>8, <1>11
<1> QED
  BY <1>12, <1>13

(* A sum of numbers over a finite set is a number.                         *)
LEMMA SumType ==
  ASSUME NEW f, NEW S, IsFiniteSet(S), \A x \in S : f[x] \in Nat
  PROVE  SumFunctionOnSet(f, S) \in Nat
<1>1. PICK sums \in [SUBSET S -> Nat] : SumFunctionOnSet(f, S) = sums[S]
  BY SumIsIterated, ZenonT(30)
<1>2. S \in SUBSET S
  OBVIOUS
<1> QED
  BY <1>1, <1>2

(* A sum depends on what is summed, and on nothing else.                   *)
LEMMA SumSame ==
  ASSUME NEW f, NEW g, NEW S, IsFiniteSet(S),
         \A x \in S : f[x] \in Nat /\ g[x] = f[x]
  PROVE  SumFunctionOnSet(g, S) = SumFunctionOnSet(f, S)
<1>1. PICK a \in [SUBSET S -> Nat] : /\ \A s \in SUBSET S : a[s] = Step(f, a, s)
                                     /\ SumFunctionOnSet(f, S) = a[S]
  <2>1. \A x \in S : f[x] \in Nat
    OBVIOUS
  <2> QED
    BY <2>1, SumIsIterated, ZenonT(30)
<1>2. PICK b \in [SUBSET S -> Nat] : /\ \A s \in SUBSET S : b[s] = Step(g, b, s)
                                     /\ SumFunctionOnSet(g, S) = b[S]
  <2>1. \A x \in S : g[x] \in Nat
    OBVIOUS
  <2> QED
    BY <2>1, SumIsIterated, ZenonT(30)
<1> DEFINE Same == {n \in Nat : \A s \in SUBSET S : Cardinality(s) <= n => a[s] = b[s]}
<1>3. \A s \in SUBSET S : IsFiniteSet(s) /\ Cardinality(s) \in Nat
  BY FS_Subset, FS_CardinalityType
<1>4. 0 \in Same
  <2>1. \A s \in SUBSET S : Cardinality(s) <= 0 => s = {}
    BY <1>3, FS_EmptySet
  <2>2. {} \in SUBSET S /\ Step(f, a, {}) = 0 /\ Step(g, b, {}) = 0
    BY DEF Step
  <2> QED
    BY <1>1, <1>2, <2>1, <2>2
<1>5. ASSUME NEW n \in Nat, n \in Same PROVE n + 1 \in Same
  <2>1. ASSUME NEW s \in SUBSET S, Cardinality(s) <= n + 1 PROVE a[s] = b[s]
    <3>1. a[s] = Step(f, a, s) /\ b[s] = Step(g, b, s)
      BY <1>1, <1>2
    <3>2. CASE s = {}
      BY <3>1, <3>2 DEF Step
    <3>3. CASE s # {}
      <4>1. Some(s) \in s
        BY <3>3 DEF Some
      <4>2. Cardinality(s \ {Some(s)}) = Cardinality(s) - 1 /\ s \ {Some(s)} \in SUBSET S
        BY <1>3, <4>1, FS_RemoveElement
      <4>3. a[s \ {Some(s)}] = b[s \ {Some(s)}]
        BY <1>3, <1>5, <2>1, <4>2
      <4> QED
        BY <3>1, <3>3, <4>1, <4>3 DEF Step
    <3> QED
      BY <3>2, <3>3
  <2> QED
    BY <2>1
<1>6. Cardinality(S) \in Same
  <2> HIDE DEF Same
  <2>1. Nat \subseteq Same
    BY <1>4, <1>5, InductiveSet
  <2> QED
    BY <1>3, <2>1
<1> QED
  BY <1>1, <1>2, <1>3, <1>6

=============================================================================
