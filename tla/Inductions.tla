------------------------------ MODULE Inductions ------------------------------
(***************************************************************************)
(* Induction with a set in the place of a predicate: over the numbers, over   *)
(* sequences by appending, and along a sequence as a fold goes through it.    *)
(***************************************************************************)
EXTENDS SequencesExt, SequenceTheorems, FiniteSetTheorems, TLAPS

\* A set of numbers that is not empty has a least one.
LEMMA LeastNumber ==
  ASSUME NEW S \in SUBSET Nat, S # {}
  PROVE  Min(S) \in S /\ \A i \in S : Min(S) <= i
<1>1. PICK x \in S : \A y \in S : ~(<<y, x>> \in OpToRel(<, Nat))
  BY NatLessThanWellFounded, WFMin
<1>2. ASSUME NEW y \in S PROVE x <= y
  <2>1. x \in Nat /\ y \in Nat
    OBVIOUS
  <2>2. ~(y < x)
    BY <1>1, <2>1 DEF OpToRel
  <2> QED
    BY <2>1, <2>2
<1> QED
  BY <1>2 DEF Min

\* What holds of 0 and goes from n to n + 1 holds of every number.
LEMMA ByInduction ==
  ASSUME NEW S \in SUBSET Nat, 0 \in S, \A n \in S : n + 1 \in S
  PROVE  S = Nat
<1> SUFFICES ASSUME Nat \ S # {} PROVE FALSE
  OBVIOUS
<1> DEFINE others == Nat \ S
           m == Min(others)
<1>1. others \in SUBSET Nat /\ others # {}
  OBVIOUS
<1>2. m \in others /\ \A i \in others : m <= i
  <2> HIDE DEF others
  <2> QED
    BY <1>1, LeastNumber
<1> HIDE DEF m
<1>3. m \in Nat /\ m # 0 /\ m - 1 \in Nat
  BY <1>2
<1>4. m - 1 \in S
  BY <1>2, <1>3
<1> QED
  BY <1>2, <1>3, <1>4

\* What holds of the empty sequence and stays true when one is appended holds
\* of every sequence.
LEMMA ByAppending ==
  ASSUME NEW E, NEW T \in SUBSET Seq(E), <<>> \in T, \A s \in T, e \in E : Append(s, e) \in T
  PROVE  T = Seq(E)
<1> DEFINE S == {n \in Nat : \A s \in Seq(E) : Len(s) = n => s \in T}
<1>1. 0 \in S
  BY EmptySeq
<1>2. ASSUME NEW n \in S PROVE n + 1 \in S
  <2> SUFFICES ASSUME NEW s \in Seq(E), Len(s) = n + 1 PROVE s \in T
    OBVIOUS
  <2> DEFINE front == [i \in 1..n |-> s[i]]
  <2>1. front \in Seq(E) /\ Len(front) = n /\ s[n + 1] \in E
    OBVIOUS
  <2>2. Append(front, s[n + 1]) = s
    BY <2>1
  <2> QED
    BY <2>1, <2>2
<1>3. S = Nat
  <2>1. S \in SUBSET Nat
    OBVIOUS
  <2> HIDE DEF S
  <2> QED
    BY <1>1, <1>2, <2>1, ByInduction
<1>4. ASSUME NEW s \in Seq(E) PROVE s \in T
  <2>1. Len(s) \in S
    BY <1>3
  <2> QED
    BY <2>1
<1> QED
  BY <1>4

\* A finite set of numbers that is not empty has a greatest one.
LEMMA GreatestNumber ==
  ASSUME NEW T \in SUBSET Nat, T # {}, IsFiniteSet(T)
  PROVE  \E m \in T : \A i \in T : i <= m
<1> DEFINE Has(X) == \E m \in X : \A i \in X : i <= m
           S == {n \in Nat : \A X \in SUBSET Nat :
                   IsFiniteSet(X) /\ Cardinality(X) = n + 1 => Has(X)}
<1>1. 0 \in S
  <2> SUFFICES ASSUME NEW X \in SUBSET Nat, IsFiniteSet(X), Cardinality(X) = 0 + 1 PROVE Has(X)
    OBVIOUS
  <2>2. Cardinality(X) = 1
    OBVIOUS
  <2>1. PICK x : X = {x}
    BY <2>2, FS_Singleton
  <2> QED
    BY <2>1
<1>2. ASSUME NEW n \in S PROVE n + 1 \in S
  <2> SUFFICES ASSUME NEW X \in SUBSET Nat, IsFiniteSet(X), Cardinality(X) = (n + 1) + 1
               PROVE  Has(X)
    OBVIOUS
  <2>1. X # {}
    BY FS_EmptySet
  <2>2. PICK x \in X : TRUE
    BY <2>1
  <2> DEFINE Y == X \ {x}
  <2>3. IsFiniteSet(Y) /\ Cardinality(Y) = Cardinality(X) - 1
    BY <2>2, FS_RemoveElement
  <2>4. Y \in SUBSET Nat /\ IsFiniteSet(Y) /\ Cardinality(Y) = n + 1
    BY <2>3
  <2> HIDE DEF Y
  <2>5. Has(Y)
    BY <2>4
  <2>6. PICK m \in Y : \A i \in Y : i <= m
    BY <2>5
  <2>7. m \in X /\ m \in Nat /\ x \in Nat /\ \A i \in X : i = x \/ i \in Y
    BY <2>2, <2>4, <2>6 DEF Y
  <2>8. CASE m <= x
    <3>1. \A i \in X : i <= x
      BY <2>4, <2>6, <2>7, <2>8
    <3> QED
      BY <2>2, <3>1
  <2>9. CASE ~(m <= x)
    <3>1. \A i \in X : i <= m
      BY <2>6, <2>7, <2>9
    <3> QED
      BY <2>7, <3>1
  <2> QED
    BY <2>8, <2>9
<1>3. S = Nat
  <2>1. S \in SUBSET Nat
    OBVIOUS
  <2> HIDE DEF S
  <2> QED
    BY <1>1, <1>2, <2>1, ByInduction
<1>4. Cardinality(T) \in Nat /\ Cardinality(T) # 0
  BY FS_CardinalityType, FS_EmptySet
<1>5. Cardinality(T) - 1 \in S /\ Cardinality(T) = (Cardinality(T) - 1) + 1
  BY <1>3, <1>4
<1> QED
  BY <1>5

\* Going through a sequence, from a start, with a step: what comes out at each place.
IsFold(f, step, start, s) ==
  f[0] = start /\ \A n \in 1..Len(s) : f[n] = step[<<f[n - 1], s[n]>>]

LEMMA FoldExists ==
  ASSUME NEW D, NEW E, NEW step \in [D \X E -> D], NEW start \in D, NEW s \in Seq(E)
  PROVE  \E f \in [0..Len(s) -> D] : IsFold(f, step, start, s)
<1> DEFINE Upto(f, n) == f[0] = start /\ \A i \in 1..n : f[i] = step[<<f[i - 1], s[i]>>]
           S == {n \in Nat : n <= Len(s) => \E f \in [0..n -> D] : Upto(f, n)}
<1>1. 0 \in S
  <2>1. [i \in 0..0 |-> start] \in [0..0 -> D] /\ Upto([i \in 0..0 |-> start], 0)
    OBVIOUS
  <2> QED
    BY <2>1
<1>2. ASSUME NEW n \in S PROVE n + 1 \in S
  <2> SUFFICES ASSUME n + 1 <= Len(s)
               PROVE  \E f \in [0..(n + 1) -> D] : Upto(f, n + 1)
    OBVIOUS
  <2>1. PICK f \in [0..n -> D] : Upto(f, n)
    BY Len(s) \in Nat
  <2> DEFINE g == [i \in 0..(n + 1) |-> IF i = n + 1 THEN step[<<f[n], s[n + 1]>>] ELSE f[i]]
  <2>2. n \in Nat /\ n + 1 \in 1..Len(s) /\ s[n + 1] \in E /\ f[n] \in D
    BY Len(s) \in Nat
  <2>3. g \in [0..(n + 1) -> D]
    BY <2>2
  <2>4. /\ g[n + 1] = step[<<f[n], s[n + 1]>>] /\ g[0] = f[0] /\ g[n] = f[n]
        /\ \A i \in 1..n : g[i] = f[i] /\ g[i - 1] = f[i - 1]
    BY <2>2
  <2> HIDE DEF g
  <2>5. ASSUME NEW i \in 1..(n + 1) PROVE g[i] = step[<<g[i - 1], s[i]>>]
    <3>1. CASE i = n + 1
      <4>1. i - 1 = n
        BY <2>2, <3>1
      <4> QED
        BY <2>4, <3>1, <4>1
    <3>2. CASE i \in 1..n
      BY <2>1, <2>4, <3>2
    <3> QED
      BY <2>2, <3>1, <3>2
  <2>6. Upto(g, n + 1)
    BY <2>1, <2>4, <2>5
  <2> QED
    BY <2>3, <2>6
<1>3. S = Nat
  <2> HIDE DEF S
  <2>1. S \in SUBSET Nat
    BY DEF S
  <2> QED
    BY <1>1, <1>2, <2>1, ByInduction
<1>4. \E f \in [0..Len(s) -> D] : Upto(f, Len(s))
  <2>1. Len(s) \in S /\ Len(s) <= Len(s)
    BY <1>3
  <2> QED
    BY <2>1
<1> QED
  BY <1>4 DEF IsFold

LEMMA FoldUnique ==
  ASSUME NEW E, NEW s \in Seq(E), NEW step, NEW start,
         NEW f, NEW g, IsFold(f, step, start, s), IsFold(g, step, start, s)
  PROVE  \A n \in 0..Len(s) : f[n] = g[n]
<1> DEFINE S == {n \in Nat : n <= Len(s) => f[n] = g[n]}
<1>1. 0 \in S
  BY DEF IsFold
<1>2. ASSUME NEW n \in S PROVE n + 1 \in S
  <2> SUFFICES ASSUME n + 1 <= Len(s) PROVE f[n + 1] = g[n + 1]
    OBVIOUS
  <2>1. n + 1 \in 1..Len(s) /\ (n + 1) - 1 = n /\ f[n] = g[n]
    OBVIOUS
  <2> QED
    BY <2>1 DEF IsFold
<1>3. S = Nat
  <2>1. S \in SUBSET Nat
    OBVIOUS
  <2> HIDE DEF S
  <2> QED
    BY <1>1, <1>2, <2>1, ByInduction
<1> QED
  BY <1>3

\* One element more is one step more.
LEMMA FoldAppended ==
  ASSUME NEW E, NEW s \in Seq(E), NEW e \in E, NEW step, NEW start,
         NEW f, NEW g, IsFold(f, step, start, s), IsFold(g, step, start, Append(s, e))
  PROVE  g[Len(Append(s, e))] = step[<<f[Len(s)], e>>]
<1> DEFINE t == Append(s, e)
<1>1. /\ t \in Seq(E) /\ Len(t) = Len(s) + 1 /\ t[Len(s) + 1] = e /\ Len(s) \in Nat
      /\ \A i \in 1..Len(s) : t[i] = s[i]
  OBVIOUS
<1> HIDE DEF t
<1>2. IsFold(g, step, start, s)
  BY <1>1 DEF IsFold, t
<1>3. f[Len(s)] = g[Len(s)]
  <2>1. \A n \in 0..Len(s) : f[n] = g[n]
    BY <1>2, FoldUnique
  <2> QED
    BY <1>1, <2>1
<1>4. Len(t) \in 1..Len(t) /\ Len(t) - 1 = Len(s)
  BY <1>1
<1> QED
  BY <1>1, <1>3, <1>4 DEF IsFold, t
=============================================================================
