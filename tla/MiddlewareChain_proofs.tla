------------------------ MODULE MiddlewareChain_proofs ------------------------
(***************************************************************************)
(* Proofs about MiddlewareChain, for any number of requests and              *)
(* middlewares, any priorities and any exceptions.                          *)
(***************************************************************************)
EXTENDS MiddlewareChain, SequenceTheorems, FiniteSetTheorems, TLAPS

-----------------------------------------------------------------------------
(* The order: what sorting in and reversing keep of a list of middlewares.  *)

\* No middleware is twice in the list.
Once(s) == \A i, j \in 1..Len(s) : s[i] = s[j] => i = j

\* Inside out it is the same middlewares.
LEMMA ReversedFacts ==
  ASSUME NEW M, NEW s \in Seq(M)
  PROVE  Reversed(s) \in Seq(M) /\ Len(Reversed(s)) = Len(s)
         /\ Items(Reversed(s)) = Items(s)
<1>1. Len(s) \in Nat /\ \A i \in 1..Len(s) : s[i] \in M /\ Len(s) + 1 - i \in 1..Len(s)
  OBVIOUS
<1>2. Reversed(s) \in Seq(M) /\ Len(Reversed(s)) = Len(s)
      /\ \A i \in 1..Len(s) : Reversed(s)[i] = s[Len(s) + 1 - i]
  BY <1>1 DEF Reversed
<1>3. Items(Reversed(s)) \subseteq Items(s)
  BY <1>1, <1>2 DEF Items
<1>4. Items(s) \subseteq Items(Reversed(s))
  <2>1. ASSUME NEW i \in 1..Len(s) PROVE s[i] \in Items(Reversed(s))
    <3>1. Len(s) + 1 - i \in 1..Len(s) /\ Len(s) + 1 - (Len(s) + 1 - i) = i
      BY <1>1
    <3> QED BY <1>2, <3>1 DEF Items
  <2> QED BY <2>1 DEF Items
<1> QED BY <1>2, <1>3, <1>4

\* t is s with m at place n + 1.
Placed(t, s, m, n) ==
  /\ t[n + 1] = m
  /\ \A i \in 1..n : t[i] = s[i]
  /\ \A i \in n + 1..Len(s) : t[i + 1] = s[i]

\* Where a middleware is sorted in, and where that leaves the others.
LEMMA InsertedPlaces ==
  ASSUME NEW M, NEW priority \in [M -> Nat], NEW s \in Seq(M), NEW m \in M
  PROVE  /\ Inserted(priority, s, m) \in Seq(M) /\ Len(Inserted(priority, s, m)) = Len(s) + 1
         /\ \E n \in 0..Len(s) : Placed(Inserted(priority, s, m), s, m, n)
<1> DEFINE I == {i \in 1..Len(s) : priority[s[i]] <= priority[m]}
           n == Cardinality(I)
           a == SubSeq(s, 1, n)
           c == SubSeq(s, n + 1, Len(s))
<1>1. Len(s) \in Nat /\ \A i \in 1..Len(s) : s[i] \in M
  OBVIOUS
<1>2. n \in 0..Len(s)
  <2>1. IsFiniteSet(1..Len(s)) /\ Cardinality(1..Len(s)) = Len(s)
    <3>1. 1 \in Int /\ Len(s) \in Int /\ (1 > Len(s) => Len(s) = 0) /\ Len(s) - 1 + 1 = Len(s)
      BY <1>1
    <3>2. IsFiniteSet(1..Len(s))
          /\ Cardinality(1..Len(s)) = IF 1 > Len(s) THEN 0 ELSE Len(s) - 1 + 1
      BY <3>1, FS_Interval, Zenon
    <3> QED BY <3>1, <3>2
  <2>2. IsFiniteSet(I) /\ Cardinality(I) <= Len(s)
    BY <2>1, FS_Subset
  <2> QED BY <1>1, <2>2, FS_CardinalityType
<1> HIDE DEF n
<1>3. a \in Seq(M) /\ Len(a) = n /\ \A i \in 1..n : a[i] = s[i]
  BY <1>1, <1>2, SubSeqProperties
<1>4. c \in Seq(M) /\ Len(c) = Len(s) - n /\ \A i \in 1..Len(s) - n : c[i] = s[n + i]
  BY <1>1, <1>2, SubSeqProperties
<1> HIDE DEF a, c
<1>5. <<m>> \in Seq(M) /\ Len(<<m>>) = 1
  OBVIOUS
<1>6. a \o <<m>> \in Seq(M) /\ Len(a \o <<m>>) = n + 1
      /\ (a \o <<m>>)[n + 1] = m /\ \A i \in 1..n : (a \o <<m>>)[i] = s[i]
  <2>1. /\ a \o <<m>> \in Seq(M) /\ Len(a \o <<m>>) = n + 1
        /\ \A i \in 1..n + 1 : (a \o <<m>>)[i] = IF i <= n THEN a[i] ELSE <<m>>[i - n]
    BY <1>2, <1>3, <1>5, ConcatProperties
  <2>2. n + 1 \in 1..n + 1 /\ ~(n + 1 <= n) /\ n + 1 - n = 1 /\ <<m>>[1] = m
    BY <1>2
  <2>3. (a \o <<m>>)[n + 1] = <<m>>[n + 1 - n]
    BY <2>1, <2>2
  <2> QED BY <1>2, <1>3, <2>1, <2>2, <2>3
<1>7. /\ (a \o <<m>>) \o c \in Seq(M)
      /\ Len((a \o <<m>>) \o c) = Len(s) + 1
      /\ ((a \o <<m>>) \o c)[n + 1] = m
      /\ \A i \in 1..n : ((a \o <<m>>) \o c)[i] = s[i]
      /\ \A i \in n + 1..Len(s) : ((a \o <<m>>) \o c)[i + 1] = s[i]
  <2> DEFINE b == a \o <<m>>
  <2>0. b \in Seq(M) /\ Len(b) = n + 1
    BY <1>6
  <2>2. b[n + 1] = m /\ \A i \in 1..n : b[i] = s[i]
    BY <1>6
  <2> HIDE DEF b
  <2>1. /\ b \o c \in Seq(M) /\ Len(b \o c) = Len(s) + 1
        /\ \A i \in 1..Len(s) + 1 : (b \o c)[i] = IF i <= n + 1 THEN b[i] ELSE c[i - (n + 1)]
    <3>1. Len(b) + Len(c) = Len(s) + 1
      BY <1>1, <1>2, <1>4, <2>0
    <3>2. /\ b \o c \in Seq(M) /\ Len(b \o c) = Len(b) + Len(c)
          /\ \A i \in 1..Len(b) + Len(c) : (b \o c)[i] = IF i <= Len(b) THEN b[i] ELSE c[i - Len(b)]
      BY <1>4, <2>0, ConcatProperties
    <3> QED BY <2>0, <3>1, <3>2
  <2>3. (b \o c)[n + 1] = m /\ \A i \in 1..n : (b \o c)[i] = s[i]
    <3>1. n + 1 \in 1..Len(s) + 1 /\ n + 1 <= n + 1
          /\ \A i \in 1..n : i \in 1..Len(s) + 1 /\ i <= n + 1
      BY <1>1, <1>2
    <3>2. (b \o c)[n + 1] = b[n + 1]
      BY <2>1, <3>1
    <3>3. \A i \in 1..n : (b \o c)[i] = b[i]
      BY <2>1, <3>1
    <3> QED BY <2>2, <3>2, <3>3
  <2>4. \A i \in n + 1..Len(s) : (b \o c)[i + 1] = s[i]
    <3>1. ASSUME NEW i \in n + 1..Len(s) PROVE (b \o c)[i + 1] = s[i]
      <4> PICK j : j = i + 1
        OBVIOUS
      <4>1. j \in 1..Len(s) + 1 /\ ~(j <= n + 1) /\ j - (n + 1) = i - n
            /\ i - n \in 1..Len(s) - n /\ n + (i - n) = i
        BY <1>1, <1>2
      <4>2. (b \o c)[j] = c[j - (n + 1)]
        BY <2>1, <4>1
      <4>3. c[i - n] = s[n + (i - n)]
        BY <1>4, <4>1
      <4> QED BY <4>1, <4>2, <4>3
    <3> QED BY <3>1
  <2> QED BY <2>1, <2>3, <2>4 DEF b
<1>8. Inserted(priority, s, m) = (a \o <<m>>) \o c
  BY DEF Inserted, n, a, c
<1>9. Placed(Inserted(priority, s, m), s, m, n)
  BY <1>7, <1>8 DEF Placed
<1> QED BY <1>2, <1>7, <1>8, <1>9

\* Sorting a middleware in loses none.
LEMMA InsertedFacts ==
  ASSUME NEW M, NEW priority \in [M -> Nat], NEW s \in Seq(M), NEW m \in M
  PROVE  Inserted(priority, s, m) \in Seq(M) /\ Items(s) \cup {m} \subseteq Items(Inserted(priority, s, m))
<1> DEFINE t == Inserted(priority, s, m)
<1>1. t \in Seq(M) /\ Len(t) = Len(s) + 1 /\ Len(s) \in Nat
  BY InsertedPlaces
<1>2. PICK n \in 0..Len(s) : Placed(t, s, m, n)
  BY InsertedPlaces
<1> HIDE DEF t
<1>3. ASSUME NEW i \in 1..Len(s) PROVE s[i] \in Items(t)
  <2>1. i \in 1..n \/ i \in n + 1..Len(s)
    BY <1>1
  <2>2. i \in 1..Len(t) /\ i + 1 \in 1..Len(t)
    BY <1>1
  <2> QED BY <1>2, <2>1, <2>2 DEF Placed, Items
<1>4. m \in Items(t)
  <2>1. n + 1 \in 1..Len(t)
    BY <1>1
  <2> QED BY <1>2, <2>1 DEF Placed, Items
<1> QED BY <1>1, <1>3, <1>4 DEF Items, t

\* ... and a new one doubles none.
LEMMA InsertedOnce ==
  ASSUME NEW M, NEW priority \in [M -> Nat], NEW s \in Seq(M), NEW m \in M,
         Once(s), \A i \in 1..Len(s) : s[i] # m
  PROVE  Once(Inserted(priority, s, m))
<1> DEFINE t == Inserted(priority, s, m)
<1>1. t \in Seq(M) /\ Len(t) = Len(s) + 1 /\ Len(s) \in Nat
  BY InsertedPlaces
<1>2. PICK n \in 0..Len(s) : Placed(t, s, m, n)
  BY InsertedPlaces
<1> HIDE DEF t
<1> DEFINE Old(k) == IF k <= n THEN k ELSE k - 1
<1>3. ASSUME NEW k \in 1..Len(t), k # n + 1
      PROVE  Old(k) \in 1..Len(s) /\ t[k] = s[Old(k)]
  <2>1. CASE k <= n
    BY <1>1, <1>2, <2>1, SMTT(40) DEF Placed
  <2>2. CASE ~(k <= n)
    <3>1. k - 1 \in n + 1..Len(s) /\ k - 1 + 1 = k
      BY <1>1, <1>3, <2>2
    <3>2. t[k - 1 + 1] = s[k - 1]
      BY <1>2, <3>1 DEF Placed
    <3> QED BY <1>1, <2>2, <3>1, <3>2
  <2> QED BY <2>1, <2>2
<1>4. ASSUME NEW i \in 1..Len(t), NEW j \in 1..Len(t), t[i] = t[j] PROVE i = j
  <2>1. CASE i = n + 1 \/ j = n + 1
    <3>1. t[n + 1] = m
      BY <1>2 DEF Placed
    <3>2. i # n + 1 => t[i] # m
      BY <1>3
    <3>3. j # n + 1 => t[j] # m
      BY <1>3
    <3> QED BY <1>4, <2>1, <3>1, <3>2, <3>3
  <2>2. CASE i # n + 1 /\ j # n + 1
    <3>1. Old(i) \in 1..Len(s) /\ Old(j) \in 1..Len(s) /\ s[Old(i)] = s[Old(j)]
      BY <1>3, <1>4, <2>2
    <3>2. Old(i) = Old(j)
      BY <3>1 DEF Once
    <3>3. i \in Int /\ j \in Int /\ n \in Int
      BY <1>1
    <3> QED BY <2>2, <3>2, <3>3
  <2> QED BY <2>1, <2>2
<1> QED BY <1>4 DEF Once, t

-----------------------------------------------------------------------------
(* The chain *)

Record == [entered : SUBSET Middlewares, answered : SUBSET Middlewares, told : SUBSET Middlewares]

-----------------------------------------------------------------------------
(* One request *)

\* The phase a request is in, or returns to after a broadcast.
Where(q) == IF q.stage = "notify" THEN q.after ELSE q.stage

\* The mandatory middlewares before hook n are in S.
Through(q, n, S) == \A i \in 1..Len(q.chain) : i < n /\ q.chain[i] \in Mandatory => q.chain[i] \in S
AllThrough(q, S) == \A i \in 1..Len(q.chain) : q.chain[i] \in Mandatory => q.chain[i] \in S

Passes(q, n, s) ==
  /\ Where(q) = "request" => Through(q, n, s.entered)
  /\ Where(q) = "response" => Through(q, n, s.answered)
  /\ Where(q) = "chunk" /\ q.final => Through(q, n, s.answered)

KindFits(q) == /\ Where(q) = "response" => q.kind = "run"
               /\ Where(q) \in {"chunk", "tool_call", "tool_result"} => q.kind # "run"

\* Those before hook n of the response phase, and those told, are informed; the
\* others will be.
Informs(q, n, s) ==
  q.stage = "response" =>
    \A m \in s.entered : m \in s.answered \/ m \in s.told
                         \/ \E i \in 1..Len(q.chain) : n <= i /\ q.chain[i] = m

Tells(q, n, s) ==
  \A m \in s.entered : m \in s.told \/ \E i \in 1..Len(q.told) : n <= i /\ q.told[i] = m

\* Where it does not matter that a phase or a broadcast may be over.
Sound(q, s, here) ==
  /\ Items(q.chain) \subseteq here /\ s.entered \subseteq here
  /\ KindFits(q)
  /\ Passes(q, q.pos, s)
  /\ Informs(q, q.pos, s)

\* Where a request may be between two steps.
Good(q, s, here) ==
  /\ Sound(q, s, here)
  /\ q.stage \in Phases => q.pos <= Len(q.chain)
  /\ q.stage = "notify" =>
       /\ q.at <= Len(q.told) /\ Tells(q, q.at, s)
       /\ q.after \in Phases => q.pos <= Len(q.chain) /\ q.chain[q.pos] \notin Mandatory
  /\ q.stage = "provider" => AllThrough(q, s.entered)
  /\ q.stage = "streaming" /\ q.final => AllThrough(q, s.answered)
  /\ q.stage = "ended" /\ q.kind = "run" /\ q.outcome = "returned" =>
       AllThrough(q, s.answered) /\ s.entered \subseteq s.answered \cup s.told
  /\ q.stage = "ended" /\ q.kind = "run" /\ q.outcome = "raised" => s.entered \subseteq s.told
  /\ q.stage = "ended" => q.outcome # "none"

\* A phase that may be over.
LEMMA SettledGood ==
  ASSUME NEW q \in Request, NEW s \in Record, NEW here, q.stage \in Phases, Sound(q, s, here)
  PROVE  Settled(q) \in Request /\ Good(Settled(q), s, here)
<1> USE DEF Phases
<1>0. Len(q.chain) \in Nat /\ q.pos \in Nat
  BY DEF Request
<1>1. CASE q.pos <= Len(q.chain)
  BY <1>0, <1>1 DEF Settled, Good
<1>2. CASE q.pos > Len(q.chain) /\ q.stage = "request"
  <2>1. Settled(q) = [q EXCEPT !.stage = "provider"]
    BY <1>2 DEF Settled, AfterPhase
  <2>2. AllThrough(q, s.entered)
    BY <1>0, <1>2 DEF Sound, Passes, Where, Through, AllThrough
  <2> QED BY <1>2, <2>1, <2>2
          DEF Request, Stages, Good, Sound, KindFits, Passes, Informs, Where, AllThrough
<1>3. CASE q.pos > Len(q.chain) /\ q.stage = "chunk"
  <2>1. Settled(q) = [q EXCEPT !.stage = "streaming"]
    BY <1>3 DEF Settled, AfterPhase
  <2>2. q.final => AllThrough(q, s.answered)
    BY <1>0, <1>3 DEF Sound, Passes, Where, Through, AllThrough
  <2> QED BY <1>3, <2>1, <2>2
          DEF Request, Stages, Good, Sound, KindFits, Passes, Informs, Where, AllThrough
<1>4. CASE q.pos > Len(q.chain) /\ q.stage \notin {"request", "chunk"}
  <2>1. Settled(q) = [q EXCEPT !.stage = "ended", !.outcome = "returned"]
    BY <1>4 DEF Settled, AfterPhase
  <2>2. q.kind = "run" => q.stage = "response"
    BY <1>4 DEF Sound, KindFits, Where
  <2>3. q.stage = "response" => AllThrough(q, s.answered) /\ s.entered \subseteq s.answered \cup s.told
    BY <1>0, <1>4 DEF Sound, Passes, Where, Through, AllThrough, Informs
  <2> QED BY <1>4, <2>1, <2>2, <2>3
          DEF Request, Stages, Good, Sound, KindFits, Passes, Informs, Where, AllThrough
<1> QED BY <1>0, <1>1, <1>2, <1>3, <1>4

\* A phase begins.
LEMMA BeginPhaseGood ==
  ASSUME NEW q \in Request, NEW s \in Record, NEW here, NEW phase \in Phases,
         NEW chain \in Seq(Middlewares), Items(chain) \subseteq here, s.entered \subseteq here,
         phase = "response" => q.kind = "run" /\ s.entered \subseteq Items(chain),
         phase \in {"chunk", "tool_call", "tool_result"} => q.kind # "run"
  PROVE  BeginPhase(q, phase, chain) \in Request /\ Good(BeginPhase(q, phase, chain), s, here)
<1> DEFINE d == [q EXCEPT !.stage = phase, !.chain = chain, !.pos = 1]
<1>1. /\ d \in Request /\ d.stage = phase /\ d.chain = chain /\ d.pos = 1
      /\ d.kind = q.kind /\ d.final = q.final
  <2>1. phase \in Stages /\ 1 \in Nat \ {0}
    BY DEF Stages
  <2>2. d \in Request
    BY <2>1 DEF Request
  <2> QED BY <2>1, <2>2 DEF Request
<1> HIDE DEF d
<1>2. KindFits(d)
  BY <1>1 DEF KindFits, Where, Phases
<1>3. Passes(d, d.pos, s)
  BY <1>1 DEF Passes, Through
<1>4. Informs(d, d.pos, s)
  BY <1>1 DEF Informs, Items
<1>5. Sound(d, s, here)
  BY <1>1, <1>2, <1>3, <1>4 DEF Sound
<1>6. Settled(d) \in Request /\ Good(Settled(d), s, here)
  BY <1>1, <1>5, SettledGood
<1> QED BY <1>6 DEF BeginPhase, d

\* Everything a request has seen before it has seen after.
Grows(s, t) == s.entered \subseteq t.entered /\ s.answered \subseteq t.answered /\ s.told \subseteq t.told

\* The hook that is awaited is done, or isolated.
LEMMA NextHookGood ==
  ASSUME NEW q \in Request, NEW s \in Record, NEW t \in Record, NEW here,
         q.stage \in Phases, q.pos <= Len(q.chain), Sound(q, s, here),
         Grows(s, t), t.entered \subseteq here,
         q.chain[q.pos] \in Mandatory =>
           /\ q.stage = "request" => q.chain[q.pos] \in t.entered
           /\ q.stage = "response" \/ (q.stage = "chunk" /\ q.final) => q.chain[q.pos] \in t.answered,
         q.stage = "response" =>
           /\ t.entered = s.entered
           /\ q.chain[q.pos] \in t.answered \/ t.entered \subseteq t.told
  PROVE  NextHook(q) \in Request /\ Good(NextHook(q), t, here)
<1> DEFINE d == [q EXCEPT !.pos = @ + 1]
<1>1. /\ d \in Request /\ d.stage = q.stage /\ d.chain = q.chain /\ d.pos = q.pos + 1
      /\ d.kind = q.kind /\ d.final = q.final
      /\ q.pos \in Nat /\ Len(q.chain) \in Nat
  <2>1. q.pos \in Nat \ {0} /\ q.pos + 1 \in Nat \ {0} /\ q.chain \in Seq(Middlewares)
    BY DEF Request
  <2>2. d \in Request
    BY <2>1 DEF Request
  <2> QED BY <2>1, <2>2 DEF Request
<1> HIDE DEF d
<1>2. KindFits(d)
  BY <1>1 DEF KindFits, Where, Phases, Sound
<1>3. Where(q) = q.stage /\ Where(d) = q.stage
  BY <1>1 DEF Where, Phases
<1>4. ASSUME NEW S, NEW T, S \subseteq T, Through(q, q.pos, S),
             q.chain[q.pos] \in Mandatory => q.chain[q.pos] \in T
      PROVE  Through(d, d.pos, T)
  BY <1>1, <1>4 DEF Through
<1>5. Passes(d, d.pos, t)
  <2>1. CASE q.stage = "request"
    BY <1>3, <1>4, <2>1 DEF Passes, Sound, Grows
  <2>2. CASE q.stage = "response"
    BY <1>3, <1>4, <2>2 DEF Passes, Sound, Grows
  <2>3. CASE q.stage = "chunk" /\ q.final
    BY <1>1, <1>3, <1>4, <2>3 DEF Passes, Sound, Grows
  <2> QED BY <1>1, <1>3, <2>1, <2>2, <2>3 DEF Passes
<1>6. Informs(d, d.pos, t)
  <2> SUFFICES ASSUME q.stage = "response", NEW m \in t.entered
               PROVE  m \in t.answered \/ m \in t.told
                      \/ \E i \in 1..Len(d.chain) : d.pos <= i /\ d.chain[i] = m
    BY <1>1 DEF Informs
  <2>1. m \in s.answered \/ m \in s.told \/ \E i \in 1..Len(q.chain) : q.pos <= i /\ q.chain[i] = m
    BY DEF Sound, Informs
  <2> QED BY <1>1, <2>1 DEF Grows
<1>7. Sound(d, t, here)
  BY <1>1, <1>2, <1>5, <1>6 DEF Sound
<1>8. Settled(d) \in Request /\ Good(Settled(d), t, here)
  BY <1>1, <1>7, SettledGood
<1> QED BY <1>8 DEF NextHook, d

\* A broadcast that may be over.
LEMMA NotifiedGood ==
  ASSUME NEW q \in Request, NEW s \in Record, NEW here, q.stage = "notify",
         Sound(q, s, here), Tells(q, q.at, s),
         q.after \in Phases => q.pos <= Len(q.chain) /\ q.chain[q.pos] \notin Mandatory
  PROVE  Notified(q) \in Request /\ Good(Notified(q), s, here)
<1>0. Len(q.told) \in Nat /\ q.at \in Nat /\ q.after \in Phases \cup {"ended"}
  BY DEF Request
<1>1. CASE q.at <= Len(q.told)
  BY <1>1 DEF Notified, Good, Phases
<1>2. CASE ~(q.at <= Len(q.told))
  <2>1. s.entered \subseteq s.told
    BY <1>0, <1>2 DEF Tells
  <2>2. CASE q.after = "ended"
    <3>1. Notified(q) = [q EXCEPT !.stage = "ended", !.outcome = "raised"]
      BY <1>2, <2>2 DEF Notified
    <3> QED BY <2>1, <3>1
            DEF Request, Stages, Phases, Good, Sound, KindFits, Passes, Informs, Where
  <2>3. CASE q.after # "ended"
    <3> DEFINE d == [q EXCEPT !.stage = q.after]
    <3>1. Notified(q) = NextHook(d)
      BY <1>2, <2>3 DEF Notified
    <3>2. /\ d \in Request /\ d.stage = q.after /\ d.chain = q.chain /\ d.pos = q.pos
          /\ d.kind = q.kind /\ d.final = q.final /\ q.after \in Phases
      BY <1>0, <2>3 DEF Request, Stages
    <3> HIDE DEF d
    <3>3. Where(d) = Where(q)
      BY <3>2 DEF Where, Phases
    <3>4. Sound(d, s, here)
      BY <2>1, <3>2, <3>3 DEF Sound, KindFits, Passes, Through, Informs
    <3>5. NextHook(d) \in Request /\ Good(NextHook(d), s, here)
      BY <2>1, <3>2, <3>4, NextHookGood DEF Grows, Sound
    <3> QED BY <3>1, <3>5
  <2> QED BY <2>2, <2>3
<1> QED BY <1>1, <1>2

\* An error is broadcast to all that are registered.
LEMMA BeginNotifyGood ==
  ASSUME NEW q \in Request, NEW s \in Record, NEW here,
         sorted \in Seq(Middlewares), s.entered \subseteq Items(sorted),
         q.stage # "notify", Sound(q, s, here), NEW after \in {"ended", q.stage},
         after # "ended" =>
           after \in Phases /\ q.pos <= Len(q.chain) /\ q.chain[q.pos] \notin Mandatory
  PROVE  BeginNotify(q, after) \in Request /\ Good(BeginNotify(q, after), s, here)
<1> DEFINE d == [q EXCEPT !.stage = "notify", !.told = sorted, !.at = 1, !.after = after]
<1>1. /\ d \in Request /\ d.stage = "notify" /\ d.told = sorted /\ d.at = 1 /\ d.after = after
      /\ d.chain = q.chain /\ d.pos = q.pos /\ d.kind = q.kind /\ d.final = q.final
  <2>1. "notify" \in Stages /\ 1 \in Nat \ {0} /\ after \in Phases \cup {"ended"}
    BY DEF Stages
  <2>2. d \in Request
    BY <2>1 DEF Request
  <2> QED BY <2>1, <2>2 DEF Request
<1> HIDE DEF d
<1>2. Where(d) = after /\ Where(q) = q.stage
  BY <1>1 DEF Where
<1>3. Sound(d, s, here)
  BY <1>1, <1>2 DEF Sound, KindFits, Passes, Through, Informs
<1>4. Tells(d, d.at, s)
  BY <1>1 DEF Tells, Items
<1>5. Notified(d) \in Request /\ Good(Notified(d), s, here)
  BY <1>1, <1>3, <1>4, NotifiedGood DEF Phases
<1> QED BY <1>5 DEF BeginNotify, d

-----------------------------------------------------------------------------
(* The inductive invariant *)

IInv == TypeOK /\ \A r \in Requests : Good(requests[r], seen[r], Items(sorted))

LEMMA InitIInv ==
  ASSUME ChainAssumption, Init
  PROVE  IInv
<1>1. NewRequest \in Request
  BY DEF NewRequest, Request, Kinds, Stages, Phases
<1>2. Unseen \in Record
  BY DEF Unseen, Record
<1>3. TypeOK
  BY <1>1, <1>2 DEF ChainAssumption, Init, TypeOK, Record
<1>4. Good(NewRequest, Unseen, Items(sorted))
  BY DEF NewRequest, Unseen, Phases, Good, Sound, KindFits, Passes, Informs, Where, Items
<1> QED BY <1>3, <1>4 DEF Init, IInv

\* A step of request r leaves the others as they are.
LEMMA StepOf ==
  ASSUME IInv, NEW r \in Requests, NEW q \in Request, NEW t \in Record,
         sorted' = sorted, requests' = [requests EXCEPT ![r] = q],
         seen' = [seen EXCEPT ![r] = t], gauge' \in Int,
         span' \in [Requests -> {"none", "open", "ended"}],
         Good(q, t, Items(sorted))
  PROVE  IInv'
<1>1. TypeOK'
  BY DEF IInv, TypeOK, Record
<1>2. ASSUME NEW p \in Requests PROVE Good(requests'[p], seen'[p], Items(sorted))
  <2>1. CASE p = r
    BY <2>1 DEF IInv, TypeOK
  <2>2. CASE p # r
    <3>1. requests'[p] = requests[p] /\ seen'[p] = seen[p]
      BY <2>2 DEF IInv, TypeOK
    <3> QED BY <3>1 DEF IInv
  <2> QED BY <2>1, <2>2
<1>3. Items(sorted') = Items(sorted)
  BY DEF Items
<1> QED BY <1>1, <1>2, <1>3 DEF IInv

\* ... and if only its coroutine moves:
LEMMA StepOfCoroutine ==
  ASSUME IInv, NEW r \in Requests, NEW q \in Request,
         requests' = [requests EXCEPT ![r] = q], UNCHANGED <<sorted, seen, gauge, span>>,
         Good(q, seen[r], Items(sorted))
  PROVE  IInv'
<1>1. seen' = [seen EXCEPT ![r] = seen[r]] /\ seen[r] \in Record
      /\ gauge' \in Int /\ span' \in [Requests -> {"none", "open", "ended"}] /\ sorted' = sorted
  BY DEF IInv, TypeOK, Record
<1> QED BY <1>1, StepOf

\* What is known of a request before its step.
LEMMA OfRequest ==
  ASSUME IInv, NEW r \in Requests
  PROVE  /\ requests[r] \in Request /\ seen[r] \in Record
         /\ Good(requests[r], seen[r], Items(sorted))
         /\ Sound(requests[r], seen[r], Items(sorted))
         /\ seen[r].entered \subseteq Items(sorted)
         /\ sorted \in Seq(Middlewares) /\ Reversed(sorted) \in Seq(Middlewares)
         /\ Items(Reversed(sorted)) = Items(sorted)
<1>1. requests[r] \in Request /\ seen[r] \in Record /\ sorted \in Seq(Middlewares)
  BY DEF IInv, TypeOK, Record
<1>2. Good(requests[r], seen[r], Items(sorted))
  BY DEF IInv
<1>3. Sound(requests[r], seen[r], Items(sorted))
  BY <1>2 DEF Good
<1>4. seen[r].entered \subseteq Items(sorted)
  BY <1>3 DEF Sound
<1> QED BY <1>1, <1>2, <1>3, <1>4, ReversedFacts

\* The hook a request in a phase awaits.
LEMMA OfHook ==
  ASSUME IInv, NEW r \in Requests, requests[r].stage \in Phases
  PROVE  /\ requests[r].pos \in 1..Len(requests[r].chain)
         /\ Current(r) = requests[r].chain[requests[r].pos]
         /\ Current(r) \in Middlewares /\ Current(r) \in Items(sorted)
<1>1. requests[r].pos <= Len(requests[r].chain) /\ Items(requests[r].chain) \subseteq Items(sorted)
      /\ requests[r] \in Request
  BY OfRequest DEF Good, Sound
<1>2. requests[r].pos \in Nat \ {0} /\ requests[r].chain \in Seq(Middlewares)
  BY <1>1 DEF Request
<1>3. requests[r].pos \in 1..Len(requests[r].chain)
  BY <1>1, <1>2
<1>4. requests[r].chain[requests[r].pos] \in Middlewares
      /\ requests[r].chain[requests[r].pos] \in Items(requests[r].chain)
  BY <1>2, <1>3 DEF Items
<1> QED BY <1>1, <1>3, <1>4 DEF Current

-----------------------------------------------------------------------------
(* One lemma per action *)

LEMMA RaisesGood ==
  ASSUME IInv, NEW r \in Requests, requests[r].stage \in Phases, NEW e, Raises(r, e)
  PROVE  IInv'
<1> DEFINE q == requests[r]
           after == IF IsChainBreaking(e) \/ Current(r) \in Mandatory THEN "ended" ELSE q.stage
<1>1. q \in Request /\ seen[r] \in Record /\ Sound(q, seen[r], Items(sorted))
      /\ seen[r].entered \subseteq Items(sorted) /\ sorted \in Seq(Middlewares)
  BY OfRequest
<1>2. q.stage # "notify" /\ q.stage # "ended" /\ after \in {"ended", q.stage}
  BY DEF Phases
<1>3. after # "ended" => after \in Phases /\ q.pos <= Len(q.chain) /\ q.chain[q.pos] \notin Mandatory
  BY OfHook
<1>4. requests' = [requests EXCEPT ![r] = BeginNotify(q, after)]
      /\ UNCHANGED <<sorted, seen, gauge, span>>
  BY DEF Raises
<1> HIDE DEF q, after
<1>5. BeginNotify(q, after) \in Request /\ Good(BeginNotify(q, after), seen[r], Items(sorted))
  BY <1>1, <1>2, <1>3, BeginNotifyGood
<1> QED BY <1>4, <1>5, StepOfCoroutine

\* Metrics and tracing keep their types.
LEMMA ObserverTypes ==
  ASSUME IInv, NEW r \in Requests, NEW m, Opens(r, m) \/ Closes(r, m)
  PROVE  gauge' \in Int /\ span' \in [Requests -> {"none", "open", "ended"}]
<1>1. gauge \in Int /\ span \in [Requests -> {"none", "open", "ended"}]
  BY DEF IInv, TypeOK
<1>2. gauge' = gauge + 1 \/ gauge' = gauge - 1 \/ gauge' = gauge
  BY DEF Opens, Closes, GaugeIncremented, GaugeDecremented
<1>3. span' = [span EXCEPT ![r] = "open"] \/ span' = [span EXCEPT ![r] = "ended"] \/ span' = span
  BY DEF Opens, Closes, SpanStarted, SpanEnded
<1> QED BY <1>1, <1>2, <1>3

LEMMA RunRequestGood ==
  ASSUME IInv, NEW r \in Requests, RunRequest(r)
  PROVE  IInv'
<1> DEFINE q == requests[r]
<1>1. q \in Request /\ seen[r] \in Record /\ Sound(q, seen[r], Items(sorted))
      /\ seen[r].entered \subseteq Items(sorted) /\ q.stage = "request" /\ q.stage \in Phases
  BY OfRequest DEF RunRequest, Phases
<1>2. CASE /\ Returns(r) /\ seen' = [seen EXCEPT ![r].entered = @ \cup {Current(r)}]
           /\ Opens(r, Current(r)) /\ UNCHANGED sorted
  <2> DEFINE t == [seen[r] EXCEPT !.entered = @ \cup {Current(r)}]
  <2>1. q.pos <= Len(q.chain) /\ Current(r) = q.chain[q.pos] /\ Current(r) \in Middlewares
        /\ Current(r) \in Items(sorted)
    BY <1>1, OfHook
  <2>2. t \in Record /\ t.entered = seen[r].entered \cup {Current(r)} /\ Grows(seen[r], t)
    BY <1>1, <2>1 DEF Record, Grows
  <2>3. seen' = [seen EXCEPT ![r] = t] /\ requests' = [requests EXCEPT ![r] = NextHook(q)]
    BY <1>2 DEF Returns, IInv, TypeOK
  <2> HIDE DEF t, q
  <2>4. NextHook(q) \in Request /\ Good(NextHook(q), t, Items(sorted))
    BY <1>1, <2>1, <2>2, NextHookGood
  <2> QED BY <1>2, <2>2, <2>3, <2>4, ObserverTypes, StepOf
<1>3. CASE CacheHit(r)
  <2> DEFINE c == [q EXCEPT !.cached = TRUE]
             d == [c EXCEPT !.stage = "ended", !.outcome = "returned"]
  <2>1. c \in Request /\ c.kind = q.kind
    BY <1>1 DEF Request
  <2>2. d \in Request /\ d.stage = "ended" /\ d.kind = q.kind /\ d.chain = q.chain
    BY <1>1 DEF Request, Stages
  <2>3. /\ UNCHANGED <<sorted, seen, gauge, span>>
        /\ requests' = [requests EXCEPT ![r] =
             IF q.kind = "run" THEN BeginPhase(c, "response", Reversed(sorted)) ELSE d]
    BY <1>3, <2>1 DEF CacheHit
  <2> HIDE DEF c, q
  <2>4. CASE q.kind = "run"
    <3>1. BeginPhase(c, "response", Reversed(sorted)) \in Request
          /\ Good(BeginPhase(c, "response", Reversed(sorted)), seen[r], Items(sorted))
      BY <1>1, <2>1, <2>4, OfRequest, BeginPhaseGood DEF Phases
    <3> QED BY <2>3, <2>4, <3>1, StepOfCoroutine
  <2>5. CASE q.kind # "run"
    <3>1. Good(d, seen[r], Items(sorted))
      BY <1>1, <2>2, <2>5 DEF Good, Sound, KindFits, Passes, Informs, Where, Phases
    <3> HIDE DEF d
    <3> QED BY <2>2, <2>3, <2>5, <3>1, StepOfCoroutine
  <2> QED BY <2>4, <2>5
<1>4. CASE AbortsChain(r)
  BY <1>1, <1>4, RaisesGood DEF AbortsChain
<1>5. CASE \E e \in Errors : Raises(r, e)
  BY <1>1, <1>5, RaisesGood
<1> QED BY <1>2, <1>3, <1>4, <1>5 DEF RunRequest

\* A hook of the response phase, or of the last chunk, returns.
LEMMA AnsweredGood ==
  ASSUME IInv, NEW r \in Requests, requests[r].stage \in {"response", "chunk"},
         Returns(r), seen' = [seen EXCEPT ![r].answered = @ \cup {Current(r)}],
         Closes(r, Current(r)), UNCHANGED sorted
  PROVE  IInv'
<1> DEFINE q == requests[r]
           t == [seen[r] EXCEPT !.answered = @ \cup {Current(r)}]
<1>1. q \in Request /\ seen[r] \in Record /\ Sound(q, seen[r], Items(sorted))
      /\ seen[r].entered \subseteq Items(sorted) /\ q.stage \in {"response", "chunk"}
      /\ q.stage \in Phases
  BY OfRequest DEF Phases
<1>2. q.pos <= Len(q.chain) /\ Current(r) = q.chain[q.pos] /\ Current(r) \in Middlewares
  BY <1>1, OfHook
<1>3. t \in Record /\ t.answered = seen[r].answered \cup {Current(r)}
      /\ t.entered = seen[r].entered /\ Grows(seen[r], t)
  BY <1>1, <1>2 DEF Record, Grows
<1>4. seen' = [seen EXCEPT ![r] = t] /\ requests' = [requests EXCEPT ![r] = NextHook(q)]
  BY DEF Returns, IInv, TypeOK
<1> HIDE DEF t, q
<1>5. NextHook(q) \in Request /\ Good(NextHook(q), t, Items(sorted))
  BY <1>1, <1>2, <1>3, NextHookGood
<1> QED BY <1>3, <1>4, <1>5, ObserverTypes, StepOf

\* A hook that is of no account to the properties returns.
LEMMA ReturnsGood ==
  ASSUME IInv, NEW r \in Requests, requests[r].stage \in {"chunk", "tool_call", "tool_result"},
         ~requests[r].final \/ requests[r].stage # "chunk",
         Returns(r), UNCHANGED <<sorted, seen, gauge, span>>
  PROVE  IInv'
<1> DEFINE q == requests[r]
<1>1. q \in Request /\ seen[r] \in Record /\ Sound(q, seen[r], Items(sorted))
      /\ seen[r].entered \subseteq Items(sorted)
      /\ q.stage \in {"chunk", "tool_call", "tool_result"} /\ q.stage \in Phases
      /\ (~q.final \/ q.stage # "chunk")
  BY OfRequest DEF Phases
<1>2. q.pos <= Len(q.chain)
  BY <1>1, OfHook, OfRequest DEF Good
<1>3. requests' = [requests EXCEPT ![r] = NextHook(q)]
  BY DEF Returns, IInv, TypeOK
<1>4. Grows(seen[r], seen[r])
  BY DEF Grows
<1> HIDE DEF q
<1>5. NextHook(q) \in Request /\ Good(NextHook(q), seen[r], Items(sorted))
  BY <1>1, <1>2, <1>4, NextHookGood
<1> QED BY <1>3, <1>5, StepOfCoroutine

LEMMA RunResponseGood ==
  ASSUME IInv, NEW r \in Requests, RunResponse(r)
  PROVE  IInv'
BY AnsweredGood, RaisesGood DEF RunResponse, Phases

LEMMA RunStreamChunkGood ==
  ASSUME IInv, NEW r \in Requests, RunStreamChunk(r)
  PROVE  IInv'
<1>1. requests[r].stage = "chunk" /\ requests[r].stage \in Phases
  BY DEF RunStreamChunk, Phases
<1>2. CASE Returns(r) /\ UNCHANGED sorted /\ requests[r].final
           /\ seen' = [seen EXCEPT ![r].answered = @ \cup {Current(r)}] /\ Closes(r, Current(r))
  BY <1>1, <1>2, AnsweredGood
<1>3. CASE Returns(r) /\ UNCHANGED sorted /\ ~requests[r].final /\ UNCHANGED <<seen, gauge, span>>
  BY <1>1, <1>3, ReturnsGood
<1>4. CASE \E e \in Errors : Raises(r, e)
  BY <1>1, <1>4, RaisesGood
<1> QED BY <1>2, <1>3, <1>4 DEF RunStreamChunk

LEMMA RunToolGood ==
  ASSUME IInv, NEW r \in Requests, RunToolCall(r) \/ RunToolResult(r)
  PROVE  IInv'
BY ReturnsGood, RaisesGood DEF RunToolCall, RunToolResult, Phases

LEMMA NotifyErrorGood ==
  ASSUME IInv, NEW r \in Requests, NotifyError(r)
  PROVE  IInv'
<1> DEFINE q == requests[r]
           m == q.told[q.at]
           d == [q EXCEPT !.at = @ + 1]
           t == [seen[r] EXCEPT !.told = @ \cup {m}]
<1>1. /\ q \in Request /\ seen[r] \in Record /\ q.stage = "notify"
      /\ Good(q, seen[r], Items(sorted)) /\ Sound(q, seen[r], Items(sorted))
      /\ seen[r].entered \subseteq Items(sorted)
  BY OfRequest DEF NotifyError
<1>2. /\ q.at \in Nat \ {0} /\ q.told \in Seq(Middlewares) /\ q.at <= Len(q.told)
      /\ Tells(q, q.at, seen[r])
      /\ (q.after \in Phases => q.pos <= Len(q.chain) /\ q.chain[q.pos] \notin Mandatory)
  BY <1>1 DEF Good, Request
<1>3. m \in Middlewares
  BY <1>2
<1>4. /\ d \in Request /\ d.stage = "notify" /\ d.chain = q.chain /\ d.pos = q.pos
      /\ d.told = q.told /\ d.at = q.at + 1 /\ d.after = q.after /\ d.kind = q.kind
      /\ d.final = q.final
  <2>1. q.at + 1 \in Nat \ {0}
    BY <1>2
  <2> QED BY <1>1, <2>1 DEF Request
<1>5. /\ t \in Record /\ t.entered = seen[r].entered /\ t.answered = seen[r].answered
      /\ t.told = seen[r].told \cup {m}
  BY <1>1, <1>3 DEF Record
<1>6. seen' = [seen EXCEPT ![r] = t] /\ requests' = [requests EXCEPT ![r] = Notified(d)]
      /\ sorted' = sorted /\ Closes(r, m)
  BY DEF NotifyError, IInv, TypeOK
<1>7. Tells(d, d.at, t)
  <2> SUFFICES ASSUME NEW x \in t.entered, x \notin t.told
               PROVE  \E i \in 1..Len(d.told) : d.at <= i /\ d.told[i] = x
    BY DEF Tells
  <2>1. PICK i \in 1..Len(q.told) : q.at <= i /\ q.told[i] = x
    BY <1>2, <1>5 DEF Tells
  <2>2. i # q.at
    BY <1>5, <2>1
  <2> QED BY <1>2, <1>4, <2>1, <2>2
<1> HIDE DEF d, t, m, q
<1>8. Sound(d, t, Items(sorted))
  BY <1>1, <1>4, <1>5 DEF Sound, KindFits, Passes, Informs, Through, Where
<1>9. Notified(d) \in Request /\ Good(Notified(d), t, Items(sorted))
  BY <1>2, <1>4, <1>5, <1>7, <1>8, NotifiedGood
<1> QED BY <1>5, <1>6, <1>9, ObserverTypes, StepOf

LEMMA EnterGood ==
  ASSUME IInv, NEW r \in Requests, NEW kind \in Kinds, Enter(r, kind)
  PROVE  IInv'
<1> DEFINE q == [requests[r] EXCEPT !.kind = kind]
<1>1. /\ seen[r] \in Record /\ seen[r].entered \subseteq Items(sorted)
      /\ sorted \in Seq(Middlewares) /\ Reversed(sorted) \in Seq(Middlewares)
      /\ Items(Reversed(sorted)) = Items(sorted)
  BY OfRequest
<1>2. q \in Request /\ q.kind = kind
  BY OfRequest DEF Request
<1>3. /\ UNCHANGED <<sorted, seen, gauge, span>>
      /\ kind \in {"run", "stream"}
           => requests' = [requests EXCEPT ![r] = BeginPhase(q, "request", sorted)]
      /\ kind = "tool_call"
           => requests' = [requests EXCEPT ![r] = BeginPhase(q, "tool_call", sorted)]
      /\ kind = "tool_result"
           => requests' = [requests EXCEPT ![r] = BeginPhase(q, "tool_result", Reversed(sorted))]
  BY DEF Enter
<1> HIDE DEF q
<1>4. CASE kind \in {"run", "stream"}
  <2>1. BeginPhase(q, "request", sorted) \in Request
        /\ Good(BeginPhase(q, "request", sorted), seen[r], Items(sorted))
    BY <1>1, <1>2, BeginPhaseGood DEF Phases
  <2> QED BY <1>3, <1>4, <2>1, StepOfCoroutine
<1>5. CASE kind = "tool_call"
  <2>1. BeginPhase(q, "tool_call", sorted) \in Request
        /\ Good(BeginPhase(q, "tool_call", sorted), seen[r], Items(sorted))
    BY <1>1, <1>2, <1>5, BeginPhaseGood DEF Phases
  <2> QED BY <1>3, <1>5, <2>1, StepOfCoroutine
<1>6. CASE kind = "tool_result"
  <2>1. BeginPhase(q, "tool_result", Reversed(sorted)) \in Request
        /\ Good(BeginPhase(q, "tool_result", Reversed(sorted)), seen[r], Items(sorted))
    BY <1>1, <1>2, <1>6, BeginPhaseGood DEF Phases
  <2> QED BY <1>3, <1>6, <2>1, StepOfCoroutine
<1> QED BY <1>4, <1>5, <1>6 DEF Kinds

LEMMA ProviderAnswersGood ==
  ASSUME IInv, NEW r \in Requests, ProviderAnswers(r)
  PROVE  IInv'
<1> DEFINE q == requests[r]
<1>1. /\ q \in Request /\ q.kind = "run"
      /\ seen[r] \in Record /\ seen[r].entered \subseteq Items(sorted)
      /\ Reversed(sorted) \in Seq(Middlewares) /\ Items(Reversed(sorted)) = Items(sorted)
  BY OfRequest DEF ProviderAnswers
<1>2. /\ UNCHANGED <<sorted, seen, gauge, span>>
      /\ requests' = [requests EXCEPT ![r] = BeginPhase(q, "response", Reversed(sorted))]
  BY DEF ProviderAnswers, IInv, TypeOK
<1> HIDE DEF q
<1>3. BeginPhase(q, "response", Reversed(sorted)) \in Request
      /\ Good(BeginPhase(q, "response", Reversed(sorted)), seen[r], Items(sorted))
  BY <1>1, BeginPhaseGood DEF Phases
<1> QED BY <1>2, <1>3, StepOfCoroutine

LEMMA ProviderFailsGood ==
  ASSUME IInv, NEW r \in Requests, ProviderFails(r)
  PROVE  IInv'
<1> DEFINE q == requests[r]
<1>1. /\ q \in Request /\ q.stage = "provider" /\ Sound(q, seen[r], Items(sorted))
      /\ seen[r] \in Record /\ seen[r].entered \subseteq Items(sorted)
      /\ sorted \in Seq(Middlewares)
  BY OfRequest DEF ProviderFails
<1>2. /\ UNCHANGED <<sorted, seen, gauge, span>>
      /\ requests' = [requests EXCEPT ![r] = BeginNotify(q, "ended")]
  BY DEF ProviderFails, IInv, TypeOK
<1> HIDE DEF q
<1>3. BeginNotify(q, "ended") \in Request /\ Good(BeginNotify(q, "ended"), seen[r], Items(sorted))
  BY <1>1, BeginNotifyGood
<1> QED BY <1>2, <1>3, StepOfCoroutine

\* A request ends otherwise than by its response phase or a broadcast.
LEMMA EndedGood ==
  ASSUME NEW q \in Request, NEW s \in Record, NEW here, Sound(q, s, here),
         NEW outcome \in {"returned", "raised", "cancelled"},
         q.kind = "run" => outcome = "cancelled"
  PROVE  /\ [q EXCEPT !.stage = "ended", !.outcome = outcome] \in Request
         /\ Good([q EXCEPT !.stage = "ended", !.outcome = outcome], s, here)
<1> DEFINE d == [q EXCEPT !.stage = "ended", !.outcome = outcome]
<1>1. /\ d \in Request /\ d.stage = "ended" /\ d.outcome = outcome
      /\ d.kind = q.kind /\ d.chain = q.chain
  BY DEF Request, Stages
<1> HIDE DEF d
<1>2. Good(d, s, here)
  BY <1>1 DEF Good, Sound, KindFits, Passes, Informs, Where, Phases
<1> QED BY <1>1, <1>2 DEF d

LEMMA ChunkGood ==
  ASSUME ChainAssumption, IInv, NEW r \in Requests, NEW final \in BOOLEAN, Chunk(r, final)
  PROVE  IInv'
<1> DEFINE p == requests[r]
           q == [p EXCEPT !.chunks = @ + 1, !.final = final]
           d == [q EXCEPT !.stage = "ended", !.outcome = "raised"]
<1>1. /\ p \in Request /\ p.kind = "stream" /\ p.stage \in {"provider", "streaming"}
      /\ Sound(p, seen[r], Items(sorted))
      /\ seen[r] \in Record /\ seen[r].entered \subseteq Items(sorted)
      /\ Reversed(sorted) \in Seq(Middlewares) /\ Items(Reversed(sorted)) = Items(sorted)
  BY OfRequest DEF Chunk
<1>2. /\ q \in Request /\ q.kind = p.kind /\ q.stage = p.stage /\ q.chain = p.chain
      /\ q.pos = p.pos
  <2>1. p.chunks + 1 \in Nat
    BY <1>1 DEF Request
  <2> QED BY <1>1, <2>1 DEF Request
<1>3. UNCHANGED <<sorted, seen, gauge, span>>
      /\ requests' = [requests EXCEPT ![r] =
            IF q.chunks > MaxChunks THEN d ELSE BeginPhase(q, "chunk", Reversed(sorted))]
  BY DEF Chunk
<1> HIDE DEF q, p
<1>4. CASE q.chunks > MaxChunks
  <2>1. Sound(q, seen[r], Items(sorted))
    BY <1>1, <1>2 DEF Sound, KindFits, Passes, Informs, Where
  <2>2. d \in Request /\ Good(d, seen[r], Items(sorted))
    BY <1>1, <1>2, <2>1, EndedGood
  <2> HIDE DEF d
  <2> QED BY <1>3, <1>4, <2>2, StepOfCoroutine
<1>5. CASE ~(q.chunks > MaxChunks)
  <2>1. BeginPhase(q, "chunk", Reversed(sorted)) \in Request
        /\ Good(BeginPhase(q, "chunk", Reversed(sorted)), seen[r], Items(sorted))
    BY <1>1, <1>2, BeginPhaseGood DEF Phases
  <2> HIDE DEF d
  <2> QED BY <1>3, <1>5, <2>1, StepOfCoroutine
<1> QED BY <1>4, <1>5

LEMMA StreamEndsGood ==
  ASSUME IInv, NEW r \in Requests, NEW outcome \in {"returned", "raised"}, StreamEnds(r, outcome)
  PROVE  IInv'
<1> DEFINE d == [requests[r] EXCEPT !.stage = "ended", !.outcome = outcome]
<1>1. d \in Request /\ Good(d, seen[r], Items(sorted))
  BY OfRequest, EndedGood DEF StreamEnds
<1>2. requests' = [requests EXCEPT ![r] = d] /\ UNCHANGED <<sorted, seen, gauge, span>>
  BY DEF StreamEnds, IInv, TypeOK
<1> HIDE DEF d
<1> QED BY <1>1, <1>2, StepOfCoroutine

LEMMA CancelGood ==
  ASSUME IInv, NEW r \in Requests, Cancel(r)
  PROVE  IInv'
<1> DEFINE d == [requests[r] EXCEPT !.stage = "ended", !.outcome = "cancelled"]
<1>1. d \in Request /\ Good(d, seen[r], Items(sorted))
  BY OfRequest, EndedGood
<1>2. requests' = [requests EXCEPT ![r] = d] /\ UNCHANGED <<sorted, seen, gauge, span>>
  BY DEF Cancel, IInv, TypeOK
<1> HIDE DEF d
<1> QED BY <1>1, <1>2, StepOfCoroutine

\* A middleware that is added later is in no list a request walks, and those
\* that are in one stay registered.
LEMMA AddMiddlewareGood ==
  ASSUME ChainAssumption, IInv, NEW m \in Middlewares, AddMiddleware(m)
  PROVE  IInv'
<1>1. sorted \in Seq(Middlewares) /\ sorted' = Inserted(Priority, sorted, m)
      /\ UNCHANGED <<requests, seen, gauge, span>>
  BY DEF AddMiddleware, IInv, TypeOK
<1>2. sorted' \in Seq(Middlewares) /\ Items(sorted) \subseteq Items(sorted')
  BY <1>1, InsertedFacts DEF ChainAssumption
<1>3. TypeOK'
  BY <1>1, <1>2 DEF IInv, TypeOK
<1>4. ASSUME NEW r \in Requests PROVE Good(requests[r], seen[r], Items(sorted'))
  <2>1. Good(requests[r], seen[r], Items(sorted)) /\ Sound(requests[r], seen[r], Items(sorted))
    BY OfRequest
  <2>2. Sound(requests[r], seen[r], Items(sorted'))
    BY <1>2, <2>1 DEF Sound
  <2> QED BY <2>1, <2>2 DEF Good
<1>5. Items(sorted)' = Items(sorted')
  BY DEF Items
<1> QED BY <1>1, <1>3, <1>4, <1>5 DEF IInv

LEMMA NextIInv ==
  ASSUME ChainAssumption, IInv, [Next]_vars
  PROVE  IInv'
<1>1. ASSUME NEW r \in Requests, \E kind \in Kinds : Enter(r, kind) PROVE IInv'
  BY <1>1, EnterGood
<1>2. ASSUME NEW r \in Requests, Work(r) PROVE IInv'
  BY <1>2, RunRequestGood, RunResponseGood, RunStreamChunkGood, RunToolGood, NotifyErrorGood
     DEF Work
<1>3. ASSUME NEW r \in Requests, Provide(r) PROVE IInv'
  BY <1>3, ProviderAnswersGood, ProviderFailsGood, ChunkGood, StreamEndsGood DEF Provide
<1>4. ASSUME NEW r \in Requests, Cancel(r) PROVE IInv'
  BY <1>4, CancelGood
<1>5. ASSUME NEW m \in Middlewares, AddMiddleware(m) PROVE IInv'
  BY <1>5, AddMiddlewareGood
<1>6. CASE UNCHANGED vars
  <2>1. TypeOK'
    BY <1>6 DEF IInv, TypeOK, vars
  <2> QED BY <1>6, <2>1 DEF IInv, vars, Items
<1> QED BY <1>1, <1>2, <1>3, <1>4, <1>5, <1>6 DEF Next

\* Every reachable state satisfies the inductive invariant.
LEMMA Invariance == Spec => []IInv
<1>1. Init => IInv
  BY InitIInv, ChainAssumption
<1>2. IInv /\ [Next]_vars => IInv'
  BY NextIInv, ChainAssumption
<1> QED BY <1>1, <1>2, PTL DEF Spec

-----------------------------------------------------------------------------
(* What metrics and tracing open, they close *)

\* Tracing's open span is still to be closed by the phase or the broadcast the
\* request is in; a request phase meets each middleware once.
Tracked(q, s, v) ==
  /\ q.outcome # "none" => q.stage = "ended"
  /\ q.stage = "idle" => s.entered = {}
  /\ Where(q) = "request" =>
       /\ Once(q.chain)
       /\ \A m \in s.entered : \E i \in 1..Len(q.chain) : i < q.pos /\ q.chain[i] = m
  /\ v = "open" =>
       /\ Tracing \in s.entered
       /\ q.stage = "response" => \E i \in 1..Len(q.chain) : q.pos <= i /\ q.chain[i] = Tracing
       /\ q.stage = "notify" => \E i \in 1..Len(q.told) : q.at <= i /\ q.told[i] = Tracing
       /\ q.stage = "ended" /\ q.kind = "run" => q.outcome = "cancelled"

\* The requests that metrics has counted up, and those it has counted down once
\* or more often.
Opened == {r \in Requests : Metrics \in seen[r].entered}
Closed == {r \in Requests : Metrics \in seen[r].answered \cup seen[r].told}

Counts == /\ IsFiniteSet(Opened) /\ IsFiniteSet(Closed)
          /\ gauge <= Cardinality(Opened) - Cardinality(Closed)

Balanced == /\ Once(sorted)
            /\ \A r \in Requests : Tracked(requests[r], seen[r], span[r])
            /\ Counts

LEMMA SettledTracked ==
  ASSUME NEW q \in Request, NEW s, NEW v, q.stage \in Phases, KindFits(q), Tracked(q, s, v)
  PROVE  Tracked(Settled(q), s, v)
<1>0. Len(q.chain) \in Nat /\ q.pos \in Nat
  BY DEF Request
<1>1. CASE ~(q.pos > Len(q.chain))
  BY <1>1 DEF Settled
<1>2. CASE q.pos > Len(q.chain) /\ q.stage = "request"
  <2>1. Settled(q) = [q EXCEPT !.stage = "provider"]
    BY <1>2 DEF Settled, AfterPhase
  <2> QED BY <1>2, <2>1 DEF Request, Tracked, Where
<1>3. CASE q.pos > Len(q.chain) /\ q.stage = "chunk"
  <2>1. Settled(q) = [q EXCEPT !.stage = "streaming"]
    BY <1>3 DEF Settled, AfterPhase
  <2> QED BY <1>3, <2>1 DEF Request, Tracked, Where
<1>4. CASE q.pos > Len(q.chain) /\ q.stage \notin {"request", "chunk"}
  <2>1. Settled(q) = [q EXCEPT !.stage = "ended", !.outcome = "returned"]
    BY <1>4 DEF Settled, AfterPhase
  <2>2. q.kind = "run" => q.stage = "response"
    BY <1>4 DEF KindFits, Where, Phases
  <2>3. q.stage = "response" => v # "open"
    BY <1>0, <1>4 DEF Tracked
  <2> QED BY <1>4, <2>1, <2>2, <2>3 DEF Request, Tracked, Where
<1> QED BY <1>1, <1>2, <1>3, <1>4

LEMMA BeginPhaseTracked ==
  ASSUME NEW q \in Request, NEW s, NEW v, NEW phase \in Phases, NEW chain \in Seq(Middlewares),
         q.outcome = "none",
         phase = "response" => q.kind = "run",
         phase \in {"chunk", "tool_call", "tool_result"} => q.kind # "run",
         phase = "request" => Once(chain) /\ s.entered = {},
         v = "open" => Tracing \in s.entered,
         phase = "response" => s.entered \subseteq Items(chain)
  PROVE  Tracked(BeginPhase(q, phase, chain), s, v)
<1> DEFINE d == [q EXCEPT !.stage = phase, !.chain = chain, !.pos = 1]
<1>1. /\ d \in Request /\ d.stage = phase /\ d.chain = chain /\ d.pos = 1
      /\ d.kind = q.kind /\ d.outcome = "none"
  <2>1. phase \in Stages /\ 1 \in Nat \ {0}
    BY DEF Stages
  <2> QED BY <2>1 DEF Request
<1> HIDE DEF d
<1>2. KindFits(d) /\ Tracked(d, s, v)
  BY <1>1 DEF KindFits, Where, Phases, Tracked, Items
<1> QED BY <1>1, <1>2, SettledTracked DEF BeginPhase, d

LEMMA NextHookTracked ==
  ASSUME NEW q \in Request, NEW s, NEW t, NEW v, NEW w, q.stage \in Phases,
         q.pos \in 1..Len(q.chain), KindFits(q), Tracked(q, s, v),
         q.stage = "request" => t.entered \subseteq s.entered \cup {q.chain[q.pos]},
         w = "open" => Tracing \in t.entered,
         q.stage = "response" /\ w = "open" => v = "open" /\ q.chain[q.pos] # Tracing
  PROVE  Tracked(NextHook(q), t, w)
<1> DEFINE d == [q EXCEPT !.pos = @ + 1]
<1>1. /\ d \in Request /\ d.stage = q.stage /\ d.chain = q.chain /\ d.pos = q.pos + 1
      /\ d.kind = q.kind /\ d.outcome = q.outcome
      /\ q.pos \in Nat /\ Len(q.chain) \in Nat
  <2>1. q.pos \in Nat \ {0} /\ q.pos + 1 \in Nat \ {0} /\ q.chain \in Seq(Middlewares)
    BY DEF Request
  <2> QED BY <2>1, SMTT(40) DEF Request
<1> HIDE DEF d
<1>2. KindFits(d)
  BY <1>1 DEF KindFits, Where, Phases
<1>3. Where(q) = q.stage /\ Where(d) = q.stage
  BY <1>1 DEF Where, Phases
<1>4. q.stage = "request" =>
        \A m \in t.entered : \E i \in 1..Len(d.chain) : i < d.pos /\ d.chain[i] = m
  <2> SUFFICES ASSUME q.stage = "request", NEW m \in t.entered
               PROVE  \E i \in 1..Len(d.chain) : i < d.pos /\ d.chain[i] = m
    OBVIOUS
  <2>1. CASE m = q.chain[q.pos]
    BY <1>1, <2>1
  <2>2. CASE m \in s.entered
    <3>1. PICK i \in 1..Len(q.chain) : i < q.pos /\ q.chain[i] = m
      BY <1>3, <2>2 DEF Tracked
    <3> QED BY <1>1, <3>1
  <2> QED BY <2>1, <2>2
<1>5. q.stage = "response" /\ w = "open" =>
        \E i \in 1..Len(d.chain) : d.pos <= i /\ d.chain[i] = Tracing
  <2> SUFFICES ASSUME q.stage = "response", w = "open"
               PROVE  \E i \in 1..Len(d.chain) : d.pos <= i /\ d.chain[i] = Tracing
    OBVIOUS
  <2>1. PICK i \in 1..Len(q.chain) : q.pos <= i /\ q.chain[i] = Tracing
    BY DEF Tracked
  <2> QED BY <1>1, <2>1
<1>6. Tracked(d, t, w)
  BY <1>1, <1>3, <1>4, <1>5 DEF Tracked, Phases
<1> QED BY <1>1, <1>2, <1>6, SettledTracked DEF NextHook, d

LEMMA NotifiedTracked ==
  ASSUME NEW q \in Request, NEW s, NEW v, q.stage = "notify", KindFits(q), Tracked(q, s, v),
         q.after \in Phases => q.pos <= Len(q.chain)
  PROVE  Tracked(Notified(q), s, v)
<1>0. Len(q.told) \in Nat /\ q.at \in Nat /\ q.after \in Phases \cup {"ended"}
      /\ q.pos \in Nat \ {0} /\ Len(q.chain) \in Nat
  BY DEF Request
<1>1. CASE q.at <= Len(q.told)
  BY <1>1 DEF Notified
<1>2. CASE ~(q.at <= Len(q.told))
  <2>1. v # "open"
    BY <1>0, <1>2 DEF Tracked
  <2>2. CASE q.after = "ended"
    <3>1. Notified(q) = [q EXCEPT !.stage = "ended", !.outcome = "raised"]
      BY <1>2, <2>2 DEF Notified
    <3> QED BY <2>1, <3>1 DEF Request, Tracked, Where
  <2>3. CASE q.after # "ended"
    <3> DEFINE d == [q EXCEPT !.stage = q.after]
    <3>1. Notified(q) = NextHook(d)
      BY <1>2, <2>3 DEF Notified
    <3>2. /\ d \in Request /\ d.stage = q.after /\ d.chain = q.chain /\ d.pos = q.pos
          /\ d.kind = q.kind /\ d.outcome = q.outcome /\ q.after \in Phases
      BY <1>0, <2>3 DEF Request, Stages
    <3> HIDE DEF d
    <3>3. Where(d) = Where(q) /\ d.pos \in 1..Len(d.chain)
      BY <1>0, <3>2 DEF Where, Phases
    <3>4. KindFits(d) /\ Tracked(d, s, v)
      BY <2>1, <3>2, <3>3 DEF KindFits, Tracked, Phases
    <3>5. Tracked(NextHook(d), s, v)
      BY <2>1, <3>2, <3>3, <3>4, NextHookTracked
    <3> QED BY <3>1, <3>5
  <2> QED BY <2>2, <2>3
<1> QED BY <1>1, <1>2

LEMMA BeginNotifyTracked ==
  ASSUME NEW q \in Request, NEW s, NEW v,
         sorted \in Seq(Middlewares), s.entered \subseteq Items(sorted),
         q.stage \notin {"notify", "ended"}, KindFits(q), Tracked(q, s, v),
         NEW after \in {"ended", q.stage},
         after # "ended" => after \in Phases /\ q.pos <= Len(q.chain)
  PROVE  Tracked(BeginNotify(q, after), s, v)
<1> DEFINE d == [q EXCEPT !.stage = "notify", !.told = sorted, !.at = 1, !.after = after]
<1>1. /\ d \in Request /\ d.stage = "notify" /\ d.told = sorted /\ d.at = 1 /\ d.after = after
      /\ d.chain = q.chain /\ d.pos = q.pos /\ d.kind = q.kind /\ d.outcome = q.outcome
  <2>1. "notify" \in Stages /\ 1 \in Nat \ {0} /\ after \in Phases \cup {"ended"}
    BY DEF Stages
  <2> QED BY <2>1 DEF Request
<1> HIDE DEF d
<1>2. Where(d) = after /\ Where(q) = q.stage
  BY <1>1 DEF Where
<1>3. KindFits(d)
  BY <1>1, <1>2 DEF KindFits
<1>4. v = "open" => \E i \in 1..Len(d.told) : d.at <= i /\ d.told[i] = Tracing
  BY <1>1 DEF Tracked, Items
<1>5. Tracked(d, s, v)
  BY <1>1, <1>2, <1>4 DEF Tracked
<1>6. Tracked(Notified(d), s, v)
  BY <1>1, <1>3, <1>5, NotifiedTracked DEF Phases
<1> QED BY <1>6 DEF BeginNotify, d

\* A step of request r changes the count by what it changes in seen.
LEMMA TrackedStep ==
  ASSUME IInv, Balanced, NEW r \in Requests, NEW q, sorted' = sorted,
         requests' = [requests EXCEPT ![r] = q],
         NEW t, seen' = [seen EXCEPT ![r] = t],
         NEW v, span' = [span EXCEPT ![r] = v],
         Tracked(q, t, v), Counts'
  PROVE  Balanced'
<1>1. Once(sorted)'
  BY DEF Balanced, Once
<1>2. ASSUME NEW p \in Requests PROVE Tracked(requests'[p], seen'[p], span'[p])
  <2>0. requests'[r] = q /\ seen'[r] = t /\ span'[r] = v
    BY DEF IInv, TypeOK
  <2>1. CASE p = r
    BY <2>0, <2>1
  <2>2. CASE p # r
    <3>1. requests'[p] = requests[p] /\ seen'[p] = seen[p] /\ span'[p] = span[p]
      BY <2>2 DEF IInv, TypeOK
    <3> QED BY <3>1 DEF Balanced
  <2> QED BY <2>1, <2>2
<1> QED BY <1>1, <1>2 DEF Balanced

\* ... and none if only its coroutine moves.
LEMMA TrackedStepOfCoroutine ==
  ASSUME IInv, Balanced, NEW r \in Requests, NEW q,
         requests' = [requests EXCEPT ![r] = q], UNCHANGED <<sorted, seen, gauge, span>>,
         Tracked(q, seen[r], span[r])
  PROVE  Balanced'
<1>1. seen' = [seen EXCEPT ![r] = seen[r]] /\ span' = [span EXCEPT ![r] = span[r]]
  BY DEF IInv, TypeOK
<1>2. Counts'
  BY DEF Balanced, Counts, Opened, Closed
<1> QED BY <1>1, <1>2, TrackedStep

\* Metrics counts a request up that it had not counted up.
LEMMA CountedUp ==
  ASSUME IInv, Balanced, NEW r \in Requests, NEW m, GaugeIncremented(m),
         m \notin seen[r].entered, seen' = [seen EXCEPT ![r].entered = @ \cup {m}]
  PROVE  Counts'
<1>1. /\ seen \in [Requests -> Record] /\ gauge \in Int
      /\ IsFiniteSet(Opened) /\ IsFiniteSet(Closed)
      /\ gauge <= Cardinality(Opened) - Cardinality(Closed)
  BY DEF IInv, TypeOK, Balanced, Counts, Record
<1>2. /\ \A p \in Requests : seen'[p].answered = seen[p].answered /\ seen'[p].told = seen[p].told
      /\ \A p \in Requests : p # r => seen'[p].entered = seen[p].entered
      /\ seen'[r].entered = seen[r].entered \cup {m}
  BY <1>1 DEF Record
<1>3. Closed' = Closed
  BY <1>2 DEF Closed
<1>4. CASE m = Metrics
  <2>1. Opened' = Opened \cup {r} /\ r \notin Opened
    BY <1>2, <1>4 DEF Opened
  <2>2. IsFiniteSet(Opened') /\ Cardinality(Opened') = Cardinality(Opened) + 1
    BY <1>1, <2>1, FS_AddElement
  <2>3. Cardinality(Opened) \in Nat /\ Cardinality(Closed) \in Nat
    BY <1>1, FS_CardinalityType
  <2>4. gauge' = gauge + 1
    BY <1>4 DEF GaugeIncremented
  <2>5. IsFiniteSet(Closed') /\ Cardinality(Closed') = Cardinality(Closed)
    BY <1>1, <1>3
  <2>6. gauge' <= Cardinality(Opened') - Cardinality(Closed')
    BY <1>1, <2>2, <2>3, <2>4, <2>5
  <2> QED BY <2>2, <2>5, <2>6 DEF Counts, Opened, Closed
<1>5. CASE m # Metrics
  <2>1. Opened' = Opened /\ gauge' = gauge
    BY <1>2, <1>5 DEF Opened, GaugeIncremented
  <2> QED BY <1>1, <1>3, <2>1 DEF Counts, Opened, Closed
<1> QED BY <1>4, <1>5

\* Metrics counts down with every call, and the request counts as closed.
LEMMA CountedDown ==
  ASSUME IInv, Balanced, NEW r \in Requests, NEW m, GaugeDecremented(m),
         \/ seen' = [seen EXCEPT ![r].answered = @ \cup {m}]
         \/ seen' = [seen EXCEPT ![r].told = @ \cup {m}]
  PROVE  Counts'
<1>1. /\ seen \in [Requests -> Record] /\ gauge \in Int
      /\ IsFiniteSet(Opened) /\ IsFiniteSet(Closed)
      /\ gauge <= Cardinality(Opened) - Cardinality(Closed)
  BY DEF IInv, TypeOK, Balanced, Counts, Record
<1> DEFINE Ends(p) == seen[p].answered \cup seen[p].told
<1>2. /\ \A p \in Requests : seen'[p].entered = seen[p].entered
      /\ \A p \in Requests : p # r => seen'[p].answered \cup seen'[p].told = Ends(p)
      /\ seen'[r].answered \cup seen'[r].told = Ends(r) \cup {m}
  BY <1>1 DEF Record
<1>3. Opened' = Opened
  BY <1>2 DEF Opened
<1>4. CASE m = Metrics
  <2>1. Closed' = Closed \cup {r}
    BY <1>2, <1>4 DEF Closed
  <2>2. Cardinality(Opened) \in Nat /\ Cardinality(Closed) \in Nat
    BY <1>1, FS_CardinalityType
  <2>3. IsFiniteSet(Closed') /\ Cardinality(Closed') \in {Cardinality(Closed), Cardinality(Closed) + 1}
    BY <1>1, <2>1, FS_AddElement
  <2>4. gauge' = gauge - 1
    BY <1>4 DEF GaugeDecremented
  <2>5. IsFiniteSet(Opened') /\ Cardinality(Opened') = Cardinality(Opened)
    BY <1>1, <1>3
  <2>6. gauge' <= Cardinality(Opened') - Cardinality(Closed')
    BY <1>1, <2>2, <2>3, <2>4, <2>5
  <2> QED BY <2>3, <2>5, <2>6 DEF Counts, Opened, Closed
<1>5. CASE m # Metrics
  <2>1. Closed' = Closed /\ gauge' = gauge
    BY <1>2, <1>5 DEF Closed, GaugeDecremented
  <2> QED BY <1>1, <1>3, <2>1 DEF Counts, Opened, Closed
<1> QED BY <1>4, <1>5

LEMMA InitBalanced ==
  ASSUME ChainAssumption, Init
  PROVE  Balanced
<1>1. Once(sorted)
  BY DEF ChainAssumption, Init, Once
<1>2. ASSUME NEW r \in Requests PROVE Tracked(requests[r], seen[r], span[r])
  BY DEF Init, NewRequest, Unseen, Tracked, Where
<1>3. Opened = {} /\ Closed = {} /\ gauge = 0
  BY DEF Init, Unseen, Opened, Closed
<1>4. Cardinality({}) = 0 /\ IsFiniteSet({})
  BY FS_EmptySet
<1>5. Counts
  BY <1>3, <1>4 DEF Counts
<1> QED BY <1>1, <1>2, <1>5 DEF Balanced

\* What is known of a request before its step.
LEMMA OfTracked ==
  ASSUME IInv, Balanced, NEW r \in Requests
  PROVE  /\ requests[r] \in Request /\ seen[r] \in Record
         /\ KindFits(requests[r]) /\ Tracked(requests[r], seen[r], span[r])
         /\ seen[r].entered \subseteq Items(sorted) /\ Once(sorted)
         /\ span[r] = "open" => Tracing \in seen[r].entered
         /\ requests[r].stage # "ended" => requests[r].outcome = "none"
         /\ requests[r].stage \in Phases => requests[r].pos \in 1..Len(requests[r].chain)
<1>1. requests[r] \in Request /\ seen[r] \in Record /\ KindFits(requests[r])
      /\ seen[r].entered \subseteq Items(sorted)
  BY OfRequest DEF Sound
<1>2. Tracked(requests[r], seen[r], span[r]) /\ Once(sorted)
  BY DEF Balanced
<1> QED BY <1>1, <1>2, OfHook DEF Tracked

\* The span of a request whose hook m is called.
LEMMA SpanOf ==
  ASSUME IInv, NEW r \in Requests, NEW m
  PROVE  /\ SpanStarted(r, m) => \E w : /\ span' = [span EXCEPT ![r] = w]
                                        /\ w = "open" => span[r] = "open" \/ m = Tracing
         /\ SpanEnded(r, m) => \E w : /\ span' = [span EXCEPT ![r] = w]
                                      /\ w = "open" => span[r] = "open" /\ m # Tracing
<1>1. span = [span EXCEPT ![r] = span[r]]
  BY DEF IInv, TypeOK
<1>2. SpanStarted(r, m) => \E w : /\ span' = [span EXCEPT ![r] = w]
                                  /\ w = "open" => span[r] = "open" \/ m = Tracing
  <2>1. CASE m = Tracing
    BY <2>1 DEF SpanStarted
  <2>2. CASE m # Tracing
    BY <1>1, <2>2 DEF SpanStarted
  <2> QED BY <2>1, <2>2
<1>3. SpanEnded(r, m) => \E w : /\ span' = [span EXCEPT ![r] = w]
                                /\ w = "open" => span[r] = "open" /\ m # Tracing
  <2>1. CASE m = Tracing /\ span[r] = "open"
    BY <2>1 DEF SpanEnded
  <2>2. CASE ~(m = Tracing /\ span[r] = "open")
    BY <1>1, <2>2 DEF SpanEnded
  <2> QED BY <2>1, <2>2
<1> QED BY <1>2, <1>3

LEMMA RaisesTracked ==
  ASSUME IInv, Balanced, NEW r \in Requests, requests[r].stage \in Phases, NEW e, Raises(r, e)
  PROVE  Balanced'
<1> DEFINE q == requests[r]
           after == IF IsChainBreaking(e) \/ Current(r) \in Mandatory THEN "ended" ELSE q.stage
<1>1. q \in Request /\ KindFits(q) /\ Tracked(q, seen[r], span[r])
      /\ seen[r].entered \subseteq Items(sorted) /\ sorted \in Seq(Middlewares)
  BY OfTracked, OfRequest
<1>2. q.stage \notin {"notify", "ended"} /\ after \in {"ended", q.stage}
      /\ (after # "ended" => after \in Phases /\ q.pos <= Len(q.chain))
  BY OfTracked DEF Phases
<1>3. requests' = [requests EXCEPT ![r] = BeginNotify(q, after)]
      /\ UNCHANGED <<sorted, seen, gauge, span>>
  BY DEF Raises
<1> HIDE DEF q, after
<1>4. Tracked(BeginNotify(q, after), seen[r], span[r])
  BY <1>1, <1>2, BeginNotifyTracked
<1> QED BY <1>3, <1>4, TrackedStepOfCoroutine

LEMMA RunRequestTracked ==
  ASSUME IInv, Balanced, NEW r \in Requests, RunRequest(r)
  PROVE  Balanced'
<1> DEFINE q == requests[r]
           m == Current(r)
<1>1. /\ q \in Request /\ seen[r] \in Record /\ KindFits(q) /\ Tracked(q, seen[r], span[r])
      /\ seen[r].entered \subseteq Items(sorted) /\ q.stage = "request" /\ q.stage \in Phases
      /\ q.pos \in 1..Len(q.chain) /\ m = q.chain[q.pos] /\ q.outcome = "none"
      /\ (span[r] = "open" => Tracing \in seen[r].entered)
  BY OfTracked DEF RunRequest, Phases, Current
<1>2. CASE /\ Returns(r) /\ seen' = [seen EXCEPT ![r].entered = @ \cup {Current(r)}]
           /\ Opens(r, Current(r)) /\ UNCHANGED sorted
  <2> DEFINE t == [seen[r] EXCEPT !.entered = @ \cup {m}]
  <2>1. m \notin seen[r].entered
    <3>1. Once(q.chain) /\ \A x \in seen[r].entered :
                             \E i \in 1..Len(q.chain) : i < q.pos /\ q.chain[i] = x
      BY <1>1 DEF Tracked, Where
    <3>2. SUFFICES ASSUME m \in seen[r].entered PROVE FALSE
      OBVIOUS
    <3>3. PICK i \in 1..Len(q.chain) : i < q.pos /\ q.chain[i] = m
      BY <3>1, <3>2
    <3>4. i = q.pos
      BY <1>1, <3>1, <3>3 DEF Once
    <3> QED BY <1>1, <3>3, <3>4
  <2>2. seen' = [seen EXCEPT ![r] = t] /\ requests' = [requests EXCEPT ![r] = NextHook(q)]
        /\ t.entered = seen[r].entered \cup {m}
    BY <1>1, <1>2 DEF Returns, IInv, TypeOK, Record
  <2>3. Counts'
    BY <1>2, <2>1, CountedUp DEF Opens
  <2>4. PICK w : /\ span' = [span EXCEPT ![r] = w]
                 /\ w = "open" => span[r] = "open" \/ m = Tracing
    BY <1>2, SpanOf DEF Opens
  <2> HIDE DEF t, q, m
  <2>5. Tracked(NextHook(q), t, w)
    BY <1>1, <2>2, <2>4, NextHookTracked
  <2> QED BY <1>2, <2>2, <2>3, <2>4, <2>5, TrackedStep
<1>3. CASE CacheHit(r)
  <2> DEFINE c == [q EXCEPT !.cached = TRUE]
             d == [c EXCEPT !.stage = "ended", !.outcome = "returned"]
  <2>1. c \in Request /\ c.kind = q.kind /\ c.outcome = q.outcome
    BY <1>1 DEF Request
  <2>2. d.stage = "ended" /\ d.kind = q.kind /\ d.outcome = "returned"
    BY <1>1 DEF Request
  <2>3. /\ UNCHANGED <<sorted, seen, gauge, span>>
        /\ requests' = [requests EXCEPT ![r] =
             IF q.kind = "run" THEN BeginPhase(c, "response", Reversed(sorted)) ELSE d]
    BY <1>3, <2>1 DEF CacheHit
  <2> HIDE DEF c, q
  <2>4. CASE q.kind = "run"
    <3>1. Tracked(BeginPhase(c, "response", Reversed(sorted)), seen[r], span[r])
      BY <1>1, <2>1, <2>4, OfRequest, BeginPhaseTracked DEF Phases
    <3> QED BY <2>3, <2>4, <3>1, TrackedStepOfCoroutine
  <2>5. CASE q.kind # "run"
    <3>1. Tracked(d, seen[r], span[r])
      BY <1>1, <2>2, <2>5 DEF Tracked, Where
    <3> HIDE DEF d
    <3> QED BY <2>3, <2>5, <3>1, TrackedStepOfCoroutine
  <2> QED BY <2>4, <2>5
<1>4. CASE AbortsChain(r)
  BY <1>1, <1>4, RaisesTracked DEF AbortsChain
<1>5. CASE \E e \in Errors : Raises(r, e)
  BY <1>1, <1>5, RaisesTracked
<1> QED BY <1>2, <1>3, <1>4, <1>5 DEF RunRequest

LEMMA AnsweredTracked ==
  ASSUME IInv, Balanced, NEW r \in Requests, requests[r].stage \in {"response", "chunk"},
         Returns(r), seen' = [seen EXCEPT ![r].answered = @ \cup {Current(r)}],
         Closes(r, Current(r)), UNCHANGED sorted
  PROVE  Balanced'
<1> DEFINE q == requests[r]
           m == Current(r)
           t == [seen[r] EXCEPT !.answered = @ \cup {m}]
<1>1. /\ q \in Request /\ seen[r] \in Record /\ KindFits(q) /\ Tracked(q, seen[r], span[r])
      /\ q.stage \in {"response", "chunk"} /\ q.stage \in Phases
      /\ q.pos \in 1..Len(q.chain) /\ m = q.chain[q.pos]
      /\ (span[r] = "open" => Tracing \in seen[r].entered)
  BY OfTracked DEF Phases, Current
<1>2. /\ seen' = [seen EXCEPT ![r] = t] /\ requests' = [requests EXCEPT ![r] = NextHook(q)]
      /\ t.entered = seen[r].entered
  BY <1>1 DEF Returns, IInv, TypeOK, Record
<1>3. Counts'
  BY CountedDown DEF Closes
<1>4. PICK w : /\ span' = [span EXCEPT ![r] = w]
               /\ w = "open" => span[r] = "open" /\ m # Tracing
  BY SpanOf DEF Closes
<1> HIDE DEF t, q, m
<1>5. Tracked(NextHook(q), t, w)
  BY <1>1, <1>2, <1>4, NextHookTracked
<1> QED BY <1>2, <1>3, <1>4, <1>5, TrackedStep

LEMMA ReturnsTracked ==
  ASSUME IInv, Balanced, NEW r \in Requests,
         requests[r].stage \in {"chunk", "tool_call", "tool_result"},
         Returns(r), UNCHANGED <<sorted, seen, gauge, span>>
  PROVE  Balanced'
<1> DEFINE q == requests[r]
<1>1. /\ q \in Request /\ KindFits(q) /\ Tracked(q, seen[r], span[r])
      /\ q.stage \in {"chunk", "tool_call", "tool_result"} /\ q.stage \in Phases
      /\ q.pos \in 1..Len(q.chain)
      /\ (span[r] = "open" => Tracing \in seen[r].entered)
  BY OfTracked DEF Phases
<1>2. requests' = [requests EXCEPT ![r] = NextHook(q)]
  BY DEF Returns, IInv, TypeOK
<1> HIDE DEF q
<1>3. Tracked(NextHook(q), seen[r], span[r])
  BY <1>1, NextHookTracked
<1> QED BY <1>2, <1>3, TrackedStepOfCoroutine

LEMMA NotifyErrorTracked ==
  ASSUME IInv, Balanced, NEW r \in Requests, NotifyError(r)
  PROVE  Balanced'
<1> DEFINE q == requests[r]
           m == q.told[q.at]
           d == [q EXCEPT !.at = @ + 1]
           t == [seen[r] EXCEPT !.told = @ \cup {m}]
<1>1. /\ q \in Request /\ seen[r] \in Record /\ KindFits(q) /\ Tracked(q, seen[r], span[r])
      /\ q.stage = "notify" /\ Good(q, seen[r], Items(sorted))
      /\ q.at \in Nat \ {0} /\ q.told \in Seq(Middlewares)
  BY OfTracked, OfRequest DEF NotifyError, Request
<1>2. q.after \in Phases => q.pos <= Len(q.chain)
  BY <1>1 DEF Good
<1>3. /\ d \in Request /\ d.stage = "notify" /\ d.chain = q.chain /\ d.pos = q.pos
      /\ d.told = q.told /\ d.at = q.at + 1 /\ d.after = q.after /\ d.kind = q.kind
      /\ d.outcome = q.outcome
  <2>1. q.at + 1 \in Nat \ {0}
    BY <1>1
  <2> QED BY <1>1, <2>1 DEF Request
<1>4. /\ seen' = [seen EXCEPT ![r] = t] /\ requests' = [requests EXCEPT ![r] = Notified(d)]
      /\ sorted' = sorted /\ t.entered = seen[r].entered
  BY <1>1 DEF NotifyError, IInv, TypeOK, Record
<1>5. Counts'
  BY CountedDown DEF NotifyError, Closes
<1>6. PICK w : /\ span' = [span EXCEPT ![r] = w]
               /\ w = "open" => span[r] = "open" /\ m # Tracing
  BY SpanOf DEF NotifyError, Closes
<1>7. w = "open" => \E i \in 1..Len(d.told) : d.at <= i /\ d.told[i] = Tracing
  <2> SUFFICES ASSUME w = "open" PROVE \E i \in 1..Len(d.told) : d.at <= i /\ d.told[i] = Tracing
    OBVIOUS
  <2>1. PICK i \in 1..Len(q.told) : q.at <= i /\ q.told[i] = Tracing
    BY <1>1, <1>6 DEF Tracked
  <2>2. i # q.at
    BY <1>6, <2>1
  <2> QED BY <1>1, <1>3, <2>1, <2>2
<1> HIDE DEF d, t, m, q
<1>8. KindFits(d)
  BY <1>1, <1>3 DEF KindFits, Where
<1>9. Tracked(d, t, w)
  BY <1>1, <1>3, <1>4, <1>6, <1>7 DEF Tracked, Where
<1>10. Tracked(Notified(d), t, w)
  BY <1>2, <1>3, <1>8, <1>9, NotifiedTracked
<1> QED BY <1>4, <1>5, <1>6, <1>10, TrackedStep

LEMMA EnterTracked ==
  ASSUME IInv, Balanced, NEW r \in Requests, NEW kind \in Kinds, Enter(r, kind)
  PROVE  Balanced'
<1> DEFINE q == [requests[r] EXCEPT !.kind = kind]
<1>1. /\ sorted \in Seq(Middlewares) /\ Reversed(sorted) \in Seq(Middlewares) /\ Once(sorted)
      /\ seen[r].entered = {} /\ requests[r].outcome = "none"
      /\ (span[r] = "open" => Tracing \in seen[r].entered)
  BY OfRequest, OfTracked DEF Enter, Tracked
<1>2. q \in Request /\ q.kind = kind /\ q.outcome = requests[r].outcome
  BY OfRequest DEF Request
<1>3. /\ UNCHANGED <<sorted, seen, gauge, span>>
      /\ kind \in {"run", "stream"}
           => requests' = [requests EXCEPT ![r] = BeginPhase(q, "request", sorted)]
      /\ kind = "tool_call"
           => requests' = [requests EXCEPT ![r] = BeginPhase(q, "tool_call", sorted)]
      /\ kind = "tool_result"
           => requests' = [requests EXCEPT ![r] = BeginPhase(q, "tool_result", Reversed(sorted))]
  BY DEF Enter
<1> HIDE DEF q
<1>4. CASE kind \in {"run", "stream"}
  <2>1. Tracked(BeginPhase(q, "request", sorted), seen[r], span[r])
    BY <1>1, <1>2, BeginPhaseTracked DEF Phases
  <2> QED BY <1>3, <1>4, <2>1, TrackedStepOfCoroutine
<1>5. CASE kind = "tool_call"
  <2>1. Tracked(BeginPhase(q, "tool_call", sorted), seen[r], span[r])
    BY <1>1, <1>2, <1>5, BeginPhaseTracked DEF Phases
  <2> QED BY <1>3, <1>5, <2>1, TrackedStepOfCoroutine
<1>6. CASE kind = "tool_result"
  <2>1. Tracked(BeginPhase(q, "tool_result", Reversed(sorted)), seen[r], span[r])
    BY <1>1, <1>2, <1>6, BeginPhaseTracked DEF Phases
  <2> QED BY <1>3, <1>6, <2>1, TrackedStepOfCoroutine
<1> QED BY <1>4, <1>5, <1>6 DEF Kinds

LEMMA ProviderAnswersTracked ==
  ASSUME IInv, Balanced, NEW r \in Requests, ProviderAnswers(r)
  PROVE  Balanced'
<1> DEFINE q == requests[r]
<1>1. /\ q \in Request /\ q.kind = "run" /\ q.outcome = "none"
      /\ (span[r] = "open" => Tracing \in seen[r].entered)
      /\ seen[r].entered \subseteq Items(Reversed(sorted)) /\ Reversed(sorted) \in Seq(Middlewares)
  BY OfRequest, OfTracked DEF ProviderAnswers
<1>2. /\ UNCHANGED <<sorted, seen, gauge, span>>
      /\ requests' = [requests EXCEPT ![r] = BeginPhase(q, "response", Reversed(sorted))]
  BY DEF ProviderAnswers, IInv, TypeOK
<1> HIDE DEF q
<1>3. Tracked(BeginPhase(q, "response", Reversed(sorted)), seen[r], span[r])
  BY <1>1, BeginPhaseTracked DEF Phases
<1> QED BY <1>2, <1>3, TrackedStepOfCoroutine

LEMMA ProviderFailsTracked ==
  ASSUME IInv, Balanced, NEW r \in Requests, ProviderFails(r)
  PROVE  Balanced'
<1> DEFINE q == requests[r]
<1>1. /\ q \in Request /\ q.stage = "provider" /\ KindFits(q) /\ Tracked(q, seen[r], span[r])
      /\ seen[r].entered \subseteq Items(sorted) /\ sorted \in Seq(Middlewares)
  BY OfRequest, OfTracked DEF ProviderFails
<1>2. /\ UNCHANGED <<sorted, seen, gauge, span>>
      /\ requests' = [requests EXCEPT ![r] = BeginNotify(q, "ended")]
  BY DEF ProviderFails, IInv, TypeOK
<1> HIDE DEF q
<1>3. Tracked(BeginNotify(q, "ended"), seen[r], span[r])
  BY <1>1, BeginNotifyTracked
<1> QED BY <1>2, <1>3, TrackedStepOfCoroutine

LEMMA ChunkTracked ==
  ASSUME IInv, Balanced, NEW r \in Requests, NEW final \in BOOLEAN, Chunk(r, final)
  PROVE  Balanced'
<1> DEFINE p == requests[r]
           q == [p EXCEPT !.chunks = @ + 1, !.final = final]
           d == [q EXCEPT !.stage = "ended", !.outcome = "raised"]
<1>1. /\ p \in Request /\ p.kind = "stream" /\ p.outcome = "none"
      /\ (span[r] = "open" => Tracing \in seen[r].entered)
      /\ Reversed(sorted) \in Seq(Middlewares)
  BY OfRequest, OfTracked DEF Chunk
<1>2. q \in Request /\ q.kind = p.kind /\ q.outcome = p.outcome
  <2>1. p.chunks + 1 \in Nat
    BY <1>1 DEF Request
  <2> QED BY <1>1, <2>1 DEF Request
<1>3. UNCHANGED <<sorted, seen, gauge, span>>
      /\ requests' = [requests EXCEPT ![r] =
            IF q.chunks > MaxChunks THEN d ELSE BeginPhase(q, "chunk", Reversed(sorted))]
  BY DEF Chunk
<1>4. d.stage = "ended" /\ d.kind = "stream"
  BY <1>1 DEF Request
<1> HIDE DEF q, p, d
<1>5. Tracked(d, seen[r], span[r])
  BY <1>1, <1>4 DEF Tracked, Where
<1>6. Tracked(BeginPhase(q, "chunk", Reversed(sorted)), seen[r], span[r])
  BY <1>1, <1>2, BeginPhaseTracked DEF Phases
<1>7. CASE q.chunks > MaxChunks
  BY <1>3, <1>5, <1>7, TrackedStepOfCoroutine
<1>8. CASE ~(q.chunks > MaxChunks)
  BY <1>3, <1>6, <1>8, TrackedStepOfCoroutine
<1> QED BY <1>7, <1>8

\* A request ends without a hook: a stream, or a cancelled one.
LEMMA EndTracked ==
  ASSUME IInv, Balanced, NEW r \in Requests, NEW outcome,
         outcome # "cancelled" => requests[r].kind = "stream",
         requests' = [requests EXCEPT ![r].stage = "ended", ![r].outcome = outcome],
         UNCHANGED <<sorted, seen, gauge, span>>
  PROVE  Balanced'
<1> DEFINE d == [requests[r] EXCEPT !.stage = "ended", !.outcome = outcome]
<1>1. requests' = [requests EXCEPT ![r] = d]
      /\ d.stage = "ended" /\ d.outcome = outcome /\ d.kind = requests[r].kind
  BY OfTracked DEF Request, IInv, TypeOK
<1>2. Tracked(d, seen[r], span[r])
  BY <1>1, OfTracked DEF Tracked, Where
<1> HIDE DEF d
<1> QED BY <1>1, <1>2, TrackedStepOfCoroutine

LEMMA AddMiddlewareTracked ==
  ASSUME ChainAssumption, IInv, Balanced, NEW m \in Middlewares, AddMiddleware(m)
  PROVE  Balanced'
<1>1. /\ sorted \in Seq(Middlewares) /\ Once(sorted) /\ \A i \in 1..Len(sorted) : sorted[i] # m
      /\ sorted' = Inserted(Priority, sorted, m) /\ UNCHANGED <<requests, seen, gauge, span>>
  BY DEF AddMiddleware, IInv, TypeOK, Balanced
<1>2. Once(Inserted(Priority, sorted, m))
  BY <1>1, InsertedOnce DEF ChainAssumption
<1>3. Once(sorted)'
  BY <1>1, <1>2 DEF Once
<1> QED BY <1>1, <1>3 DEF Balanced, Counts, Opened, Closed

LEMMA NextBalanced ==
  ASSUME ChainAssumption, IInv, Balanced, [Next]_vars
  PROVE  Balanced'
<1>1. ASSUME NEW r \in Requests, \E kind \in Kinds : Enter(r, kind) PROVE Balanced'
  BY <1>1, EnterTracked
<1>2. ASSUME NEW r \in Requests, Work(r) PROVE Balanced'
  <2>1. CASE RunResponse(r)
    BY <2>1, AnsweredTracked, RaisesTracked DEF RunResponse, Phases
  <2>2. CASE RunStreamChunk(r)
    <3>1. requests[r].stage = "chunk" /\ requests[r].stage \in Phases
      BY <2>2 DEF RunStreamChunk, Phases
    <3>2. CASE Returns(r) /\ UNCHANGED sorted /\ requests[r].final
               /\ seen' = [seen EXCEPT ![r].answered = @ \cup {Current(r)}]
               /\ Closes(r, Current(r))
      BY <3>1, <3>2, AnsweredTracked
    <3>3. CASE Returns(r) /\ UNCHANGED sorted /\ UNCHANGED <<seen, gauge, span>>
      BY <3>1, <3>3, ReturnsTracked
    <3>4. CASE \E e \in Errors : Raises(r, e)
      BY <3>1, <3>4, RaisesTracked
    <3> QED BY <2>2, <3>2, <3>3, <3>4 DEF RunStreamChunk
  <2>3. CASE RunToolCall(r) \/ RunToolResult(r)
    BY <2>3, ReturnsTracked, RaisesTracked DEF RunToolCall, RunToolResult, Phases
  <2> QED BY <1>2, <2>1, <2>2, <2>3, RunRequestTracked, NotifyErrorTracked DEF Work
<1>3. ASSUME NEW r \in Requests, Provide(r) PROVE Balanced'
  <2>1. CASE \E outcome \in {"returned", "raised"} : StreamEnds(r, outcome)
    BY <2>1, EndTracked DEF StreamEnds
  <2> QED BY <1>3, <2>1, ProviderAnswersTracked, ProviderFailsTracked, ChunkTracked DEF Provide
<1>4. ASSUME NEW r \in Requests, Cancel(r) PROVE Balanced'
  BY <1>4, EndTracked DEF Cancel
<1>5. ASSUME NEW m \in Middlewares, AddMiddleware(m) PROVE Balanced'
  BY <1>5, AddMiddlewareTracked
<1>6. CASE UNCHANGED vars
  BY <1>6 DEF Balanced, Counts, Opened, Closed, Once, vars
<1> QED BY <1>1, <1>2, <1>3, <1>4, <1>5, <1>6 DEF Next

-----------------------------------------------------------------------------
(* Theorems *)

\* Every coroutine of a pipeline walks a list of middlewares at a position of
\* it, and a middleware is added at a place of the list (pipeline.py).
THEOREM TypeCorrect == Spec => []TypeOK
<1>1. IInv => TypeOK
  BY DEF IInv
<1> QED BY Invariance, <1>1, PTL

\* No provider is called, and no response and no last chunk is given to the
\* caller, before every mandatory middleware of the chain has processed it,
\* with any number of requests under way, hooks failing and middlewares added
\* (pipeline.py:740).
THEOREM MandatoryIsNeverSkipped == Spec => []MandatoryNeverSkipped
<1>1. IInv => MandatoryNeverSkipped
  <2> SUFFICES ASSUME IInv, NEW r \in Requests
               PROVE  LET q == requests[r] IN
                      /\ q.stage = "provider" => MandatoryOf(r) \subseteq seen[r].entered
                      /\ q.stage = "ended" /\ q.outcome = "returned" /\ q.kind = "run"
                           => MandatoryOf(r) \subseteq seen[r].answered
                      /\ q.stage = "streaming" /\ q.final
                           => MandatoryOf(r) \subseteq seen[r].answered
    BY DEF MandatoryNeverSkipped
  <2>1. Good(requests[r], seen[r], Items(sorted))
    BY OfRequest
  <2>2. ASSUME NEW S, AllThrough(requests[r], S) PROVE MandatoryOf(r) \subseteq S
    BY <2>2 DEF AllThrough, MandatoryOf
  <2> QED BY <2>1, <2>2 DEF Good
<1> QED BY Invariance, <1>1, PTL

\* A middleware that let a request of run pass is told how it went on: each is
\* told of the error that is raised, and if there is none it has processed the
\* response or was told of an error that was isolated (pipeline.py:1008).
THEOREM EnteredAreAllInformed == Spec => []EnteredAreInformed
<1>1. IInv => EnteredAreInformed
  <2> SUFFICES ASSUME IInv, NEW r \in Requests, requests[r].kind = "run",
                      requests[r].stage = "ended", requests[r].outcome # "cancelled"
               PROVE  /\ seen[r].entered \subseteq seen[r].answered \cup seen[r].told
                      /\ requests[r].outcome = "raised" => seen[r].entered \subseteq seen[r].told
    BY DEF EnteredAreInformed
  <2>1. Good(requests[r], seen[r], Items(sorted)) /\ requests[r] \in Request
    BY OfRequest
  <2>2. requests[r].outcome \in {"none", "returned", "raised"}
    BY <2>1 DEF Request
  <2> QED BY <2>1, <2>2 DEF Good
<1> QED BY Invariance, <1>1, PTL

\* run leaves no tracing span open, and the gauge of active requests is at most
\* the number of requests metrics let pass and was told nothing of since, with
\* any number of requests, failures and isolated errors (pipeline.py:368,
\* metrics.py:332).
THEOREM ObserversAreBalanced == Spec => []ObserversBalanced
<1>1. Init => IInv /\ Balanced
  BY InitIInv, InitBalanced, ChainAssumption
<1>2. IInv /\ Balanced /\ [Next]_vars => (IInv /\ Balanced)'
  BY NextIInv, NextBalanced, ChainAssumption
<1>3. IInv /\ Balanced => ObserversBalanced
  <2> SUFFICES ASSUME IInv, Balanced PROVE ObserversBalanced
    OBVIOUS
  <2>1. ASSUME NEW r \in Requests, requests[r].kind = "run",
               requests[r].outcome \in {"returned", "raised"}
        PROVE  span[r] # "open"
    <3>1. Tracked(requests[r], seen[r], span[r])
      BY DEF Balanced
    <3> QED BY <2>1, <3>1 DEF Tracked
  <2> DEFINE Left == {r \in Requests : Metrics \in seen[r].entered
                                         /\ Metrics \notin seen[r].answered \cup seen[r].told}
  <2>2. gauge <= Cardinality(Left)
    <3>1. IsFiniteSet(Opened) /\ IsFiniteSet(Closed) /\ gauge \in Int
          /\ gauge <= Cardinality(Opened) - Cardinality(Closed)
      BY DEF Balanced, Counts, IInv, TypeOK
    <3>2. Left = Opened \ Closed
      BY DEF Opened, Closed
    <3>3. Opened \cap Closed \subseteq Closed
      OBVIOUS
    <3>4. /\ IsFiniteSet(Opened \ Closed)
          /\ Cardinality(Opened \ Closed) = Cardinality(Opened) - Cardinality(Opened \cap Closed)
      BY <3>1, FS_Difference
    <3>5. IsFiniteSet(Opened \cap Closed)
          /\ Cardinality(Opened \cap Closed) <= Cardinality(Closed)
      BY <3>1, <3>3, FS_Subset
    <3>6. /\ Cardinality(Opened) \in Nat /\ Cardinality(Closed) \in Nat
          /\ Cardinality(Opened \cap Closed) \in Nat
      BY <3>1, <3>5, FS_CardinalityType
    <3>7. Cardinality(Left) = Cardinality(Opened) - Cardinality(Opened \cap Closed)
      BY <3>2, <3>4
    <3> HIDE DEF Left
    <3> QED BY <3>1, <3>5, <3>6, <3>7
  <2> QED BY <2>1, <2>2 DEF ObserversBalanced
<1> QED BY <1>1, <1>2, <1>3, PTL DEF Spec
=============================================================================
