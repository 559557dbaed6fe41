------------------------ MODULE GovernedPipeline_proofs ------------------------
(***************************************************************************)
(* Proofs about what governs a pipeline: the response cache and the budget    *)
(* under concurrent calls, for any prompts, providers, usages and times; the  *)
(* sliding windows of the rate limit, for any sessions, limits and sizes; and *)
(* the buffer that masks a stream, for any rules, texts and sizes.            *)
(***************************************************************************)
EXTENDS GovernedPipeline, RateLimiter, StreamMask, Inductions

-----------------------------------------------------------------------------
(* Sliding windows, of whatever is kept in them *)

Slots(I, E) == [id : I, window : Seq(E)]

\* No session is twice in the store.
Apart(store) == \A i, j \in 1..Len(store) : store[i].id = store[j].id => i = j

\* used is the store with the session sid at its end; the entry at place d, if it
\* is one, was that of sid or had to go.
Moved(store, used, sid, d, max) ==
  /\ \A i \in 1..(Len(used) - 1) : used[i] = store[IF i < d THEN i ELSE i + 1]
  /\ \/ /\ Len(store) = Len(used) - 1 /\ Len(store) < max
        /\ d = Len(used) /\ sid \notin Ids(store)
     \/ Len(store) = Len(used) /\ store[d].id = sid
     \/ Len(store) = Len(used) /\ Len(used) >= max /\ d = 1 /\ sid \notin Ids(store)

\* The window of a session that has one is found at its place.
LEMMA PlaceIs ==
  ASSUME NEW I, NEW E, NEW store \in Seq(Slots(I, E)), NEW sid \in Ids(store)
  PROVE  /\ PlaceOf(store, sid) \in 1..Len(store)
         /\ store[PlaceOf(store, sid)].id = sid
         /\ WindowOf(store, sid) = store[PlaceOf(store, sid)].window
<1>1. \E i \in DOMAIN store : store[i].id = sid
  BY DEF Ids
<1>2. PlaceOf(store, sid) \in DOMAIN store /\ store[PlaceOf(store, sid)].id = sid
  BY <1>1 DEF PlaceOf
<1> QED
  BY <1>2 DEF WindowOf

LEMMA WindowType ==
  ASSUME NEW I, NEW E, NEW store \in Seq(Slots(I, E)), NEW sid
  PROVE  WindowOf(store, sid) \in Seq(E)
<1>1. CASE sid \in Ids(store)
  <2>1. store[PlaceOf(store, sid)] \in Slots(I, E)
    BY <1>1, PlaceIs
  <2>2. WindowOf(store, sid) = store[PlaceOf(store, sid)].window
    BY <1>1, PlaceIs
  <2> QED
    BY <2>1, <2>2 DEF Slots
<1>2. CASE sid \notin Ids(store)
  BY <1>2 DEF WindowOf
<1> QED
  BY <1>1, <1>2

\* An entry leaves the sequence at place k, and another one comes at its end.
LEMMA TakenToTheEnd ==
  ASSUME NEW S, NEW s \in Seq(S), NEW k \in 1..Len(s), NEW e \in S
  PROVE  /\ Append(RemoveAt(s, k), e) \in Seq(S)
         /\ Len(Append(RemoveAt(s, k), e)) = Len(s)
         /\ Append(RemoveAt(s, k), e)[Len(s)] = e
         /\ \A i \in 1..(Len(s) - 1) :
              Append(RemoveAt(s, k), e)[i] = s[IF i < k THEN i ELSE i + 1]
<1> DEFINE r == RemoveAt(s, k)
<1>1. r \in Seq(S) /\ Len(r) = Len(s) - 1
      /\ \A i \in 1..(Len(s) - 1) : r[i] = s[IF i < k THEN i ELSE i + 1]
  <2> DEFINE a == SubSeq(s, 1, k - 1)
             b == SubSeq(s, k + 1, Len(s))
  <2>1. a \in Seq(S) /\ Len(a) = k - 1 /\ \A i \in 1..(k - 1) : a[i] = s[i]
    OBVIOUS
  <2>2. b \in Seq(S) /\ Len(b) = Len(s) - k /\ \A i \in 1..(Len(s) - k) : b[i] = s[k + i]
    OBVIOUS
  <2>3. r = a \o b
    BY DEF RemoveAt
  <2> HIDE DEF a, b, r
  <2>6. a \in Seq(S) /\ b \in Seq(S) /\ Len(a) + Len(b) = Len(s) - 1
    BY <2>1, <2>2
  <2>4. /\ a \o b \in Seq(S) /\ Len(a \o b) = Len(s) - 1
        /\ \A i \in 1..(Len(s) - 1) :
             (a \o b)[i] = IF i <= Len(a) THEN a[i] ELSE b[i - Len(a)]
    BY ONLY <2>6, ConcatProperties
  <2>5. ASSUME NEW i \in 1..(Len(s) - 1)
        PROVE  (a \o b)[i] = s[IF i < k THEN i ELSE i + 1]
    <3>1. CASE i < k
      BY <2>1, <2>4, <3>1
    <3>2. CASE ~(i < k)
      <4>1. i - Len(a) \in 1..(Len(s) - k) /\ k + (i - Len(a)) = i + 1 /\ ~(i <= Len(a))
        BY <2>1, <3>2
      <4> QED
        BY <2>2, <2>4, <3>2, <4>1
    <3> QED
      BY <3>1, <3>2
  <2> QED
    BY <2>3, <2>4, <2>5
<1> HIDE DEF r
<1>2. /\ Append(r, e) \in Seq(S) /\ Len(Append(r, e)) = Len(r) + 1
      /\ Append(r, e)[Len(r) + 1] = e /\ \A i \in 1..Len(r) : Append(r, e)[i] = r[i]
  BY <1>1
<1>3. Append(r, e) \in Seq(S) /\ Len(Append(r, e)) = Len(s) /\ Append(r, e)[Len(s)] = e
      /\ \A i \in 1..(Len(s) - 1) : Append(r, e)[i] = s[IF i < k THEN i ELSE i + 1]
  BY <1>1, <1>2
<1> QED
  BY <1>3 DEF r

\* The store after a session has used its window.
LEMMA UsedIs ==
  ASSUME NEW max \in Nat \ {0}, NEW I, NEW E, NEW store \in Seq(Slots(I, E)), NEW sid \in I
  PROVE  LET used == GetWindow(store, sid, max) IN
         /\ used \in Seq(Slots(I, E)) /\ Len(used) >= 1
         /\ used[Len(used)] = [id |-> sid, window |-> WindowOf(store, sid)]
         /\ \E d \in 1..Len(used) : Moved(store, used, sid, d, max)
<1> DEFINE used == GetWindow(store, sid, max)
           e == [id |-> sid, window |-> WindowOf(store, sid)]
<1>1. e \in Slots(I, E)
  BY WindowType DEF Slots
<1>2. max \in Nat \ {0}
  OBVIOUS
<1>3. CASE sid \in Ids(store)
  <2> DEFINE k == PlaceOf(store, sid)
  <2>1. k \in 1..Len(store) /\ store[k].id = sid
    BY <1>3, PlaceIs
  <2>2. used = Append(RemoveAt(store, k), e)
    BY <1>3 DEF GetWindow, Without
  <2> HIDE DEF k, e, used
  <2>3. /\ used \in Seq(Slots(I, E)) /\ Len(used) = Len(store) /\ used[Len(store)] = e
        /\ \A i \in 1..(Len(store) - 1) : used[i] = store[IF i < k THEN i ELSE i + 1]
    BY <1>1, <2>1, <2>2, TakenToTheEnd
  <2>4. Moved(store, used, sid, k, max)
    BY <2>1, <2>3 DEF Moved
  <2>5. /\ used \in Seq(Slots(I, E)) /\ Len(used) >= 1 /\ used[Len(used)] = e
        /\ \E d \in 1..Len(used) : Moved(store, used, sid, d, max)
    BY <2>1, <2>3, <2>4
  <2> QED
    BY <2>5 DEF used, e
<1>4. CASE sid \notin Ids(store) /\ Len(store) >= max
  <2>1. used = Append(Tail(store), e)
    BY <1>4 DEF GetWindow, WindowOf
  <2> HIDE DEF e, used
  <2>2. store # <<>> /\ Len(store) >= 1
    BY <1>2, <1>4
  <2>3. Tail(store) \in Seq(Slots(I, E)) /\ Len(Tail(store)) = Len(store) - 1
        /\ \A i \in 1..(Len(store) - 1) : Tail(store)[i] = store[i + 1]
    BY <2>2
  <2>4. /\ used \in Seq(Slots(I, E)) /\ Len(used) = Len(store) /\ used[Len(store)] = e
        /\ \A i \in 1..(Len(store) - 1) : used[i] = store[i + 1]
    BY <1>1, <2>1, <2>3
  <2>5. Moved(store, used, sid, 1, max)
    BY <1>4, <2>2, <2>4 DEF Moved
  <2>6. /\ used \in Seq(Slots(I, E)) /\ Len(used) >= 1 /\ used[Len(used)] = e
        /\ \E d \in 1..Len(used) : Moved(store, used, sid, d, max)
    BY <2>2, <2>4, <2>5
  <2> QED
    BY <2>6 DEF used, e
<1>5. CASE sid \notin Ids(store) /\ ~(Len(store) >= max)
  <2>1. used = Append(store, e)
    BY <1>5 DEF GetWindow, WindowOf
  <2> HIDE DEF e, used
  <2>2. /\ used \in Seq(Slots(I, E)) /\ Len(used) = Len(store) + 1 /\ used[Len(store) + 1] = e
        /\ \A i \in 1..Len(store) : used[i] = store[i]
    BY <1>1, <2>1
  <2>3. Moved(store, used, sid, Len(used), max)
    BY <1>2, <1>5, <2>2 DEF Moved
  <2>4. /\ used \in Seq(Slots(I, E)) /\ Len(used) >= 1 /\ used[Len(used)] = e
        /\ \E d \in 1..Len(used) : Moved(store, used, sid, d, max)
    BY <2>2, <2>3
  <2> QED
    BY <2>4 DEF used, e
<1> QED
  BY <1>3, <1>4, <1>5

\* Every other session keeps its entry, and the order.
LEMMA OthersMoved ==
  ASSUME NEW max, NEW I, NEW E, NEW store \in Seq(Slots(I, E)), NEW used \in Seq(Slots(I, E)), NEW sid \in I,
         NEW d \in 1..Len(used), Moved(store, used, sid, d, max), Apart(store)
  PROVE  \A i \in 1..(Len(used) - 1) :
           /\ (IF i < d THEN i ELSE i + 1) \in 1..Len(store)
           /\ used[i] = store[IF i < d THEN i ELSE i + 1]
           /\ used[i].id # sid
<1> SUFFICES ASSUME NEW i \in 1..(Len(used) - 1)
             PROVE  /\ (IF i < d THEN i ELSE i + 1) \in 1..Len(store)
                    /\ used[i] = store[IF i < d THEN i ELSE i + 1]
                    /\ used[i].id # sid
  OBVIOUS
<1> DEFINE j == IF i < d THEN i ELSE i + 1
<1>1. used[i] = store[j]
  BY DEF Moved
<1>2. j \in 1..Len(store) /\ j # d
  BY DEF Moved
<1>3. store[j].id # sid
  <2> HIDE DEF j
  <2>1. CASE sid \notin Ids(store)
    BY <1>2, <2>1 DEF Ids
  <2>2. CASE store[d].id = sid /\ d \in 1..Len(store)
    BY <1>2, <2>2 DEF Apart
  <2>3. sid \notin Ids(store) \/ (store[d].id = sid /\ d \in 1..Len(store))
    BY DEF Moved
  <2> QED
    BY <2>1, <2>2, <2>3
<1> QED
  BY <1>1, <1>2, <1>3

\* The window of a session is set.
LEMMA SetIs ==
  ASSUME NEW I, NEW E, NEW used \in Seq(Slots(I, E)), NEW sid \in I, NEW w \in Seq(E)
  PROVE  /\ SetWindow(used, sid, w) \in Seq(Slots(I, E))
         /\ Len(SetWindow(used, sid, w)) = Len(used)
         /\ \A i \in 1..Len(used) :
              SetWindow(used, sid, w)[i] =
                IF used[i].id = sid THEN [id |-> sid, window |-> w] ELSE used[i]
<1> DEFINE e(i) == IF used[i].id = sid THEN [used[i] EXCEPT !.window = w] ELSE used[i]
<1>1. ASSUME NEW i \in 1..Len(used)
      PROVE  e(i) \in Slots(I, E)
             /\ e(i) = IF used[i].id = sid THEN [id |-> sid, window |-> w] ELSE used[i]
  <2>1. used[i] \in Slots(I, E)
    OBVIOUS
  <2> DEFINE x == used[i]
  <2>2. x \in [id : I, window : Seq(E)]
    BY <2>1 DEF Slots
  <2> HIDE DEF x
  <2>3. ASSUME x.id = sid
        PROVE  [x EXCEPT !.window = w] \in Slots(I, E)
               /\ [x EXCEPT !.window = w] = [id |-> sid, window |-> w]
    <3> DEFINE y == [x EXCEPT !.window = w]
    <3>1. y \in [id : I, window : Seq(E)] /\ y.id = sid /\ y.window = w
      BY <2>2, <2>3
    <3> HIDE DEF y
    <3>2. y = [id |-> sid, window |-> w]
      BY <3>1
    <3> QED
      BY <3>1, <3>2 DEF y, Slots
  <2> QED
    BY <2>1, <2>3 DEF x
<1>2. SetWindow(used, sid, w) = [i \in 1..Len(used) |-> e(i)]
  BY DEF SetWindow
<1> HIDE DEF e
<1> QED
  BY <1>1, <1>2

\* What GetWindow and SetWindow do to the window of an id, and to the others':
\* one of those may be evicted.
LEMMA WindowsAfter ==
  ASSUME NEW max \in Nat \ {0}, NEW I, NEW E, NEW store \in Seq(Slots(I, E)), Apart(store),
         NEW sid \in I, NEW w \in Seq(E)
  PROVE  LET used == GetWindow(store, sid, max)
             after == SetWindow(used, sid, w)
         IN /\ WindowOf(used, sid) = WindowOf(store, sid)
            /\ after \in Seq(Slots(I, E)) /\ Apart(after)
            /\ WindowOf(after, sid) = w
            /\ \A s : s # sid => WindowOf(after, s) \in {<<>>, WindowOf(store, s)}
            /\ \A s \in Ids(after) : s # sid => WindowOf(after, s) = WindowOf(store, s)
<1> DEFINE used == GetWindow(store, sid, max)
           m == Len(used)
           e(v) == [id |-> sid, window |-> v]
<1>1. /\ used \in Seq(Slots(I, E)) /\ m >= 1
      /\ used[m] = e(WindowOf(store, sid))
      /\ \E d \in 1..m : Moved(store, used, sid, d, max)
  BY UsedIs
<1> HIDE DEF used
<1>2. PICK d \in 1..Len(used) : Moved(store, used, sid, d, max)
  BY <1>1
<1> DEFINE F(i) == IF i < d THEN i ELSE i + 1
<1>3. m \in Nat /\ \A i \in 1..(m - 1) : /\ F(i) \in 1..Len(store) /\ used[i] = store[F(i)]
                                         /\ used[i].id # sid
  <2>1. \A i \in 1..(Len(used) - 1) :
           /\ F(i) \in 1..Len(store) /\ used[i] = store[F(i)] /\ used[i].id # sid
    BY ONLY <1>1, <1>2, store \in Seq(Slots(I, E)), sid \in I, Apart(store), OthersMoved
  <2> QED
    BY <1>1, <2>1
<1>4. \A i, j \in 1..(m - 1) : F(i) = F(j) => i = j
  BY <1>3
<1> HIDE DEF F
\* A store with these entries, and the last one as it may be.
<1>5. ASSUME NEW T \in Seq(Slots(I, E)), NEW v, Len(T) = m, T[m] = e(v),
             \A i \in 1..(m - 1) : T[i] = used[i]
      PROVE  /\ Apart(T) /\ WindowOf(T, sid) = v
             /\ \A s : s # sid => WindowOf(T, s) \in {<<>>, WindowOf(store, s)}
             /\ \A s \in Ids(T) : s # sid => WindowOf(T, s) = WindowOf(store, s)
  <2>1. T[m].id = sid /\ T[m].window = v
    BY <1>5
  <2>2. \A i \in 1..(m - 1) : /\ F(i) \in 1..Len(store) /\ T[i] = store[F(i)] /\ T[i].id # sid
    BY <1>3, <1>5
  <2>3. \A i \in 1..m : i = m \/ i \in 1..(m - 1)
    BY <1>3
  <2>4. Apart(T)
    <3> SUFFICES ASSUME NEW i \in 1..m, NEW j \in 1..m, T[i].id = T[j].id PROVE i = j
      BY <1>5 DEF Apart
    <3>1. CASE i = m \/ j = m
      BY <2>1, <2>2, <2>3, <3>1
    <3>2. CASE i \in 1..(m - 1) /\ j \in 1..(m - 1)
      <4>1. F(i) = F(j)
        BY <2>2, <3>2 DEF Apart
      <4> QED
        BY <1>4, <3>2, <4>1
    <3> QED
      BY <2>3, <3>1, <3>2
  <2>5. WindowOf(T, sid) = v
    <3>1. m \in DOMAIN T /\ sid \in Ids(T)
      <4>1. m \in DOMAIN T
        BY <1>1, <1>3, <1>5
      <4> QED
        BY <2>1, <4>1 DEF Ids
    <3>2. /\ PlaceOf(T, sid) \in 1..Len(T) /\ T[PlaceOf(T, sid)].id = sid
          /\ WindowOf(T, sid) = T[PlaceOf(T, sid)].window
      BY <3>1, PlaceIs
    <3>3. PlaceOf(T, sid) = m
      BY <1>5, <2>2, <2>3, <3>2
    <3> QED
      BY <2>1, <3>2, <3>3
  <2>6. ASSUME NEW s, s # sid, s \in Ids(T) PROVE WindowOf(T, s) = WindowOf(store, s)
    <3> DEFINE i == PlaceOf(T, s)
    <3>1. i \in 1..Len(T) /\ T[i].id = s /\ WindowOf(T, s) = T[i].window
      BY <2>6, PlaceIs
    <3> HIDE DEF i
    <3>2. i \in 1..(m - 1)
      BY <1>5, <2>1, <2>3, <2>6, <3>1
    <3>3. F(i) \in 1..Len(store) /\ store[F(i)].id = s /\ WindowOf(T, s) = store[F(i)].window
      BY <2>2, <3>1, <3>2
    <3>4. s \in Ids(store)
      <4>1. F(i) \in DOMAIN store
        BY <3>3
      <4> QED
        BY <3>3, <4>1 DEF Ids
    <3> DEFINE k == PlaceOf(store, s)
    <3>5. k \in 1..Len(store) /\ store[k].id = s /\ WindowOf(store, s) = store[k].window
      BY <3>4, PlaceIs
    <3> HIDE DEF k
    <3>6. k = F(i)
      BY <3>3, <3>5 DEF Apart
    <3> QED
      BY <3>3, <3>5, <3>6
  <2>7. \A s : s \notin Ids(T) => WindowOf(T, s) = <<>>
    BY DEF WindowOf
  <2> QED
    BY <2>4, <2>5, <2>6, <2>7
<1>6. WindowOf(used, sid) = WindowOf(store, sid)
  BY <1>1, <1>5
<1> DEFINE after == SetWindow(used, sid, w)
<1>7. /\ after \in Seq(Slots(I, E)) /\ Len(after) = m /\ after[m] = e(w)
      /\ \A i \in 1..(m - 1) : after[i] = used[i]
  <2>1. /\ after \in Seq(Slots(I, E)) /\ Len(after) = Len(used)
        /\ \A i \in 1..Len(used) :
             after[i] = IF used[i].id = sid THEN [id |-> sid, window |-> w] ELSE used[i]
    BY <1>1, SetIs
  <2>2. used[m].id = sid /\ m \in 1..m /\ 1..(m - 1) \subseteq 1..m
    BY <1>1, <1>3
  <2> HIDE DEF after
  <2> QED
    BY <1>3, <2>1, <2>2
<1> HIDE DEF after
<1>8. /\ Apart(after) /\ WindowOf(after, sid) = w
      /\ \A s : s # sid => WindowOf(after, s) \in {<<>>, WindowOf(store, s)}
      /\ \A s \in Ids(after) : s # sid => WindowOf(after, s) = WindowOf(store, s)
  BY <1>5, <1>7
<1> QED
  BY <1>6, <1>7, <1>8 DEF used, after

-----------------------------------------------------------------------------
(* The response cache *)

\* The entries whose answer is to messages of their key, by its provider.
Genuine == {e \in [key : Prompts \X Providers, time : 0..MaxTime, response : Replies] :
              Key(e.response.sent, e.response.by) = e.key}

\* What a call carries to the response phase is to messages that the key does not
\* tell from its own, by the provider it names; a hit names the primary one.
OwnAnswer(q) ==
  q.stage \in {"charge", "store"} =>
    Key(q.reply.sent, q.reply.by) = Key(q.prompt, q.by) /\ (q.hit => q.by = Primary)

GovernedIInv ==
  /\ now \in 0..MaxTime
  /\ cache \in Seq(Genuine)
  /\ calls \in [Calls -> CallRecords]
  /\ \A c \in Calls : OwnAnswer(calls[c])

\* A key that is in the cache has a place, which the entry is found at.
LEMMA KeyPlaceIs ==
  ASSUME NEW S, NEW s \in Seq(S), NEW key \in Keys(s)
  PROVE  KeyPlace(s, key) \in 1..Len(s) /\ EntryOf(s, key) \in S
         /\ EntryOf(s, key).key = key
<1>1. \E i \in DOMAIN s : s[i].key = key
  BY DEF Keys
<1>2. KeyPlace(s, key) \in DOMAIN s /\ s[KeyPlace(s, key)].key = key
  BY <1>1 DEF KeyPlace
<1> QED
  BY <1>2 DEF EntryOf

\* Removing, looking up and storing keep a sequence of entries of a set.
LEMMA RemovedType ==
  ASSUME NEW S, NEW s \in Seq(S), NEW key
  PROVE  Removed(s, key) \in Seq(S)
<1>1. CASE key \in Keys(s)
  <2>1. KeyPlace(s, key) \in 1..Len(s)
    BY <1>1, KeyPlaceIs
  <2>2. ASSUME NEW k \in 1..Len(s) PROVE RemoveAt(s, k) \in Seq(S)
    BY DEF RemoveAt
  <2> QED
    BY <1>1, <2>1, <2>2 DEF Removed
<1>2. CASE key \notin Keys(s)
  BY <1>2 DEF Removed
<1> QED
  BY <1>1, <1>2

LEMMA AfterLookupType ==
  ASSUME NEW S, NEW s \in Seq(S), NEW key, NEW time
  PROVE  AfterLookup(s, key, time) \in Seq(S)
<1>1. Removed(s, key) \in Seq(S)
  BY RemovedType
<1>2. CASE IsHit(s, key, time)
  BY <1>1, <1>2, KeyPlaceIs DEF AfterLookup, IsHit
<1>3. CASE ~IsHit(s, key, time)
  BY <1>1, <1>3 DEF AfterLookup
<1> QED
  BY <1>2, <1>3

LEMMA StoredType ==
  ASSUME NEW S, NEW s \in Seq(S), NEW key, NEW response, NEW time,
         [key |-> key, time |-> time, response |-> response] \in S
  PROVE  Stored(s, key, response, time) \in Seq(S)
<1> DEFINE room == IF Len(s) >= CacheSize THEN Tail(s) ELSE s
           entry == [key |-> key, time |-> time, response |-> response]
<1>1. room \in Seq(S)
  <2>1. CASE Len(s) >= CacheSize
    <3>1. s # <<>>
      BY <2>1, CacheAssumption DEF CacheAssumption
    <3> QED
      BY <2>1, <3>1
  <2> QED
    BY <2>1
<1> HIDE DEF room, entry
<1>2. entry \in S
  BY DEF entry
<1>3. [i \in DOMAIN room |-> IF room[i].key = key THEN entry ELSE room[i]] \in Seq(S)
  BY <1>1, <1>2
<1>4. Append(room, entry) \in Seq(S)
  BY <1>1, <1>2
<1> QED
  BY <1>3, <1>4 DEF Stored, room, entry

\* What a call is in each stage.
LEMMA CallShapes ==
  ASSUME NEW q \in CallRecords
  PROVE  /\ q.stage \in {"idle", "budget", "provider", "charge", "store"}
         /\ q.stage = "idle" <=> q = NoCall
         /\ q.stage \in {"budget", "provider"} =>
              q \in [stage : {"budget", "provider"}, scope : Scopes, prompt : Prompts]
         /\ q.stage \in {"charge", "store"} =>
              q \in [stage : {"charge", "store"}, scope : Scopes, prompt : Prompts,
                     by : Providers, estimate : Nat, hit : BOOLEAN, reply : Replies]
BY DEF CallRecords, NoCall

LEMMA ContextIs ==
  ASSUME NEW context \in Contexts PROVE context[1] \in Scopes /\ context[2] \in Prompts
BY GovernedAssumption DEF GovernedAssumption

\* One call has moved.
LEMMA CallMoves ==
  ASSUME GovernedIInv, NEW c \in Calls, NEW q \in CallRecords, OwnAnswer(q),
         calls' = [calls EXCEPT ![c] = q],
         now' \in 0..MaxTime, cache' \in Seq(Genuine)
  PROVE  GovernedIInv'
<1>1. calls' \in [Calls -> CallRecords]
  BY DEF GovernedIInv
<1>2. ASSUME NEW d \in Calls PROVE OwnAnswer(calls'[d])
  <2>1. calls'[d] = IF d = c THEN q ELSE calls[d]
    BY DEF GovernedIInv
  <2> QED
    BY <2>1 DEF GovernedIInv
<1> QED
  BY <1>1, <1>2 DEF GovernedIInv

LEMMA GovernedInitially == Init => GovernedIInv
BY GovernedAssumption
   DEF Init, GovernedIInv, GovernedAssumption, OwnAnswer, NoCall, CallRecords

LEMMA LookupStep ==
  ASSUME GovernedIInv, NEW c \in Calls, NEW scope \in Scopes, NEW prompt \in Prompts,
         Lookup(c, scope, prompt)
  PROVE  GovernedIInv'
<1> DEFINE key == Key(prompt, Primary)
<1>1. cache \in Seq(Genuine) /\ now \in 0..MaxTime
  BY DEF GovernedIInv
<1>2. cache' \in Seq(Genuine) /\ now' \in 0..MaxTime
  BY <1>1, AfterLookupType DEF Lookup
<1>3. CASE IsHit(cache, key, now)
  <2> DEFINE q == [stage |-> "charge", scope |-> scope, prompt |-> prompt,
                   by |-> Primary, estimate |-> 0, hit |-> TRUE,
                   reply |-> EntryOf(cache, key).response]
  <2>1. EntryOf(cache, key) \in Genuine /\ EntryOf(cache, key).key = key
    BY <1>1, <1>3, KeyPlaceIs DEF IsHit
  <2>2. /\ EntryOf(cache, key).response \in Replies
        /\ Key(EntryOf(cache, key).response.sent, EntryOf(cache, key).response.by) = key
    BY <2>1 DEF Genuine
  <2>3. q \in CallRecords /\ OwnAnswer(q)
    <3> HIDE DEF key
    <3>1. q.reply = EntryOf(cache, key).response /\ q.prompt = prompt /\ q.by = Primary
      OBVIOUS
    <3>2. q \in CallRecords
      BY <2>2, GovernedAssumption DEF CallRecords, GovernedAssumption
    <3> HIDE DEF q
    <3>3. OwnAnswer(q)
      BY <2>2, <3>1 DEF OwnAnswer, key
    <3> QED
      BY <3>2, <3>3
  <2>4. calls' = [calls EXCEPT ![c] = q]
    BY <1>3 DEF Lookup
  <2> HIDE DEF q
  <2> QED
    BY <1>2, <2>3, <2>4, CallMoves
<1>4. CASE ~IsHit(cache, key, now)
  <2> DEFINE q == [stage |-> "budget", scope |-> scope, prompt |-> prompt]
  <2>1. q \in CallRecords /\ OwnAnswer(q)
    BY DEF CallRecords, OwnAnswer
  <2>2. calls' = [calls EXCEPT ![c] = q]
    BY <1>4 DEF Lookup
  <2> HIDE DEF q
  <2> QED
    BY <1>2, <2>1, <2>2, CallMoves
<1> QED
  BY <1>3, <1>4

\* A call goes on to another stage as it is.
LEMMA Onward ==
  ASSUME NEW q \in CallRecords, NEW r, OwnAnswer(q),
         \/ q.stage = "budget" /\ r = [q EXCEPT !.stage = "provider"]
         \/ q.stage = "charge" /\ r = [q EXCEPT !.stage = "store"]
  PROVE  r \in CallRecords /\ OwnAnswer(r)
<1>1. CASE q.stage = "budget" /\ r = [q EXCEPT !.stage = "provider"]
  <2>1. q \in [stage : {"budget", "provider"}, scope : Scopes, prompt : Prompts]
    BY <1>1, CallShapes
  <2>2. r \in [stage : {"budget", "provider"}, scope : Scopes, prompt : Prompts]
        /\ r.stage = "provider"
    BY <1>1, <2>1
  <2> QED
    BY <2>2 DEF CallRecords, OwnAnswer
<1>2. CASE q.stage = "charge" /\ r = [q EXCEPT !.stage = "store"]
  <2>1. q \in [stage : {"charge", "store"}, scope : Scopes, prompt : Prompts,
               by : Providers, estimate : Nat, hit : BOOLEAN, reply : Replies]
    BY <1>2, CallShapes
  <2>2. r \in [stage : {"charge", "store"}, scope : Scopes, prompt : Prompts,
               by : Providers, estimate : Nat, hit : BOOLEAN, reply : Replies]
        /\ r.reply = q.reply /\ r.prompt = q.prompt /\ r.by = q.by /\ r.hit = q.hit
    BY <1>2, <2>1
  <2> QED
    BY <1>2, <2>2 DEF CallRecords, OwnAnswer
<1> QED
  BY <1>1, <1>2

LEMMA NoCallIs == NoCall \in CallRecords /\ OwnAnswer(NoCall)
BY DEF CallRecords, NoCall, OwnAnswer

LEMMA BudgetStep ==
  ASSUME GovernedIInv, NEW c \in Calls, PassBudget(c) \/ Charge(c) \/ Leave(c)
  PROVE  GovernedIInv'
<1>1. /\ calls[c] \in CallRecords /\ OwnAnswer(calls[c])
      /\ calls \in [Calls -> CallRecords]
      /\ now' \in 0..MaxTime /\ cache' \in Seq(Genuine)
  BY DEF GovernedIInv, PassBudget, Charge, Leave
<1>2. CASE calls' = [calls EXCEPT ![c] = NoCall]
  BY <1>1, <1>2, NoCallIs, CallMoves
<1>3. CASE calls[c].stage = "budget" /\ calls' = [calls EXCEPT ![c] = [@ EXCEPT !.stage = "provider"]]
  <2> DEFINE r == [calls[c] EXCEPT !.stage = "provider"]
  <2>1. r \in CallRecords /\ OwnAnswer(r)
    BY <1>1, <1>3, Onward
  <2>2. calls' = [calls EXCEPT ![c] = r]
    BY <1>3
  <2> HIDE DEF r
  <2> QED
    BY <1>1, <2>1, <2>2, CallMoves
<1>4. CASE calls[c].stage = "charge" /\ calls' = [calls EXCEPT ![c].stage = "store"]
  <2> DEFINE r == [calls[c] EXCEPT !.stage = "store"]
  <2>1. r \in CallRecords /\ OwnAnswer(r)
    BY <1>1, <1>4, Onward
  <2>2. calls' = [calls EXCEPT ![c] = r]
    BY <1>4
  <2> HIDE DEF r
  <2> QED
    BY <1>1, <2>1, <2>2, CallMoves
<1> QED
  BY <1>2, <1>3, <1>4 DEF PassBudget, Charge, Leave

LEMMA AnswerStep ==
  ASSUME GovernedIInv, NEW c \in Calls, NEW provider \in Providers, NEW usage \in ReplyUsages,
         Answer(c, provider, usage)
  PROVE  GovernedIInv'
<1> DEFINE q == calls[c]
           sent == Sent[q.prompt]
           r == [stage |-> "charge", scope |-> q.scope, prompt |-> sent, by |-> provider,
                 estimate |-> Estimate[q.prompt], hit |-> FALSE,
                 reply |-> [sent |-> sent, by |-> provider, made |-> now, usage |-> usage]]
<1>1. /\ q \in CallRecords /\ q.stage = "provider" /\ calls' = [calls EXCEPT ![c] = r]
      /\ now \in 0..MaxTime /\ now' \in 0..MaxTime /\ cache' \in Seq(Genuine)
  BY DEF GovernedIInv, Answer
<1>2. q.prompt \in Prompts /\ q.scope \in Scopes
  BY <1>1, CallShapes
<1>3. sent \in Prompts /\ Estimate[q.prompt] \in Nat
  BY <1>2, GovernedAssumption DEF GovernedAssumption
<1>4. r \in CallRecords /\ OwnAnswer(r)
  <2> HIDE DEF q, sent
  <2>1. r \in CallRecords
    BY <1>1, <1>2, <1>3 DEF CallRecords, Replies
  <2>2. r.reply.sent = r.prompt /\ r.reply.by = r.by /\ r.hit = FALSE
    OBVIOUS
  <2> HIDE DEF r
  <2> QED
    BY <2>1, <2>2 DEF OwnAnswer
<1> HIDE DEF q, sent, r
<1> QED
  BY <1>1, <1>4, CallMoves

LEMMA StoreStep ==
  ASSUME GovernedIInv, NEW c \in Calls, NEW stop \in BOOLEAN, Store(c, stop)
  PROVE  GovernedIInv'
<1> DEFINE q == calls[c]
           key == Key(q.prompt, q.by)
<1>1. /\ q \in CallRecords /\ OwnAnswer(q) /\ q.stage = "store"
      /\ calls' = [calls EXCEPT ![c] = NoCall]
      /\ cache' = IF stop THEN Stored(cache, key, Stamped(q), now) ELSE cache
      /\ now \in 0..MaxTime /\ now' \in 0..MaxTime /\ cache \in Seq(Genuine)
  BY DEF GovernedIInv, Store
<1>2. /\ q.prompt \in Prompts /\ q.by \in Providers /\ q.reply \in Replies
      /\ Key(q.reply.sent, q.reply.by) = key
  BY <1>1, CallShapes DEF OwnAnswer
<1>3. Stamped(q) \in Replies /\ Stamped(q).sent = q.reply.sent /\ Stamped(q).by = q.reply.by
  BY <1>1, <1>2 DEF Stamped, Replies
<1>6. key \in Prompts \X Providers
  BY <1>2, GovernedAssumption DEF GovernedAssumption, Key
<1>4. [key |-> key, time |-> now, response |-> Stamped(q)] \in Genuine
  <2> HIDE DEF q, key
  <2> QED
    BY <1>1, <1>2, <1>3, <1>6 DEF Genuine
<1>5. cache' \in Seq(Genuine)
  <2> HIDE DEF q, key
  <2> QED
    BY <1>1, <1>4, StoredType
<1> QED
  BY <1>1, <1>5, NoCallIs, CallMoves

LEMMA GovernedStep == GovernedIInv /\ [Next]_vars => GovernedIInv'
<1> SUFFICES ASSUME GovernedIInv, [Next]_vars PROVE GovernedIInv'
  OBVIOUS
<1>1. ASSUME NEW c \in Calls, NEW context \in Contexts, Lookup(c, context[1], context[2])
      PROVE  GovernedIInv'
  BY <1>1, ContextIs, LookupStep
<1>2. ASSUME NEW c \in Calls, PassBudget(c) \/ Leave(c) \/ Charge(c)
      PROVE  GovernedIInv'
  BY <1>2, BudgetStep
<1>3. ASSUME NEW c \in Calls, NEW provider \in Providers, NEW usage \in ReplyUsages,
             Answer(c, provider, usage)
      PROVE  GovernedIInv'
  BY <1>3, AnswerStep
<1>4. ASSUME NEW c \in Calls, NEW stop \in BOOLEAN, Store(c, stop)
      PROVE  GovernedIInv'
  BY <1>4, StoreStep
<1>5. ASSUME NEW prompt \in Prompts, NEW provider \in Providers,
             Invalidate(prompt, provider)
      PROVE  GovernedIInv'
  BY <1>5, RemovedType DEF Invalidate, GovernedIInv
<1>6. CASE ClearCache
  BY <1>6 DEF ClearCache, GovernedIInv
<1>7. CASE Tick
  <2>1. now' \in 0..MaxTime
    BY <1>7, GovernedAssumption DEF Tick, GovernedIInv, GovernedAssumption
  <2> QED
    BY <1>7, <2>1 DEF Tick, GovernedIInv
<1>8. CASE UNCHANGED vars
  BY <1>8 DEF vars, GovernedIInv
<1> QED
  BY <1>1, <1>2, <1>3, <1>4, <1>5, <1>6, <1>7, <1>8 DEF Next

LEMMA GovernedInvariance == Spec => []GovernedIInv
BY GovernedInitially, GovernedStep, PTL DEF Spec

\* However concurrent calls, fallbacks, truncated contexts, evictions and
\* invalidations follow each other, the cache answers a request only with what
\* the primary provider made of messages of the same key (cache.py:203), whatever
\* messages the key tells apart.
THEOREM CacheIsSound == Spec => []CacheSound
<1>1. GovernedIInv => CacheSound
  <2> SUFFICES ASSUME GovernedIInv PROVE CacheSound
    OBVIOUS
  <2>1. ASSUME NEW i \in DOMAIN cache
        PROVE  Key(cache[i].response.sent, cache[i].response.by) = cache[i].key
    <3>1. cache[i] \in Genuine
      BY DEF GovernedIInv
    <3> QED
      BY <3>1 DEF Genuine
  <2>2. ASSUME NEW c \in Calls, calls[c].stage = "charge", calls[c].hit
        PROVE  Key(calls[c].reply.sent, calls[c].reply.by) = Key(calls[c].prompt, Primary)
    <3>1. OwnAnswer(calls[c])
      BY DEF GovernedIInv
    <3> QED
      BY <2>2, <3>1 DEF OwnAnswer
  <2> QED
    BY <2>1, <2>2 DEF CacheSound
<1> QED
  BY GovernedInvariance, <1>1, PTL

-----------------------------------------------------------------------------
(* The budget *)

\* The function that TotalUsage defines.
SumOf(window) ==
  CHOOSE upTo : upTo = [n \in 0..Len(window) |->
                          IF n = 0 THEN NoUsage ELSE Added(upTo[n - 1], window[n].usage)]

LEMMA AddedIs ==
  ASSUME NEW u \in Usages, NEW v \in Usages
  PROVE  Added(u, v) \in Usages /\ Total(Added(u, v)) = Total(u) + Total(v)
         /\ Total(u) \in Nat /\ NoUsage \in Usages /\ Total(NoUsage) = 0
BY DEF Added, Total, Usages, NoUsage

LEMMA SumIs ==
  ASSUME NEW w \in Seq(Entries)
  PROVE  /\ \A n \in 0..Len(w) : SumOf(w)[n] \in Usages
         /\ SumOf(w)[0] = NoUsage
         /\ \A n \in 1..Len(w) : SumOf(w)[n] = Added(SumOf(w)[n - 1], w[n].usage)
<1> DEFINE step == [x \in Usages \X Entries |-> Added(x[1], x[2].usage)]
<1>1. \A u \in Usages, e \in Entries : Added(u, e.usage) \in Usages
  BY AddedIs DEF Entries
<1>2. step \in [Usages \X Entries -> Usages]
        /\ \A u \in Usages, e \in Entries : step[<<u, e>>] = Added(u, e.usage)
  BY <1>1
<1> HIDE DEF step
<1>3. NoUsage \in Usages /\ Len(w) \in Nat /\ \A n \in 1..Len(w) : w[n] \in Entries
  BY DEF NoUsage, Usages
<1>4. PICK f \in [0..Len(w) -> Usages] : IsFold(f, step, NoUsage, w)
  BY <1>2, <1>3, FoldExists
<1>5. \A n \in 1..Len(w) : n - 1 \in 0..Len(w) /\ f[n] = Added(f[n - 1], w[n].usage)
  <2> SUFFICES ASSUME NEW n \in 1..Len(w)
               PROVE  n - 1 \in 0..Len(w) /\ f[n] = Added(f[n - 1], w[n].usage)
    OBVIOUS
  <2>1. n - 1 \in 0..Len(w) /\ w[n] \in Entries
    BY <1>3
  <2>2. f[n - 1] \in Usages /\ f[n] = step[<<f[n - 1], w[n]>>]
    BY <1>4, <2>1 DEF IsFold
  <2> QED
    BY <1>2, <2>1, <2>2
<1>6. f = [n \in 0..Len(w) |-> IF n = 0 THEN NoUsage ELSE Added(f[n - 1], w[n].usage)]
  <2>1. \A n \in 0..Len(w) : f[n] = IF n = 0 THEN NoUsage ELSE Added(f[n - 1], w[n].usage)
    BY <1>3, <1>4, <1>5 DEF IsFold
  <2> QED
    BY <2>1
<1>7. SumOf(w) = [n \in 0..Len(w) |->
                    IF n = 0 THEN NoUsage ELSE Added(SumOf(w)[n - 1], w[n].usage)]
  BY <1>6 DEF SumOf
<1> DEFINE g == SumOf(w)
<1>8. g[0] = NoUsage /\ \A n \in 1..Len(w) : g[n] = Added(g[n - 1], w[n].usage)
  BY <1>3, <1>7
<1>9. \A n \in 0..Len(w) : g[n] \in Usages
  <2> DEFINE S == {n \in Nat : n <= Len(w) => g[n] \in Usages}
  <2> HIDE DEF g
  <2>1. 0 \in S
    BY <1>3, <1>8
  <2>2. ASSUME NEW n \in S PROVE n + 1 \in S
    <3> SUFFICES ASSUME n + 1 <= Len(w) PROVE g[n + 1] \in Usages
      OBVIOUS
    <3>1. n + 1 \in 1..Len(w) /\ (n + 1) - 1 = n /\ g[n] \in Usages
      BY <1>3
    <3> QED
      BY <1>1, <1>3, <1>8, <3>1
  <2>3. S = Nat
    <3>1. S \in SUBSET Nat
      OBVIOUS
    <3> HIDE DEF S
    <3> QED
      BY <2>1, <2>2, <3>1, ByInduction
  <2> QED
    BY <1>3, <2>3
<1> QED
  BY <1>8, <1>9

\* The tokens of a window.
Tokens(window) == Total(TotalUsage(window))

LEMMA TokensAre ==
  ASSUME NEW w \in Seq(Entries)
  PROVE  Tokens(w) = Total(SumOf(w)[Len(w)]) /\ Tokens(w) \in Nat
<1>1. TotalUsage(w) = SumOf(w)[Len(w)]
  BY DEF TotalUsage, SumOf
<1>2. Len(w) \in 0..Len(w)
  OBVIOUS
<1> QED
  BY <1>1, <1>2, SumIs, AddedIs DEF Tokens

\* v is the end of w, its entries may count less: it has no more tokens.
LEMMA TokensFewer ==
  ASSUME NEW v \in Seq(Entries), NEW w \in Seq(Entries), NEW k \in Nat, Len(w) = k + Len(v),
         \A i \in 1..Len(v) : Total(v[i].usage) <= Total(w[k + i].usage)
  PROVE  Tokens(v) <= Tokens(w)
<1> DEFINE f == SumOf(v)
           g == SumOf(w)
           S == {n \in Nat : n <= Len(v) => Total(f[n]) <= Total(g[k + n])}
<1>1. /\ f[0] = NoUsage /\ \A n \in 0..Len(v) : f[n] \in Usages
      /\ \A n \in 1..Len(v) : f[n] = Added(f[n - 1], v[n].usage)
  BY SumIs
<1>2. /\ \A n \in 0..Len(w) : g[n] \in Usages
      /\ \A n \in 1..Len(w) : g[n] = Added(g[n - 1], w[n].usage)
  BY SumIs
<1> HIDE DEF f, g
<1>3. Len(v) \in Nat /\ Len(w) \in Nat
      /\ (\A i \in 1..Len(v) : v[i].usage \in Usages) /\ \A i \in 1..Len(w) : w[i].usage \in Usages
  <2>1. \A e \in Entries : e.usage \in Usages
    BY DEF Entries
  <2>2. (\A i \in 1..Len(v) : v[i] \in Entries) /\ \A i \in 1..Len(w) : w[i] \in Entries
    OBVIOUS
  <2> QED
    BY <2>1, <2>2
<1>4. 0 \in S
  <2>1. g[k + 0] \in Usages
    BY <1>2, <1>3
  <2>2. Total(f[0]) = 0 /\ Total(g[k + 0]) \in Nat
    BY <1>1, <2>1, AddedIs
  <2> QED
    BY <2>2
<1>5. ASSUME NEW n \in S PROVE n + 1 \in S
  <2> SUFFICES ASSUME n + 1 <= Len(v) PROVE Total(f[n + 1]) <= Total(g[k + (n + 1)])
    OBVIOUS
  <2>1. /\ n \in 0..Len(v) /\ n + 1 \in 1..Len(v) /\ (n + 1) - 1 = n
        /\ k + n \in 0..Len(w) /\ k + (n + 1) \in 1..Len(w) /\ (k + (n + 1)) - 1 = k + n
        /\ Total(f[n]) <= Total(g[k + n])
    BY <1>3
  <2>2. /\ f[n + 1] = Added(f[n], v[n + 1].usage)
        /\ g[k + (n + 1)] = Added(g[k + n], w[k + (n + 1)].usage)
    BY <1>1, <1>2, <2>1
  <2>3. /\ f[n] \in Usages /\ v[n + 1].usage \in Usages
        /\ g[k + n] \in Usages /\ w[k + (n + 1)].usage \in Usages
    BY <1>1, <1>2, <1>3, <2>1
  <2>4. /\ Total(f[n + 1]) = Total(f[n]) + Total(v[n + 1].usage)
        /\ Total(g[k + (n + 1)]) = Total(g[k + n]) + Total(w[k + (n + 1)].usage)
        /\ Total(f[n]) \in Nat /\ Total(v[n + 1].usage) \in Nat
        /\ Total(g[k + n]) \in Nat /\ Total(w[k + (n + 1)].usage) \in Nat
    <3>1. /\ Total(Added(f[n], v[n + 1].usage)) = Total(f[n]) + Total(v[n + 1].usage)
          /\ Total(f[n]) \in Nat
      BY ONLY <2>3, AddedIs
    <3>2. /\ Total(Added(g[k + n], w[k + (n + 1)].usage))
                = Total(g[k + n]) + Total(w[k + (n + 1)].usage)
          /\ Total(g[k + n]) \in Nat
      BY ONLY <2>3, AddedIs
    <3>3. Total(v[n + 1].usage) \in Nat /\ Total(w[k + (n + 1)].usage) \in Nat
      BY ONLY <2>3, AddedIs
    <3> QED
      BY ONLY <2>2, <3>1, <3>2, <3>3
  <2>5. Total(v[n + 1].usage) <= Total(w[k + (n + 1)].usage)
    BY <2>1
  <2> QED
    BY <2>1, <2>4, <2>5
<1>6. S = Nat
  <2>1. S \in SUBSET Nat
    OBVIOUS
  <2> HIDE DEF S
  <2> QED
    BY <1>4, <1>5, <2>1, ByInduction
<1>7. Total(f[Len(v)]) <= Total(g[Len(w)])
  BY <1>3, <1>6
<1> QED
  BY <1>7, TokensAre DEF f, g

\* v is the end of w; what is before it counts nothing: it has no fewer tokens.
LEMMA TokensTail ==
  ASSUME NEW v \in Seq(Entries), NEW w \in Seq(Entries), NEW k \in Nat, Len(w) = k + Len(v),
         \A i \in 1..k : Total(w[i].usage) = 0,
         \A i \in 1..Len(v) : Total(w[k + i].usage) <= Total(v[i].usage)
  PROVE  Tokens(w) <= Tokens(v)
<1> DEFINE f == SumOf(v)
           g == SumOf(w)
           R == {n \in Nat : n <= k => Total(g[n]) = 0}
           S == {n \in Nat : n <= Len(v) => Total(g[k + n]) <= Total(f[n])}
<1>1. /\ f[0] = NoUsage /\ \A n \in 0..Len(v) : f[n] \in Usages
      /\ \A n \in 1..Len(v) : f[n] = Added(f[n - 1], v[n].usage)
  BY SumIs
<1>2. /\ g[0] = NoUsage /\ \A n \in 0..Len(w) : g[n] \in Usages
      /\ \A n \in 1..Len(w) : g[n] = Added(g[n - 1], w[n].usage)
  BY SumIs
<1> HIDE DEF f, g
<1>3. /\ \A n \in 1..Len(v) : n - 1 \in 0..Len(v) /\ v[n].usage \in Usages
      /\ \A n \in 1..Len(w) : n - 1 \in 0..Len(w) /\ w[n].usage \in Usages
      /\ Len(v) \in Nat /\ Len(w) \in Nat
  <2>1. \A e \in Entries : e.usage \in Usages
    BY DEF Entries
  <2>2. (\A i \in 1..Len(v) : v[i] \in Entries) /\ \A i \in 1..Len(w) : w[i] \in Entries
    OBVIOUS
  <2> QED
    BY <2>1, <2>2
<1>4. /\ \A n \in 1..Len(v) : /\ Total(f[n]) = Total(f[n - 1]) + Total(v[n].usage)
                              /\ Total(f[n - 1]) \in Nat /\ Total(v[n].usage) \in Nat
      /\ \A n \in 1..Len(w) : /\ Total(g[n]) = Total(g[n - 1]) + Total(w[n].usage)
                              /\ Total(g[n - 1]) \in Nat /\ Total(w[n].usage) \in Nat
  <2>1. ASSUME NEW n \in 1..Len(v)
        PROVE  /\ Total(f[n]) = Total(f[n - 1]) + Total(v[n].usage)
               /\ Total(f[n - 1]) \in Nat /\ Total(v[n].usage) \in Nat
    <3>1. f[n - 1] \in Usages /\ v[n].usage \in Usages /\ f[n] = Added(f[n - 1], v[n].usage)
      BY <1>1, <1>3
    <3> QED
      BY ONLY <3>1, AddedIs
  <2>2. ASSUME NEW n \in 1..Len(w)
        PROVE  /\ Total(g[n]) = Total(g[n - 1]) + Total(w[n].usage)
               /\ Total(g[n - 1]) \in Nat /\ Total(w[n].usage) \in Nat
    <3>1. g[n - 1] \in Usages /\ w[n].usage \in Usages /\ g[n] = Added(g[n - 1], w[n].usage)
      BY <1>2, <1>3
    <3> QED
      BY ONLY <3>1, AddedIs
  <2> QED
    BY <2>1, <2>2
<1>5. Total(NoUsage) = 0
  BY DEF Total, NoUsage
<1>6. R = Nat
  <2>1. 0 \in R
    BY <1>2, <1>5
  <2>2. ASSUME NEW n \in R PROVE n + 1 \in R
    <3> SUFFICES ASSUME n + 1 <= k PROVE Total(g[n + 1]) = 0
      OBVIOUS
    <3>1. n + 1 \in 1..Len(w) /\ n + 1 \in 1..k /\ (n + 1) - 1 = n /\ Total(g[n]) = 0
      BY <1>3
    <3>2. Total(g[n + 1]) = Total(g[n]) + Total(w[n + 1].usage)
      BY <1>4, <3>1
    <3> QED
      BY <3>1, <3>2
  <2>3. R \in SUBSET Nat
    OBVIOUS
  <2> HIDE DEF R
  <2> QED
    BY <2>1, <2>2, <2>3, ByInduction
<1>7. S = Nat
  <2>1. 0 \in S
    <3>1. Total(g[k]) = 0
      BY <1>6
    <3>2. Total(f[0]) = 0 /\ k + 0 = k
      BY <1>1, <1>5
    <3> QED
      BY <3>1, <3>2
  <2>2. ASSUME NEW n \in S PROVE n + 1 \in S
    <3> SUFFICES ASSUME n + 1 <= Len(v) PROVE Total(g[k + (n + 1)]) <= Total(f[n + 1])
      OBVIOUS
    <3>1. /\ n + 1 \in 1..Len(v) /\ (n + 1) - 1 = n
          /\ k + (n + 1) \in 1..Len(w) /\ (k + (n + 1)) - 1 = k + n
          /\ Total(g[k + n]) <= Total(f[n])
      BY <1>3
    <3>2. /\ Total(f[n + 1]) = Total(f[n]) + Total(v[n + 1].usage)
          /\ Total(f[n]) \in Nat /\ Total(v[n + 1].usage) \in Nat
      BY <1>4, <3>1
    <3>3. /\ Total(g[k + (n + 1)]) = Total(g[k + n]) + Total(w[k + (n + 1)].usage)
          /\ Total(g[k + n]) \in Nat /\ Total(w[k + (n + 1)].usage) \in Nat
      BY <1>4, <3>1
    <3>4. Total(w[k + (n + 1)].usage) <= Total(v[n + 1].usage)
      BY <3>1
    <3> DEFINE a == Total(g[k + n])
               b == Total(w[k + (n + 1)].usage)
               x == Total(f[n])
               y == Total(v[n + 1].usage)
    <3>5. a \in Nat /\ b \in Nat /\ x \in Nat /\ y \in Nat /\ a <= x /\ b <= y
      BY <3>1, <3>2, <3>3, <3>4
    <3> HIDE DEF a, b, x, y
    <3>6. a + b <= x + y
      BY <3>5
    <3> QED
      BY <3>2, <3>3, <3>6 DEF a, b, x, y
  <2>3. S \in SUBSET Nat
    OBVIOUS
  <2> HIDE DEF S
  <2> QED
    BY <2>1, <2>2, <2>3, ByInduction
<1>8. Total(g[Len(w)]) <= Total(f[Len(v)])
  BY <1>3, <1>7
<1> QED
  BY <1>8, TokensAre DEF f, g

\* One more entry.
LEMMA TokensMore ==
  ASSUME NEW w \in Seq(Entries), NEW e \in Entries
  PROVE  Tokens(Append(w, e)) = Tokens(w) + Total(e.usage)
<1> DEFINE t == Append(w, e)
           f == SumOf(w)
           g == SumOf(t)
           S == {n \in Nat : n <= Len(w) => f[n] = g[n]}
<1>1. t \in Seq(Entries) /\ Len(t) = Len(w) + 1 /\ t[Len(w) + 1] = e /\ Len(w) \in Nat
      /\ \A i \in 1..Len(w) : t[i] = w[i]
  OBVIOUS
<1> HIDE DEF t
<1>2. /\ f[0] = NoUsage /\ \A n \in 0..Len(w) : f[n] \in Usages
      /\ \A n \in 1..Len(w) : f[n] = Added(f[n - 1], w[n].usage)
  BY SumIs
<1>3. /\ g[0] = NoUsage /\ \A n \in 1..Len(t) : g[n] = Added(g[n - 1], t[n].usage)
  BY <1>1, SumIs
<1> HIDE DEF f, g
<1>4. 0 \in S
  BY <1>2, <1>3
<1>5. ASSUME NEW n \in S PROVE n + 1 \in S
  <2> SUFFICES ASSUME n + 1 <= Len(w) PROVE f[n + 1] = g[n + 1]
    OBVIOUS
  <2>1. n + 1 \in 1..Len(w) /\ n + 1 \in 1..Len(t) /\ (n + 1) - 1 = n /\ f[n] = g[n]
    BY <1>1
  <2> QED
    BY <1>1, <1>2, <1>3, <2>1
<1>6. S = Nat
  <2>1. S \in SUBSET Nat
    OBVIOUS
  <2> HIDE DEF S
  <2> QED
    BY <1>4, <1>5, <2>1, ByInduction
<1>7. f[Len(w)] = g[Len(w)] /\ f[Len(w)] \in Usages
  BY <1>1, <1>2, <1>6
<1>8. g[Len(t)] = Added(f[Len(w)], e.usage)
  <2>1. Len(t) \in 1..Len(t) /\ Len(t) - 1 = Len(w) /\ t[Len(t)] = e
    BY <1>1
  <2> QED
    BY <1>3, <1>7, <2>1
<1>9. e.usage \in Usages
  BY DEF Entries
<1>10. Total(g[Len(t)]) = Total(f[Len(w)]) + Total(e.usage)
  BY <1>7, <1>8, <1>9, AddedIs
<1> QED
  BY <1>1, <1>10, TokensAre DEF f, g, t

\* A pruned window is the end of the window; what is gone is old.
LEMMA ChargedIs ==
  ASSUME NEW w \in Seq(Entries), NEW cutoff \in Int
  PROVE  /\ Charged(w, cutoff) \in Seq(Entries)
         /\ \E k \in Nat : /\ Len(w) = k + Len(Charged(w, cutoff))
                           /\ \A i \in 1..Len(Charged(w, cutoff)) : Charged(w, cutoff)[i] = w[k + i]
                           /\ \A i \in 1..k : w[i].time < cutoff
<1> DEFINE live == {i \in DOMAIN w : w[i].time >= cutoff}
<1>3. \A i \in 1..Len(w) : i \notin live => w[i].time < cutoff
  <2>1. \A e \in Entries : e.time \in Nat
    BY DEF Entries
  <2> QED
    BY <2>1
<1>1. CASE live = {}
  <2>1. Charged(w, cutoff) = <<>> /\ Len(w) \in Nat
    BY <1>1 DEF Charged
  <2> DEFINE v == Charged(w, cutoff)
  <2>2. v \in Seq(Entries) /\ Len(v) = 0 /\ Len(w) = Len(w) + Len(v) /\ 1..Len(v) = {}
    BY <2>1
  <2> HIDE DEF v
  <2>4. \A i \in 1..Len(w) : w[i].time < cutoff
    BY <1>1, <1>3
  <2>3. \E k \in Nat : /\ Len(w) = k + Len(v) /\ \A i \in 1..Len(v) : v[i] = w[k + i]
                      /\ \A i \in 1..k : w[i].time < cutoff
    BY <2>1, <2>2, <2>4
  <2> QED
    BY <2>2, <2>3 DEF v
<1>2. CASE live # {}
  <2> DEFINE m == Min(live)
  <2>1. live \in SUBSET Nat
    OBVIOUS
  <2>2. m \in live /\ \A i \in live : m <= i
    <3> HIDE DEF live
    <3> QED
      BY <1>2, <2>1, LeastNumber
  <2>9. \A i \in 1..(m - 1) : i \in 1..Len(w) /\ i \notin live
    <3>1. m \in Nat /\ m <= Len(w)
      BY <2>2
    <3> HIDE DEF m, live
    <3> QED
      BY <2>2, <3>1
  <2>6. Charged(w, cutoff) = SubSeq(w, m, Len(w))
    BY <1>2 DEF Charged
  <2> HIDE DEF m
  <2>3. m \in 1..Len(w)
    BY <2>2
  <2> DEFINE v == Charged(w, cutoff)
  <2>4. /\ SubSeq(w, m, Len(w)) \in Seq(Entries) /\ Len(SubSeq(w, m, Len(w))) = Len(w) - m + 1
        /\ \A i \in 1..(Len(w) - m + 1) : SubSeq(w, m, Len(w))[i] = w[m + i - 1]
    BY <2>3
  <2>5. m - 1 \in Nat /\ Len(w) = (m - 1) + (Len(w) - m + 1)
        /\ \A i \in 1..(Len(w) - m + 1) : m + i - 1 = (m - 1) + i
    BY <2>3
  <2> HIDE DEF v
  <2>7. Len(w) = (m - 1) + Len(v) /\ \A i \in 1..Len(v) : v[i] = w[(m - 1) + i]
    BY <2>4, <2>5, <2>6 DEF v
  <2>10. \A i \in 1..(m - 1) : w[i].time < cutoff
    BY <1>3, <2>9
  <2>8. /\ v \in Seq(Entries)
        /\ \E k \in Nat : /\ Len(w) = k + Len(v) /\ \A i \in 1..Len(v) : v[i] = w[k + i]
                         /\ \A i \in 1..k : w[i].time < cutoff
    BY <2>4, <2>5, <2>6, <2>7, <2>10 DEF v
  <2> QED
    BY <2>8 DEF v
<1> QED
  BY <1>1, <1>2

LEMMA PaidIs ==
  ASSUME NEW w \in Seq(Entries), NEW cutoff \in Int
  PROVE  /\ Paid(w, cutoff) \in Seq(Entries) /\ Len(Paid(w, cutoff)) = Len(w)
         /\ \A i \in 1..Len(w) :
              Total(Paid(w, cutoff)[i].usage) =
                IF w[i].hit \/ w[i].time < cutoff THEN 0 ELSE Total(w[i].usage)
<1> DEFINE P(e) == IF e.hit \/ e.time < cutoff THEN [e EXCEPT !.usage = NoUsage] ELSE e
<1>1. \A e \in Entries :
        /\ P(e) \in Entries
        /\ Total(P(e).usage) = IF e.hit \/ e.time < cutoff THEN 0 ELSE Total(e.usage)
  <2> TAKE e \in Entries
  <2>1. NoUsage \in Usages /\ Total(NoUsage) = 0
    BY DEF NoUsage, Usages, Total
  <2>2. [e EXCEPT !.usage = NoUsage] \in Entries /\ [e EXCEPT !.usage = NoUsage].usage = NoUsage
    BY <2>1 DEF Entries
  <2> QED
    BY <2>1, <2>2
<1>2. Paid(w, cutoff) = [i \in 1..Len(w) |-> P(w[i])]
  BY DEF Paid
<1> HIDE DEF P
<1>3. \A i \in 1..Len(w) : P(w[i]) \in Entries
  BY <1>1
<1>4. Paid(w, cutoff) \in Seq(Entries) /\ Len(Paid(w, cutoff)) = Len(w)
      /\ \A i \in 1..Len(w) : Paid(w, cutoff)[i] = P(w[i])
  BY <1>2, <1>3
<1> QED
  BY <1>1, <1>4

\* What is paid of a window grows neither with time nor when it is pruned.
LEMMA PaidFewer ==
  ASSUME NEW v \in Seq(Entries), NEW w \in Seq(Entries), NEW k \in Nat, Len(w) = k + Len(v),
         \A i \in 1..Len(v) : v[i] = w[k + i],
         NEW before \in Int, NEW after \in Int, before <= after
  PROVE  Tokens(Paid(v, after)) <= Tokens(Paid(w, before))
<1> DEFINE a == Paid(v, after)
           b == Paid(w, before)
<1>1. /\ a \in Seq(Entries) /\ Len(a) = Len(v)
      /\ \A i \in 1..Len(v) :
           Total(a[i].usage) = IF v[i].hit \/ v[i].time < after THEN 0 ELSE Total(v[i].usage)
  BY PaidIs
<1>2. /\ b \in Seq(Entries) /\ Len(b) = Len(w)
      /\ \A i \in 1..Len(w) :
           Total(b[i].usage) = IF w[i].hit \/ w[i].time < before THEN 0 ELSE Total(w[i].usage)
  BY PaidIs
<1> HIDE DEF a, b
<1>3. ASSUME NEW i \in 1..Len(v) PROVE Total(a[i].usage) <= Total(b[k + i].usage)
  <2>1. k + i \in 1..Len(w) /\ v[i] = w[k + i] /\ w[k + i] \in Entries
    BY <1>1, <1>2
  <2>2. w[k + i].time \in Nat /\ w[k + i].usage \in Usages
    BY <2>1 DEF Entries
  <2>3. Total(w[k + i].usage) \in Nat
    BY <2>2, AddedIs
  <2>4. /\ Total(a[i].usage) =
             IF w[k + i].hit \/ w[k + i].time < after THEN 0 ELSE Total(w[k + i].usage)
        /\ Total(b[k + i].usage) =
             IF w[k + i].hit \/ w[k + i].time < before THEN 0 ELSE Total(w[k + i].usage)
    BY <1>1, <1>2, <2>1
  <2> DEFINE t == w[k + i].time
             u == Total(w[k + i].usage)
             h == w[k + i].hit
  <2>5. t \in Nat /\ u \in Nat /\ (t < before => t < after)
    BY <2>2, <2>3
  <2> HIDE DEF t, u, h
  <2>6. (IF h \/ t < after THEN 0 ELSE u) <= (IF h \/ t < before THEN 0 ELSE u)
    BY <2>5
  <2> QED
    BY <2>4, <2>6 DEF t, u, h
<1>4. Tokens(a) <= Tokens(b)
  <2>1. Len(b) = k + Len(a) /\ \A i \in 1..Len(a) : Total(a[i].usage) <= Total(b[k + i].usage)
    BY <1>1, <1>2, <1>3
  <2> QED
    BY <1>1, <1>2, <2>1, TokensFewer
<1> QED
  BY <1>4 DEF a, b

\* What is paid is part of what is charged.
LEMMA PaidInCharged ==
  ASSUME NEW w \in Seq(Entries), NEW cutoff \in Int
  PROVE  Tokens(Paid(w, cutoff)) <= Tokens(w)
<1> DEFINE a == Paid(w, cutoff)
<1>1. /\ a \in Seq(Entries) /\ Len(a) = Len(w)
      /\ \A i \in 1..Len(w) :
           Total(a[i].usage) = IF w[i].hit \/ w[i].time < cutoff THEN 0 ELSE Total(w[i].usage)
  BY PaidIs
<1> HIDE DEF a
<1>2. ASSUME NEW i \in 1..Len(a) PROVE Total(a[i].usage) <= Total(w[0 + i].usage)
  <2>1. 0 + i = i /\ i \in 1..Len(w) /\ w[i] \in Entries
    BY <1>1
  <2>2. w[i].usage \in Usages
    BY <2>1 DEF Entries
  <2>3. Total(w[i].usage) \in Nat
    BY <2>2, AddedIs
  <2> QED
    BY <1>1, <2>1, <2>3
<1>3. Len(w) = 0 + Len(a)
  BY <1>1
<1>4. Tokens(a) <= Tokens(w)
  BY <1>1, <1>2, <1>3, TokensFewer
<1> QED
  BY <1>4 DEF a

\* A new entry is paid unless a hit made it or it is old.
LEMMA PaidMore ==
  ASSUME NEW w \in Seq(Entries), NEW e \in Entries, NEW cutoff \in Int
  PROVE  /\ Tokens(Paid(Append(w, e), cutoff))
              = Tokens(Paid(w, cutoff))
                + (IF e.hit \/ e.time < cutoff THEN 0 ELSE Total(e.usage))
         /\ Tokens(Paid(Append(w, e), cutoff))
              <= Tokens(Paid(w, cutoff)) + (IF e.hit THEN 0 ELSE Total(e.usage))
<1> DEFINE P(x) == IF x.hit \/ x.time < cutoff THEN [x EXCEPT !.usage = NoUsage] ELSE x
           t == Append(w, e)
<1>1. t \in Seq(Entries) /\ Len(t) = Len(w) + 1 /\ t[Len(w) + 1] = e /\ Len(w) \in Nat
      /\ \A i \in 1..Len(w) : t[i] = w[i]
  OBVIOUS
<1> HIDE DEF t
<1>2. /\ Paid(t, cutoff) = [i \in 1..Len(t) |-> P(t[i])]
      /\ Paid(w, cutoff) = [i \in 1..Len(w) |-> P(w[i])]
  BY <1>1 DEF Paid
<1>3. /\ P(e) \in Entries
      /\ Total(P(e).usage) = IF e.hit \/ e.time < cutoff THEN 0 ELSE Total(e.usage)
      /\ Total(P(e).usage) <= IF e.hit THEN 0 ELSE Total(e.usage)
  <2>1. NoUsage \in Usages /\ Total(NoUsage) = 0 /\ Total(e.usage) \in Nat
    BY AddedIs DEF Entries, NoUsage, Usages, Total
  <2>2. [e EXCEPT !.usage = NoUsage] \in Entries /\ [e EXCEPT !.usage = NoUsage].usage = NoUsage
    BY <2>1 DEF Entries
  <2> QED
    BY <2>1, <2>2
<1> HIDE DEF P
<1> DEFINE a == Paid(w, cutoff)
           b == Paid(t, cutoff)
<1>4. a \in Seq(Entries) /\ Len(a) = Len(w) /\ b \in Seq(Entries) /\ Len(b) = Len(t)
  BY <1>1, PaidIs
<1>5. (\A i \in 1..Len(t) : b[i] = P(t[i])) /\ \A i \in 1..Len(w) : a[i] = P(w[i])
  BY <1>2
<1> HIDE DEF a, b
<1>6. b = Append(a, P(e))
  <2>1. Append(a, P(e)) \in Seq(Entries) /\ Len(Append(a, P(e))) = Len(b)
    BY <1>1, <1>3, <1>4
  <2>2. \A i \in 1..Len(b) : Append(a, P(e))[i] = b[i]
    BY <1>1, <1>3, <1>4, <1>5
  <2> QED
    BY <1>4, <2>1, <2>2, SeqEqual
<1>7. Tokens(b) = Tokens(a) + Total(P(e).usage) /\ Tokens(a) \in Nat
  BY <1>3, <1>4, <1>6, TokensMore, TokensAre
<1>8. P(e).usage \in Usages /\ e.usage \in Usages
  BY <1>3 DEF Entries
<1>9. Total(P(e).usage) \in Nat /\ Total(e.usage) \in Nat
  BY <1>8, AddedIs
<1> QED
  BY <1>3, <1>7, <1>9 DEF a, b, t

\* The estimates, and what a reply can cost.
LEMMA LeastIs ==
  LeastEstimate \in Nat /\ \A p \in Prompts : Estimate[p] \in Nat /\ LeastEstimate <= Estimate[p]
<1> DEFINE S == {Estimate[p] : p \in Prompts}
<1>1. /\ \A p \in Prompts : Estimate[p] \in Nat
      /\ S \in SUBSET Nat /\ S # {}
  BY GovernedAssumption, UsageAssumption DEF GovernedAssumption, UsageAssumption
<1>2. Min(S) \in S /\ \A i \in S : Min(S) <= i
  <2> HIDE DEF S
  <2> QED
    BY <1>1, LeastNumber
<1>3. \E n \in S : \A p \in Prompts : n <= Estimate[p]
  BY <1>2
<1>4. LeastEstimate \in S /\ \A p \in Prompts : LeastEstimate <= Estimate[p]
  BY <1>3 DEF LeastEstimate
<1> QED
  BY <1>1, <1>4

LEMMA DearestIs ==
  /\ DearestReply \in Nat
  /\ \A p \in Prompts : Estimate[p] <= DearestReply
  /\ \A u \in ReplyUsages : u # NoReport => u \in Usages /\ Total(u) <= DearestReply
<1> DEFINE R == ReplyUsages \ {NoReport}
           A == {Total(u) : u \in R}
           B == {Estimate[p] : p \in Prompts}
           T == A \cup B
<1>1. /\ Estimate \in [Prompts -> Nat] /\ IsFiniteSet(Prompts) /\ Prompts # {}
      /\ IsFiniteSet(ReplyUsages) /\ R \subseteq Usages
  BY GovernedAssumption, UsageAssumption DEF GovernedAssumption, UsageAssumption
<1>2. IsFiniteSet(A)
  <2>1. IsFiniteSet(R)
    <3>1. R \in SUBSET ReplyUsages
      OBVIOUS
    <3> QED
      BY <1>1, <3>1, FS_Subset
  <2>2. [u \in R |-> Total(u)] \in Surjection(R, A)
    BY DEF Surjection
  <2> HIDE DEF R, A
  <2> QED
    BY <2>1, <2>2, FS_Surjection
<1>3. IsFiniteSet(B)
  <2>1. [p \in Prompts |-> Estimate[p]] \in Surjection(Prompts, B)
    BY DEF Surjection
  <2> HIDE DEF B
  <2> QED
    BY <1>1, <2>1, FS_Surjection
<1>4. IsFiniteSet(T)
  <2> HIDE DEF A, B
  <2> QED
    BY <1>2, <1>3, FS_Union
<1>5. T \in SUBSET Nat /\ T # {}
  <2>1. \A u \in R : Total(u) \in Nat
    BY <1>1, AddedIs
  <2> QED
    BY <1>1, <2>1
<1>6. \E n \in T : \A t \in T : t <= n
  <2> HIDE DEF T
  <2> QED
    BY <1>4, <1>5, GreatestNumber
<1>7. DearestReply = CHOOSE n \in T : \A t \in T : t <= n
  BY DEF DearestReply
<1>8. DearestReply \in T /\ \A t \in T : t <= DearestReply
  <2> HIDE DEF T
  <2> QED
    BY <1>6, <1>7
<1>9. \A u \in ReplyUsages : u # NoReport => u \in Usages /\ Total(u) \in T
  BY <1>1
<1>10. \A p \in Prompts : Estimate[p] \in T
  OBVIOUS
<1> HIDE DEF T
<1> QED
  BY <1>5, <1>8, <1>9, <1>10

\* A call that may still be charged for what it costs in scope s.
Busy(q, s) == /\ q.stage \in {"provider", "charge"} /\ q.scope = s
              /\ q.stage = "charge" => ~q.hit
UnderWay(s) == {c \in Calls : Busy(calls[c], s)}

PaidTokens(s) == Tokens(Paid(WindowOf(budget, s), now - BudgetWindow))

\* Each call that is not under way leaves room for what it may cost.
Room(s) == MaxTotal - LeastEstimate + Cardinality(Calls \ UnderWay(s)) * DearestReply

BudgetIInv ==
  /\ GovernedIInv
  /\ budget \in Seq(Slots(Scopes, Entries)) /\ Apart(budget)
  /\ \A c \in Calls : calls[c].stage = "charge" => calls[c].estimate <= DearestReply
  /\ MaxTotal # Unlimited => \A s \in Scopes : PaidTokens(s) <= Room(s)

LEMMA Products ==
  ASSUME NEW n \in Nat, NEW m \in Nat, NEW d \in Nat
  PROVE  n * d \in Nat /\ (n + 1) * d = n * d + d /\ (n <= m => n * d <= m * d)
<1>1. n * d \in Nat /\ (n + 1) * d = n * d + d
  OBVIOUS
<1>2. ASSUME n <= m PROVE n * d <= m * d
  <2> DEFINE k == m - n
  <2>1. k \in Nat /\ m = n + k
    BY <1>2
  <2> HIDE DEF k
  <2>2. m * d = n * d + k * d /\ k * d \in Nat
    BY <2>1
  <2> QED
    BY <1>1, <2>2
<1> QED
  BY <1>1, <1>2

\* More calls with nothing under way, more room.
LEMMA RoomFor ==
  ASSUME NEW A \in SUBSET Calls, NEW B \in SUBSET Calls, A \subseteq B
  PROVE  /\ Cardinality(A) * DearestReply <= Cardinality(B) * DearestReply
         /\ Cardinality(A) * DearestReply \in Nat
         /\ \A c \in B \ A : Cardinality(A) * DearestReply + DearestReply
                               <= Cardinality(B) * DearestReply
<1>1. IsFiniteSet(A) /\ IsFiniteSet(B)
  BY UsageAssumption, FS_Subset DEF UsageAssumption
<1>2. Cardinality(A) \in Nat /\ Cardinality(B) \in Nat /\ Cardinality(A) <= Cardinality(B)
  BY <1>1, FS_CardinalityType, FS_Subset
<1>3. DearestReply \in Nat
  BY DearestIs
<1>4. ASSUME NEW c \in B \ A
      PROVE  Cardinality(A) * DearestReply + DearestReply <= Cardinality(B) * DearestReply
  <2> DEFINE C == A \cup {c}
  <2>1. IsFiniteSet(C) /\ Cardinality(C) = Cardinality(A) + 1
    BY <1>1, <1>4, FS_AddElement
  <2>2. C \in SUBSET B
    BY <1>4
  <2> HIDE DEF C
  <2>3. Cardinality(C) <= Cardinality(B)
    BY <1>1, <2>2, FS_Subset
  <2>4. (Cardinality(A) + 1) * DearestReply <= Cardinality(B) * DearestReply
        /\ (Cardinality(A) + 1) * DearestReply = Cardinality(A) * DearestReply + DearestReply
    BY <1>2, <1>3, <2>1, <2>3, Products
  <2> QED
    BY <2>4
<1> QED
  BY <1>2, <1>3, <1>4, Products

LEMMA BudgetInitially == Init => BudgetIInv
<1> SUFFICES ASSUME Init PROVE BudgetIInv
  OBVIOUS
<1>1. GovernedIInv
  BY GovernedInitially
<1>2. /\ budget \in Seq(Slots(Scopes, Entries)) /\ Apart(budget)
      /\ \A c \in Calls : calls[c] = NoCall
  BY DEF Init, Apart
<1>3. ASSUME NEW s \in Scopes, MaxTotal # Unlimited PROVE PaidTokens(s) <= Room(s)
  <2>1. WindowOf(budget, s) = <<>> /\ now - BudgetWindow \in Int
    BY BudgetAssumption DEF Init, WindowOf, Ids, BudgetAssumption
  <2>2. Tokens(<<>>) = 0 /\ Paid(<<>>, now - BudgetWindow) = <<>>
    <3>1. <<>> \in Seq(Entries) /\ Len(<<>>) = 0
      OBVIOUS
    <3>2. Paid(<<>>, now - BudgetWindow) \in Seq(Entries)
          /\ Len(Paid(<<>>, now - BudgetWindow)) = 0
      BY <2>1, <3>1, PaidIs
    <3>3. SumOf(<<>>)[0] = NoUsage
      BY <3>1, SumIs
    <3>4. Tokens(<<>>) = Total(NoUsage)
      BY <3>1, <3>3, TokensAre
    <3> QED
      BY <3>2, <3>4, EmptySeq DEF Total, NoUsage
  <2>3. UnderWay(s) = {}
    BY <1>2 DEF UnderWay, Busy, NoCall
  <2>4. PICK c \in Calls : TRUE
    BY UsageAssumption DEF UsageAssumption
  <2>5. PICK p \in Prompts : TRUE
    BY UsageAssumption DEF UsageAssumption
  <2>6. Cardinality({}) * DearestReply + DearestReply <= Cardinality(Calls) * DearestReply
        /\ Cardinality({}) * DearestReply \in Nat
    <3>1. {} \in SUBSET Calls /\ Calls \in SUBSET Calls /\ c \in Calls \ {}
      OBVIOUS
    <3> QED
      BY <3>1, RoomFor
  <2>7. /\ LeastEstimate \in Nat /\ LeastEstimate <= DearestReply /\ DearestReply \in Nat
        /\ MaxTotal \in Nat
    <3>1. LeastEstimate <= Estimate[p] /\ Estimate[p] <= DearestReply /\ Estimate[p] \in Nat
          /\ LeastEstimate \in Nat /\ DearestReply \in Nat
      BY LeastIs, DearestIs
    <3> QED
      BY <1>3, <3>1, UsageAssumption DEF UsageAssumption
  <2>8. PaidTokens(s) = 0 /\ Calls \ UnderWay(s) = Calls
    BY <2>1, <2>2, <2>3 DEF PaidTokens
  <2>9. Cardinality(Calls) * DearestReply \in Nat
    BY RoomFor
  <2> DEFINE x == Cardinality({}) * DearestReply
             y == Cardinality(Calls) * DearestReply
  <2>10. x \in Nat /\ y \in Nat /\ x + DearestReply <= y
    BY <2>6, <2>9
  <2>11. Room(s) = MaxTotal - LeastEstimate + y
    BY <2>8 DEF Room
  <2> HIDE DEF x, y
  <2> QED
    BY <2>7, <2>8, <2>10, <2>11
<1>4. \A c \in Calls : calls[c].stage = "charge" => calls[c].estimate <= DearestReply
  BY <1>2 DEF NoCall
<1> QED
  BY <1>1, <1>2, <1>3, <1>4 DEF BudgetIInv

\* Less paid or as much, and no other call under way.
LEMMA StillBounded ==
  ASSUME NEW s \in Scopes, MaxTotal # Unlimited, PaidTokens(s) <= Room(s),
         PaidTokens(s) \in Nat, PaidTokens(s)' \in Nat, PaidTokens(s)' <= PaidTokens(s),
         \A c \in Calls : Busy(calls'[c], s) => Busy(calls[c], s)
  PROVE  PaidTokens(s)' <= Room(s)'
<1> DEFINE A == Calls \ UnderWay(s)
           B == Calls \ UnderWay(s)'
           x == Cardinality(A) * DearestReply
           y == Cardinality(B) * DearestReply
<1>1. A \in SUBSET Calls /\ B \in SUBSET Calls /\ A \subseteq B
  BY DEF UnderWay
<1> HIDE DEF A, B
<1>2. x <= y /\ x \in Nat /\ y \in Nat
  BY <1>1, RoomFor
<1> HIDE DEF x, y
<1>3. Room(s) = MaxTotal - LeastEstimate + x /\ Room(s)' = MaxTotal - LeastEstimate + y
  BY DEF Room, x, y, A, B
<1>4. MaxTotal \in Nat /\ LeastEstimate \in Nat
  BY UsageAssumption, LeastIs DEF UsageAssumption
<1> DEFINE p == PaidTokens(s)
           r == PaidTokens(s)'
<1>5. p \in Nat /\ r \in Nat /\ r <= p /\ p <= MaxTotal - LeastEstimate + x
  BY <1>3
<1> HIDE DEF p, r
<1>6. r <= MaxTotal - LeastEstimate + y
  BY <1>2, <1>4, <1>5
<1> QED
  BY <1>3, <1>6 DEF r

LEMMA PaidType ==
  ASSUME NEW store \in Seq(Slots(Scopes, Entries)), NEW s, NEW time \in Nat
  PROVE  /\ WindowOf(store, s) \in Seq(Entries) /\ time - BudgetWindow \in Int
         /\ Tokens(Paid(WindowOf(store, s), time - BudgetWindow)) \in Nat
<1>1. WindowOf(store, s) \in Seq(Entries)
  BY WindowType
<1>2. time - BudgetWindow \in Int
  BY BudgetAssumption DEF BudgetAssumption
<1>3. Paid(WindowOf(store, s), time - BudgetWindow) \in Seq(Entries)
  BY <1>1, <1>2, PaidIs
<1> QED
  BY <1>1, <1>2, <1>3, TokensAre

\* An evicted, a kept and a pruned window.
LEMMA LessPaid ==
  ASSUME NEW w \in Seq(Entries), NEW before \in Int, NEW after \in Int, before <= after
  PROVE  /\ \A v \in {<<>>, w} : Tokens(Paid(v, after)) <= Tokens(Paid(w, before))
         /\ Tokens(Paid(Charged(w, after), after)) <= Tokens(Paid(w, before))
<1>1. ASSUME NEW v \in Seq(Entries), NEW k \in Nat, Len(w) = k + Len(v),
             \A i \in 1..Len(v) : v[i] = w[k + i]
      PROVE  Tokens(Paid(v, after)) <= Tokens(Paid(w, before))
  BY <1>1, PaidFewer
<1>2. Tokens(Paid(w, after)) <= Tokens(Paid(w, before))
  <2>1. 0 \in Nat /\ Len(w) = 0 + Len(w) /\ \A i \in 1..Len(w) : w[i] = w[0 + i]
    OBVIOUS
  <2> QED
    BY <1>1, <2>1
<1>3. Tokens(Paid(<<>>, after)) <= Tokens(Paid(w, before))
  <2> DEFINE v == <<>>
  <2>1. /\ v \in Seq(Entries) /\ Len(w) \in Nat /\ Len(w) = Len(w) + Len(v)
        /\ \A i \in 1..Len(v) : v[i] = w[Len(w) + i]
    OBVIOUS
  <2> HIDE DEF v
  <2>2. Tokens(Paid(v, after)) <= Tokens(Paid(w, before))
    BY <1>1, <2>1
  <2> QED
    BY <2>2 DEF v
<1>4. Tokens(Paid(Charged(w, after), after)) <= Tokens(Paid(w, before))
  <2> DEFINE v == Charged(w, after)
  <2>1. v \in Seq(Entries) /\ \E k \in Nat : Len(w) = k + Len(v) /\ \A i \in 1..Len(v) : v[i] = w[k + i]
    BY ChargedIs
  <2> HIDE DEF v
  <2>2. Tokens(Paid(v, after)) <= Tokens(Paid(w, before))
    BY <1>1, <2>1
  <2> QED
    BY <2>2 DEF v
<1> QED
  BY <1>2, <1>3, <1>4

\* The windows after the hooks of the budget.
LEMMA CheckWindows ==
  ASSUME NEW store \in Seq(Slots(Scopes, Entries)), Apart(store), NEW scope \in Scopes,
         NEW time \in Nat, NEW estimate \in Nat
  PROVE  LET check == BudgetCheck(store, scope, estimate, time)
             v == Charged(WindowOf(store, scope), time - BudgetWindow)
         IN /\ check.store \in Seq(Slots(Scopes, Entries)) /\ Apart(check.store)
            /\ WindowOf(check.store, scope) = v
            /\ \A s : s # scope => WindowOf(check.store, s) \in {<<>>, WindowOf(store, s)}
            /\ \A s \in Ids(check.store) : s # scope => WindowOf(check.store, s) = WindowOf(store, s)
            /\ check.admitted /\ MaxTotal # Unlimited => ~(Tokens(v) + estimate > MaxTotal)
<1> DEFINE check == BudgetCheck(store, scope, estimate, time)
           w == WindowOf(store, scope)
           v == Charged(w, time - BudgetWindow)
           used == GetWindow(store, scope, MaxScopes)
           after == SetWindow(used, scope, v)
<1>1. w \in Seq(Entries) /\ time - BudgetWindow \in Int
  BY PaidType
<1>2. v \in Seq(Entries)
  <2> HIDE DEF w
  <2> QED
    BY <1>1, ChargedIs
<1> HIDE DEF v
<1>3. MaxScopes \in Nat \ {0}
  BY BudgetAssumption DEF BudgetAssumption
<1>4. /\ WindowOf(used, scope) = w
      /\ after \in Seq(Slots(Scopes, Entries)) /\ Apart(after)
      /\ WindowOf(after, scope) = v
      /\ \A s : s # scope => WindowOf(after, s) \in {<<>>, WindowOf(store, s)}
      /\ \A s \in Ids(after) : s # scope => WindowOf(after, s) = WindowOf(store, s)
  BY <1>2, <1>3, WindowsAfter
<1>5. /\ check.store = after
      /\ check.admitted = ~Exceeded(TotalUsage(v), estimate)
  <2> HIDE DEF used, w
  <2> QED
    BY <1>4 DEF BudgetCheck, v, used
<1>6. check.admitted /\ MaxTotal # Unlimited => ~(Tokens(v) + estimate > MaxTotal)
  <2> HIDE DEF check
  <2> QED
    BY <1>5 DEF Exceeded, Above, Tokens
<1> HIDE DEF check, after
<1> QED
  BY <1>4, <1>5, <1>6 DEF check, v

LEMMA ChargeWindows ==
  ASSUME NEW store \in Seq(Slots(Scopes, Entries)), Apart(store), NEW scope \in Scopes,
         NEW time \in Nat, NEW usage \in Usages, NEW hit \in BOOLEAN
  PROVE  LET after == BudgetCharge(store, scope, usage, hit, time)
             v == Charged(WindowOf(store, scope), time - BudgetWindow)
         IN /\ after \in Seq(Slots(Scopes, Entries)) /\ Apart(after)
            /\ WindowOf(after, scope) =
                 IF IsFree(usage) THEN WindowOf(store, scope)
                 ELSE Append(v, [time |-> time, usage |-> usage, hit |-> hit])
            /\ \A s : s # scope => WindowOf(after, s) \in {<<>>, WindowOf(store, s)}
            /\ \A s \in Ids(after) : s # scope => WindowOf(after, s) = WindowOf(store, s)
<1> DEFINE w == WindowOf(store, scope)
           v == Charged(w, time - BudgetWindow)
           e == [time |-> time, usage |-> usage, hit |-> hit]
           x == Append(v, e)
           used == GetWindow(store, scope, MaxScopes)
           after == SetWindow(used, scope, x)
           result == BudgetCharge(store, scope, usage, hit, time)
<1>1. w \in Seq(Entries) /\ time - BudgetWindow \in Int
  BY PaidType
<1>2. v \in Seq(Entries)
  <2> HIDE DEF w
  <2> QED
    BY <1>1, ChargedIs
<1>7. e \in Entries
  BY DEF Entries
<1> HIDE DEF v, e
<1>8. x \in Seq(Entries)
  BY <1>2, <1>7
<1> HIDE DEF x
<1>3. MaxScopes \in Nat \ {0}
  BY BudgetAssumption DEF BudgetAssumption
<1>4. /\ WindowOf(used, scope) = w
      /\ after \in Seq(Slots(Scopes, Entries)) /\ Apart(after)
      /\ WindowOf(after, scope) = x
      /\ \A s : s # scope => WindowOf(after, s) \in {<<>>, WindowOf(store, s)}
      /\ \A s \in Ids(after) : s # scope => WindowOf(after, s) = WindowOf(store, s)
  BY <1>3, <1>8, WindowsAfter
<1>5. result = IF IsFree(usage) THEN store ELSE after
  <2> HIDE DEF used, w
  <2> QED
    BY <1>4 DEF BudgetCharge, v, used, x, e
<1> HIDE DEF result, after, w
<1>6. CASE IsFree(usage)
  BY <1>5, <1>6 DEF result, w, v, x, e
<1>9. CASE ~IsFree(usage)
  BY <1>4, <1>5, <1>9 DEF result, w, v, x, e
<1> QED
  BY <1>5, <1>6, <1>9

\* Steps that leave the windows alone.
LEMMA QuietStep ==
  ASSUME BudgetIInv, GovernedIInv', budget' = budget, now <= now',
         \A c \in Calls, s \in Scopes : Busy(calls'[c], s) => Busy(calls[c], s),
         \A c \in Calls : calls'[c].stage = "charge" => calls'[c].estimate <= DearestReply
  PROVE  BudgetIInv'
<1>1. budget \in Seq(Slots(Scopes, Entries)) /\ now \in Nat /\ now' \in Nat
  BY GovernedAssumption DEF BudgetIInv, GovernedIInv, GovernedAssumption
<1>2. ASSUME NEW s \in Scopes, MaxTotal # Unlimited PROVE PaidTokens(s)' <= Room(s)'
  <2>1. /\ WindowOf(budget, s) \in Seq(Entries)
        /\ now - BudgetWindow \in Int /\ now' - BudgetWindow \in Int
        /\ now - BudgetWindow <= now' - BudgetWindow
        /\ Tokens(Paid(WindowOf(budget, s), now - BudgetWindow)) \in Nat
        /\ Tokens(Paid(WindowOf(budget, s), now' - BudgetWindow)) \in Nat
    <3>1. \A time \in Nat : /\ WindowOf(budget, s) \in Seq(Entries) /\ time - BudgetWindow \in Int
                            /\ Tokens(Paid(WindowOf(budget, s), time - BudgetWindow)) \in Nat
      BY <1>1, PaidType
    <3>2. now - BudgetWindow <= now' - BudgetWindow
      <4>1. \A a, b, d \in Nat : a <= b => a - d <= b - d
        OBVIOUS
      <4>2. BudgetWindow \in Nat
        BY BudgetAssumption DEF BudgetAssumption
      <4> QED
        BY <1>1, <4>1, <4>2
    <3> QED
      BY <1>1, <3>1, <3>2
  <2>2. Tokens(Paid(WindowOf(budget, s), now' - BudgetWindow))
          <= Tokens(Paid(WindowOf(budget, s), now - BudgetWindow))
    BY <2>1, LessPaid
  <2>3. PaidTokens(s) \in Nat /\ PaidTokens(s)' \in Nat /\ PaidTokens(s)' <= PaidTokens(s)
    BY <2>1, <2>2 DEF PaidTokens
  <2>4. PaidTokens(s) <= Room(s)
    BY <1>2 DEF BudgetIInv
  <2> QED
    BY <1>2, <2>3, <2>4, StillBounded
<1> QED
  BY <1>2 DEF BudgetIInv

\* The hooks of the budget: one call moves on, the windows are those of its scope.
LEMMA HookStep ==
  ASSUME BudgetIInv, GovernedIInv', now' = now,
         budget' \in Seq(Slots(Scopes, Entries)), Apart(budget'), NEW scope \in Scopes,
         \A s : s # scope => WindowOf(budget', s) \in {<<>>, WindowOf(budget, s)},
         \A c \in Calls, s \in Scopes : s # scope => (Busy(calls'[c], s) => Busy(calls[c], s)),
         \A c \in Calls : calls'[c].stage = "charge" => calls'[c].estimate <= DearestReply,
         MaxTotal # Unlimited => PaidTokens(scope)' <= Room(scope)'
  PROVE  BudgetIInv'
<1>1. budget \in Seq(Slots(Scopes, Entries)) /\ now \in Nat
  BY GovernedAssumption DEF BudgetIInv, GovernedIInv, GovernedAssumption
<1>2. ASSUME NEW s \in Scopes, MaxTotal # Unlimited, s # scope PROVE PaidTokens(s)' <= Room(s)'
  <2>1. /\ WindowOf(budget, s) \in Seq(Entries) /\ WindowOf(budget', s) \in {<<>>, WindowOf(budget, s)}
        /\ now - BudgetWindow \in Int /\ now - BudgetWindow <= now - BudgetWindow
        /\ Tokens(Paid(WindowOf(budget, s), now - BudgetWindow)) \in Nat
        /\ Tokens(Paid(WindowOf(budget', s), now - BudgetWindow)) \in Nat
    BY <1>1, <1>2, PaidType, BudgetAssumption DEF BudgetAssumption
  <2>2. Tokens(Paid(WindowOf(budget', s), now - BudgetWindow))
          <= Tokens(Paid(WindowOf(budget, s), now - BudgetWindow))
    BY <2>1, LessPaid
  <2>3. PaidTokens(s) \in Nat /\ PaidTokens(s)' \in Nat /\ PaidTokens(s)' <= PaidTokens(s)
    BY <2>1, <2>2 DEF PaidTokens
  <2>4. PaidTokens(s) <= Room(s)
    BY <1>2 DEF BudgetIInv
  <2>5. \A c \in Calls : Busy(calls'[c], s) => Busy(calls[c], s)
    BY <1>2
  <2> QED
    BY <1>2, <2>3, <2>4, <2>5, StillBounded
<1>3. MaxTotal # Unlimited => \A s \in Scopes : PaidTokens(s)' <= Room(s)'
  BY <1>2
<1> QED
  BY <1>3 DEF BudgetIInv

LEMMA PassStep ==
  ASSUME BudgetIInv, GovernedIInv', NEW c \in Calls, PassBudget(c)
  PROVE  BudgetIInv'
<1> DEFINE q == calls[c]
<1>12. q \in CallRecords /\ q.stage = "budget"
  BY DEF BudgetIInv, GovernedIInv, PassBudget
<1>13. q.scope \in Scopes
  BY <1>12, CallShapes
<1>14. PICK scope \in Scopes : q.scope = scope
  BY <1>13
<1> DEFINE check == BudgetCheck(budget, scope, Estimate[q.prompt], now)
           w == WindowOf(budget, scope)
           v == Charged(w, now - BudgetWindow)
           r == IF check.admitted THEN [q EXCEPT !.stage = "provider"] ELSE NoCall
<1>1. /\ q \in CallRecords /\ q.stage = "budget" /\ calls \in [Calls -> CallRecords]
      /\ budget' = check.store /\ now' = now /\ now \in Nat
      /\ calls' = [calls EXCEPT ![c] = r]
      /\ budget \in Seq(Slots(Scopes, Entries)) /\ Apart(budget)
  BY <1>12, <1>14, GovernedAssumption DEF BudgetIInv, GovernedIInv, PassBudget, GovernedAssumption
<1>2. /\ q \in [stage : {"budget", "provider"}, scope : Scopes, prompt : Prompts]
      /\ q.scope = scope /\ q.prompt \in Prompts
  BY <1>1, <1>14, CallShapes
<1>3. Estimate[q.prompt] \in Nat /\ LeastEstimate <= Estimate[q.prompt] /\ LeastEstimate \in Nat
  BY <1>2, LeastIs
<1>4. /\ check.store \in Seq(Slots(Scopes, Entries)) /\ Apart(check.store)
      /\ WindowOf(check.store, scope) = v
      /\ \A s : s # scope => WindowOf(check.store, s) \in {<<>>, WindowOf(budget, s)}
      /\ check.admitted /\ MaxTotal # Unlimited => ~(Tokens(v) + Estimate[q.prompt] > MaxTotal)
  <2> HIDE DEF q
  <2> QED
    BY <1>1, <1>2, <1>3, CheckWindows
<1>5. /\ r.stage = "provider" /\ r.scope = scope /\ check.admitted
      \/ r = NoCall
  BY <1>2
<1>6. \A d \in Calls : calls'[d] = IF d = c THEN r ELSE calls[d]
  BY <1>1
<1>7. \A s \in Scopes : s # scope \/ r = NoCall => ~Busy(r, s)
  <2> HIDE DEF r
  <2> QED
    BY <1>5 DEF Busy, NoCall
<1>8. \A d \in Calls : calls'[d].stage = "charge" => calls'[d].estimate <= DearestReply
  <2> HIDE DEF r
  <2> QED
    BY <1>5, <1>6 DEF NoCall, BudgetIInv
<1>9. w \in Seq(Entries) /\ now - BudgetWindow \in Int
      /\ Tokens(Paid(w, now - BudgetWindow)) \in Nat
      /\ WindowOf(budget', scope) = v
      /\ v \in Seq(Entries) /\ Tokens(Paid(v, now - BudgetWindow)) \in Nat /\ Tokens(v) \in Nat
  <2>1. budget' \in Seq(Slots(Scopes, Entries)) /\ WindowOf(budget', scope) = v
    BY <1>1, <1>4
  <2> HIDE DEF q, check, v
  <2>2. v \in Seq(Entries)
    BY <1>1, <2>1, PaidType
  <2> QED
    BY <1>1, <2>1, <2>2, PaidType, TokensAre
<1>10. MaxTotal # Unlimited => PaidTokens(scope)' <= Room(scope)'
  <2> SUFFICES ASSUME MaxTotal # Unlimited PROVE PaidTokens(scope)' <= Room(scope)'
    OBVIOUS
  <2>1. PaidTokens(scope) <= Room(scope)
    BY <1>2 DEF BudgetIInv
  <2>2. /\ PaidTokens(scope) = Tokens(Paid(w, now - BudgetWindow))
        /\ PaidTokens(scope)' = Tokens(Paid(v, now - BudgetWindow))
    <3>1. PaidTokens(scope)' = Tokens(Paid(WindowOf(budget', scope), now' - BudgetWindow))
      BY DEF PaidTokens
    <3> QED
      BY <1>1, <1>9, <3>1 DEF PaidTokens
  <2>3. CASE r = NoCall
    <3>1. Tokens(Paid(v, now - BudgetWindow)) <= Tokens(Paid(w, now - BudgetWindow))
      <4> HIDE DEF w
      <4> QED
        BY <1>1, <1>9, LessPaid
    <3>2. \A d \in Calls : Busy(calls'[d], scope) => Busy(calls[d], scope)
      <4> HIDE DEF r
      <4> QED
        BY <1>2, <1>6, <1>7, <2>3
    <3> HIDE DEF q, check, v, w, r
    <3> QED
      BY <1>2, <1>9, <2>1, <2>2, <3>1, <3>2, StillBounded
  <2>4. CASE check.admitted
    <3>1. Tokens(Paid(v, now - BudgetWindow)) <= Tokens(v)
      <4> HIDE DEF v
      <4> QED
        BY <1>9, PaidInCharged
    <3>2. ~(Tokens(v) + Estimate[q.prompt] > MaxTotal)
      BY <1>4, <2>4
    <3>3. MaxTotal \in Nat
      BY UsageAssumption DEF UsageAssumption
    <3> DEFINE A == Calls \ UnderWay(scope)'
               y == Cardinality(A) * DearestReply
    <3>4. y \in Nat
      <4>1. A \in SUBSET Calls
        OBVIOUS
      <4> HIDE DEF A
      <4> QED
        BY <4>1, RoomFor
    <3>5. Room(scope)' = MaxTotal - LeastEstimate + y
      BY DEF Room
    <3> DEFINE a == Tokens(Paid(v, now - BudgetWindow))
               b == Tokens(v)
               est == Estimate[q.prompt]
    <3>6. a \in Nat /\ b \in Nat /\ a <= b /\ ~(b + est > MaxTotal) /\ est \in Nat
          /\ LeastEstimate <= est /\ LeastEstimate \in Nat
      BY <1>3, <1>9, <3>1, <3>2
    <3>7. PaidTokens(scope)' = a
      BY <2>2
    <3> HIDE DEF a, b, est, y, q, v, w, r, check
    <3> QED
      BY <3>3, <3>4, <3>5, <3>6, <3>7
  <2> QED
    BY <1>5, <2>3, <2>4
<1>11. \A d \in Calls, s \in Scopes : s # scope => (Busy(calls'[d], s) => Busy(calls[d], s))
  <2> HIDE DEF r
  <2> QED
    BY <1>6, <1>7
<1> HIDE DEF q, check, v, w, r
<1> QED
  BY <1>1, <1>2, <1>4, <1>8, <1>10, <1>11, HookStep

\* What a response is charged with.
LEMMA UsageOfIs ==
  ASSUME NEW q \in CallRecords, q.stage = "charge", q.estimate <= DearestReply
  PROVE  UsageOf(q) \in Usages /\ Total(UsageOf(q)) <= DearestReply /\ Total(UsageOf(q)) \in Nat
<1>1. q.reply \in Replies /\ q.estimate \in Nat
  BY CallShapes
<1>2. q.reply.usage \in ReplyUsages
  BY <1>1 DEF Replies
<1>3. CASE q.reply.usage = NoReport
  <2> DEFINE u == [prompt |-> q.estimate, completion |-> 0]
  <2>1. u \in Usages /\ Total(u) = q.estimate
    BY <1>1 DEF Usages, Total
  <2>2. UsageOf(q) = u
    BY <1>3 DEF UsageOf
  <2> HIDE DEF u
  <2> QED
    BY <1>1, <2>1, <2>2
<1>4. CASE q.reply.usage # NoReport
  <2>1. UsageOf(q) = q.reply.usage
    BY <1>4 DEF UsageOf
  <2>2. UsageOf(q) \in Usages /\ Total(UsageOf(q)) <= DearestReply
    BY <1>2, <1>4, <2>1, DearestIs
  <2> QED
    BY <2>2, AddedIs
<1> QED
  BY <1>3, <1>4

LEMMA ChargeStep ==
  ASSUME BudgetIInv, GovernedIInv', NEW c \in Calls, Charge(c)
  PROVE  BudgetIInv'
<1> DEFINE q == calls[c]
<1>1. /\ q \in CallRecords /\ q.stage = "charge" /\ q.estimate <= DearestReply
      /\ calls \in [Calls -> CallRecords] /\ now' = now /\ now \in Nat
      /\ calls' = [calls EXCEPT ![c].stage = "store"]
      /\ budget' = BudgetCharge(budget, q.scope, UsageOf(q), q.hit, now)
      /\ budget \in Seq(Slots(Scopes, Entries)) /\ Apart(budget)
  BY GovernedAssumption DEF BudgetIInv, GovernedIInv, Charge, GovernedAssumption
<1>2. q \in [stage : {"charge", "store"}, scope : Scopes, prompt : Prompts,
             by : Providers, estimate : Nat, hit : BOOLEAN, reply : Replies]
  BY <1>1, CallShapes
<1>3. q.scope \in Scopes /\ UsageOf(q) \in Usages /\ q.hit \in BOOLEAN
  BY <1>1, <1>2, UsageOfIs
<1>4. PICK scope \in Scopes, usage \in Usages, hit \in BOOLEAN :
        q.scope = scope /\ UsageOf(q) = usage /\ q.hit = hit
  BY <1>3
<1>5. Total(usage) <= DearestReply /\ Total(usage) \in Nat
  BY <1>1, <1>4, UsageOfIs
<1> DEFINE r == [q EXCEPT !.stage = "store"]
<1>6. r.stage = "store" /\ \A d \in Calls : calls'[d] = IF d = c THEN r ELSE calls[d]
  BY <1>1, <1>2
<1>7. \A d \in Calls, s \in Scopes : Busy(calls'[d], s) => Busy(calls[d], s) /\ d # c
  <2> HIDE DEF r
  <2> QED
    BY <1>6 DEF Busy
<1>8. \A d \in Calls : calls'[d].stage = "charge" => calls'[d].estimate <= DearestReply
  <2> HIDE DEF r
  <2> QED
    BY <1>6 DEF BudgetIInv
<1> DEFINE cut == now - BudgetWindow
           w == WindowOf(budget, scope)
           v == Charged(w, cut)
           e == [time |-> now, usage |-> usage, hit |-> hit]
<1>9. /\ budget' \in Seq(Slots(Scopes, Entries)) /\ Apart(budget')
      /\ WindowOf(budget', scope) \in {w, Append(v, e)}
      /\ \A s : s # scope => WindowOf(budget', s) \in {<<>>, WindowOf(budget, s)}
  <2>1. budget' = BudgetCharge(budget, scope, usage, hit, now)
    BY <1>1, <1>4
  <2> HIDE DEF q
  <2> QED
    BY <1>1, <2>1, ChargeWindows
<1>10. w \in Seq(Entries) /\ cut \in Int /\ Tokens(Paid(w, cut)) \in Nat
       /\ v \in Seq(Entries)
  <2>1. w \in Seq(Entries) /\ cut \in Int /\ Tokens(Paid(w, cut)) \in Nat
    BY <1>1, PaidType
  <2> HIDE DEF w, cut
  <2> QED
    BY <2>1, ChargedIs
<1>11. e \in Entries /\ e.usage = usage /\ e.hit = hit
  BY <1>1 DEF Entries
<1>12. MaxTotal # Unlimited => PaidTokens(scope)' <= Room(scope)'
  <2> SUFFICES ASSUME MaxTotal # Unlimited PROVE PaidTokens(scope)' <= Room(scope)'
    OBVIOUS
  <2>1. PaidTokens(scope) <= Room(scope)
    BY DEF BudgetIInv
  <2> DEFINE a == Tokens(Paid(w, cut))
             b == PaidTokens(scope)'
  <2>2. PaidTokens(scope) = a /\ a \in Nat
    BY <1>10 DEF PaidTokens
  <2>3. b = Tokens(Paid(WindowOf(budget', scope), cut)) /\ b \in Nat
    <3>1. PaidTokens(scope)' = Tokens(Paid(WindowOf(budget', scope), now' - BudgetWindow))
      BY DEF PaidTokens
    <3>2. Tokens(Paid(WindowOf(budget', scope), now - BudgetWindow)) \in Nat
      BY <1>1, <1>9, PaidType
    <3> QED
      BY <1>1, <3>1, <3>2
  <2>4. b <= a + (IF hit THEN 0 ELSE Total(usage))
    <3>1. CASE WindowOf(budget', scope) = w
      BY <1>5, <2>2, <2>3, <3>1
    <3>2. CASE WindowOf(budget', scope) = Append(v, e)
      <4>1. Tokens(Paid(Append(v, e), cut))
              <= Tokens(Paid(v, cut)) + (IF hit THEN 0 ELSE Total(usage))
        <5> HIDE DEF v, cut, e
        <5> QED
          BY <1>10, <1>11, PaidMore
      <4>2. Tokens(Paid(v, cut)) <= a /\ cut <= cut
        <5>1. cut <= cut
          BY <1>10
        <5> HIDE DEF w, cut
        <5> QED
          BY <1>10, <5>1, LessPaid
      <4>3. Tokens(Paid(v, cut)) \in Nat
        <5>1. Paid(v, cut) \in Seq(Entries)
          <6> HIDE DEF v, cut
          <6> QED
            BY <1>10, PaidIs
        <5> QED
          BY <5>1, TokensAre
      <4>4. b = Tokens(Paid(Append(v, e), cut))
        BY <2>3, <3>2
      <4>5. (IF hit THEN 0 ELSE Total(usage)) \in Nat
        BY <1>5
      <4> DEFINE x == Tokens(Paid(v, cut))
                 y == IF hit THEN 0 ELSE Total(usage)
      <4>6. x \in Nat /\ y \in Nat /\ b <= x + y /\ x <= a
        BY <4>1, <4>2, <4>3, <4>4, <4>5
      <4> HIDE DEF x, y, a, b
      <4> QED
        BY <2>2, <2>3, <4>6 DEF y
    <3> QED
      BY <1>9, <3>1, <3>2
  <2>5. CASE hit
    <3>1. b <= a
      <4> HIDE DEF a, b
      <4> QED
        BY <2>2, <2>3, <2>4, <2>5
    <3>2. \A d \in Calls : Busy(calls'[d], scope) => Busy(calls[d], scope)
      BY <1>7
    <3>3. PaidTokens(scope) \in Nat /\ PaidTokens(scope)' \in Nat
          /\ PaidTokens(scope)' <= PaidTokens(scope)
      BY <2>2, <2>3, <3>1
    <3> HIDE DEF q, w, v, e, a, b, r
    <3> QED
      BY <2>1, <3>2, <3>3, StillBounded
  <2>6. CASE ~hit
    <3> DEFINE A == Calls \ UnderWay(scope)
               B == Calls \ UnderWay(scope)'
               x == Cardinality(A) * DearestReply
               y == Cardinality(B) * DearestReply
    <3>1. A \in SUBSET Calls /\ B \in SUBSET Calls /\ A \subseteq B
      BY <1>7 DEF UnderWay
    <3>2. c \in B \ A
      <4>1. Busy(calls[c], scope) /\ ~Busy(calls'[c], scope)
        <5>1. Busy(q, scope)
          <6> HIDE DEF q
          <6> QED
            BY <1>1, <1>4, <2>6 DEF Busy
        <5>2. ~Busy(calls'[c], scope)
          BY <1>7
        <5> QED
          BY <5>1, <5>2
      <4> QED
        BY <4>1 DEF UnderWay
    <3> HIDE DEF A, B
    <3>3. x + DearestReply <= y /\ x \in Nat /\ y \in Nat
      BY <3>1, <3>2, RoomFor
    <3>4. Room(scope) = MaxTotal - LeastEstimate + x /\ Room(scope)' = MaxTotal - LeastEstimate + y
      BY DEF Room, A, B
    <3>5. MaxTotal \in Nat /\ LeastEstimate \in Nat /\ DearestReply \in Nat
      BY UsageAssumption, LeastIs, DearestIs DEF UsageAssumption
    <3> HIDE DEF x, y, a, b
    <3>6. a <= MaxTotal - LeastEstimate + x
      BY <2>1, <2>2, <3>4
    <3>7. b <= a + DearestReply
      BY <1>5, <2>2, <2>3, <2>4, <2>6, <3>5
    <3>8. b <= MaxTotal - LeastEstimate + y
      BY <2>2, <2>3, <3>3, <3>5, <3>6, <3>7
    <3> QED
      BY <3>4, <3>8 DEF b
  <2> QED
    BY <2>5, <2>6
<1>13. \A d \in Calls, s \in Scopes : s # scope => (Busy(calls'[d], s) => Busy(calls[d], s))
  BY <1>7
<1> HIDE DEF q, w, v, e, r, cut
<1> QED
  BY <1>1, <1>8, <1>9, <1>12, <1>13, HookStep

\* The steps of a call that are none of the budget's.
LEMMA CallStep ==
  ASSUME BudgetIInv, GovernedIInv', NEW c \in Calls, NEW r, budget' = budget, now' = now,
         calls' = [calls EXCEPT ![c] = r],
         \A s \in Scopes : Busy(r, s) => Busy(calls[c], s),
         r.stage = "charge" => r.estimate <= DearestReply
  PROVE  BudgetIInv'
<1>1. \A d \in Calls : calls'[d] = IF d = c THEN r ELSE calls[d]
  BY DEF BudgetIInv, GovernedIInv
<1>2. \A d \in Calls : calls'[d].stage = "charge" => calls'[d].estimate <= DearestReply
  BY <1>1 DEF BudgetIInv
<1>3. \A d \in Calls, s \in Scopes : Busy(calls'[d], s) => Busy(calls[d], s)
  BY <1>1
<1>4. now <= now'
  <2>1. now \in Nat
    BY GovernedAssumption DEF BudgetIInv, GovernedIInv, GovernedAssumption
  <2> QED
    BY <2>1
<1> QED
  BY <1>2, <1>3, <1>4, QuietStep

LEMMA BudgetInvariance == Spec => []BudgetIInv
<1>1. BudgetIInv /\ [Next]_vars => BudgetIInv'
  <2> SUFFICES ASSUME BudgetIInv, [Next]_vars PROVE BudgetIInv'
    OBVIOUS
  <2>1. GovernedIInv'
    BY GovernedStep DEF BudgetIInv
  <2>2. now \in Nat /\ now' \in Nat /\ calls \in [Calls -> CallRecords]
    BY <2>1, GovernedAssumption DEF BudgetIInv, GovernedIInv, GovernedAssumption
  <2>3. ASSUME NEW c \in Calls, NEW scope, NEW prompt, Lookup(c, scope, prompt)
        PROVE  BudgetIInv'
    <3> DEFINE r == IF IsHit(cache, Key(prompt, Primary), now)
         THEN [stage |-> "charge", scope |-> scope, prompt |-> prompt, by |-> Primary, estimate |-> 0,
               hit |-> TRUE, reply |-> EntryOf(cache, Key(prompt, Primary)).response]
         ELSE [stage |-> "budget", scope |-> scope, prompt |-> prompt]
    <3>1. calls' = [calls EXCEPT ![c] = r] /\ budget' = budget /\ now' = now
      BY <2>3 DEF Lookup
    <3>2. /\ \A s \in Scopes : ~Busy(r, s)
          /\ r.stage = "charge" => r.estimate <= DearestReply
      BY DearestIs DEF Busy
    <3> HIDE DEF r
    <3> QED
      BY <2>1, <3>1, <3>2, CallStep
  <2>4. ASSUME NEW c \in Calls, NEW provider \in Providers, NEW usage \in ReplyUsages,
               Answer(c, provider, usage)
        PROVE  BudgetIInv'
    <3> DEFINE q == calls[c]
               sent == Sent[q.prompt]
               r == [stage |-> "charge", scope |-> q.scope, prompt |-> sent, by |-> provider,
                     estimate |-> Estimate[q.prompt], hit |-> FALSE,
                     reply |-> [sent |-> sent, by |-> provider, made |-> now, usage |-> usage]]
    <3>1. /\ q \in CallRecords /\ q.stage = "provider"
          /\ calls' = [calls EXCEPT ![c] = r] /\ budget' = budget /\ now' = now
      BY <2>2, <2>4 DEF Answer
    <3>2. q.prompt \in Prompts
      BY <3>1, CallShapes
    <3>3. Estimate[q.prompt] <= DearestReply
      BY <3>2, DearestIs
    <3>4. \A s \in Scopes : Busy(r, s) => Busy(q, s)
      <4> HIDE DEF q, sent
      <4> QED
        BY <3>1 DEF Busy
    <3>5. r.stage = "charge" => r.estimate <= DearestReply
      BY <3>3
    <3> HIDE DEF r
    <3> QED
      BY <2>1, <3>1, <3>4, <3>5, CallStep
  <2>5. ASSUME NEW c \in Calls, calls' = [calls EXCEPT ![c] = NoCall], budget' = budget, now' = now
        PROVE  BudgetIInv'
    <3>1. (\A s \in Scopes : ~Busy(NoCall, s)) /\ NoCall.stage # "charge"
      BY DEF Busy, NoCall
    <3> QED
      BY <2>1, <2>5, <3>1, CallStep
  <2>6. ASSUME calls' = calls, budget' = budget, now <= now'
        PROVE  BudgetIInv'
    BY <2>1, <2>6, QuietStep DEF BudgetIInv
  <2>7. ASSUME NEW c \in Calls, PassBudget(c) \/ Leave(c) \/ Charge(c) PROVE BudgetIInv'
    BY <2>1, <2>5, <2>7, PassStep, ChargeStep DEF Leave
  <2>8. ASSUME NEW c \in Calls, NEW stop \in BOOLEAN, Store(c, stop) PROVE BudgetIInv'
    BY <2>5, <2>8 DEF Store
  <2>9. now <= now
    BY <2>2
  <2>10. ASSUME NEW prompt \in Prompts, NEW provider \in Providers, Invalidate(prompt, provider)
         PROVE  BudgetIInv'
    BY <2>6, <2>9, <2>10 DEF Invalidate
  <2>11. CASE ClearCache \/ UNCHANGED vars
    BY <2>6, <2>9, <2>11 DEF ClearCache, vars
  <2>12. CASE Tick
    <3>1. calls' = calls /\ budget' = budget /\ now' = now + 1
      BY <2>12 DEF Tick
    <3>2. now <= now'
      BY <2>2, <3>1
    <3> QED
      BY <2>6, <3>1, <3>2
  <2> QED
    BY <2>3, <2>4, <2>7, <2>8, <2>10, <2>11, <2>12 DEF Next
<1> QED
  BY <1>1, BudgetInitially, PTL DEF Spec

\* Pruning changes nothing of what is paid since a later time.
LEMMA PrunedPaid ==
  ASSUME NEW w \in Seq(Entries), NEW cut \in Int, NEW cutoff \in Int, cut <= cutoff
  PROVE  /\ Charged(w, cut) \in Seq(Entries)
         /\ Tokens(Paid(Charged(w, cut), cutoff)) = Tokens(Paid(w, cutoff))
<1> DEFINE v == Charged(w, cut)
<1>1. /\ v \in Seq(Entries)
      /\ \E k \in Nat : /\ Len(w) = k + Len(v) /\ \A i \in 1..Len(v) : v[i] = w[k + i]
                       /\ \A i \in 1..k : w[i].time < cut
  BY ChargedIs
<1> HIDE DEF v
<1>2. PICK k \in Nat : /\ Len(w) = k + Len(v) /\ \A i \in 1..Len(v) : v[i] = w[k + i]
                      /\ \A i \in 1..k : w[i].time < cut
  BY <1>1
<1> DEFINE a == Paid(v, cutoff)
           b == Paid(w, cutoff)
<1>3. /\ a \in Seq(Entries) /\ Len(a) = Len(v)
      /\ \A i \in 1..Len(v) :
           Total(a[i].usage) = IF v[i].hit \/ v[i].time < cutoff THEN 0 ELSE Total(v[i].usage)
  BY <1>1, PaidIs
<1>4. /\ b \in Seq(Entries) /\ Len(b) = Len(w)
      /\ \A i \in 1..Len(w) :
           Total(b[i].usage) = IF w[i].hit \/ w[i].time < cutoff THEN 0 ELSE Total(w[i].usage)
  BY PaidIs
<1> HIDE DEF a, b
<1>5. \A i \in 1..k : Total(b[i].usage) = 0
  <2> SUFFICES ASSUME NEW i \in 1..k PROVE Total(b[i].usage) = 0
    OBVIOUS
  <2>1. i \in 1..Len(w) /\ w[i] \in Entries /\ w[i].time < cut
    BY <1>1, <1>2
  <2>2. w[i].time \in Nat
    BY <2>1 DEF Entries
  <2> DEFINE t == w[i].time
  <2>3. t \in Nat /\ t < cut
    BY <2>1, <2>2
  <2> HIDE DEF t
  <2>4. t < cutoff
    BY <2>3
  <2> QED
    BY <1>4, <2>1, <2>4 DEF t
<1>6. \A i \in 1..Len(v) : /\ Total(b[k + i].usage) = Total(a[i].usage)
                          /\ Total(a[i].usage) \in Nat
  <2> SUFFICES ASSUME NEW i \in 1..Len(v)
               PROVE  Total(b[k + i].usage) = Total(a[i].usage) /\ Total(a[i].usage) \in Nat
    OBVIOUS
  <2>1. k + i \in 1..Len(w) /\ v[i] = w[k + i]
    BY <1>1, <1>2
  <2>2. a[i] \in Entries
    BY <1>3
  <2>3. a[i].usage \in Usages
    BY <2>2 DEF Entries
  <2> QED
    BY <1>3, <1>4, <2>1, <2>3, AddedIs
<1>7. Tokens(b) <= Tokens(a)
  <2>1. Len(b) = k + Len(a) /\ \A i \in 1..Len(a) : Total(b[k + i].usage) <= Total(a[i].usage)
    <3>1. \A i \in 1..Len(a) : Total(b[k + i].usage) <= Total(a[i].usage)
      BY <1>3, <1>6
    <3> QED
      BY <1>2, <1>3, <1>4, <3>1
  <2> QED
    BY <1>3, <1>4, <1>5, <2>1, TokensTail
<1>8. Tokens(a) <= Tokens(b)
  <2>1. cutoff <= cutoff
    OBVIOUS
  <2> QED
    BY <1>1, <1>2, <2>1, PaidFewer DEF a, b
<1>9. Tokens(a) \in Nat /\ Tokens(b) \in Nat
  BY <1>3, <1>4, TokensAre
<1> QED
  BY <1>1, <1>7, <1>8, <1>9 DEF a, b, v

\* A scope is charged in the store for all the observer has seen it pay, from any
\* time on that still counts.
Covered(window, others, since) ==
  \A cutoff \in Int : since <= cutoff => Tokens(Paid(window, cutoff)) <= Tokens(Paid(others, cutoff))

PaidIInv ==
  /\ BudgetIInv
  /\ paid \in [Scopes -> Seq(Entries)]
  /\ \A s \in Scopes : Covered(paid[s], WindowOf(budget, s), now - BudgetWindow)

\* What the observer keeps after a hook is covered if it was for what the store has.
LEMMA RememberedIs ==
  ASSUME NEW what \in [Scopes -> Seq(Entries)], NEW store \in Seq(Slots(Scopes, Entries)), now \in Nat,
         \A s \in Scopes : s \in Ids(store) =>
           Covered(what[s], WindowOf(store, s), now - BudgetWindow)
  PROVE  /\ Remembered(what, store) \in [Scopes -> Seq(Entries)]
         /\ \A s \in Scopes :
              Covered(Remembered(what, store)[s], WindowOf(store, s), now - BudgetWindow)
<1> DEFINE cut == now - BudgetWindow
           kept(s) == IF s \in Ids(store) THEN Charged(what[s], cut) ELSE <<>>
<1>1. cut \in Int
  BY BudgetAssumption DEF BudgetAssumption
<1> HIDE DEF cut
<1>2. ASSUME NEW s \in Scopes
      PROVE  kept(s) \in Seq(Entries) /\ Covered(kept(s), WindowOf(store, s), cut)
  <2>1. what[s] \in Seq(Entries) /\ cut <= cut
    BY <1>1
  <2>2. CASE s \in Ids(store)
    <3>1. kept(s) = Charged(what[s], cut)
      BY <2>2
    <3>2. Charged(what[s], cut) \in Seq(Entries)
      BY <1>1, <2>1, PrunedPaid
    <3>3. ASSUME NEW cutoff \in Int, cut <= cutoff
          PROVE  Tokens(Paid(Charged(what[s], cut), cutoff)) <= Tokens(Paid(WindowOf(store, s), cutoff))
      <4>1. Tokens(Paid(what[s], cutoff)) <= Tokens(Paid(WindowOf(store, s), cutoff))
        BY <2>2, <3>3 DEF Covered, cut
      <4>2. Tokens(Paid(Charged(what[s], cut), cutoff)) = Tokens(Paid(what[s], cutoff))
        BY <1>1, <2>1, <3>3, PrunedPaid
      <4> QED
        BY <4>1, <4>2
    <3> QED
      BY <3>1, <3>2, <3>3 DEF Covered
  <2>3. CASE s \notin Ids(store)
    <3> DEFINE none == <<>>
    <3>1. kept(s) = none /\ WindowOf(store, s) = none /\ none \in Seq(Entries)
      BY <2>3 DEF WindowOf
    <3> HIDE DEF none
    <3>2. ASSUME NEW cutoff \in Int PROVE Tokens(Paid(none, cutoff)) <= Tokens(Paid(none, cutoff))
      <4>1. Paid(none, cutoff) \in Seq(Entries)
        BY <3>1, PaidIs
      <4>2. Tokens(Paid(none, cutoff)) \in Nat
        BY <4>1, TokensAre
      <4> QED
        BY <4>2
    <3> HIDE DEF kept
    <3> QED
      BY <3>1, <3>2 DEF Covered
  <2> QED
    BY <2>2, <2>3
<1>3. Remembered(what, store) = [s \in Scopes |-> kept(s)]
  BY DEF Remembered, cut
<1> HIDE DEF kept
<1> QED
  BY <1>2, <1>3 DEF cut

\* Covering by what is covered, and with more added to both.
LEMMA CoveredMore ==
  ASSUME NEW a \in Seq(Entries), NEW w \in Seq(Entries), NEW cut \in Int, Covered(a, w, cut),
         NEW e \in Entries
  PROVE  /\ Covered(a, Charged(w, cut), cut)
         /\ Covered(a, Append(Charged(w, cut), e), cut)
         /\ Covered(Append(a, e), Append(Charged(w, cut), e), cut)
<1> DEFINE v == Charged(w, cut)
<1>1. v \in Seq(Entries)
  BY ChargedIs
<1>2. ASSUME NEW cutoff \in Int, cut <= cutoff
      PROVE  /\ Tokens(Paid(a, cutoff)) <= Tokens(Paid(v, cutoff))
             /\ Tokens(Paid(a, cutoff)) <= Tokens(Paid(Append(v, e), cutoff))
             /\ Tokens(Paid(Append(a, e), cutoff)) <= Tokens(Paid(Append(v, e), cutoff))
  <2>1. Tokens(Paid(a, cutoff)) <= Tokens(Paid(w, cutoff))
    BY <1>2 DEF Covered
  <2>2. Tokens(Paid(v, cutoff)) = Tokens(Paid(w, cutoff))
    BY <1>2, PrunedPaid
  <2> HIDE DEF v
  <2>3. Paid(a, cutoff) \in Seq(Entries) /\ Paid(v, cutoff) \in Seq(Entries)
    BY <1>1, PaidIs
  <2>4. Tokens(Paid(a, cutoff)) \in Nat /\ Tokens(Paid(v, cutoff)) \in Nat
    BY <2>3, TokensAre
  <2> DEFINE k == IF e.hit \/ e.time < cutoff THEN 0 ELSE Total(e.usage)
  <2>5. /\ Tokens(Paid(Append(a, e), cutoff)) = Tokens(Paid(a, cutoff)) + k
        /\ Tokens(Paid(Append(v, e), cutoff)) = Tokens(Paid(v, cutoff)) + k
    BY <1>1, PaidMore
  <2>6. k \in Nat
    <3>1. e.usage \in Usages
      BY DEF Entries
    <3> QED
      BY <3>1, AddedIs
  <2> DEFINE x == Tokens(Paid(a, cutoff))
             y == Tokens(Paid(v, cutoff))
  <2>7. x \in Nat /\ y \in Nat /\ k \in Nat /\ x <= y
    BY <2>1, <2>2, <2>4, <2>6
  <2> HIDE DEF k, x, y
  <2>8. x <= y /\ x <= y + k /\ x + k <= y + k
    BY <2>7
  <2> QED
    BY <2>5, <2>8 DEF x, y
<1> HIDE DEF v
<1> QED
  BY <1>2 DEF Covered, v

\* After a hook: what the observer counts of each scope is covered by the store.
LEMMA HookPaid ==
  ASSUME PaidIInv, BudgetIInv', now' = now, NEW what \in [Scopes -> Seq(Entries)],
         paid' = Remembered(what, budget'),
         \A s \in Scopes : s \in Ids(budget') =>
           Covered(what[s], WindowOf(budget', s), now - BudgetWindow)
  PROVE  PaidIInv'
<1>1. now \in Nat /\ budget' \in Seq(Slots(Scopes, Entries))
  BY GovernedAssumption DEF PaidIInv, BudgetIInv, GovernedIInv, GovernedAssumption
<1>2. /\ paid' \in [Scopes -> Seq(Entries)]
      /\ \A s \in Scopes : Covered(paid'[s], WindowOf(budget', s), now - BudgetWindow)
  BY <1>1, RememberedIs
<1> QED
  BY <1>2 DEF PaidIInv

LEMMA PassPaid ==
  ASSUME PaidIInv, BudgetIInv', NEW c \in Calls, PassBudget(c)
  PROVE  PaidIInv'
<1> DEFINE q == calls[c]
<1>1. q \in CallRecords /\ q.stage = "budget"
  BY DEF PaidIInv, BudgetIInv, GovernedIInv, PassBudget
<1>2. q.scope \in Scopes /\ q.prompt \in Prompts
  BY <1>1, CallShapes
<1>3. PICK scope \in Scopes, estimate \in Nat : q.scope = scope /\ Estimate[q.prompt] = estimate
  BY <1>2, LeastIs
<1> DEFINE check == BudgetCheck(budget, scope, estimate, now)
           w == WindowOf(budget, scope)
           cut == now - BudgetWindow
<1>4. /\ budget' = check.store /\ now' = now /\ paid' = Remembered(paid, budget')
      /\ now \in Nat /\ budget \in Seq(Slots(Scopes, Entries)) /\ Apart(budget)
  BY <1>3, GovernedAssumption
     DEF PaidIInv, BudgetIInv, GovernedIInv, PassBudget, GovernedAssumption
<1>5. /\ WindowOf(budget', scope) = Charged(w, cut)
      /\ \A s \in Ids(budget') : s # scope => WindowOf(budget', s) = WindowOf(budget, s)
  <2>1. /\ WindowOf(check.store, scope) = Charged(w, cut)
        /\ \A s \in Ids(check.store) : s # scope => WindowOf(check.store, s) = WindowOf(budget, s)
    BY <1>4, CheckWindows
  <2> QED
    BY <1>4, <2>1
<1>6. /\ paid \in [Scopes -> Seq(Entries)]
      /\ \A s \in Scopes : Covered(paid[s], WindowOf(budget, s), cut)
  BY DEF PaidIInv
<1> HIDE DEF check
<1>7. Covered(paid[scope], WindowOf(budget', scope), cut)
  <2>1. w \in Seq(Entries) /\ cut \in Int /\ paid[scope] \in Seq(Entries)
        /\ Covered(paid[scope], w, cut)
    BY <1>4, <1>6, PaidType
  <2>2. [time |-> 0, usage |-> NoUsage, hit |-> FALSE] \in Entries
    BY DEF Entries, Usages, NoUsage
  <2> HIDE DEF w, cut
  <2>3. Covered(paid[scope], Charged(w, cut), cut)
    BY <2>1, <2>2, CoveredMore
  <2> QED
    BY <1>5, <2>3
<1>8. \A s \in Scopes : s \in Ids(budget') => Covered(paid[s], WindowOf(budget', s), cut)
  BY <1>5, <1>6, <1>7
<1> QED
  BY <1>4, <1>6, <1>8, HookPaid

LEMMA ChargePaid ==
  ASSUME PaidIInv, BudgetIInv', NEW c \in Calls, Charge(c)
  PROVE  PaidIInv'
<1> DEFINE q == calls[c]
<1>1. q \in CallRecords /\ q.stage = "charge" /\ q.estimate <= DearestReply
  BY DEF PaidIInv, BudgetIInv, GovernedIInv, Charge
<1>2. q.scope \in Scopes /\ UsageOf(q) \in Usages /\ q.hit \in BOOLEAN
  BY <1>1, CallShapes, UsageOfIs
<1>3. PICK scope \in Scopes, usage \in Usages, hit \in BOOLEAN :
        q.scope = scope /\ UsageOf(q) = usage /\ q.hit = hit
  BY <1>2
<1> DEFINE w == WindowOf(budget, scope)
           cut == now - BudgetWindow
           e == [time |-> now, usage |-> usage, hit |-> hit]
           what == IF hit \/ IsFree(usage) THEN paid ELSE [paid EXCEPT ![scope] = Append(@, e)]
<1>4. /\ budget' = BudgetCharge(budget, scope, usage, hit, now) /\ now' = now
      /\ paid' = Remembered(what, budget')
      /\ now \in Nat /\ budget \in Seq(Slots(Scopes, Entries)) /\ Apart(budget)
  BY <1>3, GovernedAssumption
     DEF PaidIInv, BudgetIInv, GovernedIInv, Charge, GovernedAssumption
<1>5. /\ WindowOf(budget', scope) = IF IsFree(usage) THEN w ELSE Append(Charged(w, cut), e)
      /\ \A s \in Ids(budget') : s # scope => WindowOf(budget', s) = WindowOf(budget, s)
  BY <1>4, ChargeWindows
<1>6. /\ paid \in [Scopes -> Seq(Entries)]
      /\ \A s \in Scopes : Covered(paid[s], WindowOf(budget, s), cut)
  BY DEF PaidIInv
<1>7. e \in Entries
  BY <1>4 DEF Entries
<1> HIDE DEF e
<1>8. w \in Seq(Entries) /\ cut \in Int /\ paid[scope] \in Seq(Entries)
      /\ Covered(paid[scope], w, cut)
  BY <1>4, <1>6, PaidType
<1> HIDE DEF w, cut
<1>9. /\ Covered(paid[scope], Append(Charged(w, cut), e), cut)
      /\ Covered(Append(paid[scope], e), Append(Charged(w, cut), e), cut)
  BY <1>7, <1>8, CoveredMore
<1>10. /\ what \in [Scopes -> Seq(Entries)]
       /\ \A s \in Scopes : s # scope => what[s] = paid[s]
       /\ what[scope] = IF hit \/ IsFree(usage) THEN paid[scope] ELSE Append(paid[scope], e)
  <2>1. Append(paid[scope], e) \in Seq(Entries)
    BY <1>7, <1>8
  <2> QED
    BY <1>6, <2>1
<1> HIDE DEF what
<1>11. Covered(what[scope], WindowOf(budget', scope), cut)
  BY <1>5, <1>8, <1>9, <1>10
<1>12. \A s \in Scopes : s \in Ids(budget') => Covered(what[s], WindowOf(budget', s), cut)
  BY <1>5, <1>6, <1>10, <1>11
<1> QED
  BY <1>4, <1>10, <1>12, HookPaid DEF cut

\* The other steps leave the windows and the observer alone.
LEMMA QuietPaid ==
  ASSUME PaidIInv, BudgetIInv', budget' = budget, paid' = paid, now <= now'
  PROVE  PaidIInv'
<1>1. now \in Nat /\ now' \in Nat /\ BudgetWindow \in Nat
  BY GovernedAssumption, BudgetAssumption
     DEF PaidIInv, BudgetIInv, GovernedIInv, GovernedAssumption, BudgetAssumption
<1>2. \A cutoff \in Int : now' - BudgetWindow <= cutoff => now - BudgetWindow <= cutoff
  <2>1. \A a, b, d \in Nat : a <= b => \A cutoff \in Int : b - d <= cutoff => a - d <= cutoff
    OBVIOUS
  <2> QED
    BY <1>1, <2>1
<1>3. \A s \in Scopes : Covered(paid[s], WindowOf(budget, s), now' - BudgetWindow)
  BY <1>2 DEF PaidIInv, Covered
<1> QED
  BY <1>3 DEF PaidIInv

LEMMA PaidInvariance == Spec => []PaidIInv
<1>1. ASSUME Init, BudgetIInv PROVE PaidIInv
  <2>1. now \in Nat /\ budget \in Seq(Slots(Scopes, Entries)) /\ budget = <<>>
    BY <1>1 DEF Init, BudgetIInv
  <2> DEFINE what == [s \in Scopes |-> <<>>]
  <2>2. what \in [Scopes -> Seq(Entries)] /\ Ids(budget) = {}
    BY <2>1 DEF Ids
  <2>3. Remembered(what, budget) = what
    BY <2>2 DEF Remembered
  <2> HIDE DEF what
  <2>4. /\ Remembered(what, budget) \in [Scopes -> Seq(Entries)]
        /\ \A s \in Scopes :
             Covered(Remembered(what, budget)[s], WindowOf(budget, s), now - BudgetWindow)
    BY <2>1, <2>2, RememberedIs
  <2>5. paid = what
    BY <1>1 DEF Init, what
  <2> QED
    BY <1>1, <2>3, <2>4, <2>5 DEF PaidIInv
<1>2. PaidIInv /\ [Next]_vars /\ BudgetIInv' => PaidIInv'
  <2> SUFFICES ASSUME PaidIInv, [Next]_vars, BudgetIInv' PROVE PaidIInv'
    OBVIOUS
  <2>1. ASSUME budget' = budget, paid' = paid, now' \in {now, now + 1} PROVE PaidIInv'
    <3>1. now \in Nat
      BY GovernedAssumption DEF PaidIInv, BudgetIInv, GovernedIInv, GovernedAssumption
    <3>2. now <= now'
      BY <2>1, <3>1
    <3> QED
      BY <2>1, <3>2, QuietPaid
  <2>2. ASSUME NEW c \in Calls, PassBudget(c) \/ Charge(c) PROVE PaidIInv'
    BY <2>2, PassPaid, ChargePaid
  <2>3. ASSUME NEW c \in Calls, NEW scope, NEW prompt, Lookup(c, scope, prompt) PROVE PaidIInv'
    BY <2>1, <2>3 DEF Lookup
  <2>4. ASSUME NEW c \in Calls, NEW provider, NEW usage, NEW stop,
               Leave(c) \/ Answer(c, provider, usage) \/ Store(c, stop)
        PROVE  PaidIInv'
    BY <2>1, <2>4 DEF Leave, Answer, Store
  <2>5. ASSUME NEW prompt, NEW provider, Invalidate(prompt, provider) PROVE PaidIInv'
    BY <2>1, <2>5 DEF Invalidate
  <2>6. CASE ClearCache \/ Tick \/ UNCHANGED vars
    BY <2>1, <2>6 DEF ClearCache, Tick, vars
  <2> QED
    BY <2>2, <2>3, <2>4, <2>5, <2>6 DEF Next
<1> QED
  BY <1>1, <1>2, BudgetInvariance, PTL DEF Spec

\* However many calls, scopes and prompts there are, whatever they cost, and
\* whichever scopes are evicted: while the store of windows keeps a scope, what the
\* scope is charged for within a window overdraws its budget by no more than the
\* calls under way can cost.  There is one check before and one charge after a
\* call (budget.py:75); an evicted scope starts again (budget.py:132).
THEOREM OverdraftIsBounded == Spec => []OverdraftBounded
<1>1. PaidIInv => OverdraftBounded
  <2> SUFFICES ASSUME PaidIInv, MaxTotal # Unlimited, NEW s \in Scopes
               PROVE  Total(PaidUsage(s))
                        <= MaxTotal - LeastEstimate + Cardinality(Calls) * DearestReply
    BY DEF OverdraftBounded
  <2> DEFINE A == Calls \ UnderWay(s)
             x == Cardinality(A) * DearestReply
             y == Cardinality(Calls) * DearestReply
             a == PaidTokens(s)
             p == Tokens(Paid(paid[s], now - BudgetWindow))
  <2>1. a <= Room(s) /\ Room(s) = MaxTotal - LeastEstimate + x
    BY DEF PaidIInv, BudgetIInv, Room
  <2>2. Total(PaidUsage(s)) = p
    BY DEF PaidUsage, Tokens
  <2>3. x <= y /\ x \in Nat /\ y \in Nat
    <3>1. A \in SUBSET Calls /\ Calls \in SUBSET Calls /\ A \subseteq Calls
      OBVIOUS
    <3> HIDE DEF A
    <3> QED
      BY <3>1, RoomFor
  <2>4. a \in Nat /\ p \in Nat /\ p <= a
    <3>1. budget \in Seq(Slots(Scopes, Entries)) /\ now \in Nat /\ paid[s] \in Seq(Entries)
      BY GovernedAssumption DEF PaidIInv, BudgetIInv, GovernedIInv, GovernedAssumption
    <3>2. a \in Nat /\ now - BudgetWindow \in Int
      BY <3>1, PaidType DEF PaidTokens
    <3>3. Paid(paid[s], now - BudgetWindow) \in Seq(Entries)
      BY <3>1, <3>2, PaidIs
    <3>4. p \in Nat
      BY <3>3, TokensAre
    <3>5. now - BudgetWindow <= now - BudgetWindow
      BY <3>2
    <3>6. p <= a
      BY <3>2, <3>5 DEF PaidIInv, Covered, PaidTokens
    <3> QED
      BY <3>2, <3>4, <3>6
  <2>5. MaxTotal \in Nat /\ LeastEstimate \in Nat
    BY UsageAssumption, LeastIs DEF UsageAssumption
  <2> HIDE DEF a, p, x, y
  <2>6. p <= MaxTotal - LeastEstimate + y
    BY <2>1, <2>3, <2>4, <2>5
  <2> QED
    BY <2>2, <2>6 DEF y
<1> QED
  BY <1>1, PaidInvariance, PTL

-----------------------------------------------------------------------------
(* The stream buffer *)

\* What one emptying of the buffer sends.
Pieces == {Mask(t) : t \in Seq(Characters)} \cup {<<>>}
Cuts == [upto : Nat, lost : BOOLEAN]

\* How many pieces may be lost: one to each error, one to the end of the stream.
MayBeLost == errors + (IF open \/ finished THEN 0 ELSE 1)

MaskIInv ==
  /\ held \in Seq(Characters) /\ text \in Seq(Characters)
  /\ out \in Seq(Pieces) /\ cuts \in Seq(Cuts) /\ Len(out) = Len(cuts)
  /\ open \in BOOLEAN /\ finished \in BOOLEAN /\ errors \in Nat
  /\ \A i \in 1..(Len(cuts) + 1) : StartOf(i) \in 0..Len(text)
  /\ open /\ finished => held = <<>>
  /\ TextKept

LEMMA MayBeLostType ==
  /\ errors \in Nat => MayBeLost \in Nat
  /\ errors' \in Nat => MayBeLost' \in Nat
<1>1. /\ (IF open \/ finished THEN 0 ELSE 1) \in {0, 1}
      /\ (IF open \/ finished THEN 0 ELSE 1)' \in {0, 1}
  BY Zenon
<1> DEFINE k == IF open \/ finished THEN 0 ELSE 1
<1>2. MayBeLost = errors + k /\ MayBeLost' = errors' + k'
  BY DEF MayBeLost
<1>3. k \in Nat /\ k' \in Nat
  BY <1>1
<1> HIDE DEF k
<1> QED
  BY <1>2, <1>3

\* A piece of a text does not change when the text grows.
LEMMA PieceKept ==
  ASSUME NEW S, NEW t \in Seq(S), NEW u \in Seq(S), NEW a \in Nat, NEW b \in 0..Len(t)
  PROVE  SubSeq(t \o u, a + 1, b) = SubSeq(t, a + 1, b)
<1> DEFINE v == t \o u
           x == SubSeq(v, a + 1, b)
           y == SubSeq(t, a + 1, b)
           n == IF a + 1 <= b THEN b - a ELSE 0
<1>1. v \in Seq(S) /\ Len(v) = Len(t) + Len(u) /\ Len(t) \in Nat /\ Len(u) \in Nat
      /\ \A i \in 1..Len(t) : v[i] = t[i]
  OBVIOUS
<1> HIDE DEF v
<1>2. b \in 0..Len(v)
  BY <1>1
<1>3. ASSUME NEW w \in Seq(S), b \in 0..Len(w)
      PROVE  /\ SubSeq(w, a + 1, b) \in Seq(S) /\ Len(SubSeq(w, a + 1, b)) = n
             /\ \A i \in 1..n : SubSeq(w, a + 1, b)[i] = w[a + i]
  BY <1>3
<1>4. /\ x \in Seq(S) /\ y \in Seq(S) /\ Len(x) = n /\ Len(y) = n
      /\ \A i \in 1..n : x[i] = v[a + i] /\ y[i] = t[a + i]
  BY <1>1, <1>2, <1>3
<1>5. \A i \in 1..n : a + i \in 1..Len(t)
  OBVIOUS
<1>6. \A i \in 1..Len(x) : x[i] = y[i]
  BY <1>1, <1>4, <1>5
<1> HIDE DEF x, y, n
<1> QED
  BY <1>4, <1>6, SeqEqual DEF x, y, v

\* The end of a text grows with it.
LEMMA EndGrows ==
  ASSUME NEW S, NEW t \in Seq(S), NEW u \in Seq(S), NEW a \in 0..Len(t)
  PROVE  SubSeq(t \o u, a + 1, Len(t \o u)) = SubSeq(t, a + 1, Len(t)) \o u
<1> DEFINE v == t \o u
           x == SubSeq(v, a + 1, Len(v))
           y == SubSeq(t, a + 1, Len(t))
           z == y \o u
<1>1. v \in Seq(S) /\ Len(v) = Len(t) + Len(u) /\ Len(t) \in Nat /\ Len(u) \in Nat
      /\ (\A i \in 1..Len(t) : v[i] = t[i]) /\ \A i \in 1..Len(u) : v[Len(t) + i] = u[i]
  OBVIOUS
<1> HIDE DEF v
<1>2. ASSUME NEW w \in Seq(S), a \in 0..Len(w)
      PROVE  /\ SubSeq(w, a + 1, Len(w)) \in Seq(S) /\ Len(SubSeq(w, a + 1, Len(w))) = Len(w) - a
             /\ \A i \in 1..(Len(w) - a) : SubSeq(w, a + 1, Len(w))[i] = w[a + i]
  BY <1>2
<1>3. /\ x \in Seq(S) /\ Len(x) = Len(v) - a /\ \A i \in 1..(Len(v) - a) : x[i] = v[a + i]
      /\ y \in Seq(S) /\ Len(y) = Len(t) - a /\ \A i \in 1..(Len(t) - a) : y[i] = t[a + i]
  BY <1>1, <1>2
<1> HIDE DEF x, y
<1>4. /\ z \in Seq(S) /\ Len(z) = Len(y) + Len(u)
      /\ (\A i \in 1..Len(y) : z[i] = y[i]) /\ \A i \in 1..Len(u) : z[Len(y) + i] = u[i]
  <2>1. y \in Seq(S)
    BY <1>3
  <2> QED
    BY ONLY <2>1, u \in Seq(S)
<1> HIDE DEF z
<1>5. ASSUME NEW i \in 1..Len(x) PROVE x[i] = z[i]
  <2>1. CASE i <= Len(t) - a
    <3>1. i \in 1..Len(y) /\ i \in 1..(Len(t) - a) /\ i \in 1..(Len(v) - a) /\ a + i \in 1..Len(t)
      BY <1>1, <1>3, <2>1
    <3> QED
      BY <1>1, <1>3, <1>4, <3>1
  <2>2. CASE ~(i <= Len(t) - a)
    <3> DEFINE k == i - (Len(t) - a)
    <3>1. /\ k \in 1..Len(u) /\ i \in 1..(Len(v) - a)
          /\ i = Len(y) + k /\ a + i = Len(t) + k
      BY <1>1, <1>3, <2>2
    <3> HIDE DEF k
    <3> QED
      BY <1>1, <1>3, <1>4, <3>1
  <2> QED
    BY <2>1, <2>2
<1>6. Len(x) = Len(z)
  BY <1>1, <1>3, <1>4
<1> QED
  BY <1>3, <1>4, <1>5, <1>6, SeqEqual DEF x, y, z, v

\* The pieces so far, and where the next one starts, when text arrives.
LEMMA PiecesStay ==
  ASSUME MaskIInv, NEW delta \in Seq(Characters), text' = text \o delta,
         NEW new \in Cuts, cuts' = cuts \/ cuts' = Append(cuts, new)
  PROVE  /\ \A i \in 1..Len(cuts) : cuts'[i] = cuts[i] /\ Piece(i)' = Piece(i)
         /\ \A i \in 1..(Len(cuts) + 1) : StartOf(i)' = StartOf(i)
         /\ text' \in Seq(Characters) /\ Len(text') = Len(text) + Len(delta)
         /\ held \o delta = SubSeq(text', StartOf(Len(cuts) + 1) + 1, Len(text'))
         /\ \A i \in 1..(Len(cuts) + 1) : StartOf(i) \in 0..Len(text')
<1> DEFINE n == Len(cuts)
<1>1. /\ held \in Seq(Characters) /\ text \in Seq(Characters) /\ cuts \in Seq(Cuts) /\ n \in Nat
      /\ \A i \in 1..(n + 1) : StartOf(i) \in 0..Len(text)
      /\ held = SubSeq(text, StartOf(n + 1) + 1, Len(text))
  BY DEF MaskIInv, TextKept
<1>2. \A i \in 1..n : cuts'[i] = cuts[i]
  <2>1. ASSUME NEW s \in Seq(Cuts) PROVE \A i \in 1..Len(s) : Append(s, new)[i] = s[i]
    OBVIOUS
  <2> QED
    BY <1>1, <2>1
<1>3. \A i \in 1..(n + 1) : StartOf(i)' = StartOf(i)
  <2>1. \A i \in 1..(n + 1) : i = 1 \/ i - 1 \in 1..n
    BY <1>1
  <2> QED
    BY <1>2, <2>1 DEF StartOf
<1>4. text' \in Seq(Characters) /\ Len(text') = Len(text) + Len(delta)
      /\ Len(text) \in Nat /\ Len(delta) \in Nat
  BY <1>1
<1>5. ASSUME NEW i \in 1..n PROVE Piece(i)' = Piece(i)
  <2>1. i + 1 \in 1..(n + 1) /\ i \in 1..(n + 1) /\ StartOf(i + 1) = cuts[i].upto
    BY <1>1 DEF StartOf
  <2>2. cuts[i].upto \in 0..Len(text) /\ StartOf(i) \in Nat
    BY <1>1, <2>1
  <2>3. SubSeq(text \o delta, StartOf(i) + 1, cuts[i].upto) = SubSeq(text, StartOf(i) + 1, cuts[i].upto)
    BY <1>1, <2>2, PieceKept
  <2>4. Piece(i)' = SubSeq(text', StartOf(i) + 1, cuts[i].upto)
    BY <1>2, <1>3, <2>1 DEF Piece
  <2> QED
    BY <2>3, <2>4 DEF Piece
<1>6. held \o delta = SubSeq(text', StartOf(n + 1) + 1, Len(text'))
  <2>1. StartOf(n + 1) \in 0..Len(text)
    BY <1>1
  <2> QED
    BY <1>1, <2>1, EndGrows
<1>7. \A i \in 1..(n + 1) : StartOf(i) \in 0..Len(text')
  BY <1>1, <1>4
<1> QED
  BY <1>2, <1>3, <1>4, <1>5, <1>6, <1>7

\* Text is held back, or nothing arrives: the buffer is not emptied.
LEMMA HeldStep ==
  ASSUME MaskIInv, NEW delta \in Seq(Characters), text' = text \o delta,
         held' = held \o delta, Len(held') <= BufferSize, out' = out, cuts' = cuts,
         open' \in BOOLEAN, finished' \in BOOLEAN, errors' \in Nat,
         open' /\ finished' => held' = <<>>, MayBeLost <= MayBeLost'
  PROVE  MaskIInv'
<1> PICK n \in Nat : n = Len(cuts)
  BY DEF MaskIInv
<1>1. /\ held \in Seq(Characters) /\ out \in Seq(Pieces) /\ cuts \in Seq(Cuts) /\ n \in Nat
      /\ Len(out) = n
      /\ \A i \in 1..n : out[i] = IF cuts[i].lost THEN <<>> ELSE Mask(Piece(i))
      /\ \A i \in LostCuts : Len(Piece(i)) <= BufferSize
      /\ Cardinality(LostCuts) <= MayBeLost
  <2>1. 1..n = DOMAIN cuts
    BY DEF MaskIInv
  <2> QED
    BY <2>1 DEF MaskIInv, TextKept, MayBeLost
<1>2. /\ \A i \in 1..n : cuts'[i] = cuts[i] /\ Piece(i)' = Piece(i)
      /\ \A i \in 1..(n + 1) : StartOf(i)' = StartOf(i)
      /\ text' \in Seq(Characters)
      /\ held' = SubSeq(text', StartOf(n + 1) + 1, Len(text'))
      /\ \A i \in 1..(n + 1) : StartOf(i) \in 0..Len(text')
  <2>1. [upto |-> 0, lost |-> FALSE] \in Cuts
    BY DEF Cuts
  <2> QED
    BY <2>1, PiecesStay
<1>3. LostCuts' = LostCuts /\ LostCuts \subseteq 1..n
  BY <1>1 DEF LostCuts
<1>4. n + 1 \in 1..(n + 1) /\ DOMAIN cuts = 1..n /\ DOMAIN cuts' = 1..n /\ Len(cuts') = n
  BY <1>1
<1>5. Cardinality(LostCuts') <= MayBeLost'
  <2>1. IsFiniteSet(LostCuts)
    <3>1. IsFiniteSet(1..n)
      BY <1>1, FS_Interval
    <3> QED
      BY <3>1, <1>3, FS_Subset
  <2>2. Cardinality(LostCuts) \in Nat
    BY <2>1, FS_CardinalityType
  <2>3. MayBeLost \in Nat /\ MayBeLost' \in Nat
    BY MayBeLostType DEF MaskIInv
  <2> DEFINE a == Cardinality(LostCuts)
             x == MayBeLost
             y == MayBeLost'
  <2>4. a \in Nat /\ x \in Nat /\ y \in Nat /\ a <= x /\ x <= y
    BY <1>1, <2>2, <2>3
  <2> HIDE DEF a, x, y
  <2>5. a <= y
    BY <2>4
  <2> QED
    BY <1>3, <2>5 DEF a, y
<1>6. TextKept'
  <2>1. \A i \in DOMAIN cuts' : out'[i] = IF cuts'[i].lost THEN <<>> ELSE Mask(Piece(i)')
    BY <1>1, <1>2, <1>4
  <2>2. held' = SubSeq(text', StartOf(Len(cuts) + 1)' + 1, Len(text'))
    BY <1>2, <1>4
  <2>3. \A i \in LostCuts' : Len(Piece(i)') <= BufferSize
    BY <1>1, <1>2, <1>3
  <2> QED
    BY <1>5, <2>1, <2>2, <2>3 DEF TextKept, MayBeLost
<1>7. held' \in Seq(Characters)
  BY <1>1
<1>8. \A i \in 1..(Len(cuts') + 1) : StartOf(i)' \in 0..Len(text')
  BY <1>2, <1>4
<1> QED
  BY <1>1, <1>2, <1>4, <1>6, <1>7, <1>8 DEF MaskIInv

\* The buffer is emptied, with what has arrived: flushed or lost.
LEMMA EmptiedStep ==
  ASSUME MaskIInv, NEW delta \in Seq(Characters), text' = text \o delta, held' = <<>>,
         NEW lost \in BOOLEAN, cuts' = Append(cuts, [upto |-> Len(text'), lost |-> lost]),
         out' = Append(out, IF lost THEN <<>> ELSE Mask(held \o delta)),
         lost => Len(held \o delta) <= BufferSize,
         open' \in BOOLEAN, finished' \in BOOLEAN, errors' \in Nat,
         MayBeLost + (IF lost THEN 1 ELSE 0) <= MayBeLost'
  PROVE  MaskIInv'
<1> PICK n \in Nat : n = Len(cuts)
  BY DEF MaskIInv
<1> DEFINE full == held \o delta
           cut == [upto |-> Len(text'), lost |-> lost]
           sent == IF lost THEN <<>> ELSE Mask(full)
<1>1. /\ held \in Seq(Characters) /\ out \in Seq(Pieces) /\ cuts \in Seq(Cuts) /\ n \in Nat
      /\ Len(out) = n
      /\ \A i \in 1..n : out[i] = IF cuts[i].lost THEN <<>> ELSE Mask(Piece(i))
      /\ \A i \in LostCuts : Len(Piece(i)) <= BufferSize
      /\ Cardinality(LostCuts) <= MayBeLost
  <2>1. 1..n = DOMAIN cuts
    BY DEF MaskIInv
  <2> QED
    BY <2>1 DEF MaskIInv, TextKept, MayBeLost
<1>2. /\ \A i \in 1..n : cuts'[i] = cuts[i] /\ Piece(i)' = Piece(i)
      /\ \A i \in 1..(n + 1) : StartOf(i)' = StartOf(i)
      /\ text' \in Seq(Characters) /\ Len(text') \in Nat
      /\ full = SubSeq(text', StartOf(n + 1) + 1, Len(text'))
      /\ \A i \in 1..(n + 1) : StartOf(i) \in 0..Len(text')
  <2>1. cuts' = cuts \/ cuts' = Append(cuts, cut)
    OBVIOUS
  <2>3. cut \in Cuts
    BY <1>1 DEF Cuts
  <2> HIDE DEF cut
  <2>2. /\ \A i \in 1..n : cuts'[i] = cuts[i] /\ Piece(i)' = Piece(i)
        /\ \A i \in 1..(n + 1) : StartOf(i)' = StartOf(i)
        /\ text' \in Seq(Characters)
        /\ full = SubSeq(text', StartOf(n + 1) + 1, Len(text'))
        /\ \A i \in 1..(n + 1) : StartOf(i) \in 0..Len(text')
    BY <2>1, <2>3, PiecesStay
  <2> QED
    BY <2>2
<1>3. cut \in Cuts /\ cut.lost = lost /\ cut.upto = Len(text')
  BY <1>2 DEF Cuts
<1>4. full \in Seq(Characters) /\ sent \in Pieces
  <2>1. full \in Seq(Characters)
    BY <1>1
  <2> HIDE DEF full
  <2>2. Mask(full) \in {Mask(t) : t \in Seq(Characters)}
    BY <2>1, Zenon
  <2> QED
    BY <2>1, <2>2, Zenon DEF Pieces
<1>5. cuts' = Append(cuts, cut) /\ out' = Append(out, sent)
  OBVIOUS
<1> HIDE DEF cut, sent
<1>6. /\ cuts' \in Seq(Cuts) /\ Len(cuts') = n + 1 /\ cuts'[n + 1] = cut
      /\ out' \in Seq(Pieces) /\ Len(out') = n + 1 /\ out'[n + 1] = sent
      /\ \A i \in 1..n : out'[i] = out[i]
      /\ DOMAIN cuts' = 1..(n + 1) /\ DOMAIN cuts = 1..n
  BY <1>1, <1>3, <1>4, <1>5
<1>7. n + 1 \in 1..(n + 1) /\ (\A i \in 1..(n + 1) : i \in 1..n \/ i = n + 1)
      /\ \A i \in 1..n : i \in 1..(n + 1)
  BY <1>1
<1>8. Piece(n + 1)' = full
  BY <1>2, <1>3, <1>6, <1>7 DEF Piece
<1>9. StartOf(n + 2)' = Len(text')
  <2>1. n + 2 # 1 /\ (n + 2) - 1 = n + 1
    BY <1>1
  <2> QED
    BY <1>3, <1>6, <2>1 DEF StartOf
<1>10. LostCuts' = (IF lost THEN LostCuts \cup {n + 1} ELSE LostCuts) /\ LostCuts \subseteq 1..n
  BY <1>2, <1>3, <1>6, <1>7 DEF LostCuts
<1>11. Cardinality(LostCuts') <= MayBeLost'
  <2>1. IsFiniteSet(LostCuts)
    <3>1. IsFiniteSet(1..n)
      BY <1>1, FS_Interval
    <3> QED
      BY <3>1, <1>10, FS_Subset
  <2>2. Cardinality(LostCuts) \in Nat
    BY <2>1, FS_CardinalityType
  <2>3. n + 1 \notin LostCuts
    BY <1>1, <1>10
  <2>4. Cardinality(LostCuts') = Cardinality(LostCuts) + (IF lost THEN 1 ELSE 0)
    <3>1. Cardinality(LostCuts \cup {n + 1}) = Cardinality(LostCuts) + 1
      BY <2>1, <2>3, FS_AddElement
    <3> QED
      BY <1>10, <2>2, <3>1
  <2>5. MayBeLost \in Nat /\ MayBeLost' \in Nat
    BY MayBeLostType DEF MaskIInv
  <2> DEFINE a == Cardinality(LostCuts)
             b == Cardinality(LostCuts')
             x == MayBeLost
             y == MayBeLost'
             k == IF lost THEN 1 ELSE 0
  <2>6. a \in Nat /\ x \in Nat /\ y \in Nat /\ k \in Nat /\ a <= x /\ x + k <= y /\ b = a + k
    BY <1>1, <2>2, <2>4, <2>5
  <2> HIDE DEF a, b, x, y, k
  <2>7. b <= y
    BY <2>6
  <2> QED
    BY <2>7 DEF b, y
<1>12. held' = SubSeq(text', StartOf(n + 2)' + 1, Len(text'))
  <2>1. ASSUME NEW t \in Seq(Characters) PROVE SubSeq(t, Len(t) + 1, Len(t)) = <<>>
    <3>1. SubSeq(t, Len(t) + 1, Len(t)) \in Seq(Characters)
          /\ Len(SubSeq(t, Len(t) + 1, Len(t))) = 0
      OBVIOUS
    <3> QED
      BY <3>1, EmptySeq
  <2> QED
    BY <1>2, <1>9, <2>1
<1>13. TextKept'
  <2>1. \A i \in DOMAIN cuts' : out'[i] = IF cuts'[i].lost THEN <<>> ELSE Mask(Piece(i)')
    <3> SUFFICES ASSUME NEW i \in 1..(n + 1)
                 PROVE  out'[i] = IF cuts'[i].lost THEN <<>> ELSE Mask(Piece(i)')
      BY <1>6
    <3>1. CASE i \in 1..n
      BY <1>1, <1>2, <1>6, <3>1
    <3>2. CASE i = n + 1
      BY <1>3, <1>6, <1>8, <3>2 DEF sent
    <3> QED
      BY <1>7, <3>1, <3>2
  <2>2. held' = SubSeq(text', StartOf(Len(cuts) + 1)' + 1, Len(text'))
    <3>1. Len(cuts') + 1 = n + 2
      BY <1>1, <1>6
    <3> QED
      BY <1>12, <3>1
  <2>3. \A i \in LostCuts' : Len(Piece(i)') <= BufferSize
    BY <1>1, <1>2, <1>8, <1>10
  <2>4. Len(held') <= BufferSize
    BY MaskAssumption DEF MaskAssumption
  <2> QED
    BY <1>11, <2>1, <2>2, <2>3, <2>4 DEF TextKept, MayBeLost
<1>14. \A i \in 1..(Len(cuts') + 1) : StartOf(i)' \in 0..Len(text')
  <2>1. \A i \in 1..(Len(cuts') + 1) : i \in 1..(n + 1) \/ i = n + 2
    BY <1>1, <1>6
  <2>2. Len(text') \in 0..Len(text')
    BY <1>2
  <2> QED
    BY <1>2, <1>9, <2>1, <2>2
<1>15. held' \in Seq(Characters) /\ Len(out') = Len(cuts')
  BY <1>6
<1> QED
  BY <1>2, <1>6, <1>13, <1>14, <1>15 DEF MaskIInv

\* The buffer is dropped; what was in it is lost, and counted.
LEMMA DroppedStep ==
  ASSUME MaskIInv, Dropped, text' = text,
         open' \in BOOLEAN, finished' \in BOOLEAN, errors' \in Nat,
         MayBeLost <= MayBeLost', held # <<>> => MayBeLost + 1 <= MayBeLost'
  PROVE  MaskIInv'
<1> DEFINE delta == <<>>
<1>1. held \in Seq(Characters) /\ text \in Seq(Characters) /\ Len(held) <= BufferSize
  BY DEF MaskIInv, TextKept
<1>2. delta \in Seq(Characters) /\ held \o delta = held /\ text \o delta = text /\ Len(delta) = 0
  BY <1>1
<1> HIDE DEF delta
<1>3. CASE held = <<>>
  <2>1. held' = held \o delta /\ out' = out /\ cuts' = cuts /\ held' = <<>> /\ text' = text \o delta
        /\ Len(held') <= BufferSize
    BY <1>1, <1>2, <1>3 DEF Dropped
  <2> QED
    BY <1>2, <2>1, HeldStep
<1>4. CASE held # <<>>
  <2>1. /\ held' = <<>> /\ text' = text \o delta /\ TRUE \in BOOLEAN
        /\ cuts' = Append(cuts, [upto |-> Len(text'), lost |-> TRUE])
        /\ out' = Append(out, IF TRUE THEN <<>> ELSE Mask(held \o delta))
        /\ Len(held \o delta) <= BufferSize
        /\ MayBeLost + (IF TRUE THEN 1 ELSE 0) <= MayBeLost'
    BY <1>1, <1>2, <1>4 DEF Dropped
  <2> QED
    BY <1>2, <2>1, EmptiedStep
<1> QED
  BY <1>3, <1>4

LEMMA ChunkStep ==
  ASSUME MaskIInv, NEW delta \in Deltas, NEW finish \in BOOLEAN, Chunk(delta, finish)
  PROVE  MaskIInv'
<1> DEFINE full == held \o delta
           flush == finish \/ Len(full) > BufferSize \/ age > MaxAge
<1>1. /\ delta \in Seq(Characters) /\ BufferSize \in Nat
      /\ held \in Seq(Characters) /\ open \in BOOLEAN /\ errors \in Nat /\ MayBeLost \in Nat
  BY MaskAssumption DEF MaskAssumption, MaskIInv, MayBeLost
<1>2. /\ text' = text \o delta /\ open' = open /\ open /\ finished' = finish /\ errors' = errors
      /\ finished' \in BOOLEAN /\ open' \in BOOLEAN /\ errors' \in Nat
  BY <1>1 DEF Chunk
<1>3. MayBeLost' = MayBeLost
  BY <1>1, <1>2 DEF MayBeLost
<1>4. CASE flush
  <2>1. /\ held' = <<>> /\ FALSE \in BOOLEAN
        /\ cuts' = Append(cuts, [upto |-> Len(text'), lost |-> FALSE])
        /\ out' = Append(out, IF FALSE THEN <<>> ELSE Mask(held \o delta))
    BY <1>4 DEF Chunk
  <2>2. MayBeLost + (IF FALSE THEN 1 ELSE 0) <= MayBeLost'
    BY <1>1, <1>3
  <2> QED
    BY <1>1, <1>2, <2>1, <2>2, EmptiedStep
<1>5. CASE ~flush
  <2>1. held' = full /\ out' = out /\ cuts' = cuts /\ ~finish /\ full \in Seq(Characters)
    BY <1>1, <1>5 DEF Chunk
  <2>2. Len(held') <= BufferSize
    BY <1>1, <1>5, <2>1
  <2>3. MayBeLost <= MayBeLost'
    BY <1>1, <1>3
  <2> HIDE DEF flush
  <2> QED
    BY <1>1, <1>2, <2>1, <2>2, <2>3, HeldStep
<1> QED
  BY <1>4, <1>5

LEMMA MaskInitially == MaskInit => MaskIInv
<1> SUFFICES ASSUME MaskInit PROVE MaskIInv
  OBVIOUS
<1>1. /\ held = <<>> /\ out = <<>> /\ text = <<>> /\ cuts = <<>>
      /\ open = TRUE /\ finished = FALSE /\ errors = 0
  BY DEF MaskInit
<1>2. LostCuts = {} /\ Cardinality(LostCuts) = 0
  BY <1>1, FS_EmptySet DEF LostCuts
<1>3. StartOf(1) = 0
  BY DEF StartOf
<1>4. SubSeq(<<>>, 1, 0) = <<>>
  OBVIOUS
<1>5. TextKept
  BY <1>1, <1>2, <1>3, <1>4, MaskAssumption DEF TextKept, MaskAssumption
<1> QED
  <2>1. \A i \in 1..(Len(cuts) + 1) : i = 1
    BY <1>1
  <2>2. \A i \in 1..(Len(cuts) + 1) : StartOf(i) \in 0..Len(text)
    BY <1>1, <1>3, <2>1
  <2>3. /\ <<>> \in Seq(Characters) /\ <<>> \in Seq(Pieces) /\ <<>> \in Seq(Cuts)
    OBVIOUS
  <2> QED
    BY <1>1, <1>5, <2>2, <2>3 DEF MaskIInv

LEMMA MaskInvariance == MaskSpec => []MaskIInv
<1>1. MaskIInv /\ [MaskNext]_maskVars => MaskIInv'
  <2> SUFFICES ASSUME MaskIInv, [MaskNext]_maskVars PROVE MaskIInv'
    OBVIOUS
  <2>1. /\ open \in BOOLEAN /\ finished \in BOOLEAN /\ errors \in Nat /\ MayBeLost \in Nat
        /\ (open /\ finished => held = <<>>)
    BY DEF MaskIInv, MayBeLost
  <2>2. ASSUME NEW delta \in Deltas, NEW finish \in BOOLEAN, Chunk(delta, finish) PROVE MaskIInv'
    BY <2>2, ChunkStep
  <2>3. CASE BufferAges
    BY <2>3 DEF BufferAges, MaskIInv, TextKept, StartOf, Piece, LostCuts
  <2>4. CASE HookFails
    <3>1. /\ Dropped /\ text' = text /\ open' = open /\ open /\ finished' = finished
          /\ errors' = errors + 1
      BY <2>4 DEF HookFails
    <3>2. MayBeLost + 1 <= MayBeLost'
      BY <2>1, <3>1 DEF MayBeLost
    <3>3. MayBeLost <= MayBeLost' /\ open' \in BOOLEAN /\ finished' \in BOOLEAN /\ errors' \in Nat
      BY <2>1, <3>1 DEF MayBeLost
    <3> QED
      BY <3>1, <3>2, <3>3, DroppedStep
  <2>5. CASE StreamEnds
    <3>1. /\ Dropped /\ text' = text /\ open /\ open' = FALSE /\ finished' = finished
          /\ errors' = errors
      BY <2>5 DEF StreamEnds
    <3>2. held # <<>> => MayBeLost + 1 <= MayBeLost'
      BY <2>1, <3>1 DEF MayBeLost
    <3>3. open' \in BOOLEAN /\ finished' \in BOOLEAN /\ errors' \in Nat
      BY <2>1, <3>1
    <3>4. MayBeLost <= MayBeLost'
      BY <2>1, <3>1 DEF MayBeLost
    <3> QED
      BY <3>1, <3>2, <3>3, <3>4, DroppedStep
  <2>6. CASE UNCHANGED maskVars
    BY <2>6 DEF maskVars, MaskIInv, TextKept, StartOf, Piece, LostCuts
  <2> QED
    BY <2>2, <2>3, <2>4, <2>5, <2>6 DEF MaskNext
<1> QED
  BY MaskInitially, <1>1, PTL DEF MaskSpec

\* Whatever the rules, the texts and the sizes are: the buffer of the guardrail
\* repeats and reorders no text, masks each piece whole, and loses a piece only to
\* the error of another hook or to a stream that ends without a finish_reason, no
\* more pieces than these, each no longer than the buffer (safety.py:180).
THEOREM TextIsKept == MaskSpec => []TextKept
<1>1. MaskIInv => TextKept
  BY DEF MaskIInv
<1> QED
  BY MaskInvariance, <1>1, PTL

-----------------------------------------------------------------------------
(* The rate limit *)

Windows == Slots(Sessions, Nat)

RateTypes ==
  /\ clock \in Nat
  /\ rate \in [Phases -> Seq(Windows)]
  /\ admitted \in [Phases -> [Sessions -> Seq(Nat)]]
  /\ rivals \in [Phases -> [Sessions -> SUBSET Sessions]]

\* v is what is left of w without the timestamps before the cutoff, which come
\* first.
Cut(w, cutoff, v) ==
  \E k \in 0..Len(w) :
    /\ Len(v) = Len(w) - k
    /\ \A i \in 1..Len(v) : v[i] = w[k + i]
    /\ \A i \in 1..k : w[i] < cutoff
    /\ \A i \in (k + 1)..Len(w) : w[i] >= cutoff

\* The timestamps are in the order of time, which none is ahead of.
Rising(w, time) ==
  /\ \A i, j \in 1..Len(w) : i <= j => w[i] <= w[j]
  /\ \A i \in 1..Len(w) : w[i] <= time

\* The sessions behind a session in the store are those that came since.
InOrder(store, others) ==
  /\ Len(store) <= MaxSessions
  /\ \A i, j \in 1..Len(store) : store[i].id = store[j].id => i = j
  /\ \A i, j \in 1..Len(store) : store[j].id \in others[store[i].id] <=> i < j
  /\ \A i \in 1..Len(store) : others[store[i].id] \subseteq Ids(store)

\* The window of a session says what was admitted; a session without a window
\* has had nothing admitted, or is forgotten because max_sessions have come since.
PhaseOK(p, time, store, passed, others) ==
  /\ InOrder(store, others)
  /\ \A i \in 1..Len(store) :
       /\ Rising(store[i].window, time)
       /\ Cut(store[i].window, time - RateWindow[p], passed[store[i].id])
  /\ \A s \in Sessions :
       /\ IsFiniteSet(others[s]) /\ Len(passed[s]) <= MaxRequests[p]
       /\ s \notin Ids(store) /\ passed[s] # <<>> => Cardinality(others[s]) >= MaxSessions

RateIInv ==
  /\ RateTypes
  /\ \A p \in Phases :
       MaxRequests[p] < MaxTimestamps => PhaseOK(p, clock, rate[p], admitted[p], rivals[p])

\* A window without its timestamps before a cutoff.
LEMMA SinceFacts ==
  ASSUME NEW w \in Seq(Nat), NEW cutoff \in Int
  PROVE  /\ Since(w, cutoff) \in Seq(Nat) /\ Len(Since(w, cutoff)) <= Len(w)
         /\ \A time : Rising(w, time) => Cut(w, cutoff, Since(w, cutoff))
<1> DEFINE live == {i \in DOMAIN w : w[i] >= cutoff}
<1>1. live \in SUBSET Nat /\ live \subseteq 1..Len(w)
  OBVIOUS
<1>2. CASE live = {}
  <2>1. Since(w, cutoff) = <<>>
    BY <1>2 DEF Since
  <2>2. \A i \in 1..Len(w) : w[i] < cutoff
    BY <1>2
  <2>3. Cut(w, cutoff, <<>>)
    BY <2>2 DEF Cut
  <2> QED
    BY <2>1, <2>3
<1>3. CASE live # {}
  <2> DEFINE m == Min(live)
  <2>1. m \in live /\ \A i \in live : m <= i
    <3> HIDE DEF live
    <3> QED
      BY <1>1, <1>3, LeastNumber
  <2>2. Since(w, cutoff) = SubSeq(w, m, Len(w))
    BY <1>3 DEF Since
  <2>3. m \in 1..Len(w) /\ w[m] >= cutoff /\ \A i \in 1..Len(w) : w[i] >= cutoff => m <= i
    BY <2>1
  <2> HIDE DEF m, live
  <2>4. /\ Since(w, cutoff) \in Seq(Nat) /\ Len(Since(w, cutoff)) = Len(w) - (m - 1)
        /\ \A i \in 1..Len(Since(w, cutoff)) : Since(w, cutoff)[i] = w[(m - 1) + i]
    BY <2>2, <2>3
  <2>5. ASSUME NEW time, Rising(w, time)
        PROVE  Cut(w, cutoff, Since(w, cutoff))
    <3>1. \A i \in 1..(m - 1) : w[i] < cutoff
      BY <2>3
    <3>2. \A i \in ((m - 1) + 1)..Len(w) : w[i] >= cutoff
      BY <2>3, <2>5 DEF Rising
    <3>3. m - 1 \in 0..Len(w)
      BY <2>3
    <3> QED
      BY <2>4, <3>1, <3>2, <3>3 DEF Cut
  <2> QED
    BY <2>3, <2>4, <2>5
<1> QED
  BY <1>2, <1>3

\* There is only one such rest of a window ...
LEMMA CutOnce ==
  ASSUME NEW w \in Seq(Nat), NEW u \in Seq(Nat), NEW v \in Seq(Nat), NEW cutoff \in Int,
         Cut(w, cutoff, u), Cut(w, cutoff, v)
  PROVE  u = v
<1>1. PICK k \in 0..Len(w) :
        /\ Len(u) = Len(w) - k
        /\ \A i \in 1..Len(u) : u[i] = w[k + i]
        /\ \A i \in 1..k : w[i] < cutoff
        /\ \A i \in (k + 1)..Len(w) : w[i] >= cutoff
  BY DEF Cut
<1>2. PICK l \in 0..Len(w) :
        /\ Len(v) = Len(w) - l
        /\ \A i \in 1..Len(v) : v[i] = w[l + i]
        /\ \A i \in 1..l : w[i] < cutoff
        /\ \A i \in (l + 1)..Len(w) : w[i] >= cutoff
  BY DEF Cut
<1>3. k = l
  <2>1. ~(k < l)
    <3> SUFFICES ASSUME k < l PROVE FALSE
      OBVIOUS
    <3>1. l \in 1..l /\ l \in (k + 1)..Len(w) /\ w[l] \in Int
      BY <1>2
    <3> QED
      BY <1>1, <1>2, <3>1
  <2>2. ~(l < k)
    <3> SUFFICES ASSUME l < k PROVE FALSE
      OBVIOUS
    <3>1. k \in 1..k /\ k \in (l + 1)..Len(w) /\ w[k] \in Int
      BY <1>1
    <3> QED
      BY <1>1, <1>2, <3>1
  <2> QED
    BY <2>1, <2>2
<1>4. Len(u) = Len(v) /\ \A i \in 1..Len(u) : u[i] = v[i]
  BY <1>1, <1>2, <1>3
<1> QED
  BY <1>4, SeqEqual

\* ... which is its own rest, goes on with a later timestamp, is cut further, and
\* is in the order of time if the window is.
LEMMA CutFacts ==
  ASSUME NEW w \in Seq(Nat), NEW v \in Seq(Nat), NEW cutoff \in Int,
         Cut(w, cutoff, v)
  PROVE  /\ Cut(v, cutoff, v)
         /\ \A t \in Nat : t >= cutoff => Cut(Append(w, t), cutoff, Append(v, t))
         /\ \A x \in Seq(Nat), later \in Int :
              cutoff <= later /\ Cut(v, later, x) => Cut(w, later, x)
         /\ \A time \in Nat : Rising(w, time) => Rising(v, time)
<1>1. PICK k \in 0..Len(w) :
        /\ Len(v) = Len(w) - k
        /\ \A i \in 1..Len(v) : v[i] = w[k + i]
        /\ \A i \in 1..k : w[i] < cutoff
        /\ \A i \in (k + 1)..Len(w) : w[i] >= cutoff
  BY DEF Cut
<1>2. \A i \in 1..Len(v) : k + i \in (k + 1)..Len(w) /\ k + i \in 1..Len(w)
  BY <1>1
<1>3. Cut(v, cutoff, v)
  <2>1. \A i \in 1..Len(v) : v[i] >= cutoff
    BY <1>1, <1>2
  <2>2. /\ 0 \in 0..Len(v) /\ Len(v) = Len(v) - 0
        /\ \A i \in 1..Len(v) : v[i] = v[0 + i]
        /\ \A i \in 1..0 : v[i] < cutoff
        /\ \A i \in (0 + 1)..Len(v) : v[i] >= cutoff
    BY <2>1
  <2> HIDE <1>1
  <2> QED
    BY <2>2 DEF Cut
<1>4. ASSUME NEW t \in Nat, t >= cutoff
      PROVE  Cut(Append(w, t), cutoff, Append(v, t))
  <2>1. /\ Len(Append(w, t)) = Len(w) + 1 /\ Len(Append(v, t)) = Len(v) + 1
        /\ \A i \in 1..Len(w) : Append(w, t)[i] = w[i]
        /\ \A i \in 1..Len(v) : Append(v, t)[i] = v[i]
        /\ Append(w, t)[Len(w) + 1] = t /\ Append(v, t)[Len(v) + 1] = t
    OBVIOUS
  <2>2. Len(Append(v, t)) = Len(Append(w, t)) - k /\ k \in 0..Len(Append(w, t))
    BY <1>1, <2>1
  <2>3. ASSUME NEW i \in 1..(Len(v) + 1) PROVE Append(v, t)[i] = Append(w, t)[k + i]
    <3>1. CASE i = Len(v) + 1
      <4>1. k + i = Len(w) + 1
        BY <1>1, <3>1
      <4> QED
        BY <2>1, <3>1, <4>1
    <3>2. CASE i # Len(v) + 1
      <4>1. i \in 1..Len(v)
        BY <3>2
      <4> QED
        BY <1>1, <1>2, <2>1, <4>1
    <3> QED
      BY <3>1, <3>2
  <2>4. \A i \in 1..k : Append(w, t)[i] < cutoff
    BY <1>1, <2>1
  <2>5. ASSUME NEW i \in (k + 1)..(Len(w) + 1) PROVE Append(w, t)[i] >= cutoff
    <3>1. i = Len(w) + 1 \/ i \in (k + 1)..Len(w)
      BY <1>1
    <3>2. (k + 1)..Len(w) \subseteq 1..Len(w)
      BY <1>1
    <3> QED
      BY <1>1, <1>4, <2>1, <3>1, <3>2
  <2> HIDE <1>1
  <2> QED
    BY <2>1, <2>2, <2>3, <2>4, <2>5 DEF Cut
<1>5. ASSUME NEW x \in Seq(Nat), NEW later \in Int, cutoff <= later, Cut(v, later, x)
      PROVE  Cut(w, later, x)
  <2>1. PICK l \in 0..Len(v) :
          /\ Len(x) = Len(v) - l
          /\ \A i \in 1..Len(x) : x[i] = v[l + i]
          /\ \A i \in 1..l : v[i] < later
          /\ \A i \in (l + 1)..Len(v) : v[i] >= later
    BY <1>5 DEF Cut
  <2>2. k + l \in 0..Len(w) /\ Len(x) = Len(w) - (k + l)
    BY <1>1, <2>1
  <2>3. ASSUME NEW i \in 1..Len(x) PROVE x[i] = w[(k + l) + i]
    <3>1. l + i \in 1..Len(v) /\ k + (l + i) = (k + l) + i
      BY <1>1, <2>1
    <3> QED
      BY <1>1, <2>1, <3>1, ZenonT(60)
  <2>4. ASSUME NEW i \in 1..(k + l) PROVE w[i] < later
    <3>1. CASE i \in 1..k
      <4>1. w[i] \in Nat
        BY <1>1, <3>1
      <4> QED
        BY <1>1, <1>5, <3>1, <4>1, SMTT(40)
    <3>2. CASE i \notin 1..k
      <4>1. i - k \in 1..l /\ i - k \in 1..Len(v) /\ k + (i - k) = i
        BY <1>1, <2>1, <3>2
      <4> QED
        BY <1>1, <2>1, <4>1
    <3> QED
      BY <3>1, <3>2
  <2>5. ASSUME NEW i \in ((k + l) + 1)..Len(w) PROVE w[i] >= later
    <3>1. i - k \in (l + 1)..Len(v) /\ i - k \in 1..Len(v) /\ k + (i - k) = i
      BY <1>1, <2>1
    <3> QED
      BY <1>1, <2>1, <3>1
  <2> HIDE <1>1, <2>1
  <2> QED
    BY <2>2, <2>3, <2>4, <2>5 DEF Cut
<1>6. ASSUME NEW time \in Nat, Rising(w, time) PROVE Rising(v, time)
  <2>1. ASSUME NEW i \in 1..Len(v), NEW j \in 1..Len(v), i <= j PROVE v[i] <= v[j]
    <3>1. k + i \in 1..Len(w) /\ k + j \in 1..Len(w) /\ k + i <= k + j
      BY <1>2, <2>1
    <3> QED
      BY <1>1, <1>6, <3>1 DEF Rising
  <2>2. ASSUME NEW i \in 1..Len(v) PROVE v[i] <= time
    BY <1>1, <1>2, <1>6 DEF Rising
  <2> QED
    BY <2>1, <2>2 DEF Rising
<1> QED
  BY <1>3, <1>4, <1>5, <1>6

LEMMA RecentType ==
  ASSUME NEW w \in Seq(Nat), NEW cutoff \in Int
  PROVE  Recent(w, cutoff) \in Seq(Nat)
<1>1. Since(w, cutoff) \in Seq(Nat)
  BY SinceFacts
<1>2. ASSUME NEW v \in Seq(Nat), Len(v) >= MaxTimestamps
      PROVE  SubSeq(v, Len(v) - MaxTimestamps + 2, Len(v)) \in Seq(Nat)
  <2>1. Len(v) - MaxTimestamps + 2 \in Int /\ Len(v) - MaxTimestamps + 2 >= 1
    BY <1>2, LimiterAssumption DEF LimiterAssumption
  <2> QED
    BY <2>1
<1> QED
  BY <1>1, <1>2 DEF Recent

\* What process_request makes of a store.
LEMMA CheckedType ==
  ASSUME NEW store \in Seq(Windows), NEW sid \in Sessions, NEW p \in Phases, NEW time \in Nat
  PROVE  Checked(store, sid, p, time).store \in Seq(Windows)
<1> DEFINE used == GetWindow(store, sid, MaxSessions)
           u == Recent(WindowOf(used, sid), time - RateWindow[p])
           w == IF Len(u) < MaxRequests[p] THEN Append(u, time) ELSE u
<1>5. used \in Seq(Windows)
  BY UsedIs, LimiterAssumption DEF LimiterAssumption, Windows
<1>1. used \in Seq(Windows) /\ time - RateWindow[p] \in Int
  <2> HIDE DEF used
  <2> QED
    BY <1>5, LimiterAssumption DEF LimiterAssumption
<1>2. u \in Seq(Nat)
  <2> HIDE DEF used
  <2> QED
    BY <1>1, WindowType, RecentType DEF Windows
<1>3. w \in Seq(Nat)
  <2> HIDE DEF u
  <2> QED
    BY <1>2
<1>4. Checked(store, sid, p, time).store = SetWindow(used, sid, w)
  BY DEF Checked
<1> HIDE DEF used, w
<1>6. SetWindow(used, sid, w) \in Seq(Windows)
  BY <1>1, <1>3, SetIs DEF Windows
<1> QED
  BY <1>4, <1>6

LEMMA CheckedIs ==
  ASSUME NEW store \in Seq(Windows), NEW sid \in Sessions, NEW p \in Phases, NEW time \in Nat,
         Apart(store)
  PROVE  LET check == Checked(store, sid, p, time)
             u == Recent(WindowOf(store, sid), time - RateWindow[p])
         IN /\ check.passes <=> Len(u) < MaxRequests[p]
            /\ Len(check.store) >= 1
            /\ check.store[Len(check.store)] =
                 [id |-> sid, window |-> IF check.passes THEN Append(u, time) ELSE u]
            /\ \E d \in 1..Len(check.store) : Moved(store, check.store, sid, d, MaxSessions)
<1> DEFINE used == GetWindow(store, sid, MaxSessions)
           m == Len(used)
           u == Recent(WindowOf(store, sid), time - RateWindow[p])
           passes == Len(u) < MaxRequests[p]
           w == IF passes THEN Append(u, time) ELSE u
           check == Checked(store, sid, p, time)
<1>1. /\ used \in Seq(Windows) /\ m >= 1 /\ m \in Nat
      /\ used[m] = [id |-> sid, window |-> WindowOf(store, sid)]
      /\ \E d \in 1..m : Moved(store, used, sid, d, MaxSessions)
  <2>1. MaxSessions \in Nat \ {0} /\ store \in Seq(Slots(Sessions, Nat))
    BY LimiterAssumption DEF LimiterAssumption, Windows
  <2>2. /\ used \in Seq(Slots(Sessions, Nat)) /\ m >= 1
        /\ used[m] = [id |-> sid, window |-> WindowOf(store, sid)]
        /\ \E d \in 1..m : Moved(store, used, sid, d, MaxSessions)
    BY <2>1, UsedIs
  <2> HIDE DEF used
  <2> QED
    BY <2>2 DEF Windows
<1>2. PICK d \in 1..m : Moved(store, used, sid, d, MaxSessions)
  BY <1>1
<1>3. \A i \in 1..(m - 1) : used[i].id # sid
  <2> HIDE DEF used
  <2>1. used \in Seq(Slots(Sessions, Nat)) /\ store \in Seq(Slots(Sessions, Nat))
    BY <1>1 DEF Windows
  <2>2. /\ d \in 1..Len(used) /\ Moved(store, used, sid, d, MaxSessions)
        /\ sid \in Sessions /\ Apart(store)
    BY <1>2
  <2>3. \A i \in 1..(Len(used) - 1) :
          /\ (IF i < d THEN i ELSE i + 1) \in 1..Len(store)
          /\ used[i] = store[IF i < d THEN i ELSE i + 1]
          /\ used[i].id # sid
    BY ONLY <2>1, <2>2, OthersMoved
  <2> QED
    BY ONLY <2>3
<1>4. WindowOf(used, sid) = WindowOf(store, sid)
  <2> HIDE DEF used, m
  <2>1. sid \in Ids(used)
    <3>1. m \in 1..Len(used) /\ m \in DOMAIN used /\ used[m].id = sid
      BY <1>1 DEF m
    <3> QED
      BY <3>1 DEF Ids
  <2>2. PlaceOf(used, sid) \in 1..Len(used) /\ used[PlaceOf(used, sid)].id = sid
        /\ WindowOf(used, sid) = used[PlaceOf(used, sid)].window
    BY <1>1, <2>1, PlaceIs DEF Windows
  <2>3. PlaceOf(used, sid) = m
    BY <1>1, <1>3, <2>2 DEF m
  <2> QED
    BY <1>1, <2>2, <2>3
<1>5. WindowOf(store, sid) \in Seq(Nat) /\ time - RateWindow[p] \in Int
  BY WindowType, LimiterAssumption DEF LimiterAssumption, Windows
<1>6. u \in Seq(Nat)
  BY <1>5, RecentType
<1>7. w \in Seq(Nat)
  <2> HIDE DEF u
  <2> QED
    BY <1>6
<1>8. check.passes = passes /\ check.store = SetWindow(used, sid, w)
  <2> HIDE DEF used
  <2> QED
    BY <1>4 DEF Checked, used
<1> DEFINE T == check.store
<1> HIDE DEF used, u, w, passes, check
<1>9. Len(T) = m /\ T[m] = [id |-> sid, window |-> w] /\ \A i \in 1..(m - 1) : T[i] = used[i]
  <2>1. /\ Len(SetWindow(used, sid, w)) = Len(used)
        /\ \A i \in 1..Len(used) :
             SetWindow(used, sid, w)[i] =
               IF used[i].id = sid THEN [id |-> sid, window |-> w] ELSE used[i]
    BY <1>1, <1>7, SetIs DEF Windows
  <2>2. T = SetWindow(used, sid, w)
    BY <1>8
  <2>3. used[m].id = sid /\ m \in 1..m /\ 1..(m - 1) \subseteq 1..m
    BY <1>1
  <2> HIDE DEF T
  <2> QED
    BY <1>1, <1>3, <2>1, <2>2, <2>3
<1>10. Moved(store, T, sid, d, MaxSessions)
  BY <1>1, <1>2, <1>9 DEF Moved
<1> QED
  BY <1>1, <1>2, <1>8, <1>9, <1>10 DEF u, w, passes, check

\* How many sessions have come since one in the store did.
LEMMA BehindIs ==
  ASSUME NEW store \in Seq(Windows), NEW others \in [Sessions -> SUBSET Sessions],
         InOrder(store, others), NEW k \in 1..Len(store)
  PROVE  /\ IsFiniteSet(others[store[k].id])
         /\ Cardinality(others[store[k].id]) = Len(store) - k
<1> DEFINE B == others[store[k].id]
           I == (k + 1)..Len(store)
           f == [j \in I |-> store[j].id]
<1>1. B \subseteq Ids(store)
  BY DEF InOrder
<1>2. \A j \in 1..Len(store) : store[j].id \in B <=> j \in I
  BY DEF InOrder
<1>3. B = {store[j].id : j \in I}
  <2>1. I \subseteq 1..Len(store)
    OBVIOUS
  <2> HIDE DEF B, I
  <2>2. ASSUME NEW x \in B PROVE \E j \in I : x = store[j].id
    <3>1. PICK j \in 1..Len(store) : x = store[j].id
      BY <1>1 DEF Ids
    <3> QED
      BY <1>2, <3>1
  <2>3. \A j \in I : store[j].id \in B
    BY <1>2, <2>1
  <2> QED
    BY <2>2, <2>3
<1>4. f \in Bijection(I, B)
  <2>1. \A i, j \in I : store[i].id = store[j].id => i = j
    BY DEF InOrder
  <2>2. f \in [I -> B] /\ \A j \in I : f[j] = store[j].id
    <3> HIDE DEF I, B
    <3> QED
      BY <1>3
  <2> HIDE DEF f, I, B
  <2>3. f \in Injection(I, B)
    BY <2>1, <2>2 DEF Injection, IsInjective
  <2>4. f \in Surjection(I, B)
    BY <1>3, <2>2 DEF Surjection
  <2> QED
    BY <2>3, <2>4 DEF Bijection
<1>5. IsFiniteSet(I) /\ Cardinality(I) = Len(store) - k
  <2>1. Len(store) \in Int /\ k + 1 \in Int /\ k \in 1..Len(store)
    OBVIOUS
  <2> QED
    BY <2>1, FS_Interval
<1>6. IsFiniteSet(B) /\ Cardinality(B) = Cardinality(I)
  <2> HIDE DEF f, I, B
  <2> QED
    BY <1>4, <1>5, FS_Bijection DEF ExistsBijection
<1> QED
  BY <1>5, <1>6

\* Who has come since, after the session sid has.
Later(others, sid) == [s \in Sessions |-> IF s = sid THEN {} ELSE others[s] \cup {sid}]

LEMMA InOrderStep ==
  ASSUME NEW store \in Seq(Windows), NEW T \in Seq(Windows), NEW sid \in Sessions,
         NEW others \in [Sessions -> SUBSET Sessions], InOrder(store, others),
         Len(T) >= 1, T[Len(T)].id = sid, NEW d \in 1..Len(T), Moved(store, T, sid, d, MaxSessions)
  PROVE  InOrder(T, Later(others, sid))
<1> DEFINE m == Len(T)
           F(i) == IF i < d THEN i ELSE i + 1
<1>1. \A i \in 1..(m - 1) : F(i) \in 1..Len(store) /\ T[i] = store[F(i)] /\ T[i].id # sid
  BY OthersMoved DEF InOrder, Apart, Windows
<1>2. \A i, j \in 1..(m - 1) : F(i) < F(j) <=> i < j
  OBVIOUS
<1>3. \A i \in 1..m : T[i].id \in Sessions
  <2>1. \A i \in 1..m : T[i] \in Windows
    OBVIOUS
  <2> QED
    BY <2>1 DEF Windows, Slots
<1>4. m \in Nat /\ m >= 1 /\ T[m].id = sid /\ \A i \in 1..m : i = m \/ i \in 1..(m - 1)
  OBVIOUS
<1>5. \A i \in 1..(m - 1) : Later(others, sid)[T[i].id] = others[store[F(i)].id] \cup {sid}
  BY <1>1, <1>3, <1>4 DEF Later
<1>6. Later(others, sid)[sid] = {}
  BY DEF Later
<1>7. \A i, j \in 1..Len(store) : store[j].id \in others[store[i].id] <=> i < j
  BY DEF InOrder
<1>8. \A i, j \in 1..Len(store) : store[i].id = store[j].id => i = j
  BY DEF InOrder
<1>9. m <= MaxSessions
  <2>1. Len(store) <= MaxSessions /\ MaxSessions \in Nat
    BY LimiterAssumption DEF InOrder, LimiterAssumption
  <2>2. Len(store) = m \/ (Len(store) = m - 1 /\ Len(store) < MaxSessions)
    BY DEF Moved
  <2> QED
    BY <2>1, <2>2
<1> HIDE DEF m, F
<1>10. ASSUME NEW i \in 1..m, NEW j \in 1..m PROVE T[i].id = T[j].id => i = j
  <2>1. CASE i = m \/ j = m
    BY <1>1, <1>4, <2>1
  <2>2. CASE i \in 1..(m - 1) /\ j \in 1..(m - 1)
    <3>1. T[i].id = T[j].id => F(i) = F(j)
      BY <1>1, <1>8, <2>2
    <3>2. F(i) = F(j) => i = j
      BY <2>2 DEF F
    <3> QED
      BY <3>1, <3>2
  <2> QED
    BY <1>4, <2>1, <2>2
<1>11. ASSUME NEW i \in 1..m, NEW j \in 1..m
       PROVE  T[j].id \in Later(others, sid)[T[i].id] <=> i < j
  <2>1. CASE i = m
    <3>1. ~(i < j)
      BY <1>4, <2>1
    <3> QED
      BY <1>4, <1>6, <2>1, <3>1
  <2>2. CASE i \in 1..(m - 1) /\ j = m
    <3>1. i < j
      BY <1>4, <2>2
    <3>2. sid \in Later(others, sid)[T[i].id]
      BY <1>5, <2>2
    <3> QED
      BY <1>4, <2>2, <3>1, <3>2
  <2>3. CASE i \in 1..(m - 1) /\ j \in 1..(m - 1)
    <3>1. T[j].id \in Later(others, sid)[T[i].id] <=> T[j].id \in others[store[F(i)].id]
      BY <1>1, <1>5, <2>3, ZenonT(60)
    <3>2. store[F(j)].id \in others[store[F(i)].id] <=> F(i) < F(j)
      BY <1>1, <1>7, <2>3
    <3>3. T[j] = store[F(j)] /\ (F(i) < F(j) <=> i < j)
      BY <1>1, <1>2, <2>3
    <3> QED
      BY <3>1, <3>2, <3>3
  <2> QED
    BY <1>4, <2>1, <2>2, <2>3
<1>12. ASSUME NEW i \in 1..m PROVE Later(others, sid)[T[i].id] \subseteq Ids(T)
  <2>1. sid \in Ids(T)
    BY <1>4 DEF Ids, m
  <2>2. CASE i = m
    BY <1>4, <1>6, <2>2
  <2>3. CASE i \in 1..(m - 1)
    <3> SUFFICES ASSUME NEW x \in others[store[F(i)].id] PROVE x \in Ids(T)
      BY <1>5, <2>1, <2>3
    <3>1. x \in Ids(store)
      BY <1>1, <2>3 DEF InOrder
    <3>2. PICK j \in 1..Len(store) : x = store[j].id
      BY <3>1 DEF Ids
    <3>3. F(i) < j /\ F(i) \in 1..Len(store)
      BY <1>1, <1>7, <2>3, <3>2
    <3>4. CASE store[d].id = sid /\ j = d
      BY <2>1, <3>2, <3>4
    <3>5. CASE j # d \/ sid \notin Ids(store)
      <4> DEFINE l == IF j < d THEN j ELSE j - 1
      <4>1. l \in 1..(m - 1) /\ F(l) = j
        <5>1. /\ d \in 1..m /\ j \in 1..Len(store) /\ F(i) < j
              /\ i \in 1..(m - 1) /\ m \in Nat
          BY <1>4, <2>3, <3>2, <3>3 DEF m
        <5>2. \/ Len(store) = m - 1 /\ d = m
              \/ Len(store) = m /\ store[d].id = sid
              \/ Len(store) = m /\ d = 1
          BY DEF Moved, m
        <5>3. CASE Len(store) = m - 1 /\ d = m
          BY <5>1, <5>3 DEF F
        <5>4. CASE Len(store) = m /\ j # d
          BY <5>1, <5>4 DEF F
        <5>5. CASE Len(store) = m /\ d = 1
          BY <5>1, <5>5 DEF F
        <5>6. CASE Len(store) = m /\ store[d].id = sid
          <6>1. d \in DOMAIN store
            BY <5>1, <5>6
          <6>2. sid \in Ids(store)
            BY <5>6, <6>1 DEF Ids
          <6> QED
            BY <3>5, <5>4, <5>6, <6>2
        <5> QED
          BY <5>2, <5>3, <5>5, <5>6
      <4>2. T[l].id = x
        BY <1>1, <3>2, <4>1
      <4>3. l \in DOMAIN T
        BY <4>1 DEF m
      <4> QED
        BY <4>2, <4>3 DEF Ids
    <3>6. store[d].id = sid \/ sid \notin Ids(store)
      BY DEF Moved
    <3> QED
      BY <3>4, <3>5, <3>6
  <2> QED
    BY <1>4, <2>2, <2>3
<1> QED
  BY <1>9, <1>10, <1>11, <1>12 DEF InOrder, m

LEMMA EmptyWindow ==
  ASSUME NEW cutoff \in Int, NEW time \in Nat
  PROVE  Cut(<<>>, cutoff, <<>>) /\ Rising(<<>>, time)
BY DEF Cut, Rising

\* What the observer takes for admitted of a session that comes.
BeforeOf(passed, others, sid) ==
  IF Cardinality(others[sid]) >= MaxSessions THEN <<>> ELSE passed[sid]

\* The window of a session that comes, and what the observer knows of it, are the
\* same timestamps.
LEMMA BeforeIs ==
  ASSUME NEW p \in Phases, NEW time \in Nat, NEW store \in Seq(Windows),
         NEW passed \in [Sessions -> Seq(Nat)], NEW others \in [Sessions -> SUBSET Sessions],
         NEW sid \in Sessions, MaxRequests[p] < MaxTimestamps,
         PhaseOK(p, time, store, passed, others)
  PROVE  LET before == BeforeOf(passed, others, sid) IN
         /\ before \in Seq(Nat) /\ Rising(before, time)
         /\ Cut(before, time - RateWindow[p], before)
         /\ Len(before) <= MaxRequests[p]
         /\ Recent(WindowOf(store, sid), time - RateWindow[p]) = before
<1> DEFINE before == IF Cardinality(others[sid]) >= MaxSessions THEN <<>> ELSE passed[sid]
           W == WindowOf(store, sid)
           cutoff == time - RateWindow[p]
<1>1. /\ MaxRequests[p] \in Nat /\ RateWindow[p] \in Nat /\ MaxSessions \in Nat \ {0}
      /\ MaxTimestamps \in Nat \ {0}
  BY LimiterAssumption DEF LimiterAssumption
<1>2. cutoff \in Int
  BY <1>1
<1>3. before \in Seq(Nat) /\ W \in Seq(Nat)
  BY WindowType DEF Windows
<1>4. Len(before) <= MaxRequests[p]
  BY <1>1 DEF PhaseOK
<1>5. Rising(W, time) /\ Cut(W, cutoff, before)
  <2>1. CASE sid \in Ids(store)
    <3> DEFINE k == PlaceOf(store, sid)
    <3>1. k \in 1..Len(store) /\ store[k].id = sid /\ W = store[k].window
      BY <2>1, PlaceIs DEF Windows
    <3> HIDE DEF k
    <3>2. Cardinality(others[store[k].id]) = Len(store) - k /\ Len(store) <= MaxSessions
      BY <3>1, BehindIs DEF PhaseOK, InOrder
    <3>3. before = passed[sid]
      BY <1>1, <3>1, <3>2
    <3> HIDE DEF before, W
    <3> QED
      BY <3>1, <3>3 DEF PhaseOK
  <2>2. CASE sid \notin Ids(store)
    <3>1. W = <<>>
      BY <2>2 DEF WindowOf
    <3>2. before = <<>>
      BY <2>2 DEF PhaseOK
    <3> HIDE DEF before, W, cutoff
    <3> QED
      BY <1>2, <3>1, <3>2, EmptyWindow
  <2> QED
    BY <2>1, <2>2
<1> HIDE DEF before, W, cutoff
<1>6. Since(W, cutoff) = before
  <2>1. Since(W, cutoff) \in Seq(Nat) /\ Cut(W, cutoff, Since(W, cutoff))
    BY <1>2, <1>3, <1>5, SinceFacts
  <2> QED
    BY <1>2, <1>3, <1>5, <2>1, CutOnce
<1>7. Recent(W, cutoff) = before
  <2>1. ~(Len(before) >= MaxTimestamps)
    BY <1>1, <1>3, <1>4
  <2> QED
    BY <1>6, <2>1 DEF Recent
<1>8. Cut(before, cutoff, before) /\ Rising(before, time)
  BY <1>2, <1>3, <1>5, CutFacts
<1>9. BeforeOf(passed, others, sid) = before
  BY DEF BeforeOf, before
<1> QED
  BY <1>3, <1>4, <1>7, <1>8, <1>9 DEF W, cutoff

\* A session that leaves the store without coming has had max_sessions others
\* come since.
LEMMA GoneIs ==
  ASSUME NEW store \in Seq(Windows), NEW T \in Seq(Windows), NEW sid \in Sessions,
         NEW others \in [Sessions -> SUBSET Sessions], InOrder(store, others),
         Len(T) >= 1, T[Len(T)].id = sid, NEW d \in 1..Len(T), Moved(store, T, sid, d, MaxSessions),
         NEW s \in Ids(store), s \notin Ids(T)
  PROVE  Cardinality(others[s] \cup {sid}) >= MaxSessions
<1> DEFINE m == Len(T)
<1>1. PICK k \in 1..Len(store) : store[k].id = s
  BY DEF Ids
<1>2. s # sid
  BY DEF Ids
<1>3. k = d
  <2> SUFFICES ASSUME k # d PROVE FALSE
    OBVIOUS
  <2> DEFINE l == IF k < d THEN k ELSE k - 1
             F(i) == IF i < d THEN i ELSE i + 1
  <2>1. m \in Nat /\ m >= 1 /\ (Len(store) = m \/ (Len(store) = m - 1 /\ d = m))
    BY DEF Moved
  <2>2. l \in 1..(m - 1) /\ F(l) = k
    BY <1>1, <2>1
  <2>3. T[l] = store[F(l)] /\ l \in DOMAIN T
    BY <2>1, <2>2 DEF Moved
  <2> HIDE DEF l, F, m
  <2>4. T[l].id = s /\ l \in DOMAIN T
    BY <1>1, <2>2, <2>3
  <2> QED
    BY <2>4 DEF Ids
<1>4. Len(store) = m /\ m >= MaxSessions /\ d = 1 /\ sid \notin Ids(store)
  BY <1>1, <1>2, <1>3 DEF Moved
<1>5. IsFiniteSet(others[s]) /\ Cardinality(others[s]) = Len(store) - 1
  BY <1>1, <1>3, <1>4, BehindIs
<1>6. sid \notin others[s]
  BY <1>1, <1>4 DEF InOrder
<1> DEFINE B == others[s]
<1> HIDE DEF B
<1>7. Cardinality(B \cup {sid}) = Cardinality(B) + 1
  BY <1>5, <1>6, FS_AddElement DEF B
<1> QED
  BY <1>4, <1>5, <1>7, LimiterAssumption DEF B, LimiterAssumption

LEMMA CheckPhase ==
  ASSUME NEW p \in Phases, NEW time \in Nat, NEW store \in Seq(Windows),
         NEW passed \in [Sessions -> Seq(Nat)], NEW others \in [Sessions -> SUBSET Sessions],
         NEW sid \in Sessions, MaxRequests[p] < MaxTimestamps,
         PhaseOK(p, time, store, passed, others)
  PROVE  LET check == Checked(store, sid, p, time)
             before == BeforeOf(passed, others, sid)
             now2 == IF check.passes THEN Append(before, time) ELSE before
         IN PhaseOK(p, time, check.store, [passed EXCEPT ![sid] = now2], Later(others, sid))
<1> DEFINE check == Checked(store, sid, p, time)
           before == BeforeOf(passed, others, sid)
           v == IF check.passes THEN Append(before, time) ELSE before
           cutoff == time - RateWindow[p]
           T == check.store
           passed2 == [passed EXCEPT ![sid] = v]
<1>1. /\ MaxRequests[p] \in Nat /\ RateWindow[p] \in Nat /\ MaxSessions \in Nat
      /\ cutoff \in Int /\ time >= cutoff
  BY LimiterAssumption DEF LimiterAssumption
<1>2. /\ before \in Seq(Nat) /\ Rising(before, time) /\ Cut(before, cutoff, before)
      /\ Len(before) <= MaxRequests[p]
      /\ Recent(WindowOf(store, sid), cutoff) = before
  BY BeforeIs
<1>3. InOrder(store, others) /\ Apart(store)
  BY DEF PhaseOK, InOrder, Apart
<1>4. /\ check.passes <=> Len(before) < MaxRequests[p]
      /\ T \in Seq(Windows) /\ Len(T) >= 1
      /\ T[Len(T)] = [id |-> sid, window |-> v]
      /\ \E d \in 1..Len(T) : Moved(store, T, sid, d, MaxSessions)
  <2> HIDE DEF before
  <2> QED
    BY <1>2, <1>3, CheckedIs, CheckedType
<1> HIDE DEF check, before, cutoff
<1>5. v \in Seq(Nat) /\ Rising(v, time) /\ Cut(v, cutoff, v) /\ Len(v) <= MaxRequests[p]
  <2>1. CASE check.passes
    <3>1. v = Append(before, time)
      BY <2>1
    <3>2. Cut(Append(before, time), cutoff, Append(before, time))
      BY <1>1, <1>2, CutFacts
    <3> DEFINE a == Append(before, time)
    <3>3. /\ Len(a) = Len(before) + 1 /\ a \in Seq(Nat)
          /\ \A i \in 1..Len(before) : a[i] = before[i]
          /\ a[Len(before) + 1] = time
      BY <1>2
    <3> HIDE DEF a
    <3>4. \A i \in 1..Len(a) : i = Len(a) \/ i \in 1..Len(before)
      BY <1>2, <3>3
    <3>5. ASSUME NEW i \in 1..Len(a) PROVE a[i] <= time
      <4>1. CASE i = Len(a)
        BY <1>2, <3>3, <4>1
      <4>2. CASE i \in 1..Len(before)
        BY <1>2, <3>3, <4>2 DEF Rising
      <4> QED
        BY <3>4, <4>1, <4>2
    <3>6. ASSUME NEW i \in 1..Len(a), NEW j \in 1..Len(a), i <= j PROVE a[i] <= a[j]
      <4>1. CASE j = Len(a)
        BY <3>3, <3>5, <4>1
      <4>2. CASE j \in 1..Len(before)
        <5>1. i \in 1..Len(before)
          BY <3>6, <4>2
        <5> QED
          BY <1>2, <3>3, <3>6, <4>2, <5>1 DEF Rising
      <4> QED
        BY <3>4, <4>1, <4>2
    <3>7. Rising(a, time)
      BY <3>5, <3>6 DEF Rising
    <3>8. Len(a) <= MaxRequests[p]
      BY <1>1, <1>2, <1>4, <2>1, <3>3
    <3> QED
      BY <3>1, <3>2, <3>3, <3>7, <3>8 DEF a
  <2>2. CASE ~check.passes
    BY <1>2, <2>2
  <2> QED
    BY <2>1, <2>2
<1> HIDE DEF v
<1>6. PICK d \in 1..Len(T) : Moved(store, T, sid, d, MaxSessions)
  BY <1>4
<1>7. T[Len(T)].id = sid /\ T[Len(T)].window = v
  BY <1>4
<1>8. /\ passed2 \in [Sessions -> Seq(Nat)] /\ passed2[sid] = v
      /\ \A s \in Sessions : s # sid => passed2[s] = passed[s]
  BY <1>5
<1> HIDE DEF T, passed2
<1>9. InOrder(T, Later(others, sid))
  BY <1>3, <1>4, <1>6, <1>7, InOrderStep
<1>10. ASSUME NEW i \in 1..Len(T)
       PROVE  Rising(T[i].window, time) /\ Cut(T[i].window, cutoff, passed2[T[i].id])
  <2>1. CASE i = Len(T)
    BY <1>5, <1>7, <1>8, <2>1
  <2>2. CASE i \in 1..(Len(T) - 1)
    <3> DEFINE j == IF i < d THEN i ELSE i + 1
    <3>1. j \in 1..Len(store) /\ T[i] = store[j] /\ T[i].id # sid
      BY <1>3, <1>4, <1>6, <2>2, OthersMoved DEF Windows
    <3> HIDE DEF j
    <3>2. T[i].id \in Sessions
      <4>1. T[i] \in Windows
        BY <1>4
      <4> QED
        BY <4>1 DEF Windows, Slots
    <3>3. passed2[T[i].id] = passed[store[j].id]
      BY <1>8, <3>1, <3>2
    <3> QED
      BY <3>1, <3>3 DEF PhaseOK, cutoff
  <2> QED
    BY <1>4, <2>1, <2>2
<1>11. ASSUME NEW s \in Sessions
       PROVE  /\ IsFiniteSet(Later(others, sid)[s]) /\ Len(passed2[s]) <= MaxRequests[p]
              /\ s \notin Ids(T) /\ passed2[s] # <<>> =>
                   Cardinality(Later(others, sid)[s]) >= MaxSessions
  <2>1. IsFiniteSet(others[s]) /\ Len(passed[s]) <= MaxRequests[p]
    BY DEF PhaseOK
  <2> DEFINE B == others[s]
  <2> HIDE DEF B
  <2>2. CASE s = sid
    <3>1. Later(others, sid)[s] = {}
      BY <2>2 DEF Later
    <3>2. sid \in Ids(T)
      <4>1. Len(T) \in DOMAIN T
        BY <1>4
      <4> QED
        BY <1>7, <4>1 DEF Ids
    <3> QED
      BY <1>5, <1>8, <2>2, <3>1, <3>2, FS_EmptySet
  <2>3. CASE s # sid
    <3>1. Later(others, sid)[s] = B \cup {sid}
      BY <2>3 DEF Later, B
    <3>2. /\ IsFiniteSet(B \cup {sid}) /\ Cardinality(B) \in Nat
          /\ Cardinality(B \cup {sid}) >= Cardinality(B)
      <4>1. /\ IsFiniteSet(B \cup {sid}) /\ Cardinality(B) \in Nat
            /\ Cardinality(B \cup {sid}) =
                 IF sid \in B THEN Cardinality(B) ELSE Cardinality(B) + 1
        BY <2>1, FS_AddElement, FS_CardinalityType DEF B
      <4> QED
        BY <4>1
    <3>3. ASSUME s \notin Ids(T), passed2[s] # <<>>
          PROVE  Cardinality(B \cup {sid}) >= MaxSessions
      <4>1. CASE s \in Ids(store)
        BY <1>3, <1>4, <1>6, <1>7, <3>3, <4>1, GoneIs DEF B
      <4>2. CASE s \notin Ids(store)
        <5>1. Cardinality(B) >= MaxSessions
          BY <1>8, <2>3, <3>3, <4>2 DEF PhaseOK, B
        <5>2. Cardinality(B \cup {sid}) \in Nat
          BY <3>2, FS_CardinalityType
        <5> QED
          BY <1>1, <3>2, <5>1, <5>2
      <4> QED
        BY <4>1, <4>2
    <3> QED
      BY <1>8, <2>1, <2>3, <3>1, <3>2, <3>3
  <2> QED
    BY <2>2, <2>3
<1>12. PhaseOK(p, time, T, passed2, Later(others, sid))
  BY <1>9, <1>10, <1>11 DEF PhaseOK, cutoff
<1> QED
  BY <1>12 DEF T, passed2, v, before, check

\* A tick of the clock: the windows stay, the observer forgets.
LEMMA TickPhase ==
  ASSUME NEW p \in Phases, NEW time \in Nat, NEW store \in Seq(Windows),
         NEW passed \in [Sessions -> Seq(Nat)], NEW others \in [Sessions -> SUBSET Sessions],
         PhaseOK(p, time, store, passed, others)
  PROVE  PhaseOK(p, time + 1, store,
                 [s \in Sessions |-> Since(passed[s], (time + 1) - RateWindow[p])], others)
<1> DEFINE later == (time + 1) - RateWindow[p]
           passed2 == [s \in Sessions |-> Since(passed[s], later)]
<1>1. /\ RateWindow[p] \in Nat /\ MaxRequests[p] \in Nat
      /\ later \in Int /\ time - RateWindow[p] \in Int /\ time - RateWindow[p] <= later
  BY LimiterAssumption DEF LimiterAssumption
<1> HIDE DEF later
<1>2. ASSUME NEW i \in 1..Len(store)
      PROVE  Rising(store[i].window, time + 1)
             /\ Cut(store[i].window, later, passed2[store[i].id])
  <2> DEFINE w == store[i].window
             v == passed[store[i].id]
  <2>1. store[i] \in Windows
    OBVIOUS
  <2>2. w \in Seq(Nat) /\ store[i].id \in Sessions
    BY <2>1 DEF Windows, Slots
  <2>3. v \in Seq(Nat) /\ Rising(w, time) /\ Cut(w, time - RateWindow[p], v)
    BY <2>2 DEF PhaseOK
  <2>4. passed2[store[i].id] = Since(v, later)
    BY <2>2
  <2> HIDE DEF w, v, passed2
  <2>5. Rising(v, time)
    BY <1>1, <2>2, <2>3, CutFacts
  <2>6. Since(v, later) \in Seq(Nat) /\ Cut(v, later, Since(v, later))
    BY <1>1, <2>3, <2>5, SinceFacts
  <2>7. Cut(w, later, Since(v, later))
    BY <1>1, <2>2, <2>3, <2>6, CutFacts
  <2>8. Rising(w, time + 1)
    <3>1. \A j \in 1..Len(w) : w[j] \in Nat /\ w[j] <= time
      BY <2>2, <2>3 DEF Rising
    <3> QED
      BY <2>3, <3>1 DEF Rising
  <2> QED
    BY <2>4, <2>7, <2>8 DEF w
<1>3. ASSUME NEW s \in Sessions
      PROVE  Len(passed2[s]) <= MaxRequests[p] /\ (passed2[s] # <<>> => passed[s] # <<>>)
  <2> DEFINE v == passed[s]
  <2>1. v \in Seq(Nat) /\ passed2[s] = Since(v, later) /\ Len(v) <= MaxRequests[p]
    BY DEF PhaseOK
  <2> HIDE DEF v, passed2
  <2>2. Since(v, later) \in Seq(Nat) /\ Len(Since(v, later)) <= Len(v)
    BY <1>1, <2>1, SinceFacts
  <2>3. v = <<>> => Since(v, later) = <<>>
    BY <2>2
  <2> QED
    BY <1>1, <2>1, <2>2, <2>3, SMTT(40) DEF v
<1> HIDE DEF passed2
<1>4. PhaseOK(p, time + 1, store, passed2, others)
  BY <1>2, <1>3 DEF PhaseOK, later
<1> QED
  BY <1>4 DEF passed2, later

\* Empty stores.
LEMMA EmptyPhase ==
  ASSUME NEW p \in Phases, NEW time \in Nat
  PROVE  PhaseOK(p, time, <<>>, [s \in Sessions |-> <<>>], [s \in Sessions |-> {}])
BY FS_EmptySet, LimiterAssumption DEF PhaseOK, InOrder, LimiterAssumption

LEMMA RateInitially == LimiterInit => RateIInv
<1> SUFFICES ASSUME LimiterInit PROVE RateIInv
  OBVIOUS
<1>1. RateTypes
  BY DEF LimiterInit, RateTypes
<1>2. \A p \in Phases : PhaseOK(p, clock, rate[p], admitted[p], rivals[p])
  BY EmptyPhase DEF LimiterInit
<1> QED
  BY <1>1, <1>2 DEF RateIInv

LEMMA CheckStep ==
  ASSUME RateIInv, NEW session \in Sessions, NEW phase \in Phases, Check(session, phase)
  PROVE  RateIInv'
<1> DEFINE store == rate[phase]
           passed == admitted[phase]
           others == rivals[phase]
           check == Checked(store, session, phase, clock)
           before == BeforeOf(passed, others, session)
           v == IF check.passes THEN Append(before, clock) ELSE before
<1>1. /\ clock \in Nat /\ store \in Seq(Windows) /\ passed \in [Sessions -> Seq(Nat)]
      /\ others \in [Sessions -> SUBSET Sessions]
      /\ rate \in [Phases -> Seq(Windows)] /\ admitted \in [Phases -> [Sessions -> Seq(Nat)]]
      /\ rivals \in [Phases -> [Sessions -> SUBSET Sessions]]
  BY DEF RateIInv, RateTypes
<1>2. /\ rate' = [rate EXCEPT ![phase] = check.store] /\ clock' = clock
      /\ admitted' = [admitted EXCEPT ![phase][session] = v]
      /\ rivals' = [rivals EXCEPT ![phase] = Later(others, session)]
  BY DEF Check, Later, BeforeOf
<1>3. check.store \in Seq(Windows)
  <2> HIDE DEF store
  <2> QED
    BY <1>1, CheckedType
<1>4. v \in Seq(Nat) /\ Later(others, session) \in [Sessions -> SUBSET Sessions]
  <2> HIDE DEF check
  <2> QED
    BY <1>1 DEF Later, BeforeOf
<1>5. MaxRequests[phase] < MaxTimestamps /\ PhaseOK(phase, clock, store, passed, others) =>
        PhaseOK(phase, clock, check.store, [passed EXCEPT ![session] = v], Later(others, session))
  <2> HIDE DEF store, passed, others
  <2> QED
    BY <1>1, CheckPhase
<1> HIDE DEF check, v
<1>6. /\ rate'[phase] = check.store /\ rivals'[phase] = Later(others, session)
      /\ admitted'[phase] = [passed EXCEPT ![session] = v]
      /\ \A p \in Phases : p # phase => /\ rate'[p] = rate[p] /\ rivals'[p] = rivals[p]
                                        /\ admitted'[p] = admitted[p]
  BY <1>1, <1>2
<1>7. RateTypes'
  <2>1. rate' \in [Phases -> Seq(Windows)]
    BY <1>1, <1>2, <1>3
  <2>2. admitted' \in [Phases -> [Sessions -> Seq(Nat)]]
    BY <1>1, <1>2, <1>4
  <2>3. rivals' \in [Phases -> [Sessions -> SUBSET Sessions]]
    BY <1>1, <1>2, <1>4
  <2> QED
    BY <1>1, <1>2, <2>1, <2>2, <2>3 DEF RateTypes
<1>8. ASSUME NEW p \in Phases, MaxRequests[p] < MaxTimestamps
      PROVE  PhaseOK(p, clock', rate'[p], admitted'[p], rivals'[p])
  <2>1. PhaseOK(p, clock, rate[p], admitted[p], rivals[p])
    BY <1>8 DEF RateIInv
  <2>2. CASE p = phase
    BY <1>2, <1>5, <1>6, <1>8, <2>1, <2>2
  <2>3. CASE p # phase
    BY <1>2, <1>6, <2>1, <2>3
  <2> QED
    BY <2>2, <2>3
<1> QED
  BY <1>7, <1>8 DEF RateIInv

LEMMA TickStep ==
  ASSUME RateIInv, ClockTicks
  PROVE  RateIInv'
<1>1. /\ clock \in Nat /\ rate \in [Phases -> Seq(Windows)]
      /\ admitted \in [Phases -> [Sessions -> Seq(Nat)]]
      /\ rivals \in [Phases -> [Sessions -> SUBSET Sessions]]
  BY DEF RateIInv, RateTypes
<1>2. /\ clock' = clock + 1 /\ rate' = rate /\ rivals' = rivals
      /\ admitted' = [p \in Phases |->
                        [s \in Sessions |-> Since(admitted[p][s], (clock + 1) - RateWindow[p])]]
  BY DEF ClockTicks
<1>3. ASSUME NEW p \in Phases, NEW s \in Sessions
      PROVE  Since(admitted[p][s], (clock + 1) - RateWindow[p]) \in Seq(Nat)
  <2>1. admitted[p][s] \in Seq(Nat) /\ (clock + 1) - RateWindow[p] \in Int
    BY <1>1, LimiterAssumption DEF LimiterAssumption
  <2> QED
    BY <2>1, SinceFacts
<1>4. admitted' \in [Phases -> [Sessions -> Seq(Nat)]]
  BY <1>2, <1>3
<1>5. ASSUME NEW p \in Phases, MaxRequests[p] < MaxTimestamps
      PROVE  PhaseOK(p, clock', rate'[p], admitted'[p], rivals'[p])
  <2>1. PhaseOK(p, clock, rate[p], admitted[p], rivals[p])
    BY <1>5 DEF RateIInv
  <2>2. /\ rate[p] \in Seq(Windows) /\ admitted[p] \in [Sessions -> Seq(Nat)]
        /\ rivals[p] \in [Sessions -> SUBSET Sessions]
    BY <1>1
  <2>3. PhaseOK(p, clock + 1, rate[p],
                [s \in Sessions |-> Since(admitted[p][s], (clock + 1) - RateWindow[p])], rivals[p])
    BY <1>1, <2>1, <2>2, TickPhase
  <2> QED
    BY <1>2, <2>3
<1> QED
  BY <1>1, <1>2, <1>4, <1>5 DEF RateIInv, RateTypes

LEMMA RateStep == RateIInv /\ [LimiterNext]_limiterVars => RateIInv'
<1> SUFFICES ASSUME RateIInv, [LimiterNext]_limiterVars PROVE RateIInv'
  OBVIOUS
<1>1. ASSUME NEW session \in Sessions, NEW phase \in Phases, Check(session, phase)
      PROVE  RateIInv'
  BY <1>1, CheckStep
<1>2. CASE Shutdown
  <2>1. clock' \in Nat
    BY <1>2 DEF Shutdown, RateIInv, RateTypes
  <2>2. RateTypes'
    BY <1>2, <2>1 DEF Shutdown, RateTypes
  <2>3. \A p \in Phases : PhaseOK(p, clock', rate'[p], admitted'[p], rivals'[p])
    BY <1>2, <2>1, EmptyPhase DEF Shutdown
  <2> QED
    BY <2>2, <2>3 DEF RateIInv
<1>3. CASE ClockTicks
  BY <1>3, TickStep
<1>4. CASE UNCHANGED limiterVars
  BY <1>4 DEF limiterVars, RateIInv, RateTypes
<1> QED
  BY <1>1, <1>2, <1>3, <1>4 DEF LimiterNext

\* However sessions, ticks and shutdowns follow each other, no window of time
\* holds more requests of a session than the limit, for any limit below
\* _MAX_TIMESTAMPS_PER_SESSION (ratelimit.py:77).
THEOREM RateIsBounded == LimiterSpec => []RateBounded
<1>1. RateIInv => RateBounded
  BY DEF RateIInv, PhaseOK, RateBounded
<1> QED
  BY RateInitially, RateStep, <1>1, PTL DEF LimiterSpec

=============================================================================
