----------------------------- MODULE SlidingWindows -----------------------------
(***************************************************************************)
(* RateLimitMiddleware and BudgetMiddleware keep, per session or scope, a    *)
(* deque of timestamped entries in an OrderedDict that evicts the least      *)
(* recently used key: a sequence of [id, window], least recently used first. *)
(***************************************************************************)
EXTENDS Integers, Sequences, SequencesExt

Ids(store) == {store[i].id : i \in DOMAIN store}

\* The place of an id that is in the store.
PlaceOf(store, id) == CHOOSE i \in DOMAIN store : store[i].id = id

Without(store, id) == RemoveAt(store, PlaceOf(store, id))

WindowOf(store, id) == IF id \in Ids(store) THEN store[PlaceOf(store, id)].window ELSE <<>>

\* Mutant: a window keeps the place of its first use.
GetWindow_FirstUse(store, id, max) ==
  IF id \in Ids(store) THEN store
  ELSE Append(IF Len(store) >= max THEN Tail(store) ELSE store, [id |-> id, window |-> <<>>])

\* _get_window: the window of id becomes the most recently used one; a new one
\* evicts the least recently used if the store is full.
GetWindow(store, id, max) ==
  IF id \in Ids(store)
  THEN Append(Without(store, id), [id |-> id, window |-> WindowOf(store, id)])
  ELSE Append(IF Len(store) >= max THEN Tail(store) ELSE store, [id |-> id, window |-> <<>>])

SetWindow(store, id, window) ==
  [i \in DOMAIN store |-> IF store[i].id = id THEN [store[i] EXCEPT !.window = window] ELSE store[i]]
=============================================================================
