------------------------------ MODULE ResponseCache ------------------------------
(***************************************************************************)
(* The data type behind ResponseCacheMiddleware (middlewares/cache.py): an   *)
(* OrderedDict of [key, time, response], least recently used first.          *)
(***************************************************************************)
EXTENDS Integers, Sequences, SequencesExt

CONSTANTS
  CacheSize,   \* max_size
  Ttl          \* ttl_seconds

ASSUME CacheAssumption == CacheSize \in Nat \ {0} /\ Ttl \in Nat

Keys(cache) == {cache[i].key : i \in DOMAIN cache}

\* The place of a key that is in the cache.
KeyPlace(cache, key) == CHOOSE i \in DOMAIN cache : cache[i].key = key

EntryOf(cache, key) == cache[KeyPlace(cache, key)]

Removed(cache, key) ==
  IF key \in Keys(cache) THEN RemoveAt(cache, KeyPlace(cache, key)) ELSE cache

Fresh(entry, now) == now - entry.time < Ttl

IsHit(cache, key, now) == key \in Keys(cache) /\ Fresh(EntryOf(cache, key), now)

\* process_request: a hit is the most recently used entry, a stale one goes.
AfterLookup(cache, key, now) ==
  IF IsHit(cache, key, now) THEN Append(Removed(cache, key), EntryOf(cache, key))
  ELSE Removed(cache, key)

\* _store_in_cache: a full cache loses its oldest entry, also when the key is in it already;
\* an assignment to a key keeps its place.
Stored(cache, key, response, now) ==
  LET room == IF Len(cache) >= CacheSize THEN Tail(cache) ELSE cache
      entry == [key |-> key, time |-> now, response |-> response]
  IN IF key \in Keys(room)
     THEN [i \in DOMAIN room |-> IF room[i].key = key THEN entry ELSE room[i]]
     ELSE Append(room, entry)
=============================================================================
