--------------------------- MODULE DistributedCache ---------------------------
(***************************************************************************)
(* DistributedCacheMiddleware: responses in Redis with a time to live,      *)
(* shared by pipelines of several instances, and clear_cache, which walks   *)
(* over the keys with SCAN while requests go on.  A key is made of what a   *)
(* prompt shows of itself in it (tool calls and their ids are left out) and *)
(* of the provider in the metadata; prompts of one key are one here.        *)
(***************************************************************************)
EXTENDS Naturals

CONSTANTS
  Askers, Prompts,    \* requests, and what they send
  Sent,               \* per prompt: what inner middlewares make of it
  Primary, Fallback,  \* providers
  Absent,             \* no entry under a key
  Ttl,                \* int(ttl_seconds)
  MaxTock, MaxClears  \* bounds on the clock and on calls of clear_cache

ASSUME CacheAssumption == Sent \in [Prompts -> Prompts] /\ Ttl \in Nat

VARIABLES
  tock,      \* time, as Redis has it
  store,     \* per key: the entry Redis holds
  asks,      \* per request: stage, prompt, provider in the metadata, response
  sweep,     \* clear_cache: running, and the keys SCAN has still to return
  clears     \* calls of clear_cache so far

cacheVars == <<tock, store, asks, sweep, clears>>

Providers == {Primary, Fallback}
CacheKeys == Prompts \X Providers

\* A response; stop says whether its finish_reason is STOP.
Response(p, v, stop) == [prompt |-> p, from |-> v, stop |-> stop]
Answers == {Response(p, v, stop) : p \in Prompts, v \in Providers, stop \in BOOLEAN}
Entry == [answer : Answers, until : Nat, after : Nat]
ASSUME AbsentAssumption == Absent \notin Entry

CacheInit == /\ tock = 0
             /\ store = [k \in CacheKeys |-> Absent]
             /\ asks \in [Askers -> UNION {[stage : {"new"}, prompt : {p}, provider : {Primary},
                                              answer : {Response(p, Primary, FALSE)}] : p \in Prompts}]
             /\ sweep = [on |-> FALSE, keys |-> {}]
             /\ clears = 0

Present == {k \in CacheKeys : store[k] # Absent}

\* _generate_cache_key: by the time the key is made again, inner middlewares
\* have changed the messages, and the fallback that answered is in the metadata.
Key(r) == <<asks[r].prompt, asks[r].provider>>

\* Mutant: the key of the request phase is used in the response phase.
KeyOfAnswer_AsAsked(r) == <<asks[r].prompt, Primary>>

KeyOfAnswer(r) == Key(r)

AskGoes(r, from, to, v, answer) ==
  /\ asks[r].stage = from
  /\ asks' = [asks EXCEPT ![r].stage = to, ![r].provider = v, ![r].answer = answer]

\* process_request: GET, and CacheHitException; without an entry, or after any
\* error of Redis, the request goes on.
Hit(r) == /\ Key(r) \in Present
          /\ AskGoes(r, "new", "answered", Primary, store[Key(r)].answer)
          /\ UNCHANGED <<tock, store, sweep, clears>>

Miss(r) == /\ asks[r].stage = "new"
           /\ asks' = [asks EXCEPT ![r].stage = "calling", ![r].prompt = Sent[@]]
           /\ UNCHANGED <<tock, store, sweep, clears>>

\* A provider answers, completely or not.
Provide(r, v, stop) == /\ AskGoes(r, "calling", "answered", v, Response(asks[r].prompt, v, stop))
                       /\ UNCHANGED <<tock, store, sweep, clears>>

\* All providers fail.
AskFails(r) == /\ AskGoes(r, "calling", "ended", Fallback, asks[r].answer)
               /\ UNCHANGED <<tock, store, sweep, clears>>

\* process_response: a complete response is stored, a hit once more; errors
\* of Redis are swallowed.
Keep(r) ==
  /\ AskGoes(r, "answered", "ended", asks[r].provider, asks[r].answer)
  /\ \/ /\ asks[r].answer.stop
        /\ store' = [store EXCEPT ![KeyOfAnswer(r)] =
                       [answer |-> asks[r].answer, until |-> tock + Ttl, after |-> clears]]
     \/ UNCHANGED store
  /\ UNCHANGED <<tock, sweep, clears>>

\* Keys vanish: Redis drops them, invalidate or clear_cache deletes them.
Drop(keys) == /\ store' = [k \in CacheKeys |-> IF k \in keys THEN Absent ELSE store[k]]
              /\ sweep' = [sweep EXCEPT !.keys = @ \ keys]
              /\ UNCHANGED <<tock, asks, clears>>

DropExpired(k) == k \in Present /\ tock >= store[k].until /\ Drop({k})

\* invalidate, with the context of a request before or after it was answered.
Invalidate(k) == k \in Present /\ Drop({k})

\* clear_cache: SCAN returns in the end every key that is there throughout.
Clear == /\ ~sweep.on /\ clears < MaxClears
         /\ sweep' = [on |-> TRUE, keys |-> Present]
         /\ clears' = clears + 1
         /\ UNCHANGED <<tock, store, asks>>

Scan(keys) == sweep.on /\ keys # {} /\ keys \subseteq Present /\ Drop(keys)

\* Mutant: the first batch is taken for all of them.
Cleared_AfterABatch == /\ sweep.on
                       /\ sweep' = [on |-> FALSE, keys |-> {}]
                       /\ UNCHANGED <<tock, store, asks, clears>>

\* The cursor is back at 0.
Cleared == /\ sweep.on /\ sweep.keys = {}
           /\ sweep' = [on |-> FALSE, keys |-> {}]
           /\ UNCHANGED <<tock, store, asks, clears>>

Tock == /\ tock < MaxTock
        /\ tock' = tock + 1
        /\ UNCHANGED <<store, asks, sweep, clears>>

CacheNext ==
  \/ \E r \in Askers : Hit(r) \/ Miss(r) \/ AskFails(r) \/ Keep(r)
  \/ \E r \in Askers, v \in Providers, stop \in BOOLEAN : Provide(r, v, stop)
  \/ \E k \in CacheKeys : DropExpired(k) \/ Invalidate(k)
  \/ \E keys \in SUBSET CacheKeys : Scan(keys)
  \/ Clear \/ Cleared \/ Tock

CacheSpec == CacheInit /\ [][CacheNext]_cacheVars

-----------------------------------------------------------------------------
\* An entry is the complete answer of the provider in its key to the prompt
\* in its key, also when a fallback answered or a hit is stored once more
\* (distributed_cache.py:297); of prompts the key does not tell apart nothing
\* is said.
EntriesGenuine ==
  \A k \in Present : store[k].answer = Response(k[1], k[2], TRUE)

\* When clear_cache ends, no entry that was stored before it began is left,
\* although requests store and hit entries while it walks
\* (distributed_cache.py:169).
ClearCovers ==
  [][sweep.on /\ ~sweep'.on => \A k \in Present : store[k].after = clears]_cacheVars
=============================================================================
