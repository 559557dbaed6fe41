---------------------------- MODULE ToolIdempotency ----------------------------
(***************************************************************************)
(* ToolRegistry.execute with an idempotency key (onion_core/tools.py).      *)
(*                                                                          *)
(* Concurrent calls with the same key share one execution of the tool: the  *)
(* first, the owner, runs it; the others, the joiners, wait for its future. *)
(* Results without error are cached for CacheTtl.  The owner may be          *)
(* cancelled, and a tool that is a plain function then goes on running in   *)
(* its executor thread.                                                      *)
(*                                                                          *)
(* The sections under _idempotency_lock await nothing, so what the event    *)
(* loop runs between two awaits is one step here.                           *)
(***************************************************************************)
EXTENDS Integers, FiniteSets

CONSTANTS
  Calls,            \* calls of execute; each is made once
  Keys,             \* idempotency keys
  ThreadKeys,       \* the keys whose tool is a plain function, run in a thread
  None,             \* no call, no key, no cache entry
  CacheTtl,         \* cache_ttl, in ticks
  MaxCacheSize,     \* max_cache_size
  CleanupInterval   \* _cleanup_interval: successful writes between clean-ups

ASSUME RegistryAssumption ==
  /\ ThreadKeys \subseteq Keys
  /\ None \notin Calls \cup Keys
  /\ CacheTtl \in Nat
  /\ MaxCacheSize \in Nat
  /\ CleanupInterval \in Nat \ {0}

VARIABLES
  cache,        \* _idempotency_cache: key -> entry or None
  inFlight,     \* _in_flight: key -> the call that owns the future, or None
  future,       \* the future each call created as an owner, if it did
  calls,        \* the coroutine of each call
  runs,         \* the execution of the tool function on behalf of each call
  writeCount    \* _write_count

vars == <<cache, inFlight, future, calls, runs, writeCount>>

\* An entry holds the result of a call's execution.  Its age stops at CacheTtl
\* + 1, past every comparison; written orders the entries by their timestamps.
Entry == [run : Calls, age : 0..CacheTtl + 1, written : Nat]

ASSUME NoneAssumption == None \notin Entry

Outcome == {"result", "error", "cancelled"}

\* What a call returns (or raises) and the call whose execution or
\* cancellation it stems from.
NoReply == [kind |-> "none", from |-> None]
Reply == [kind : Outcome \cup {"none"}, from : Calls \cup {None}]

Stage == {"idle", "running", "joining", "ended"}

Call == [stage : Stage, key : Keys \cup {None}, on : Calls \cup {None}, reply : Reply]

IdleCall == [stage |-> "idle", key |-> None, on |-> None, reply |-> NoReply]

Init == /\ cache = [k \in Keys |-> None]
        /\ inFlight = [k \in Keys |-> None]
        /\ future = [c \in Calls |-> "none"]
        /\ calls = [c \in Calls |-> IdleCall]
        /\ runs = [c \in Calls |-> "none"]
        /\ writeCount = 0

-----------------------------------------------------------------------------
(* Entering execute: the first section under the lock *)

Fresh(k) == cache[k] # None /\ cache[k].age < CacheTtl

\* A fresh entry answers the call at once.
Hit(c, k) ==
  /\ calls[c].stage = "idle"
  /\ Fresh(k)
  /\ calls' = [calls EXCEPT ![c] =
       [stage |-> "ended", key |-> k, on |-> None,
        reply |-> [kind |-> "result", from |-> cache[k].run]]]
  /\ UNCHANGED <<cache, inFlight, future, runs, writeCount>>

\* Otherwise a stale entry is dropped; with no execution in flight the call
\* becomes the owner of a new one ...
Own(c, k) ==
  /\ calls[c].stage = "idle"
  /\ ~Fresh(k)
  /\ inFlight[k] = None
  /\ cache' = [cache EXCEPT ![k] = None]
  /\ inFlight' = [inFlight EXCEPT ![k] = c]
  /\ future' = [future EXCEPT ![c] = "pending"]
  /\ calls' = [calls EXCEPT ![c] = [stage |-> "running", key |-> k, on |-> c, reply |-> NoReply]]
  /\ runs' = [runs EXCEPT ![c] = "running"]
  /\ UNCHANGED writeCount

\* ... and else it waits for the one in flight.
Join(c, k) ==
  /\ calls[c].stage = "idle"
  /\ ~Fresh(k)
  /\ inFlight[k] # None
  /\ cache' = [cache EXCEPT ![k] = None]
  /\ calls' = [calls EXCEPT ![c] = [stage |-> "joining", key |-> k, on |-> inFlight[k],
                                    reply |-> NoReply]]
  /\ UNCHANGED <<inFlight, future, runs, writeCount>>

-----------------------------------------------------------------------------
(* The owner *)

InThread(c) == calls[c].key \in ThreadKeys

\* The function returns or raises in its executor thread, whether or not its
\* owner still waits for it.
ThreadEnds(c, how) ==
  /\ InThread(c)
  /\ runs[c] = "running"
  /\ runs' = [runs EXCEPT ![c] = how]
  /\ UNCHANGED <<cache, inFlight, future, calls, writeCount>>

\* The owner sees the outcome of the tool: of its own coroutine, or of the
\* thread that has ended.
ToolOutcome(c, how) ==
  IF InThread(c) THEN runs[c] = how /\ UNCHANGED runs
  ELSE runs[c] = "running" /\ runs' = [runs EXCEPT ![c] = how]

Ended(c, kind, from) ==
  [calls EXCEPT ![c] = [stage |-> "ended", key |-> calls[c].key, on |-> calls[c].on,
                        reply |-> [kind |-> kind, from |-> from]]]

\* Mutant: the oldest entries are kept.
CleanedUp_KeepOldest(ch) ==
  LET live == {k \in Keys : ch[k] # None /\ ch[k].age <= CacheTtl} IN
  [k \in Keys |->
     IF k \in live /\ Cardinality({j \in live : ch[j].written < ch[k].written}) < MaxCacheSize
     THEN ch[k] ELSE None]

\* _cleanup_expired_cache_entries: expired entries go, and of the others all
\* but the MaxCacheSize newest.
CleanedUp(ch) ==
  LET live == {k \in Keys : ch[k] # None /\ ch[k].age <= CacheTtl} IN
  [k \in Keys |->
     IF k \in live /\ Cardinality({j \in live : ch[j].written > ch[k].written}) < MaxCacheSize
     THEN ch[k] ELSE None]

\* Mutant: the cache is never cleaned up.
Succeed_NeverClean(c) ==
  LET k == calls[c].key IN
  /\ calls[c].stage = "running"
  /\ ToolOutcome(c, "succeeded")
  /\ cache' = [cache EXCEPT ![k] = [run |-> c, age |-> 0, written |-> writeCount + 1]]
  /\ writeCount' = writeCount + 1
  /\ inFlight' = [inFlight EXCEPT ![k] = None]
  /\ future' = [future EXCEPT ![c] = "result"]
  /\ calls' = Ended(c, "result", c)

\* The tool succeeded: cache the result, release the key, wake the joiners,
\* clean up after every CleanupInterval-th write, return.
Succeed(c) ==
  LET k == calls[c].key
      written == [cache EXCEPT ![k] = [run |-> c, age |-> 0, written |-> writeCount + 1]]
  IN
  /\ calls[c].stage = "running"
  /\ ToolOutcome(c, "succeeded")
  /\ writeCount' = writeCount + 1
  /\ cache' = IF writeCount' % CleanupInterval = 0 THEN CleanedUp(written) ELSE written
  /\ inFlight' = [inFlight EXCEPT ![k] = None]
  /\ future' = [future EXCEPT ![c] = "result"]
  /\ calls' = Ended(c, "result", c)

\* The tool raised: _execute_once makes it a result with an error, which is
\* handed to the joiners but not cached.
Fail(c) ==
  /\ calls[c].stage = "running"
  /\ ToolOutcome(c, "failed")
  /\ inFlight' = [inFlight EXCEPT ![calls[c].key] = None]
  /\ future' = [future EXCEPT ![c] = "error"]
  /\ calls' = Ended(c, "error", c)
  /\ UNCHANGED <<cache, writeCount>>

\* A coroutine stops, and so does a function still queued for a thread; a
\* function that has begun runs on.
Abandon(c) ==
  \/ InThread(c) /\ UNCHANGED runs
  \/ runs[c] = "running" /\ runs' = [runs EXCEPT ![c] = "stopped"]

\* Mutant: the future is left pending.
CancelOwner_KeepFuture(c) ==
  /\ calls[c].stage = "running"
  /\ inFlight' = [inFlight EXCEPT ![calls[c].key] = None]
  /\ calls' = Ended(c, "cancelled", c)
  /\ Abandon(c)
  /\ UNCHANGED <<cache, future, writeCount>>

\* Mutant: the key stays in flight.
CancelOwner_KeepKey(c) ==
  /\ calls[c].stage = "running"
  /\ future' = [future EXCEPT ![c] = "cancelled"]
  /\ calls' = Ended(c, "cancelled", c)
  /\ Abandon(c)
  /\ UNCHANGED <<cache, inFlight, writeCount>>

\* The owner is cancelled while the tool runs: the handler for BaseException
\* releases the key and hands the CancelledError to the joiners.
CancelOwner(c) ==
  /\ calls[c].stage = "running"
  /\ inFlight' = [inFlight EXCEPT ![calls[c].key] = None]
  /\ future' = [future EXCEPT ![c] = "cancelled"]
  /\ calls' = Ended(c, "cancelled", c)
  /\ Abandon(c)
  /\ UNCHANGED <<cache, writeCount>>

-----------------------------------------------------------------------------
(* Joiners *)

\* Mutant: the joiner looks into the cache first.
Resume_FromCache(c) ==
  LET o == calls[c].on IN
  /\ calls[c].stage = "joining"
  /\ future[o] \in Outcome
  /\ calls' = Ended(c, IF cache[calls[c].key] # None THEN "result" ELSE future[o], o)
  /\ UNCHANGED <<cache, inFlight, future, runs, writeCount>>

\* The future is done: the joiner returns a copy of the result, or raises the
\* owner's exception.
Resume(c) ==
  LET o == calls[c].on IN
  /\ calls[c].stage = "joining"
  /\ future[o] \in Outcome
  /\ calls' = Ended(c, future[o], o)
  /\ UNCHANGED <<cache, inFlight, future, runs, writeCount>>

\* A joiner is cancelled; the shield leaves the shared future alone.
CancelJoiner(c) ==
  /\ calls[c].stage = "joining"
  /\ calls' = Ended(c, "cancelled", c)
  /\ UNCHANGED <<cache, inFlight, future, runs, writeCount>>

-----------------------------------------------------------------------------
\* clear_idempotency_cache
Clear ==
  /\ cache' = [k \in Keys |-> None]
  /\ UNCHANGED <<inFlight, future, calls, runs, writeCount>>

\* time.time() advances.
Tick ==
  /\ cache' = [k \in Keys |->
       IF cache[k] # None /\ cache[k].age <= CacheTtl
       THEN [cache[k] EXCEPT !.age = @ + 1] ELSE cache[k]]
  /\ UNCHANGED <<inFlight, future, calls, runs, writeCount>>

Next ==
  \/ \E c \in Calls :
       \/ \E k \in Keys : Hit(c, k) \/ Own(c, k) \/ Join(c, k)
       \/ \E how \in {"succeeded", "failed"} : ThreadEnds(c, how)
       \/ Succeed(c) \/ Fail(c) \/ CancelOwner(c)
       \/ Resume(c) \/ CancelJoiner(c)
  \/ Clear
  \/ Tick

Spec == Init /\ [][Next]_vars

\* A tool that runs ends, in its thread or its coroutine, and the event loop
\* resumes whoever waits for it.
ToolsEnd ==
  \A c \in Calls :
    /\ WF_vars(\E how \in {"succeeded", "failed"} : ThreadEnds(c, how))
    /\ WF_vars(Succeed(c) \/ Fail(c))
    /\ WF_vars(Resume(c))

FairSpec == Spec /\ ToolsEnd

-----------------------------------------------------------------------------
(* Properties *)

\* The registry's maps, futures and coroutines have the types of the code.
TypeOK ==
  /\ cache \in [Keys -> Entry \cup {None}]
  /\ inFlight \in [Keys -> Calls \cup {None}]
  /\ future \in [Calls -> Outcome \cup {"none", "pending"}]
  /\ calls \in [Calls -> Call]
  /\ runs \in [Calls -> {"none", "running", "succeeded", "failed", "stopped"}]
  /\ writeCount \in Nat

\* _in_flight names, for every key, the one call that runs its tool and whose
\* future is still to be set, and no other call runs a tool for that key; so no
\* call ever joins a future that nobody will set.
SingleFlight ==
  /\ \A k \in Keys, c \in Calls :
       inFlight[k] = c <=> calls[c].stage = "running" /\ calls[c].key = k
  /\ \A c \in Calls : future[c] = "pending" <=> calls[c].stage = "running"

\* What a call returns is the outcome of an execution that really took place,
\* under its own key -- its own, the one it joined, or the one it found in the
\* cache -- and a caller who joined sees what the owner saw.
RepliesAreGenuine ==
  \A c \in Calls : calls[c].stage = "ended" =>
    LET reply == calls[c].reply IN
    /\ calls[reply.from].key = calls[c].key
    /\ reply.kind = "result" => runs[reply.from] = "succeeded"
    /\ reply.kind = "error" => runs[reply.from] = "failed"
    /\ reply.kind = calls[reply.from].reply.kind

\* Only successful executions are cached.
OnlySuccessCached ==
  \A k \in Keys : cache[k] # None =>
    runs[cache[k].run] = "succeeded" /\ calls[cache[k].run].key = k

\* Between two clean-ups the cache may outgrow max_cache_size, but by no more
\* than the writes since the last one.
CacheBounded ==
  Cardinality({k \in Keys : cache[k] # None}) <= MaxCacheSize + (writeCount % CleanupInterval)

\* A clean-up never throws away the result that was just stored: the owner's
\* retry finds it.
JustStoredIsKept ==
  [][\A c \in Calls :
       future[c] = "pending" /\ future'[c] = "result" /\ MaxCacheSize > 0
         => cache'[calls[c].key] # None /\ cache'[calls[c].key].run = c]_vars

\* No caller is left waiting: joiners are woken however the owner ends.
EveryCallEnds == \A c \in Calls : calls[c].stage # "idle" ~> calls[c].stage = "ended"

-----------------------------------------------------------------------------
(* Claims of the documentation that the code does not keep *)

\* CHANGELOG.md: "the tool function runs at most once per key even under
\* concurrent load".  A cancelled owner leaves its thread running and frees the
\* key.
RunsNeverOverlap ==
  \A c, d \in Calls :
    runs[c] = "running" /\ runs[d] = "running" /\ calls[c].key = calls[d].key => c = d
=============================================================================
