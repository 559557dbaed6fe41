---------------------------- MODULE GovernedPipeline ----------------------------
(***************************************************************************)
(* A pipeline with ResponseCacheMiddleware (priority 75), BudgetMiddleware   *)
(* (125) and RateLimitMiddleware (150), as Pipeline.governed composes them:  *)
(* concurrent calls pass cache and budget on the way in (then the rate limit,  *)
(* see RateLimiter), and budget and cache on the way out.  A cache hit skips budget, rate limit    *)
(* and provider on the way in, but not the way out.                          *)
(*                                                                           *)
(* Each hook is a step: hooks are awaited one after the other, and each      *)
(* works under its own lock.  How a phase goes on when a hook raises is      *)
(* MiddlewareChain; here budget and rate limit, which are mandatory, end the *)
(* call.                                                                     *)
(***************************************************************************)
EXTENDS Budget, ResponseCache

CONSTANTS
  Calls,        \* slots for coroutines of run and stream, used again and again
  Scopes,       \* what _resolve_scope makes of contexts
  Prompts,      \* the messages of a context, after the inner middlewares too
  Contexts,     \* the contexts of requests: scope and prompt
  Sent,         \* what the inner middlewares make of them: prompt -> prompt
  Shown,        \* what the cache key holds of them, as one prompt that shows it
  Estimate,     \* _estimate_context_tokens: prompt -> tokens
  ReplyUsages,  \* what providers report as usage, NoReport among them
  NoReport,
  Providers, Primary,  \* provider names
  MaxTime, MaxEntries  \* bounds on time and on the entries of a budget window, for TLC

ASSUME GovernedAssumption ==
  /\ Primary \in Providers /\ Contexts \subseteq Scopes \X Prompts
  /\ Sent \in [Prompts -> Prompts] /\ Shown \in [Prompts -> Prompts]
  /\ Estimate \in [Prompts -> Nat]
  /\ MaxTime \in Nat /\ MaxEntries \in Nat

\* A request and a reply cost something that is bounded.
ASSUME UsageAssumption ==
  /\ IsFiniteSet(Calls) /\ Calls # {}
  /\ IsFiniteSet(Prompts) /\ Prompts # {}
  /\ IsFiniteSet(ReplyUsages) /\ ReplyUsages \subseteq Usages \cup {NoReport}
  /\ MaxTotal \in Nat \cup {Unlimited}

VARIABLES
  now,       \* time.time() and time.monotonic(), in ticks
  calls,     \* the coroutine of each call
  budget,    \* _usage_windows
  cache,     \* _cache
  paid       \* observer: what each scope was charged for, but for cache hits, since
             \* the store of windows has held it; entries too old to count go

vars == <<now, calls, budget, cache, paid>>

\* sent, by: what was sent to which provider; made, an observer: when the cache
\* stored the answer for the first time.
Replies == [sent : Prompts, by : Providers, made : 0..MaxTime, usage : ReplyUsages]

NoCall == [stage |-> "idle"]
CallRecords ==
  {NoCall}
  \cup [stage : {"budget", "provider"}, scope : Scopes, prompt : Prompts]
  \cup [stage : {"charge", "store"}, scope : Scopes, prompt : Prompts, by : Providers,
        estimate : Nat, hit : BOOLEAN, reply : Replies]

Init == /\ now = 0
        /\ calls = [c \in Calls |-> NoCall]
        /\ budget = <<>>
        /\ cache = <<>>
        /\ paid = [s \in Scopes |-> <<>>]

\* _generate_cache_key: role, content and name of the messages and some of the
\* configuration, or the user's messages only, and the provider named in the
\* metadata.  Messages that differ in tool calls or their ids have one key.
Key(prompt, provider) == <<Shown[prompt], provider>>

-----------------------------------------------------------------------------
(* The request phase *)

\* ResponseCacheMiddleware.process_request.  The metadata names the primary
\* provider.  A hit goes to the response phase with messages nobody changed.
Lookup(c, scope, prompt) ==
  LET key == Key(prompt, Primary) IN
  /\ calls[c] = NoCall
  /\ cache' = AfterLookup(cache, key, now)
  /\ calls' = [calls EXCEPT ![c] =
       IF IsHit(cache, key, now)
       THEN [stage |-> "charge", scope |-> scope, prompt |-> prompt, by |-> Primary, estimate |-> 0,
             hit |-> TRUE, reply |-> EntryOf(cache, key).response]
       ELSE [stage |-> "budget", scope |-> scope, prompt |-> prompt]]
  /\ UNCHANGED <<now, budget, paid>>

\* The observer after a hook: the store has forgotten the scope it evicted.
Remembered(what, store) ==
  [s \in Scopes |-> IF s \in Ids(store) THEN Charged(what[s], now - BudgetWindow) ELSE <<>>]

\* Mutant: the budget is not checked before the call.
PassBudget_NoCheck(c) ==
  /\ calls[c].stage = "budget"
  /\ calls' = [calls EXCEPT ![c].stage = "provider"]
  /\ UNCHANGED <<now, budget, cache, paid>>

\* BudgetMiddleware.process_request; RateLimiter says whether the call then leaves
\* at the rate limit.
PassBudget(c) ==
  LET check == BudgetCheck(budget, calls[c].scope, Estimate[calls[c].prompt], now) IN
  /\ calls[c].stage = "budget"
  /\ budget' = check.store
  /\ paid' = Remembered(paid, check.store)
  /\ calls' = [calls EXCEPT ![c] = IF check.admitted THEN [@ EXCEPT !.stage = "provider"] ELSE NoCall]
  /\ UNCHANGED <<now, cache>>

-----------------------------------------------------------------------------
(* The provider and the response phase *)

\* A provider answers run(); the metadata then names it.
Answer(c, provider, usage) ==
  LET sent == Sent[calls[c].prompt] IN
  /\ calls[c].stage = "provider"
  /\ calls' = [calls EXCEPT ![c] =
       [stage |-> "charge", scope |-> @.scope, prompt |-> sent, by |-> provider,
        estimate |-> Estimate[@.prompt], hit |-> FALSE,
        reply |-> [sent |-> sent, by |-> provider, made |-> now, usage |-> usage]]]
  /\ UNCHANGED <<now, budget, cache, paid>>

\* The call ends where it is: all providers fail, a timeout, a cancelled caller,
\* the rate limit or another mandatory middleware; or it was a stream, whose
\* chunks neither budget nor cache looks at.
Leave(c) ==
  /\ calls[c] # NoCall
  /\ calls' = [calls EXCEPT ![c] = NoCall]
  /\ UNCHANGED <<now, budget, cache, paid>>

\* _usage_from_response: without a report, the estimate of the request phase.
UsageOf(call) ==
  IF call.reply.usage = NoReport THEN [prompt |-> call.estimate, completion |-> 0] ELSE call.reply.usage

\* BudgetMiddleware.process_response.  Cache hits are charged without a check, so
\* MaxEntries bounds them.
Charge(c) ==
  LET call == calls[c]
      entry == [time |-> now, usage |-> UsageOf(call), hit |-> call.hit]
      charged == IF call.hit \/ IsFree(UsageOf(call)) THEN paid
                 ELSE [paid EXCEPT ![call.scope] = Append(@, entry)]
  IN
  /\ call.stage = "charge"
  /\ Len(WindowOf(budget, call.scope)) < MaxEntries
  /\ budget' = BudgetCharge(budget, call.scope, UsageOf(call), call.hit, now)
  /\ paid' = Remembered(charged, budget')
  /\ calls' = [calls EXCEPT ![c].stage = "store"]
  /\ UNCHANGED <<now, cache>>

\* The response to store.
Stamped(call) == [call.reply EXCEPT !.made = IF call.hit THEN @ ELSE now]

\* Mutant: the key is always that of the primary.
Store_PrimaryKey(c, stop) ==
  /\ calls[c].stage = "store"
  /\ cache' = IF stop THEN Stored(cache, Key(calls[c].prompt, Primary), Stamped(calls[c]), now) ELSE cache
  /\ calls' = [calls EXCEPT ![c] = NoCall]
  /\ UNCHANGED <<now, budget, paid>>

\* ResponseCacheMiddleware.process_response: a response that stopped is stored,
\* also one that comes from the cache.
Store(c, stop) ==
  /\ calls[c].stage = "store"
  /\ cache' = IF stop THEN Stored(cache, Key(calls[c].prompt, calls[c].by), Stamped(calls[c]), now) ELSE cache
  /\ calls' = [calls EXCEPT ![c] = NoCall]
  /\ UNCHANGED <<now, budget, paid>>

-----------------------------------------------------------------------------
(* Operations of the cache, and time *)

\* invalidate: the caller's context names the provider that answered it, or none.
Invalidate(prompt, provider) ==
  /\ cache' = Removed(cache, Key(prompt, provider))
  /\ UNCHANGED <<now, calls, budget, paid>>

ClearCache == cache' = <<>> /\ UNCHANGED <<now, calls, budget, paid>>

Tick ==
  /\ now < MaxTime
  /\ now' = now + 1
  /\ UNCHANGED <<calls, budget, cache, paid>>

Next ==
  \/ \E c \in Calls :
       \/ \E context \in Contexts : Lookup(c, context[1], context[2])
       \/ PassBudget(c) \/ Leave(c) \/ Charge(c)
       \/ \E provider \in Providers, usage \in ReplyUsages : Answer(c, provider, usage)
       \/ \E stop \in BOOLEAN : Store(c, stop)
  \/ \E prompt \in Prompts, provider \in Providers : Invalidate(prompt, provider)
  \/ ClearCache \/ Tick

Spec == Init /\ [][Next]_vars

-----------------------------------------------------------------------------
(* Properties *)

\* Only recent entries count, and none that a hit has made.
Paid(window, cutoff) ==
  [i \in DOMAIN window |->
     IF window[i].hit \/ window[i].time < cutoff
     THEN [window[i] EXCEPT !.usage = NoUsage] ELSE window[i]]
PaidUsage(scope) == TotalUsage(Paid(paid[scope], now - BudgetWindow))

LeastEstimate == CHOOSE n \in {Estimate[p] : p \in Prompts} : \A p \in Prompts : n <= Estimate[p]
DearestReply ==
  LET totals == {Total(u) : u \in ReplyUsages \ {NoReport}} \cup {Estimate[p] : p \in Prompts} IN
  CHOOSE n \in totals : \A t \in totals : t <= n

\* BudgetMiddleware: what a scope is charged for within a window, other than cache
\* hits, exceeds the limit by no more than the calls under way at one time can
\* cost (budget.py:75).  This is said of one stay in the store: a scope that
\* max_scopes evicts (budget.py:132) starts from nothing, so with n evictions in
\* a window it may spend n + 1 times as much.
OverdraftBounded ==
  MaxTotal # Unlimited =>
    \A s \in Scopes :
      Total(PaidUsage(s)) <= MaxTotal - LeastEstimate + Cardinality(Calls) * DearestReply

\* ResponseCacheMiddleware: the cache answers a request with what the primary
\* provider made of messages that the key does not tell from the request's, never
\* with a fallback's answer, nor with one to messages of another key that an
\* inner middleware has changed (cache.py:203).
CacheSound ==
  /\ \A i \in DOMAIN cache :
       Key(cache[i].response.sent, cache[i].response.by) = cache[i].key
  /\ \A c \in Calls : calls[c].stage = "charge" /\ calls[c].hit =>
       Key(calls[c].reply.sent, calls[c].reply.by) = Key(calls[c].prompt, Primary)

-----------------------------------------------------------------------------
(* A claim the code does not keep *)

\* cache.py: a cached result is returned within the TTL, and entries expire by
\* themselves.  A hit is stored again with a new time.
ServedWithinTtl ==
  [][\A c \in Calls : calls'[c].stage = "charge" /\ calls'[c].hit /\ calls[c].stage = "idle"
       => now - calls'[c].reply.made < Ttl]_vars
=============================================================================
