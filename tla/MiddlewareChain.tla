---------------------------- MODULE MiddlewareChain ----------------------------
(***************************************************************************)
(* The middleware chain of a Pipeline (onion_core/pipeline.py): the request, *)
(* response, chunk and tool phases, the broadcast of errors, and run() and  *)
(* stream() around them; with the two middlewares that must balance what    *)
(* they open, MetricsMiddleware (a gauge) and TracingMiddleware (a span).   *)
(*                                                                          *)
(* A phase loops over the list of middlewares as it was when the phase      *)
(* began.  Every hook is awaited, so each call of a hook is a step, and the *)
(* phases of concurrent requests interleave.  What the provider does is one *)
(* outcome here; ProviderCalls models it.                                   *)
(***************************************************************************)
EXTENDS MiddlewareOrder, ErrorPolicy

CONSTANTS
  Requests,      \* calls of run, stream, execute_tool_call, execute_tool_result
  Middlewares,   \* all middlewares that are ever registered
  Priority,      \* BaseMiddleware.priority: middleware -> number
  Mandatory,     \* the middlewares with is_mandatory
  Caches,        \* those whose process_request may raise CacheHitException
  Observers,     \* those that only observe and whose hooks never raise
  Metrics,       \* MetricsMiddleware, one of the observers
  Tracing,       \* TracingMiddleware, one of the observers
  Registered,    \* the sorted list of middlewares at the start, none twice
  Errors,        \* the exceptions hooks raise
  MaxChunks      \* max_stream_chunks

ASSUME ChainAssumption ==
  /\ Priority \in [Middlewares -> Nat]
  /\ Mandatory \subseteq Middlewares
  /\ Caches \subseteq Middlewares
  /\ Observers \subseteq Middlewares
  /\ Registered \in Seq(Middlewares)
  /\ \A i, j \in 1..Len(Registered) : Registered[i] = Registered[j] => i = j
  /\ MaxChunks \in Nat

VARIABLES
  sorted,     \* what _get_sorted_middlewares returns
  requests,   \* the coroutine of each request
  seen,       \* which hooks of which middleware ran for each request
  gauge,      \* onion_active_requests
  span        \* metadata["_otel_span"] of each request

vars == <<sorted, requests, seen, gauge, span>>

Kinds == {"run", "stream", "tool_call", "tool_result"}

\* The loops over the middlewares, and the states outside of them.
Phases == {"request", "response", "chunk", "tool_call", "tool_result"}
Stages == Phases \cup {"idle", "provider", "streaming", "notify", "ended"}

\* chain and pos: the list a phase iterates over and the index of the hook it
\* awaits; told and at: the same of _notify_error; after: what follows it.
NewRequest ==
  [kind |-> "run", stage |-> "idle", chain |-> <<>>, pos |-> 1, told |-> <<>>, at |-> 1,
   after |-> "ended", chunks |-> 0, final |-> FALSE, cached |-> FALSE, outcome |-> "none"]

\* The middlewares whose process_request returned, whose process_response was
\* called, and whose on_error was called; and the chain of the request phase
\* and of the response phase.
Unseen == [entered |-> {}, answered |-> {}, told |-> {}]

Init == /\ sorted = Registered
        /\ requests = [r \in Requests |-> NewRequest]
        /\ seen = [r \in Requests |-> Unseen]
        /\ gauge = 0
        /\ span = [r \in Requests |-> "none"]

-----------------------------------------------------------------------------
(* Moving through a phase *)

Current(r) == requests[r].chain[requests[r].pos]

\* What follows a phase whose loop is done.
AfterPhase(q) ==
  IF q.stage = "request" THEN [q EXCEPT !.stage = "provider"]
  ELSE IF q.stage = "chunk" THEN [q EXCEPT !.stage = "streaming"]
  ELSE [q EXCEPT !.stage = "ended", !.outcome = "returned"]

Settled(q) == IF q.pos > Len(q.chain) THEN AfterPhase(q) ELSE q

BeginPhase(q, phase, chain) == Settled([q EXCEPT !.stage = phase, !.chain = chain, !.pos = 1])

NextHook(q) == Settled([q EXCEPT !.pos = @ + 1])

\* _notify_error is over: raise, or go on with the phase that was isolated.
Notified(q) ==
  IF q.at <= Len(q.told) THEN q
  ELSE IF q.after = "ended" THEN [q EXCEPT !.stage = "ended", !.outcome = "raised"]
  ELSE NextHook([q EXCEPT !.stage = q.after])

BeginNotify(q, after) ==
  Notified([q EXCEPT !.stage = "notify", !.told = sorted, !.at = 1, !.after = after])

-----------------------------------------------------------------------------
(* The hooks of the metrics and tracing middlewares *)

\* process_request: the gauge goes up, a span is started.
GaugeIncremented(m) == gauge' = IF m = Metrics THEN gauge + 1 ELSE gauge
SpanStarted(r, m) == span' = IF m = Tracing THEN [span EXCEPT ![r] = "open"] ELSE span

\* process_response, the last chunk and on_error: _record_completion decrements
\* the gauge every time; the span is popped and ended if there is one.
GaugeDecremented(m) == gauge' = IF m = Metrics THEN gauge - 1 ELSE gauge

\* Mutant: the span is ended by on_error only.
SpanEnded_IfErrorOnly(r, m) ==
  span' = IF m = Tracing /\ requests[r].stage = "notify" /\ span[r] = "open"
          THEN [span EXCEPT ![r] = "ended"] ELSE span

SpanEnded(r, m) ==
  span' = IF m = Tracing /\ span[r] = "open" THEN [span EXCEPT ![r] = "ended"] ELSE span

Opens(r, m) == GaugeIncremented(m) /\ SpanStarted(r, m)
Closes(r, m) == GaugeDecremented(m) /\ SpanEnded(r, m)

-----------------------------------------------------------------------------
(* The phases *)

\* Mutant: is_mandatory is not looked at.
Raises_AllIsolated(r, e) ==
  LET q == requests[r] IN
  /\ Current(r) \notin Observers
  /\ requests' = [requests EXCEPT ![r] =
       BeginNotify(q, IF IsChainBreaking(e) THEN "ended" ELSE q.stage)]
  /\ UNCHANGED <<sorted, seen, gauge, span>>

\* A hook raises or times out: the error is broadcast; then it is raised if it breaks the
\* chain or the middleware is mandatory, and isolated if not.
Raises(r, e) ==
  LET q == requests[r] IN
  /\ Current(r) \notin Observers
  /\ requests' = [requests EXCEPT ![r] =
       BeginNotify(q, IF IsChainBreaking(e) \/ Current(r) \in Mandatory THEN "ended" ELSE q.stage)]
  /\ UNCHANGED <<sorted, seen, gauge, span>>

Returns(r) == requests' = [requests EXCEPT ![r] = NextHook(@)]

\* CacheHitException leaves the request phase: run() sends the cached response
\* through the response phase, stream() yields it and ends.
CacheHit(r) ==
  LET q == [requests[r] EXCEPT !.cached = TRUE] IN
  /\ Current(r) \in Caches
  /\ requests' = [requests EXCEPT ![r] =
       IF q.kind = "run" THEN BeginPhase(q, "response", Reversed(sorted))
       ELSE [q EXCEPT !.stage = "ended", !.outcome = "returned"]]
  /\ UNCHANGED <<sorted, seen, gauge, span>>

\* process_request returns None.
AbortsChain(r) == Raises(r, Plain("RuntimeError"))

RunRequest(r) ==
  /\ requests[r].stage = "request"
  /\ \/ /\ Returns(r)
        /\ seen' = [seen EXCEPT ![r].entered = @ \cup {Current(r)}]
        /\ Opens(r, Current(r))
        /\ UNCHANGED sorted
     \/ CacheHit(r)
     \/ AbortsChain(r)
     \/ \E e \in Errors : Raises(r, e)

RunResponse(r) ==
  /\ requests[r].stage = "response"
  /\ \/ /\ Returns(r)
        /\ seen' = [seen EXCEPT ![r].answered = @ \cup {Current(r)}]
        /\ Closes(r, Current(r))
        /\ UNCHANGED sorted
     \/ \E e \in Errors : Raises(r, e)

RunStreamChunk(r) ==
  /\ requests[r].stage = "chunk"
  /\ \/ /\ Returns(r)
        /\ IF requests[r].final
           THEN /\ seen' = [seen EXCEPT ![r].answered = @ \cup {Current(r)}]
                /\ Closes(r, Current(r))
           ELSE UNCHANGED <<seen, gauge, span>>
        /\ UNCHANGED sorted
     \/ \E e \in Errors : Raises(r, e)

RunToolCall(r) ==
  /\ requests[r].stage = "tool_call"
  /\ \/ Returns(r) /\ UNCHANGED <<sorted, seen, gauge, span>>
     \/ \E e \in Errors : Raises(r, e)

RunToolResult(r) ==
  /\ requests[r].stage = "tool_result"
  /\ \/ Returns(r) /\ UNCHANGED <<sorted, seen, gauge, span>>
     \/ \E e \in Errors : Raises(r, e)

\* One call of on_error; what it raises is swallowed.
NotifyError(r) ==
  LET q == requests[r]
      m == q.told[q.at]
  IN
  /\ q.stage = "notify"
  /\ requests' = [requests EXCEPT ![r] = Notified([q EXCEPT !.at = @ + 1])]
  /\ seen' = [seen EXCEPT ![r].told = @ \cup {m}]
  /\ Closes(r, m)
  /\ UNCHANGED sorted

-----------------------------------------------------------------------------
(* run, stream, execute_tool_call, execute_tool_result *)

Enter(r, kind) ==
  LET q == [requests[r] EXCEPT !.kind = kind] IN
  /\ requests[r].stage = "idle"
  /\ requests' = [requests EXCEPT ![r] =
       CASE kind \in {"run", "stream"} -> BeginPhase(q, "request", sorted)
         [] kind = "tool_call" -> BeginPhase(q, "tool_call", sorted)
         [] kind = "tool_result" -> BeginPhase(q, "tool_result", Reversed(sorted))]
  /\ UNCHANGED <<sorted, seen, gauge, span>>

\* run(): the provider answers and the response phase begins ...
ProviderAnswers(r) ==
  /\ requests[r].stage = "provider"
  /\ requests[r].kind = "run"
  /\ requests' = [requests EXCEPT ![r] = BeginPhase(@, "response", Reversed(sorted))]
  /\ UNCHANGED <<sorted, seen, gauge, span>>

\* Mutant: the error is raised without a broadcast.
ProviderFails_NobodyTold(r) ==
  /\ requests[r].stage = "provider"
  /\ requests[r].kind = "run"
  /\ requests' = [requests EXCEPT ![r] = [@ EXCEPT !.stage = "ended", !.outcome = "raised"]]
  /\ UNCHANGED <<sorted, seen, gauge, span>>

\* ... or all providers fail: the error is broadcast and raised.
ProviderFails(r) ==
  /\ requests[r].stage = "provider"
  /\ requests[r].kind = "run"
  /\ requests' = [requests EXCEPT ![r] = BeginNotify(@, "ended")]
  /\ UNCHANGED <<sorted, seen, gauge, span>>

\* stream(): a chunk arrives, with or without a finish_reason; one too many is
\* a ValidationError.
Chunk(r, final) ==
  LET q == [requests[r] EXCEPT !.chunks = @ + 1, !.final = final] IN
  /\ requests[r].kind = "stream"
  /\ requests[r].stage \in {"provider", "streaming"}
  /\ requests' = [requests EXCEPT ![r] =
       IF q.chunks > MaxChunks THEN [q EXCEPT !.stage = "ended", !.outcome = "raised"]
       ELSE BeginPhase(q, "chunk", Reversed(sorted))]
  /\ UNCHANGED <<sorted, seen, gauge, span>>

\* The provider's generator ends, well or with an exception (or no provider is
\* available, or the deadline has passed), which nobody is told about.
StreamEnds(r, outcome) ==
  /\ requests[r].kind = "stream"
  /\ requests[r].stage \in {"provider", "streaming"}
  /\ requests' = [requests EXCEPT ![r].stage = "ended", ![r].outcome = outcome]
  /\ UNCHANGED <<sorted, seen, gauge, span>>

\* total_timeout, a cancelled caller, a consumer that stops: no hook is called.
Cancel(r) ==
  /\ requests[r].stage \notin {"idle", "ended"}
  /\ requests' = [requests EXCEPT ![r].stage = "ended", ![r].outcome = "cancelled"]
  /\ UNCHANGED <<sorted, seen, gauge, span>>

\* add_middleware and add_middleware_async, while requests are under way.
AddMiddleware(m) ==
  /\ \A i \in 1..Len(sorted) : sorted[i] # m
  /\ sorted' = Inserted(Priority, sorted, m)
  /\ UNCHANGED <<requests, seen, gauge, span>>

Work(r) ==
  \/ RunRequest(r) \/ RunResponse(r) \/ RunStreamChunk(r) \/ RunToolCall(r) \/ RunToolResult(r)
  \/ NotifyError(r)

Provide(r) ==
  \/ ProviderAnswers(r) \/ ProviderFails(r)
  \/ \E final \in BOOLEAN : Chunk(r, final)
  \/ \E outcome \in {"returned", "raised"} : StreamEnds(r, outcome)

Next ==
  \/ \E r \in Requests :
       \/ \E kind \in Kinds : Enter(r, kind)
       \/ Work(r) \/ Provide(r) \/ Cancel(r)
  \/ \E m \in Middlewares : AddMiddleware(m)

Spec == Init /\ [][Next]_vars

-----------------------------------------------------------------------------
(* Properties *)

\* The variables of a coroutine.
Request ==
  [kind : Kinds, stage : Stages, chain : Seq(Middlewares), pos : Nat \ {0},
   told : Seq(Middlewares), at : Nat \ {0}, after : Phases \cup {"ended"},
   chunks : Nat, final : BOOLEAN, cached : BOOLEAN,
   outcome : {"none", "returned", "raised", "cancelled"}]

\* The state is the one the coroutines of the pipeline can be in.
TypeOK ==
  /\ sorted \in Seq(Middlewares)
  /\ requests \in [Requests -> Request]
  /\ seen \in [Requests -> [entered : SUBSET Middlewares, answered : SUBSET Middlewares,
                            told : SUBSET Middlewares]]
  /\ gauge \in Int
  /\ span \in [Requests -> {"none", "open", "ended"}]

MandatoryOf(r) == {m \in Mandatory : \E i \in 1..Len(requests[r].chain) : requests[r].chain[i] = m}

\* is_mandatory (base.py): no provider is called before every mandatory
\* middleware of the chain has let the request pass, and no response or last
\* chunk reaches the caller that one of them has not processed, whatever the
\* other middlewares raise and whatever is isolated in between.
MandatoryNeverSkipped ==
  \A r \in Requests :
    LET q == requests[r] IN
    /\ q.stage = "provider" => MandatoryOf(r) \subseteq seen[r].entered
    /\ q.stage = "ended" /\ q.outcome = "returned" /\ q.kind = "run"
         => MandatoryOf(r) \subseteq seen[r].answered
    /\ q.stage = "streaming" /\ q.final => MandatoryOf(r) \subseteq seen[r].answered

\* Whoever let a request of run() pass learns how it went on: by a response, or
\* by the broadcast of the error that ended it or of one that was isolated.
EnteredAreInformed ==
  \A r \in Requests :
    LET q == requests[r] IN
    q.kind = "run" /\ q.stage = "ended" /\ q.outcome # "cancelled"
      => /\ seen[r].entered \subseteq seen[r].answered \cup seen[r].told
         /\ q.outcome = "raised" => seen[r].entered \subseteq seen[r].told

\* run() leaves no span open, whether it answers, answers from the cache or
\* raises; and the gauge, which may be too low, is never higher than the number
\* of requests whose end the metrics middleware was not told of
\* (pipeline.py:368, metrics.py:332).
ObserversBalanced ==
  /\ \A r \in Requests :
       requests[r].kind = "run" /\ requests[r].outcome \in {"returned", "raised"}
         => span[r] # "open"
  /\ gauge <= Cardinality({r \in Requests : Metrics \in seen[r].entered
                             /\ Metrics \notin seen[r].answered \cup seen[r].told})
=============================================================================
