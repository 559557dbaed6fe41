# Formal model of onion-core

TLA+ modules, TLC configurations and TLAPS proofs about `onion_core`, an
asynchronous Python framework that wraps calls to language-model providers in
an onion of middlewares, with retries, fallbacks, circuit breakers, rate limits
and caches (in memory or in Redis), a tool registry and an agent runtime.

- `tlc -config <run>.cfg <MC module>` checks a run; [Runs](#runs) names them.
- `tlapm <module>_proofs.tla` checks the proofs.

`PROJECT.json` lists the components, the runs with their properties, the
deliberate bugs ("mutants") each property is known to detect, the source lines
each definition models, the hazards of the code and the theorems. Paths below
are relative to `onion_core/` unless they name a directory of the repository.

## The system

Everything runs on one asyncio event loop: code between two `await`s that
really wait is atomic, and everything else interleaves. Exceptions to this rule
are the executor threads of synchronous tools, the worker thread of
`stream_sync`, and Redis, shared by several processes.

| Component | State | Operations | What makes it correct |
|---|---|---|---|
| Circuit breaker (`circuit_breaker.py`) | state, two counters, time of the last failure | `check_call`, `record_success`, `record_failure` | opens, probes and closes on the reports its docstring names; never open for ever |
| Provider calls and streams (`pipeline.py` 339-670) | one breaker per provider; per request: provider, attempt, exceptions | `run`, `stream` | every request ends; no provider skipped without a reason; open breakers admit nobody; the right outcomes are reported |
| Tool registry (`tools.py`) | idempotency cache, in-flight futures, write count | `execute`, `clear_idempotency_cache` | one execution per key at a time; joiners see the owner's outcome; only successes cached; nobody waits for ever; bounded cache |
| Middleware chain (`pipeline.py` 676-868, `base.py`) | sorted list, request context | request, response, chunk, tool and error phases | order; isolation of optional, propagation of mandatory and fatal failures; whoever let a request in hears of its end |
| Life cycle and synchronous API (`pipeline.py` 138-262, 1036-1210) | `_started`, `_lock`; queue and worker thread | startup, shutdown, add middleware; `stream_sync` | what is started is up, what is stopped is down; no chunk lost; nobody left waiting; providers cleaned up by their owner |
| Rate limiting, budget (`middlewares/ratelimit.py`, `budget.py`) | windows per session or scope, LRU | check, charge | at most the limit per window; bounded overdraft |
| Response cache (`middlewares/cache.py`) | LRU of responses | look up, store, invalidate, clear | fresh entries; answers requests its key does not tell apart, from the primary provider only |
| Safety guardrail (`middlewares/safety.py`) | stream buffer per request | checks, masking | what is flushed is masked as a whole; nothing repeated, reordered or lost |
| Context window and memory (`middlewares/context.py`, `agent.py` 552-716) | message list | compress, trim, summarise, truncate | the model sees the system message and the newest messages without a gap |
| Distributed breaker, rate limit, cache (`middlewares/distributed_*.py`) | Redis hashes, sorted sets, keys | Lua scripts, stores, SCAN | as the local ones, across processes with their own clocks, when Redis fails |
| Agent runtime (`agent.py` 296-545, 762-1209) | status, steps, cancel flag, active count | run, cancel, drain, streamed text, tool executor | cancel takes effect; every run ends decided; tool phases and streams end |
| Agent loop (`agent.py` 87-289) | turn, message list, recent hashes | run | ends; every kept tool call answered |
| Metrics, tracing, logging (`observability/`, `middlewares/observability.py`) | gauge, spans | inc, dec, start, end | what is opened is closed |
| Error codes, retry policy (`error_codes.py`, `models.py`) | none | classify | |
| Configuration, validation, health server, providers | none of their own | | |

How they interact. `Pipeline.run` sends a context through the request phase of
the middlewares, calls the providers, and sends the reply back through the
response phase. A cache middleware can raise `CacheHitException`, which skips
the providers and the inner middlewares on the way in, but none on the way out.
The provider loop consults and informs the circuit breakers. A stream does the
same with one provider chosen in advance. An error of a middleware is broadcast
to all of them through `on_error`, also when it is then isolated. `AgentLoop`
calls `Pipeline.run` and `ToolRegistry.execute` in turns; `AgentRuntime` calls
its provider (often a pipeline) and its own `ToolExecutor`, which does not use
the registry's idempotency cache.

What is hard to test in it is listed, line by line, under "hazards" in
`PROJECT.json`: reports that reach a breaker late or out of order, owners
cancelled while others wait for them, threads that outlive the call that started
them, a chain cut short by a cache, life-cycle operations that overlap or are
cancelled, a budget checked before the call and charged after it, instances with
different clocks over one Redis whose answers get lost, a cancel between two
awaits, a full queue nobody empties.

## Modules

| Module | Models |
|---|---|
| `CircuitBreaker` | class `CircuitBreaker`, as a record and one operator per method |
| `ProviderCalls` | `_call_provider_with_retry`, `_get_healthy_stream_provider`, `_stream_core` for concurrent requests over breakers |
| `BreakerPromise` | the docstring of `CircuitBreaker` as an abstract specification over reports |
| `ProviderCallsHistory` | `ProviderCalls` with an observer of the reports; the refinement mapping to `BreakerPromise` |
| `ErrorPolicy` | the error codes, exception classes and `RetryPolicy`; definitions only |
| `MiddlewareOrder` | the sorted list and its reverse; definitions only |
| `MiddlewareChain` | the five phases, `_notify_error`, `run` and `stream` around them, hooks of metrics and tracing |
| `Lifecycle` | `startup`, `shutdown`, `add_middleware`, `add_middleware_async` |
| `StreamSync` | `stream_sync`: worker thread, queue and the caller's generator |
| `ToolIdempotency` | `ToolRegistry.execute` with an idempotency key, `_cleanup_expired_cache_entries`, `clear_idempotency_cache` |
| `SlidingWindows`, `RateLimiter` | per-session windows with eviction; `RateLimitMiddleware` |
| `Budget`, `ResponseCache`, `GovernedPipeline` | the hooks of `BudgetMiddleware` and `ResponseCacheMiddleware` as operators, and concurrent calls that pass through both |
| `StreamMask` | `SafetyGuardrailMiddleware.process_stream_chunk` |
| `DistributedBreaker`, `DistributedRateLimit`, `DistributedCache` | the Redis middlewares: the Lua scripts as atomic operators, the hooks that call them, expiry and operators' resets |
| `AgentRuntime` | `_run_loop`, `cancel`, the signal handler, `drain` |
| `ToolExecutor` | `execute_all` and `execute` with semaphore, timeouts, retries and the default thread pool |
| `StreamingText` | `run_streaming_text`: producer task, bounded queue, generator |
| `AgentLoop` | `AgentLoop._run_internal`: turns, duplicate calls, depth, progress window |
| `ConversationMemory` | `compress`, `trim`, `trim_with_summary`, the context window's truncation |
| `*_proofs` | proofs about the module of that name; `Lifecycle_proofs` also about `StreamSync`, `GovernedPipeline_proofs` about `RateLimiter` and `StreamMask`, `Redis_proofs` about the three distributed modules, `Agent_proofs` about the five of the agents |
| `Inductions` | induction over numbers and sequences, and along folds, as lemmas the proofs share |
| `MC*` | small instances for TLC |

Each specification is one component, or the composition of those that share
state (`ProviderCalls` over `CircuitBreaker`; `GovernedPipeline` over `Budget`,
`ResponseCache` and `SlidingWindows`). Four of the MC modules put several
specifications together that share no state: they extend some and instantiate
others, and a variable `subject`, chosen initially and never changed, says which
one of them a behaviour is about; the others keep still. The state space is then
the sum of theirs, not the product, and a property of one of them is checked as
it stands. That components do not influence each other is not claimed by this;
where they do, they are in one specification.

### Provider calls

A breaker is the record `[state, failures, successes, age]`. The code keeps
`_last_failure_time` and only compares its age with `recovery_timeout`; the
model keeps the age in ticks, which stops at `RecoveryTimeout`, and
`NoFailure` for `None`. The methods take `self._lock` and await nothing inside,
so a call is atomic. `calls[r]` holds the local variables of the coroutine of
request slot `r`. A slot is used again once its request has ended, so an
unbounded number of requests passes through a bounded number of slots.

| Action | Code |
|---|---|
| `Start` | the loop over the providers up to the first `await provider.complete()`; skips the providers whose `check_call` raises, and may fail at once |
| `Succeed` | `record_success`, return |
| `RetryLater`, `WakeUp` | a RETRY error with attempts left: `record_failure`, `asyncio.sleep`; then the next attempt, without `check_call` |
| `Exhaust`, `FallBack` | last attempt or FALLBACK error: `record_failure`, then the next provider that admits, or the last exception is raised |
| `Fatal` | a FATAL error is raised at once, nothing recorded |
| `Cancel` | `total_timeout` or the caller cancels: nothing recorded |
| `StartStream`, `FinishStream`, `BreakStream`, `CloseStream` | `_get_healthy_stream_provider`, and the finally clause of `_stream_core` |
| `Tick` | `time.time()` |

What `RetryPolicy.classify` makes of an exception is a nondeterministic choice
here; `ErrorPolicy` has the classification itself.

`BreakerPromise` knows only what was reported: how many of the latest reports
were failures in a row, the successes since the last failure or the start of a
probe, and the quiet ticks since the last failure. Its counts are not reset with
the state, so it is not the implementation over again: the code's
`_failure_count` is frozen while open and zeroed by `_reset` and `check_call`,
and the refinement (`PromisesKept`) shows that this never makes a difference.

### The chain and the life cycle

In `MiddlewareChain` every hook is awaited, so each call of a hook is a step.
`requests[r]` has the list the phase iterates over as it was when the phase
began, the position in it, and the same for the broadcast of an error. A hook
returns, raises (any exception of `Errors`; `IsChainBreaking` of `ErrorPolicy`
and `Mandatory` decide whether the phase goes on), times out, or, for a cache,
raises `CacheHitException`. `AddMiddleware` inserts into the sorted list while
requests are under way. What providers do is one outcome here.

In `Lifecycle` a task that calls `startup` or `shutdown` holds `_lock` through a
loop over hooks that may raise; `Interrupt` is a cancellation at any await, which
releases the lock and rolls nothing back. `add_middleware_async` registers under
the lock and starts the new middleware outside of it (`LateStart`). `orphans`
and `halted` are observers: what a cancelled startup, or a late start that
overlapped another operation, has left running, and whether a shutdown was cut
off. The properties say that nothing else is ever left running, or down.

`StreamSync` has the two threads' steps between accesses to what they share: the
queue, `stop_event` and `producer_task`.

### The tool registry

`calls[c]` is the coroutine of one call of `execute`: `idle`, `running` (the
owner of an execution), `joining` (awaiting an owner's future) or `ended` with a
reply, which names the kind of outcome and the call whose execution or
cancellation it stems from. `runs[c]` is the execution of the tool function on
behalf of `c`; for a key in `ThreadKeys` it is a function in an executor thread
that outlives its owner, unless it is still queued when the owner is cancelled.

| Action | Code |
|---|---|
| `Hit`, `Own`, `Join` | the section under `_idempotency_lock` at the start, and what follows up to the next await |
| `ThreadEnds` | the function returns in its thread |
| `Succeed`, `Fail` | the owner resumes: cache (or not), release the key, set the future, clean up after every `CleanupInterval`-th write |
| `CancelOwner` | `except BaseException`: release the key, `set_exception` |
| `Resume`, `CancelJoiner` | the joiner behind `asyncio.shield` |
| `Clear`, `Tick` | `clear_idempotency_cache`, `time.time()` |

The payload of a result is abstracted to the execution it came from.

### Middlewares with a memory

`RateLimiter` keeps both stores of windows, evicts the least recently used
session, and records in `admitted` what passed. `GovernedPipeline` follows a
call through the cache (priority 75), the budget (125), a provider or a fallback,
and back through the budget and the cache; each hook is a step of its own, as
the hooks are awaited and other calls come between. A reply carries what was sent
to whom, so that `CacheSound` can compare it with the request it answers. The
comparison goes through the key, as `Shown` says what the key holds of the messages:
it leaves out tool calls and their ids, most of the configuration and, with
`user_only`, all but the user's messages, and messages that differ only there share
an answer. `paid` observes what a scope was charged for (cache hits apart, which are
charged without a check) while the store of windows has held it; a scope that is
evicted starts afresh, in the code and in `OverdraftBounded`.

`StreamMask` is one stream through the guardrail's buffer. The rules are a
parameter, `Mask`, which says what `_mask_pii` makes of one text; `cuts` notes where
the buffer was emptied and whether its text was lost. That happens when the stream
ends behind a chunk without a `finish_reason`, and when another hook raises
(`HookFails`): its error is broadcast even if it is isolated, clears the buffer, and
the stream goes on. `TextKept` says that the pieces between the cuts tile the text,
that each one sent was masked as a whole, and that no other piece is lost. What a rule
would match across two pieces gets through, and no property says otherwise.

### Redis

A Lua script is one step. Redis may fail before it has run a script, or lose the
answer after it has; both take the code's exception path. Instances send their own
clocks, which are ahead of Redis's by a member of `Skews`. In `DistributedBreaker`
a request of a pipeline passes `Check`, may be refused (the refusal is isolated
and broadcast, so it is recorded as a failure and the request still reaches the
provider), is answered or fails. In `DistributedRateLimit` a member of the sorted
set is a stamp: its name is the printed clock and a number from a generator that
Redis starts alike in every run of a script, so two requests of one printed clock
are one member, and `RateShared` bounds the stamps of the counted requests. A request
that finds the window full and less than a second to wait goes through uncounted;
`slipped` has its key and its clock, of which `AtMostASecondEarly` speaks. In
`DistributedCache` a prompt is what the key shows of it, and `Scan` deletes a batch
of the keys while requests hit and store; SCAN guarantees what was there throughout,
and nothing else.

### Agents

A step of `AgentRuntime` is what happens between two suspension points of
`_run_loop`; `cancel()` and the signal handler come in between. States are named
by the run that created them, so that two runs of one runtime, which share
`_state`, `_fsm` and `_cancelled`, can be told apart; `mixed` marks those that
overlapped. `ToolExecutor` is one tool phase: a coroutine ends with its timeout,
a plain function keeps its thread of the default pool, which the memory trim
needs as well. `StreamingText`, `AgentLoop` and `ConversationMemory` follow the
code statement by statement at the same grain. An answer in `AgentLoop` is its tool
calls and a text, which stands for its content and `finish_reason`, as the progress
hash takes in all of them. A tool step that is cut off leaves its calls without
answers and the context marked, and the next run with that context asks the model
like that: `AskShowsTheTurn` says so of exactly those turns. Messages have a role, a size in
tokens and a number by which gaps show. A conversation goes over several runs;
a runtime with a `system_prompt` (`prompted`) appends it again at the start of
each of them, and summaries are system messages of other sizes. `squeezes` notes
the counts at which system messages left no room for the rest, which `SentIsRecent`
allows by name, since the code drops the conversation there. The messages of some
roles, their total and the longest suffix that fits are functions, not library
operators, because the proofs reason about them.

## Runs

Seven runs pass.

| Run | Instance | Shows |
|---|---|---|
| `calls` | 2 slots, 2 providers, 1 retry, thresholds 2, timeout 1 | `BreakersOK`, `EveryProviderExplained`, `OpenAdmitsNobody`; `PromisesKept`: each breaker implements `BreakerPromise` |
| `calls_liveness` | 2 slots, 1 provider, timeout 2, `BusySpec` | `RequestsEnd`, `PrimaryProbed`, `PrimaryRecovers` |
| `tools` | 3 calls, 3 keys (one threaded), cache of 1, clean-up every 2 writes, lifetime 2 | `SingleFlight`, `RepliesAreGenuine`, `CacheBounded`, `JustStoredIsKept`, `EveryCallEnds` |
| `pipeline` | chain: a request through 4 middlewares with the code's priorities, a fifth added on the way; life cycle: 2 tasks, 3 middlewares, 2 providers; stream: 3 chunks | `MandatoryNeverSkipped`, `EnteredAreInformed`, `ObserversBalanced`; `ReadyWhenStarted`, `NothingLeftRunning`, `OperationsEnd`; `StreamComplete`, `NoStreamLeftWaiting` |
| `governed` | 2 calls of 2 scopes over a store of 1; 3 prompts, one cut down on the way and one the key does not tell from another; primary and fallback, cache of 1; 3 sessions over 2 windows; streams of 5 characters over a buffer of 2, with an error of another hook | `OverdraftBounded`, `CacheSound`; `RateBounded`; `TextKept` |
| `redis` | 3 requests, clocks one tick apart, thresholds 2; limit of 2 stamps in 4 ticks with 2 ticks a second; 2 `clear_cache` calls | `OpenIsKept`, `ClosesOnEvidence`; `RateShared`, `AtMostASecondEarly`; `EntriesGenuine`, `ClearCovers` |
| `agent` | 2 runs of 2 steps; 2 tool calls with a retry and a pool of 1 thread; queue of 2 and 4 chunks; 2 runs of 4 turns with 2 texts and a window of 2; 12 messages | `CancelHonoured`, `EndsDecided`, `RunsEnd`; `AnswersExplained`, `EveryTurnEnds`; `TextComplete`, `EveryTextStreamEnds`; `AskShowsTheTurn`, `NoSpin`; `SentIsRecent` |

`NoStreamLeftWaiting`, `EveryTurnEnds` and `EveryTextStreamEnds` state
`NobodyLeftWaiting`, `TurnEnds` and `TextStreamEnds` of the behaviours whose
`subject` is that component.

Five runs end in a counterexample, because the code does something its
documentation denies; [Disagreements](#disagreements) explains them.

| Run | Property | Says |
|---|---|---|
| `tools_overlap` | `RunsNeverOverlap` | a tool is executed at most once per key, even under concurrent load |
| `cache_ttl` | `ServedWithinTtl` | a cached answer is served within its TTL |
| `stream_sync_cleanup` | `OnlyOwnersCleanUp` | only a pipeline that owns its providers cleans them up |
| `circuit_heals` | `HealsAfterTimeout` | an open distributed circuit is half-open after the recovery timeout |
| `cancel_lost` | `CancelNeverLost` | a run that was told to stop does |

Bounds, and why they are enough. Two request slots let one request change a
breaker under another that is admitted, retrying or streaming; two providers give
a primary, a fallback consulted in the same step, and a last provider; one retry
gives a first and a last attempt. Thresholds of 2 separate a counter's steps from
its limit. Three keys with a cache of one let a clean-up choose between entries,
and three calls are an owner, a joiner and one that comes later. In the chain one
request is enough, because requests share nothing but the gauge and the list,
which is extended in between; the proofs cover any number. Two life-cycle tasks
make every overlap of two operations. Three sessions over two windows force an
eviction. Two calls of a scope are the least that overdraw a budget together; a
second scope over a store of one, with a prompt of its own (`SomeContexts`), evicts
the first. Three cuts of a stream are a flush before and after a lost piece.
Clocks one tick apart put an instance on either side of every deadline. A tick is
half a second in the distributed limiter, so that fractions occur. Two runs of a
runtime are the least that share its state, two steps a first and a last one. A
queue of 2 with 4 chunks fills twice. Four turns are two windows of two. Twelve
messages with sizes 1 and 4, and summaries of 1 and 2, reach every trimming rule
under limits of 4 and 6 tokens. Time is bounded by `MaxTime`,
`MaxTock` and `MaxInstant`, past every timeout, window and lifetime of the instance; `MaxEntries`,
`MaxClears`, `MaxNumber`, `MaxText`, `MaxCuts`, `MaxErrors`, `MaxRuns` and `MaxChunks`
bound what could grow for ever. The semaphore of the tool executor has as many
permits as there are calls, so that it is the pool they wait for.

Deadlock is checked in the `calls`, `calls_liveness` and `tools` runs, where
time can always pass. In the others a component really comes to its end (a
generator that has ended, a run that is over) or its clock reaches the bound;
there `NobodyLeftWaiting`, `OperationsEnd`, `RunsEnd`, `TurnEnds` and
`TextStreamEnds` take the place of the check where something must go on.

Fairness. The event loop runs every task that is ready, so answers that have
arrived are processed and sleeps end: weak fairness on those actions. That a
provider answers is an assumption (without `provider_timeout` nothing in the code
ends a call that hangs), and so is that tools return in `tools`; in `agent` tools
may miss every timeout and the timeouts are what is fair, with the one assumption
that a function given up in its thread returns at last. `calls_liveness` assumes
besides that time passes and that the application sends requests, as a breaker is
only probed by a request. The life cycle assumes strong fairness of each task's
steps: `asyncio.Lock` hands the lock to those who wait in their order, so a task
that waits gets it although it is taken again and again. Both threads of
`stream_sync` run, whether or not its caller asks for more; the caller of
`run_streaming_text` asks for the next chunk or closes the generator.

## Proofs

For every value of the constants, and for sequences of every length. Every
invariant and every action property of the passing runs is a theorem. Each
specification has an inductive invariant (`IInv`, `CircuitIInv`, `CacheIInv`, ...)
and lemmas for its actions; a theorem combines them in its last, temporal step.

`ProviderCalls_proofs`
: `TypeCorrect`, `BreakersConsistent`, `NoProviderSkipped`,
  `OpenAdmitsNobodyHolds`, and `PromisesAreKept`, the refinement of
  `BreakerPromise` for the first two of at least two providers. `BreakersOK` is
  not inductive by itself: that counts stay below their threshold needs the
  types of the counters, and a request's exceptions say where it is. The
  refinement needs in addition how each breaker's frozen or zeroed counters
  relate to the observer's.

`ToolIdempotency_proofs`
: `TypeCorrect`, `SingleFlightHolds`, `RepliesGenuine`, `CacheHoldsSuccesses`,
  `StoredIsKept`, `CacheStaysBounded`. `IInv` says of every call what the
  registry knows of it at its stage: `SingleFlight` needs `Owned` (an entry of
  `_in_flight` names a running call), `RepliesAreGenuine` that a set future
  belongs to an ended call with the same reply (`FutureSet`), as a joiner may
  resume long after its owner returned, and that cached executions ended well
  (`Cached`). The bound of the cache counts a finite set of filled keys; that a
  clean-up drops enough of them needs that no two entries have one stamp
  (`Distinct`) and a least one in every set of stamps.

`MiddlewareChain_proofs`
: `TypeCorrect`, `MandatoryIsNeverSkipped`, `EnteredAreAllInformed`,
  `ObserversAreBalanced`, from lemmas about reversing a list and inserting into
  it. `IInv` says of each request which middlewares its phase has passed and,
  within a broadcast, which have been told, relative to the list the phase began
  with; the lists of later phases contain those of earlier ones, because the list
  only grows. The gauge is bounded by the size of a set of requests, and each
  hook of the metrics middleware moves both.

`Lifecycle_proofs`
: `LockIsHeld`, `StartedIsReady`, `StoppedLeavesNothing`, `StreamIsComplete`. The
  two properties of the life cycle speak of a free lock only. `LifeIInv` adds what
  holds while a task has it: what is up is what its loop has passed, or has still
  to stop, or is an orphan (`Held`), and what a task remembers is registered
  (`OnCourse`). For `stream_sync`, `SyncIInv` says that what the caller has and what
  the queue holds are one run of chunks, with the end or the error only behind it.

`GovernedPipeline_proofs`
: `CacheIsSound`, `OverdraftIsBounded`, `RateIsBounded`, `TextIsKept`. The cache: an
  answer under way belongs under its request's key (`OwnAnswer`) before it is an
  entry. The budget: what a scope has paid within the window is at most the limit,
  less the least estimate, plus the dearest reply for each call that is not under way
  (`Room`): the check makes room for a call before its charge takes it. What was paid
  is in the window the check reads (`Covered`) as long as the scope is in the store,
  and what pruning drops counts at no later time. The sums are folds. The rate limit:
  the windows stand in the order of their last use, so a session is evicted only
  after as many rivals as there is room for (`PhaseOK`). The mask: the pieces between
  the cuts tile the text and what is held continues them, whatever `Mask` is.

`Redis_proofs`
: The breaker: `TypeCorrect`, `OpenIsKeptHolds`, `ClosesOnEvidenceHolds`.
  `CircuitIInv` adds that an OPEN circuit remembers the last recorded failure up to
  the largest skew, and that a HALF_OPEN circuit's success count never exceeds the
  successes recorded since it is HALF_OPEN. The cache: `EntriesAreGenuine`,
  `ClearIsComplete`. `CacheIInv` adds that a complete answer about to be stored fits
  the request's prompt and the provider in its metadata, and that while a sweep is
  on an entry is new or is still to be scanned. The rate limit: `RateIsShared`,
  `AtMostASecondEarlyHolds`. `LimitIInv` adds that every counted request of the
  window, less the skew, has its stamp in the sorted set, which has no more
  members than `max_requests`.

`Agent_proofs`
: The runtime: `TypeCorrect`, `CancelIsHonoured`, `EndsAreDecided`,
  `DrainMeansQuiet`. `IInv` adds that `_active_count` is the number of runs under
  way (`Counted`), that a run that is not mixed is alone and works on the current
  state (`Alone`, `OnCourse`), and what the cancel flag and the status have to do
  with each other before and after a cancel (`Untold`, `Stopping`). The tool phase:
  `AnswersAreExplained`. The streamed text: `TextIsComplete`, as the queue continues
  what was received. The loop: `NoSpinning`, `AsksShowTheTurn`; the streak of equal turns
  is read off the recent ones (`StreakSeen`), and the answers so far are those of the
  wanted calls up to a place (`InOrder`), which is the last one unless the tool step
  was cut off. The memory: `NewestAreSent`. `MemoryIInv` says
  that the messages begin with the prompt, that the others follow each other
  without a gap but for the noted counts, and that the newest is the last of them
  when the model is asked. Each operation leaves an end of the others, or what
  `LeftOver` allows, and an end of an end is an end.

Folds and recursive functions are reasoned about by induction over a set in place
of a predicate: `ByInduction` (a set with 0 and every successor is `Nat`) and
`ByAppending` (a set with the empty sequence and everything appended is `Seq(E)`) in
`Inductions`, both from the well-foundedness of `<`. `FoldExists`, `FoldUnique` and
`FoldAppended` say the same of a fold along a sequence.

Assumptions are the modules' `ASSUME`s: types, positive thresholds and limits,
usages that are numbers, and a `None` or `Absent` that is no call, key or entry;
TLC evaluates them in the runs. Not everything they say is checked by the code: a
distributed limit, `max_sessions` and `max_scopes` of at least 1 are what a
deployment needs. `PromisesAreKept` assumes a second provider, as the property names
one, and `RateBounded` speaks of limits below `_MAX_TIMESTAMPS_PER_SESSION`.
`DistributedRateLimit` keeps a sorted set as the set of its stamps, which are score
and name at once.

Only model-checked: the liveness properties (`RequestsEnd`, `PrimaryProbed`,
`PrimaryRecovers`, `EveryCallEnds`, `OperationsEnd`, `NoStreamLeftWaiting`, `RunsEnd`,
`EveryTurnEnds`, `EveryTextStreamEnds`), as fairness and `ENABLED` are out of the
prover's reach, and the claims the code does not keep.

## Disagreements

Between the code and its documentation. The first five have a run.

- `tools.py:343`: a cancelled owner frees the key while its function goes on in a
  thread, and the next call starts it again beside it. `CHANGELOG.md:49`: "at
  most once per key even under concurrent load".
- `middlewares/cache.py:272`: a hit passes through the response phase and is
  stored again with the time of the hit; asked for often enough it never expires.
  Docstring (line 35): cached results are returned within the TTL.
- `pipeline.py:1145`: `stream_sync` cleans up all providers, also of a pipeline
  with `owns_provider=False` (`pipeline.py:102`).
- `middlewares/distributed_circuit_breaker.py:351`: refusals are reported to
  `on_error`, recorded as failures and refresh `last_failure_time`; with steady
  traffic an OPEN circuit never becomes HALF_OPEN. `distributed-consistency.md:129`
  says it does after `recovery_timeout`. The refused requests reach the provider
  all the same (`pipeline.py:740`); hits of a cache count as successes; streams
  record none.
- `agent.py:863`: a run that begins resets `_cancelled`, so that an earlier run
  of the same runtime goes on. `CHANGELOG.md:247` speaks of a `_cancel_lock`
  that makes this safe; the code has none.

Others were met while modelling and have no run of their own, since the model
follows the code there:

- `docs/explanation/circuit-breaker-transitions.md` 18, 30 and 99: no calls while
  OPEN, closing by test requests only, a limited number of test requests.
  Retries go on after a breaker opened, successes of older calls count, and
  nothing limits the test requests. The comment at `pipeline.py:607` says FATAL
  errors are not recorded as failures; for streams (line 541) they are.
- `tools.py:186`, `max_cache_size`: enforced at every hundredth write only.
- `models.py` calls `_MAX_TOOL_CALL_DEPTH` a nesting depth; what is compared with
  it counts the calls of a turn.
- `middlewares/context.py:221-224`: `keep_rounds` keeps twice as many messages,
  whatever rounds they belong to (`README.md:199`), and `keep_rounds=0` keeps
  everything. A message that does not fit is dropped by the memory trim, so the
  model may see none of the conversation.
- `agent.py:867`: each run of a runtime appends the system prompt again, also when
  it goes on with an earlier state. System messages, these prompts and summaries
  among them, are never trimmed: once they are `state_max_messages`, `compress`
  (`models.py:436-449`) drops the whole conversation with the new user message;
  once they reach `memory_max_tokens`, only the first of them and the last user
  message are sent, and become the state if the context window truncates.
- `middlewares/ratelimit.py:82`: the tool window applies while
  `_is_tool_call_phase` is set, and `AgentLoop` unsets it before it asks again,
  so its tool calls pass the request window only.
- `middlewares/distributed_ratelimit.py:228`: Redis truncates the script's
  fraction to 0, which the caller takes for an admission. Line 74: requests of one
  printed clock are one member and count once, so more than `max_requests` may pass.
- `middlewares/budget.py:132`: a scope that `max_scopes` others push out of the store
  starts from nothing, whatever it has spent in the window.
- `middlewares/cache.py:224`, and `distributed_cache.py` alike: the key leaves out
  tool calls and their ids, so messages that differ only there get one answer.
- `middlewares/distributed_cache.py`: a hit renews the time to live; a TTL below
  one second is 0; a fallback's answers are stored under a key that is never
  looked up. `distributed-architecture.md:88-90` promises a local cache and local
  breakers during partitions; the code has neither.
- `onion-model-philosophy.md` calls request and response symmetric; a cache hit
  sends a response through middlewares that have not seen the request, and
  `MetricsMiddleware` counts it down. `ObserversBalanced` therefore bounds the
  gauge from above only.
- `middlewares/safety.py`: the docstring (line 184) and the comment at line 218
  promise that no pattern is cut at a boundary. The whole buffer is flushed at once, so
  a pattern that is split over two flushes gets through. Text still held back is lost
  when a stream ends without a `finish_reason`, and in its middle when a chunk hook of
  another middleware raises an error that is isolated (`pipeline.py:797`). Checked
  messages are remembered by `id()`.
- `agent.py`: `run()` returns `_state`, which may be another run's by then; a
  generator of `run_streaming_text` that is closed over a full queue never ends
  (`TextStreamEnds` excludes it by name); the progress hash includes the content and
  the ids of calls, so a model that numbers its calls or words its turns differently
  is never found to spin; after a tool step that was cut off the same context is sent
  with calls nobody answered, and still marked as being in a tool phase;
  `agent-state-machine.md` has no transition for `cancel()`, which writes past it.

## Not modelled

- Provider adapters (`providers/`), configuration and validation, logging and the
  health server: no state whose interleavings matter, or input and output only.
- Text: patterns of the guardrail, token counting, the hashes of cache keys, the
  wording of summaries. They are abstracted to their outcome. The remaining
  metrics (counters, histograms, prices) are output.
- `enable_circuit_breaker=False`, which takes the breakers out of the provider
  calls; tool registration, schemas and calls without an idempotency key, which
  share no state.
- Tools that call back into the registry (a tool that executes its own key waits
  for itself), and the id of the first call in a cached result.
- A clock that is set back. Crashes of a process: nothing but Redis persists, and
  the life of its keys is in the models; a crashed instance is one whose request
  takes no further step.
