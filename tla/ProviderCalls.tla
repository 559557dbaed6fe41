---------------------------- MODULE ProviderCalls ----------------------------
(***************************************************************************)
(* How a Pipeline calls its providers (onion_core/pipeline.py): concurrent  *)
(* requests, each trying the primary provider and then its fallbacks, with  *)
(* retries, back-off and one circuit breaker per provider, and streams that *)
(* pick one provider and report to its breaker when they end.               *)
(*                                                                          *)
(* A step is what the event loop runs without suspending: from the answer   *)
(* of a provider up to the next await that waits (the next call, a back-off *)
(* sleep) or the end of the request.                                        *)
(***************************************************************************)
EXTENDS CircuitBreaker

CONSTANTS
  Requests,      \* request slots; a slot whose request has ended is used again
  NumProviders,  \* the primary is 1, the fallbacks follow in order
  MaxRetries     \* max_retries

ASSUME CallsAssumption ==
  /\ NumProviders \in Nat \ {0}
  /\ MaxRetries \in Nat

VARIABLES
  breakers,   \* _circuit_breakers
  calls       \* the local variables of each request's coroutine

vars == <<breakers, calls>>

Providers == 1..NumProviders

\* Why a provider contributed to `exceptions`: its breaker was open, its last
\* attempt raised a RETRY error, or it raised a FALLBACK error.
Reason == {"open", "retry", "fallback"}

Progress == {"idle", "calling", "backoff", "done", "failed", "cancelled"}
Position == 0..NumProviders
Attempt == 0..MaxRetries
Exceptions == [Providers -> Reason \cup {"none"}]
Raised == Reason \cup {"none", "fatal"}

Call == [pc         : Progress,
         stream     : BOOLEAN,
         provider   : Position,
         attempt    : Attempt,
         exceptions : Exceptions,
         raised     : Raised]

NoExceptions == [p \in Providers |-> "none"]

IdleCall == [pc |-> "idle", stream |-> FALSE, provider |-> 0, attempt |-> 0,
             exceptions |-> NoExceptions, raised |-> "none"]

Active(c) == c.pc \in {"calling", "backoff"}

Init == /\ breakers = [p \in Providers |-> NewBreaker]
        /\ calls = [r \in Requests |-> IdleCall]

-----------------------------------------------------------------------------
(* The loop over the providers *)

\* q is the first provider after p whose breaker admits a call.
NextAdmitting(p, q) ==
  /\ q > p
  /\ ~Rejects(breakers[q])
  /\ \A k \in Providers : p < k /\ k < q => Rejects(breakers[k])

AllReject(p) == \A k \in Providers : p < k => Rejects(breakers[k])

\* Mutant: an open breaker leaves no exception.
Skipping_Silently(exceptions, p, q) == exceptions

\* The exceptions collected after skipping the open providers between p and q.
Skipping(exceptions, p, q) ==
  [k \in Providers |-> IF p < k /\ k < q THEN "open" ELSE exceptions[k]]

\* After provider p: call the next provider that admits, or, when there is
\* none, raise the last exception collected.  brk is the state of the
\* breakers once p's answer is recorded; no breaker after p has changed.
TryNext(r, c, p, brk) ==
  \/ \E q \in Providers :
       /\ NextAdmitting(p, q)
       /\ breakers' = [brk EXCEPT ![q] = AfterCheck(@)]
       /\ calls' = [calls EXCEPT ![r] =
            [c EXCEPT !.pc = "calling", !.provider = q, !.attempt = 0,
                      !.exceptions = Skipping(c.exceptions, p, q)]]
  \/ /\ AllReject(p)
     /\ breakers' = brk
     /\ LET seen == Skipping(c.exceptions, p, NumProviders + 1) IN
        calls' = [calls EXCEPT ![r] =
          [c EXCEPT !.pc = "failed", !.provider = NumProviders,
                    !.exceptions = seen, !.raised = seen[NumProviders]]]

Start(r) == /\ ~Active(calls[r])
            /\ TryNext(r, IdleCall, 0, breakers)

-----------------------------------------------------------------------------
(* Answers of provider.complete() *)

Answering(r) == calls[r].pc = "calling" /\ ~calls[r].stream

End(r, pc) == calls' = [calls EXCEPT ![r].pc = pc]

\* Mutant: success is not recorded.
Succeed_NotRecorded(r) ==
  /\ Answering(r)
  /\ End(r, "done")
  /\ UNCHANGED breakers

Succeed(r) ==
  /\ Answering(r)
  /\ breakers' = [breakers EXCEPT ![calls[r].provider] = AfterSuccess(@)]
  /\ End(r, "done")

RecordedFailure(p) == [breakers EXCEPT ![p] = AfterFailure(@)]

\* Mutant: the attempt is not counted.
RetryLater_SameAttempt(r) ==
  /\ Answering(r)
  /\ calls[r].attempt < MaxRetries
  /\ breakers' = RecordedFailure(calls[r].provider)
  /\ calls' = [calls EXCEPT ![r].pc = "backoff"]

\* A RETRY error (or provider_timeout) with attempts left: record the failure
\* and sleep.  The attempt number is the one the sleep leads to.
RetryLater(r) ==
  /\ Answering(r)
  /\ calls[r].attempt < MaxRetries
  /\ breakers' = RecordedFailure(calls[r].provider)
  /\ calls' = [calls EXCEPT ![r].pc = "backoff", ![r].attempt = @ + 1]

\* The back-off ends.  check_call is not repeated before the next attempt.
WakeUp(r) ==
  /\ calls[r].pc = "backoff"
  /\ End(r, "calling")
  /\ UNCHANGED breakers

GiveUp(r, reason) ==
  LET c == calls[r] IN
  TryNext(r, [c EXCEPT !.exceptions[c.provider] = reason], c.provider,
          RecordedFailure(c.provider))

Exhaust(r) == Answering(r) /\ calls[r].attempt = MaxRetries /\ GiveUp(r, "retry")

FallBack(r) == Answering(r) /\ GiveUp(r, "fallback")

\* A FATAL error is raised at once; nothing is recorded, no fallback is tried.
Fatal(r) ==
  /\ Answering(r)
  /\ calls' = [calls EXCEPT ![r].pc = "failed", ![r].raised = "fatal"]
  /\ UNCHANGED breakers

\* total_timeout or the caller cancels the coroutine: CancelledError is not an
\* Exception, so no handler of the retry loop sees it.
Cancel(r) ==
  /\ Active(calls[r]) /\ ~calls[r].stream
  /\ End(r, "cancelled")
  /\ UNCHANGED breakers

-----------------------------------------------------------------------------
(* Streams *)

\* Mutant: a stream does not ask the breaker of the primary.
StartStream_Primary(r) ==
  /\ ~Active(calls[r])
  /\ calls' = [calls EXCEPT ![r] = [IdleCall EXCEPT !.pc = "calling", !.stream = TRUE,
                                                    !.provider = 1]]
  /\ UNCHANGED breakers

\* The first provider whose breaker admits the stream, without retry or
\* fallback afterwards.
StartStream(r) ==
  /\ ~Active(calls[r])
  /\ \/ \E q \in Providers :
          /\ NextAdmitting(0, q)
          /\ breakers' = [breakers EXCEPT ![q] = AfterCheck(@)]
          /\ calls' = [calls EXCEPT ![r] =
               [IdleCall EXCEPT !.pc = "calling", !.stream = TRUE, !.provider = q]]
     \/ /\ AllReject(0)
        /\ calls' = [calls EXCEPT ![r] =
             [IdleCall EXCEPT !.pc = "failed", !.stream = TRUE, !.raised = "open"]]
        /\ UNCHANGED breakers

Streaming(r) == calls[r].pc = "calling" /\ calls[r].stream

FinishStream(r) ==
  /\ Streaming(r)
  /\ breakers' = [breakers EXCEPT ![calls[r].provider] = AfterSuccess(@)]
  /\ End(r, "done")

\* The finally clause of _stream_core records a failure whatever ended the
\* stream: an error of the provider or of a chunk middleware ...
BreakStream(r, why) ==
  /\ Streaming(r)
  /\ breakers' = RecordedFailure(calls[r].provider)
  /\ calls' = [calls EXCEPT ![r].pc = "failed", ![r].raised = why]

\* ... or the consumer, who stopped reading or was cancelled.
CloseStream(r) ==
  /\ Streaming(r)
  /\ breakers' = RecordedFailure(calls[r].provider)
  /\ End(r, "cancelled")

-----------------------------------------------------------------------------
Tick == /\ breakers' = [p \in Providers |-> AfterTick(breakers[p])]
        /\ UNCHANGED calls

\* What ends the wait for a provider's answer.
Answer(r) == \/ Succeed(r) \/ RetryLater(r) \/ Exhaust(r) \/ FallBack(r) \/ Fatal(r)
             \/ FinishStream(r)
             \/ \E why \in {"retry", "fallback", "fatal"} : BreakStream(r, why)

Next == \/ \E r \in Requests : \/ Start(r) \/ StartStream(r) \/ Answer(r) \/ WakeUp(r)
                               \/ Cancel(r) \/ CloseStream(r)
        \/ Tick

Spec == Init /\ [][Next]_vars

\* Every call is answered (a provider that hangs is cut off by
\* provider_timeout, whose TimeoutError is a RETRY error, or ends by its
\* stream deadline) and every back-off sleep ends.
AnswerFairness == \A r \in Requests : WF_vars(Answer(r)) /\ WF_vars(WakeUp(r))

\* Besides, time passes and the application keeps sending requests.
Arrivals == WF_vars(Tick) /\ \A r \in Requests : WF_vars(Start(r))

FairSpec == Spec /\ AnswerFairness
BusySpec == FairSpec /\ Arrivals

-----------------------------------------------------------------------------
(* Properties *)

\* The breakers and the coroutines' variables have the types of the code.
TypeOK == /\ breakers \in [Providers -> Breaker]
          /\ calls \in [Requests -> Call]

\* Counters and the time of the last failure agree with the state of every
\* breaker, whatever the interleaving of the requests that report to it; in
\* particular no breaker is open for ever (see BreakerOK).
BreakersOK == \A p \in Providers : BreakerOK(breakers[p])

\* _call_provider_with_retry moves from one provider to the next only with a
\* reason: the providers before the current one each left an exception, those
\* after it none, and a request that gives up without a FATAL error has one
\* from every provider -- so no fallback is skipped.
EveryProviderExplained ==
  \A r \in Requests :
    LET c == calls[r] IN
    /\ Active(c) /\ ~c.stream =>
         \A p \in Providers : (c.exceptions[p] # "none") <=> (p < c.provider)
    /\ c.pc = "failed" /\ ~c.stream /\ c.raised # "fatal" =>
         \A p \in Providers : c.exceptions[p] # "none"

\* The requests that hold provider p: waiting for its answer or to retry it.
Holding(p) == {r \in Requests : Active(calls[r]) /\ calls[r].provider = p}

\* While a breaker stays open no request newly turns to its provider: the ones
\* that use it were admitted before it opened and can only become fewer.
\* (They may still retry: check_call is not repeated, pipeline.py:589.)
OpenAdmitsNobody ==
  [][\A p \in Providers :
       breakers[p].state = "OPEN" /\ breakers'[p].state = "OPEN"
         => Holding(p)' \subseteq Holding(p)]_vars

\* Every request ends, whatever its providers answer: retries and fallbacks
\* run out.
RequestsEnd == \A r \in Requests : Active(calls[r]) ~> ~Active(calls[r])

\* An open breaker of the primary provider is probed again, although failures
\* of calls admitted earlier keep refreshing the time it counts from.
PrimaryProbed == breakers[1].state = "OPEN" ~> breakers[1].state = "HALF_OPEN"

\* The primary provider only ever answers with success from now on, and no
\* caller gives up.
PrimaryHealthy ==
  [][\A r \in Holding(1) : (calls[r] # calls'[r]) => Succeed(r) \/ FinishStream(r) \/ WakeUp(r)]_vars

\* Once the primary is healthy again its breaker closes, and stays closed.
PrimaryRecovers == <>PrimaryHealthy => <>[](breakers[1].state = "CLOSED")
=============================================================================
