------------------------- MODULE ProviderCalls_proofs -------------------------
(***************************************************************************)
(* Proofs about ProviderCalls, for any number of requests, providers and    *)
(* retries and any thresholds: its invariants, and that every breaker        *)
(* implements BreakerPromise.                                               *)
(***************************************************************************)
EXTENDS ProviderCallsHistory, TLAPS

-----------------------------------------------------------------------------
(* The methods of the breaker keep its type and its consistency *)

GoodBreaker(b) == b \in Breaker /\ BreakerOK(b)

\* A breaker starts consistent.
LEMMA NewBreakerGood == GoodBreaker(NewBreaker)
BY BreakerAssumption
   DEF GoodBreaker, Breaker, BreakerOK, NewBreaker, NoFailure, BreakerState

\* check_call that does not raise keeps a breaker consistent.
LEMMA AfterCheckGood ==
  ASSUME NEW b, GoodBreaker(b), ~Rejects(b)
  PROVE  GoodBreaker(AfterCheck(b))
BY BreakerAssumption
   DEF GoodBreaker, Breaker, BreakerOK, AfterCheck, Is, Rejects, RecoveryDue, NoFailure, BreakerState

\* record_success keeps a breaker consistent.
LEMMA AfterSuccessGood ==
  ASSUME NEW b, GoodBreaker(b)
  PROVE  GoodBreaker(AfterSuccess(b))
BY BreakerAssumption, NewBreakerGood
   DEF GoodBreaker, Breaker, BreakerOK, AfterSuccess, BreakerState

\* record_failure keeps a breaker consistent.
LEMMA AfterFailureGood ==
  ASSUME NEW b, GoodBreaker(b)
  PROVE  GoodBreaker(AfterFailure(b))
BY BreakerAssumption
   DEF GoodBreaker, Breaker, BreakerOK, AfterFailure, Is, BreakerState, NoFailure

\* The passing of time keeps a breaker consistent.
LEMMA AfterTickGood ==
  ASSUME NEW b, GoodBreaker(b)
  PROVE  GoodBreaker(AfterTick(b))
BY BreakerAssumption
   DEF GoodBreaker, Breaker, BreakerOK, AfterTick, NoFailure, BreakerState

-----------------------------------------------------------------------------
(* The inductive invariant *)

\* What EveryProviderExplained says of one request, with the fact it needs to
\* be inductive: a request that waits for a provider names one.
Explained(c) ==
  /\ Active(c) => c.provider \in Providers
  /\ Active(c) /\ ~c.stream =>
       \A p \in Providers : (c.exceptions[p] # "none") <=> (p < c.provider)
  /\ c.pc = "failed" /\ ~c.stream /\ c.raised # "fatal" =>
       \A p \in Providers : c.exceptions[p] # "none"

GoodCall(c) == c \in Call /\ Explained(c)

IInv == /\ breakers \in [Providers -> Breaker]
        /\ \A p \in Providers : GoodBreaker(breakers[p])
        /\ calls \in [Requests -> Call]
        /\ \A r \in Requests : GoodCall(calls[r])

\* The invariant gives the properties of the specification.
LEMMA IInvImplies == IInv => TypeOK /\ BreakersOK /\ EveryProviderExplained
BY DEF IInv, TypeOK, BreakersOK, EveryProviderExplained, GoodBreaker, GoodCall, Explained

\* An idle request slot is a good call.
LEMMA IdleCallGood == GoodCall(IdleCall)
BY CallsAssumption
   DEF GoodCall, Explained, Active, IdleCall, NoExceptions, Call, Progress, Position, Attempt,
       Exceptions, Raised

\* Every run starts in the invariant.
LEMMA InitIInv == Init => IInv
BY NewBreakerGood, IdleCallGood DEF Init, IInv, GoodBreaker, GoodCall

\* A step that replaces one request's variables and some breakers by good
\* ones keeps the invariant.
LEMMA UpdateGood ==
  ASSUME IInv, NEW r \in Requests, NEW c, GoodCall(c),
         breakers' \in [Providers -> Breaker],
         \A p \in Providers : GoodBreaker(breakers'[p]),
         calls' = [calls EXCEPT ![r] = c]
  PROVE  IInv'
BY DEF IInv, GoodCall, GoodBreaker

\* The breakers after one of them is replaced by a good one.
LEMMA ReplaceBreaker ==
  ASSUME NEW brk \in [Providers -> Breaker], \A p \in Providers : GoodBreaker(brk[p]),
         NEW q \in Providers, NEW b, GoodBreaker(b)
  PROVE  /\ [brk EXCEPT ![q] = b] \in [Providers -> Breaker]
         /\ \A p \in Providers : GoodBreaker([brk EXCEPT ![q] = b][p])
BY DEF GoodBreaker

-----------------------------------------------------------------------------
(* The loop over the providers *)

\* The record of a request that moves on to provider q after p.
LEMMA CallingGood ==
  ASSUME NEW c \in Call, ~c.stream, NEW p \in 0..NumProviders,
         \A k \in Providers : (c.exceptions[k] # "none") <=> (k <= p),
         NEW q \in Providers, p < q
  PROVE  GoodCall([c EXCEPT !.pc = "calling", !.provider = q, !.attempt = 0,
                            !.exceptions = Skipping(c.exceptions, p, q)])
<1> DEFINE ex == Skipping(c.exceptions, p, q)
           d  == [c EXCEPT !.pc = "calling", !.provider = q, !.attempt = 0,
                           !.exceptions = ex]
<1>1. ex \in [Providers -> Reason \cup {"none"}]
  BY DEF Skipping, Call, Exceptions, Reason
<1>2. \A k \in Providers : (ex[k] # "none") <=> (k < q)
  BY CallsAssumption DEF Skipping, Providers
<1>3. d \in Call
  <2>1. "calling" \in Progress /\ q \in Position /\ 0 \in Attempt /\ ex \in Exceptions
    BY <1>1, CallsAssumption DEF Progress, Position, Attempt, Exceptions, Providers
  <2>2. QED
    BY <2>1 DEF Call
<1>4. d.pc = "calling" /\ d.provider = q /\ d.exceptions = ex
  BY DEF Call
<1>5. QED
  BY <1>2, <1>3, <1>4 DEF GoodCall, Explained, Active

\* The record of a request for which no provider is left.
LEMMA FailedGood ==
  ASSUME NEW c \in Call, ~c.stream, NEW p \in 0..NumProviders,
         \A k \in Providers : (c.exceptions[k] # "none") <=> (k <= p)
  PROVE  LET seen == Skipping(c.exceptions, p, NumProviders + 1) IN
         GoodCall([c EXCEPT !.pc = "failed", !.provider = NumProviders,
                            !.exceptions = seen, !.raised = seen[NumProviders]])
<1> DEFINE ex == Skipping(c.exceptions, p, NumProviders + 1)
           d  == [c EXCEPT !.pc = "failed", !.provider = NumProviders,
                           !.exceptions = ex, !.raised = ex[NumProviders]]
<1>1. ex \in [Providers -> Reason \cup {"none"}]
  BY DEF Skipping, Call, Exceptions, Reason
<1>2. \A k \in Providers : ex[k] # "none"
  BY CallsAssumption DEF Skipping, Providers
<1>3. NumProviders \in Providers
  BY CallsAssumption DEF Providers
<1>4. d \in Call
  <2>1. /\ "failed" \in Progress /\ NumProviders \in Position
        /\ ex \in Exceptions /\ ex[NumProviders] \in Raised
    BY <1>1, <1>3, CallsAssumption DEF Progress, Position, Exceptions, Raised, Providers
  <2>2. QED
    BY <2>1 DEF Call
<1>5. d.pc = "failed" /\ d.exceptions = ex
  BY DEF Call
<1>6. QED
  BY <1>2, <1>4, <1>5 DEF GoodCall, Explained, Active

\* Moving on from provider p, whose answer is recorded in brk, keeps the
\* invariant.
LEMMA TryNextGood ==
  ASSUME IInv, NEW r \in Requests,
         NEW c \in Call, ~c.stream, NEW p \in 0..NumProviders,
         \A k \in Providers : (c.exceptions[k] # "none") <=> (k <= p),
         NEW brk \in [Providers -> Breaker], \A k \in Providers : GoodBreaker(brk[k]),
         \A k \in Providers : p < k => brk[k] = breakers[k],
         TryNext(r, c, p, brk)
  PROVE  IInv'
<1>1. CASE \E q \in Providers :
             /\ NextAdmitting(p, q)
             /\ breakers' = [brk EXCEPT ![q] = AfterCheck(@)]
             /\ calls' = [calls EXCEPT ![r] =
                  [c EXCEPT !.pc = "calling", !.provider = q, !.attempt = 0,
                            !.exceptions = Skipping(c.exceptions, p, q)]]
  <2>1. PICK q \in Providers :
             /\ NextAdmitting(p, q)
             /\ breakers' = [brk EXCEPT ![q] = AfterCheck(brk[q])]
             /\ calls' = [calls EXCEPT ![r] =
                  [c EXCEPT !.pc = "calling", !.provider = q, !.attempt = 0,
                            !.exceptions = Skipping(c.exceptions, p, q)]]
    BY <1>1
  <2>2. p < q /\ ~Rejects(brk[q])
    BY <2>1, CallsAssumption DEF NextAdmitting, Providers
  <2>3. GoodBreaker(AfterCheck(brk[q]))
    BY <2>2, AfterCheckGood
  <2>4. /\ breakers' \in [Providers -> Breaker]
        /\ \A k \in Providers : GoodBreaker(breakers'[k])
    BY <2>1, <2>3, ReplaceBreaker
  <2>5. GoodCall([c EXCEPT !.pc = "calling", !.provider = q, !.attempt = 0,
                           !.exceptions = Skipping(c.exceptions, p, q)])
    BY <2>2, CallingGood
  <2>6. QED
    BY <2>1, <2>4, <2>5, UpdateGood
<1>2. CASE /\ breakers' = brk
           /\ LET seen == Skipping(c.exceptions, p, NumProviders + 1) IN
              calls' = [calls EXCEPT ![r] =
                [c EXCEPT !.pc = "failed", !.provider = NumProviders,
                          !.exceptions = seen, !.raised = seen[NumProviders]]]
  BY <1>2, FailedGood, UpdateGood
<1>3. QED
  BY <1>1, <1>2 DEF TryNext

-----------------------------------------------------------------------------
(* Steps *)

\* What the invariant says of a request waiting for an answer of complete().
LEMMA AnsweringFacts ==
  ASSUME IInv, NEW r \in Requests, Answering(r)
  PROVE  /\ calls[r] \in Call /\ ~calls[r].stream /\ calls[r].pc = "calling"
         /\ calls[r].provider \in Providers
         /\ \A k \in Providers : (calls[r].exceptions[k] # "none") <=> (k < calls[r].provider)
BY DEF IInv, Answering, GoodCall, Explained, Active

\* Recording a failure of a provider keeps the breakers good and touches no
\* other breaker.
LEMMA RecordedFailureGood ==
  ASSUME IInv, NEW p \in Providers
  PROVE  /\ RecordedFailure(p) \in [Providers -> Breaker]
         /\ \A k \in Providers : GoodBreaker(RecordedFailure(p)[k])
         /\ \A k \in Providers : k # p => RecordedFailure(p)[k] = breakers[k]
<1>1. GoodBreaker(AfterFailure(breakers[p]))
  BY AfterFailureGood DEF IInv
<1>2. QED
  BY <1>1, ReplaceBreaker DEF RecordedFailure, IInv

\* A request that gives up its provider leaves one exception for it.
LEMMA GiveUpGood ==
  ASSUME IInv, NEW r \in Requests, Answering(r), NEW reason \in Reason,
         GiveUp(r, reason)
  PROVE  IInv'
<1> DEFINE c == calls[r]
           p == c.provider
           d == [c EXCEPT !.exceptions[p] = reason]
<1>1. /\ c \in Call /\ ~c.stream /\ p \in Providers
      /\ \A k \in Providers : (c.exceptions[k] # "none") <=> (k < p)
  BY AnsweringFacts
<1>2. [c.exceptions EXCEPT ![p] = reason] \in Exceptions
  BY <1>1 DEF Call, Exceptions
<1>3. d \in Call /\ ~d.stream /\ d.exceptions = [c.exceptions EXCEPT ![p] = reason]
  BY <1>1, <1>2 DEF Call
<1>4. \A k \in Providers : (d.exceptions[k] # "none") <=> (k <= p)
  <2>1. c.exceptions \in [Providers -> Reason \cup {"none"}]
    BY <1>1 DEF Call, Exceptions
  <2>2. QED
    BY <1>1, <1>3, <2>1, CallsAssumption DEF Providers, Reason
<1>5. /\ RecordedFailure(p) \in [Providers -> Breaker]
      /\ \A k \in Providers : GoodBreaker(RecordedFailure(p)[k])
      /\ \A k \in Providers : p < k => RecordedFailure(p)[k] = breakers[k]
  BY <1>1, RecordedFailureGood, CallsAssumption DEF Providers
<1>6. TryNext(r, d, p, RecordedFailure(p))
  BY DEF GiveUp
<1>7. p \in 0..NumProviders
  BY <1>1, CallsAssumption DEF Providers
<1> HIDE DEF d, p, c
<1>8. QED
  BY <1>3, <1>4, <1>5, <1>6, <1>7, TryNextGood

\* A request that ends, successfully or not, without having to explain itself.
LEMMA EndGood ==
  ASSUME NEW c, GoodCall(c), NEW pc \in {"done", "cancelled"}
  PROVE  GoodCall([c EXCEPT !.pc = pc])
<1>1. [c EXCEPT !.pc = pc] \in Call
  BY DEF GoodCall, Call, Progress
<1>2. [c EXCEPT !.pc = pc].pc = pc
  BY DEF GoodCall, Call
<1>3. QED
  BY <1>1, <1>2 DEF GoodCall, Explained, Active

\* A request that fails with a FATAL error, and any stream that fails.
LEMMA FailGood ==
  ASSUME NEW c, GoodCall(c), NEW why \in {"retry", "fallback", "fatal"},
         why = "fatal" \/ c.stream
  PROVE  GoodCall([c EXCEPT !.pc = "failed", !.raised = why])
<1> DEFINE d == [c EXCEPT !.pc = "failed", !.raised = why]
<1>1. "failed" \in Progress /\ why \in Raised
  BY DEF Progress, Raised, Reason
<1>2. d \in Call
  BY <1>1 DEF GoodCall, Call
<1>3. d.pc = "failed" /\ d.raised = why /\ d.stream = c.stream
  BY DEF GoodCall, Call
<1>4. QED
  BY <1>2, <1>3 DEF GoodCall, Explained, Active

\* A step of one request that ends it with its breaker's answer recorded.
LEMMA StepEnd ==
  ASSUME IInv, NEW r \in Requests, NEW pc \in {"done", "cancelled"}, End(r, pc),
         breakers' \in [Providers -> Breaker],
         \A p \in Providers : GoodBreaker(breakers'[p])
  PROVE  IInv'
<1>1. calls' = [calls EXCEPT ![r] = [calls[r] EXCEPT !.pc = pc]]
  BY DEF End
<1>2. GoodCall([calls[r] EXCEPT !.pc = pc])
  BY EndGood DEF IInv
<1>3. QED
  BY <1>1, <1>2, UpdateGood

\* A success, of a call or of a stream.
LEMMA StepSuccess ==
  ASSUME IInv, NEW r \in Requests, calls[r].pc = "calling",
         breakers' = [breakers EXCEPT ![calls[r].provider] = AfterSuccess(@)],
         End(r, "done")
  PROVE  IInv'
<1>1. calls[r].provider \in Providers
  BY DEF IInv, GoodCall, Explained, Active
<1>2. GoodBreaker(AfterSuccess(breakers[calls[r].provider]))
  BY <1>1, AfterSuccessGood DEF IInv
<1>3. /\ breakers' \in [Providers -> Breaker]
      /\ \A p \in Providers : GoodBreaker(breakers'[p])
  BY <1>1, <1>2, ReplaceBreaker DEF IInv
<1>4. QED
  BY <1>3, StepEnd

\* A request that starts.
LEMMA StepStart ==
  ASSUME IInv, NEW r \in Requests, Start(r)
  PROVE  IInv'
<1>1. IdleCall \in Call /\ ~IdleCall.stream
  BY IdleCallGood DEF GoodCall, IdleCall
<1>2. \A k \in Providers : (IdleCall.exceptions[k] # "none") <=> (k <= 0)
  BY CallsAssumption DEF IdleCall, NoExceptions, Providers
<1>3. 0 \in 0..NumProviders
  BY CallsAssumption
<1>4. TryNext(r, IdleCall, 0, breakers)
  BY DEF Start
<1>5. /\ breakers \in [Providers -> Breaker]
      /\ \A k \in Providers : GoodBreaker(breakers[k])
  BY DEF IInv
<1>6. QED
  BY <1>1, <1>2, <1>3, <1>4, <1>5, TryNextGood

\* A stream that starts, or finds every breaker open.
LEMMA StepStartStream ==
  ASSUME IInv, NEW r \in Requests, StartStream(r)
  PROVE  IInv'
<1>1. /\ "calling" \in Progress /\ "failed" \in Progress /\ 0 \in Attempt /\ 0 \in Position
      /\ NoExceptions \in Exceptions /\ "none" \in Raised /\ "open" \in Raised
      /\ \A q \in Providers : q \in Position
  BY CallsAssumption
     DEF Progress, Attempt, Position, NoExceptions, Exceptions, Raised, Reason, Providers
<1>2. CASE \E q \in Providers :
             /\ NextAdmitting(0, q)
             /\ breakers' = [breakers EXCEPT ![q] = AfterCheck(@)]
             /\ calls' = [calls EXCEPT ![r] =
                  [IdleCall EXCEPT !.pc = "calling", !.stream = TRUE, !.provider = q]]
  <2>1. PICK q \in Providers :
             /\ NextAdmitting(0, q)
             /\ breakers' = [breakers EXCEPT ![q] = AfterCheck(breakers[q])]
             /\ calls' = [calls EXCEPT ![r] =
                  [IdleCall EXCEPT !.pc = "calling", !.stream = TRUE, !.provider = q]]
    BY <1>2
  <2>2. GoodBreaker(AfterCheck(breakers[q]))
    BY <2>1, AfterCheckGood DEF NextAdmitting, IInv
  <2>3. /\ breakers' \in [Providers -> Breaker]
        /\ \A p \in Providers : GoodBreaker(breakers'[p])
    BY <2>1, <2>2, ReplaceBreaker DEF IInv
  <2>4. GoodCall([IdleCall EXCEPT !.pc = "calling", !.stream = TRUE, !.provider = q])
    BY <1>1 DEF GoodCall, Explained, Active, IdleCall, Call
  <2>5. QED
    BY <2>1, <2>3, <2>4, UpdateGood
<1>3. CASE /\ calls' = [calls EXCEPT ![r] =
                [IdleCall EXCEPT !.pc = "failed", !.stream = TRUE, !.raised = "open"]]
           /\ UNCHANGED breakers
  <2>1. GoodCall([IdleCall EXCEPT !.pc = "failed", !.stream = TRUE, !.raised = "open"])
    BY <1>1 DEF GoodCall, Explained, Active, IdleCall, Call
  <2>2. QED
    BY <1>3, <2>1, UpdateGood DEF IInv
<1>4. QED
  BY <1>2, <1>3 DEF StartStream

\* A failed attempt that will be repeated, and the end of its back-off.
LEMMA StepRetry ==
  ASSUME IInv, NEW r \in Requests, RetryLater(r) \/ WakeUp(r)
  PROVE  IInv'
<1>1. calls[r] \in Call /\ Active(calls[r]) /\ Explained(calls[r])
  BY DEF IInv, GoodCall, RetryLater, WakeUp, Answering, Active
<1>2. CASE RetryLater(r)
  <2> DEFINE d == [calls[r] EXCEPT !.pc = "backoff", !.attempt = @ + 1]
  <2>1. calls' = [calls EXCEPT ![r] = d]
    BY <1>2 DEF RetryLater, IInv
  <2>2. "backoff" \in Progress /\ calls[r].attempt + 1 \in Attempt
    BY <1>1, <1>2, CallsAssumption DEF RetryLater, Progress, Attempt, Call
  <2>3. /\ d \in Call /\ d.pc = "backoff" /\ d.stream = calls[r].stream
        /\ d.provider = calls[r].provider /\ d.exceptions = calls[r].exceptions
    BY <1>1, <2>2 DEF Call
  <2>4. GoodCall(d)
    BY <1>1, <2>3 DEF GoodCall, Explained, Active
  <2>5. breakers' = RecordedFailure(calls[r].provider) /\ calls[r].provider \in Providers
    BY <1>1, <1>2 DEF RetryLater, Explained
  <2> HIDE DEF d
  <2>6. QED
    BY <2>1, <2>4, <2>5, RecordedFailureGood, UpdateGood
<1>3. CASE WakeUp(r)
  <2> DEFINE d == [calls[r] EXCEPT !.pc = "calling"]
  <2>1. calls' = [calls EXCEPT ![r] = d]
    BY <1>3 DEF WakeUp, End
  <2>2. /\ d \in Call /\ d.pc = "calling" /\ d.stream = calls[r].stream
        /\ d.provider = calls[r].provider /\ d.exceptions = calls[r].exceptions
    BY <1>1 DEF Call, Progress
  <2>3. GoodCall(d)
    BY <1>1, <2>2 DEF GoodCall, Explained, Active
  <2> HIDE DEF d
  <2>4. QED
    BY <1>3, <2>1, <2>3, UpdateGood DEF WakeUp, IInv
<1>4. QED
  BY <1>2, <1>3

\* A FATAL error of complete().
LEMMA StepFatal ==
  ASSUME IInv, NEW r \in Requests, Fatal(r)
  PROVE  IInv'
<1>1. calls' = [calls EXCEPT ![r] = [calls[r] EXCEPT !.pc = "failed", !.raised = "fatal"]]
  BY DEF Fatal, IInv
<1>2. GoodCall([calls[r] EXCEPT !.pc = "failed", !.raised = "fatal"])
  BY FailGood DEF IInv
<1>3. QED
  BY <1>1, <1>2, UpdateGood DEF Fatal, IInv

\* A stream that is broken by an error.
LEMMA StepBreakStream ==
  ASSUME IInv, NEW r \in Requests, NEW why \in {"retry", "fallback", "fatal"},
         BreakStream(r, why)
  PROVE  IInv'
<1>1. calls' = [calls EXCEPT ![r] = [calls[r] EXCEPT !.pc = "failed", !.raised = why]]
  BY DEF BreakStream, IInv
<1>2. GoodCall([calls[r] EXCEPT !.pc = "failed", !.raised = why])
  BY FailGood DEF IInv, BreakStream, Streaming
<1>3. calls[r].provider \in Providers
  BY DEF BreakStream, Streaming, IInv, GoodCall, Explained, Active
<1>4. QED
  BY <1>1, <1>2, <1>3, RecordedFailureGood, UpdateGood DEF BreakStream

\* A stream closed by its consumer.
LEMMA StepCloseStream ==
  ASSUME IInv, NEW r \in Requests, CloseStream(r)
  PROVE  IInv'
<1>1. calls[r].provider \in Providers
  BY DEF CloseStream, Streaming, IInv, GoodCall, Explained, Active
<1>2. QED
  BY <1>1, RecordedFailureGood, StepEnd DEF CloseStream

\* Time passes.
LEMMA StepTick ==
  ASSUME IInv, Tick
  PROVE  IInv'
<1>1. \A p \in Providers : GoodBreaker(AfterTick(breakers[p]))
  BY AfterTickGood DEF IInv
<1>2. /\ breakers' \in [Providers -> Breaker]
      /\ \A p \in Providers : GoodBreaker(breakers'[p])
  BY <1>1 DEF Tick, GoodBreaker
<1>3. QED
  BY <1>2 DEF Tick, IInv

\* Every step keeps the invariant.
LEMMA NextIInv == IInv /\ [Next]_vars => IInv'
<1> SUFFICES ASSUME IInv, [Next]_vars PROVE IInv'
  OBVIOUS
<1>1. CASE UNCHANGED vars
  BY <1>1 DEF vars, IInv
<1>2. CASE Tick
  BY <1>2, StepTick
<1>3. ASSUME NEW r \in Requests,
             \/ Start(r) \/ StartStream(r) \/ Answer(r) \/ WakeUp(r)
             \/ Cancel(r) \/ CloseStream(r)
      PROVE  IInv'
  <2>1. CASE Start(r) \/ StartStream(r)
    BY <2>1, StepStart, StepStartStream
  <2>2. CASE Succeed(r) \/ FinishStream(r)
    BY <2>2, StepSuccess DEF Succeed, FinishStream, Answering, Streaming
  <2>3. CASE RetryLater(r) \/ WakeUp(r)
    BY <2>3, StepRetry
  <2>4. CASE Exhaust(r) \/ FallBack(r)
    BY <2>4, GiveUpGood DEF Exhaust, FallBack, Reason
  <2>5. CASE Fatal(r)
    BY <2>5, StepFatal
  <2>6. CASE Cancel(r)
    BY <2>6, StepEnd DEF Cancel, IInv
  <2>7. CASE CloseStream(r)
    BY <2>7, StepCloseStream
  <2>8. CASE \E why \in {"retry", "fallback", "fatal"} : BreakStream(r, why)
    BY <2>8, StepBreakStream
  <2>9. QED
    BY <1>3, <2>1, <2>2, <2>3, <2>4, <2>5, <2>6, <2>7, <2>8 DEF Answer
<1>4. QED
  BY <1>1, <1>2, <1>3 DEF Next

\* The invariant holds in every behaviour.
LEMMA InvariantHolds == Spec => []IInv
BY InitIInv, NextIInv, PTL DEF Spec

-----------------------------------------------------------------------------
(* Who may hold an open provider *)

\* After check_call admits it, a breaker is not open.
LEMMA AdmittedNotOpen == ASSUME NEW b \in Breaker PROVE AfterCheck(b).state # "OPEN"
BY DEF AfterCheck, Is, Breaker, BreakerState

\* A request that moves on holds no provider whose breaker is then open.
LEMMA TryNextHoldsNoOpen ==
  ASSUME IInv, NEW r \in Requests, NEW c \in Call, NEW p,
         NEW brk \in [Providers -> Breaker], TryNext(r, c, p, brk),
         Active(calls'[r])
  PROVE  breakers'[calls'[r].provider].state # "OPEN"
<1>1. CASE \E q \in Providers :
             /\ NextAdmitting(p, q)
             /\ breakers' = [brk EXCEPT ![q] = AfterCheck(@)]
             /\ calls' = [calls EXCEPT ![r] =
                  [c EXCEPT !.pc = "calling", !.provider = q, !.attempt = 0,
                            !.exceptions = Skipping(c.exceptions, p, q)]]
  <2>1. PICK q \in Providers :
             /\ breakers' = [brk EXCEPT ![q] = AfterCheck(brk[q])]
             /\ calls' = [calls EXCEPT ![r] =
                  [c EXCEPT !.pc = "calling", !.provider = q, !.attempt = 0,
                            !.exceptions = Skipping(c.exceptions, p, q)]]
    BY <1>1
  <2>2. breakers'[q] = AfterCheck(brk[q])
    BY <2>1
  <2>3. calls'[r].provider = q
    BY <2>1 DEF IInv, Call
  <2>4. QED
    BY <2>2, <2>3, AdmittedNotOpen
<1>2. CASE LET seen == Skipping(c.exceptions, p, NumProviders + 1) IN
           calls' = [calls EXCEPT ![r] =
             [c EXCEPT !.pc = "failed", !.provider = NumProviders,
                       !.exceptions = seen, !.raised = seen[NumProviders]]]
  <2>1. calls'[r].pc = "failed"
    BY <1>2 DEF IInv, Call
  <2>2. QED
    BY <2>1 DEF Active
<1>3. QED
  BY <1>1, <1>2 DEF TryNext

\* A step of request r leaves r on a provider only if it held it before or the
\* provider's breaker is not open.
LEMMA StepHolds ==
  ASSUME IInv, NEW r \in Requests,
         \/ Start(r) \/ StartStream(r) \/ Answer(r) \/ WakeUp(r)
         \/ Cancel(r) \/ CloseStream(r),
         Active(calls'[r]), breakers'[calls'[r].provider].state = "OPEN"
  PROVE  Active(calls[r]) /\ calls[r].provider = calls'[r].provider
<1>1. calls[r] \in Call /\ breakers \in [Providers -> Breaker]
  BY DEF IInv
<1>2. CASE Start(r)
  <2>1. IdleCall \in Call /\ TryNext(r, IdleCall, 0, breakers)
    BY <1>2, IdleCallGood DEF Start, GoodCall
  <2>2. QED
    BY <1>1, <2>1, TryNextHoldsNoOpen
<1>3. CASE StartStream(r)
  <2>1. CASE \E q \in Providers :
               /\ NextAdmitting(0, q)
               /\ breakers' = [breakers EXCEPT ![q] = AfterCheck(@)]
               /\ calls' = [calls EXCEPT ![r] =
                    [IdleCall EXCEPT !.pc = "calling", !.stream = TRUE, !.provider = q]]
    <3>1. PICK q \in Providers :
               /\ breakers' = [breakers EXCEPT ![q] = AfterCheck(breakers[q])]
               /\ calls' = [calls EXCEPT ![r] =
                    [IdleCall EXCEPT !.pc = "calling", !.stream = TRUE, !.provider = q]]
      BY <2>1
    <3>2. breakers'[q] = AfterCheck(breakers[q]) /\ calls'[r].provider = q
      BY <1>1, <3>1 DEF IInv, IdleCall
    <3>3. QED
      BY <1>1, <3>2, AdmittedNotOpen
  <2>2. CASE calls' = [calls EXCEPT ![r] =
               [IdleCall EXCEPT !.pc = "failed", !.stream = TRUE, !.raised = "open"]]
    BY <2>2 DEF IInv, IdleCall, Active
  <2>3. QED
    BY <1>3, <2>1, <2>2 DEF StartStream
<1>4. CASE Exhaust(r) \/ FallBack(r)
  <2>1. PICK reason \in Reason : Answering(r) /\ GiveUp(r, reason)
    BY <1>4 DEF Exhaust, FallBack, Reason
  <2> DEFINE d == [calls[r] EXCEPT !.exceptions[calls[r].provider] = reason]
  <2>2. calls[r].provider \in Providers
    BY <2>1, AnsweringFacts
  <2>3. [calls[r].exceptions EXCEPT ![calls[r].provider] = reason] \in Exceptions
    BY <1>1, <2>2 DEF Call, Exceptions
  <2>4. d \in Call
    BY <1>1, <2>3 DEF Call
  <2>5. RecordedFailure(calls[r].provider) \in [Providers -> Breaker]
    BY <2>2, RecordedFailureGood
  <2>6. TryNext(r, d, calls[r].provider, RecordedFailure(calls[r].provider))
    BY <2>1 DEF GiveUp
  <2> HIDE DEF d
  <2>7. QED
    BY <2>4, <2>5, <2>6, TryNextHoldsNoOpen
<1>5. CASE RetryLater(r) \/ WakeUp(r)
  BY <1>1, <1>5 DEF RetryLater, WakeUp, End, Answering, Active, Call, IInv
<1>6. CASE \/ Succeed(r) \/ FinishStream(r) \/ Cancel(r) \/ CloseStream(r) \/ Fatal(r)
           \/ \E why \in {"retry", "fallback", "fatal"} : BreakStream(r, why)
  BY <1>1, <1>6
     DEF Succeed, FinishStream, Cancel, CloseStream, Fatal, BreakStream, End, Active, Call, IInv
<1>7. QED
  BY <1>2, <1>3, <1>4, <1>5, <1>6 DEF Answer

\* While a breaker stays open, the requests that hold its provider only become
\* fewer.
LEMMA HoldersShrink ==
  ASSUME IInv, [Next]_vars, NEW p \in Providers,
         breakers[p].state = "OPEN", breakers'[p].state = "OPEN"
  PROVE  Holding(p)' \subseteq Holding(p)
<1>1. CASE UNCHANGED calls
  BY <1>1 DEF Holding
<1>2. ASSUME NEW r \in Requests,
             \/ Start(r) \/ StartStream(r) \/ Answer(r) \/ WakeUp(r)
             \/ Cancel(r) \/ CloseStream(r)
      PROVE  Holding(p)' \subseteq Holding(p)
  <2>1. \A s \in Requests : s # r => calls'[s] = calls[s]
    BY <1>2
       DEF Start, StartStream, Answer, WakeUp, Cancel, CloseStream, Succeed, RetryLater,
           Exhaust, FallBack, Fatal, FinishStream, BreakStream, GiveUp, TryNext, End, IInv
  <2>2. Active(calls'[r]) /\ calls'[r].provider = p
          => Active(calls[r]) /\ calls[r].provider = p
    BY <1>2, StepHolds
  <2>3. QED
    BY <2>1, <2>2 DEF Holding
<1>3. QED
  BY <1>1, <1>2 DEF Next, Tick, vars

-----------------------------------------------------------------------------
(* Theorems *)

\* The breakers and the requests keep their types in every behaviour.
THEOREM TypeCorrect == Spec => []TypeOK
BY InvariantHolds, IInvImplies, PTL

\* Every breaker is consistent in every behaviour: it counts below its
\* thresholds, and an open one can recover.
THEOREM BreakersConsistent == Spec => []BreakersOK
BY InvariantHolds, IInvImplies, PTL

\* No request moves past a provider, or gives up, without an exception from
\* each provider it leaves behind.
THEOREM NoProviderSkipped == Spec => []EveryProviderExplained
BY InvariantHolds, IInvImplies, PTL

\* While a breaker is open, no request newly turns to its provider.
THEOREM OpenAdmitsNobodyHolds == Spec => OpenAdmitsNobody
<1>1. IInv /\ [Next]_vars =>
        [\A p \in Providers :
           breakers[p].state = "OPEN" /\ breakers'[p].state = "OPEN"
             => Holding(p)' \subseteq Holding(p)]_vars
  BY HoldersShrink
<1>2. QED
  BY <1>1, InvariantHolds, PTL DEF Spec, OpenAdmitsNobody

-----------------------------------------------------------------------------
(* The refinement of BreakerPromise *)

\* What the observer's counts can be.
Heard == [fails : 0..FailureThreshold, good : 0..SuccessThreshold, quiet : 0..RecoveryTimeout]

\* The counters of a breaker are those of the observer where they matter.
Agree(b, h) ==
  /\ b.state = "CLOSED" => b.failures = h.fails
  /\ b.state = "HALF_OPEN" => b.successes = h.good
  /\ b.age # NoFailure => b.age = h.quiet

HInv == /\ IInv
        /\ heard \in [Providers -> Heard]
        /\ \A p \in Providers : Agree(breakers[p], heard[p])

-----------------------------------------------------------------------------
(* What a step reports to one breaker *)

Reported(b, h, c, g) ==
  \/ c = AfterFailure(b) /\ g = HearFailure(h)
  \/ c = AfterSuccess(b) /\ g = HearSuccess(h)
  \/ ~Rejects(b) /\ c = AfterCheck(b) /\ g = (IF b.state = "OPEN" THEN [h EXCEPT !.good = 0] ELSE h)
  \/ c = AfterTick(b) /\ g = HearTick(h)
  \/ c = b /\ g = h

\* The promise, of a breaker b and the observer's counts h.
FailureStep(b, h, c, g) ==
  /\ g.fails = Upto(FailureThreshold, h.fails + 1) /\ g.good = 0 /\ g.quiet = 0
  /\ \/ b.state = "CLOSED" /\ g.fails < FailureThreshold /\ c.state = "CLOSED"
     \/ b.state = "CLOSED" /\ g.fails = FailureThreshold /\ c.state = "OPEN"
     \/ b.state # "CLOSED" /\ c.state = "OPEN"

SuccessStep(b, h, c, g) ==
  /\ g.fails = 0 /\ g.good = Upto(SuccessThreshold, h.good + 1)
  /\ \/ b.state = "HALF_OPEN" /\ g.good < SuccessThreshold /\ c.state = "HALF_OPEN"
     \/ b.state = "HALF_OPEN" /\ g.good = SuccessThreshold /\ c.state = "CLOSED"
     \/ b.state # "HALF_OPEN" /\ c.state = b.state
  /\ g.quiet = h.quiet

ProbeStep(b, h, c, g) ==
  /\ b.state = "OPEN" /\ h.quiet = RecoveryTimeout /\ c.state = "HALF_OPEN"
  /\ g.good = 0 /\ g.fails = h.fails /\ g.quiet = h.quiet

TickStep(b, h, c, g) ==
  /\ g.quiet = Upto(RecoveryTimeout, h.quiet + 1)
  /\ c.state = b.state /\ g.fails = h.fails /\ g.good = h.good

StillStep(b, h, c, g) == c.state = b.state /\ g = h

Promised(b, h, c, g) ==
  \/ FailureStep(b, h, c, g) \/ SuccessStep(b, h, c, g) \/ ProbeStep(b, h, c, g)
  \/ TickStep(b, h, c, g) \/ StillStep(b, h, c, g)

\* What is reported to a breaker is what the promise allows, and breaker and
\* observer agree afterwards.
LEMMA ReportedIsPromised ==
  ASSUME NEW b, GoodBreaker(b), NEW h \in Heard, Agree(b, h), NEW c, NEW g, Reported(b, h, c, g)
  PROVE  g \in Heard /\ Agree(c, g) /\ Promised(b, h, c, g)
<1> USE BreakerAssumption DEF Heard
<1>0. /\ b.state \in {"CLOSED", "OPEN", "HALF_OPEN"}
      /\ b.failures \in 0..FailureThreshold /\ b.successes \in 0..SuccessThreshold - 1
      /\ b.age \in -1..RecoveryTimeout
      /\ BreakerOK(b)
      /\ h.fails \in 0..FailureThreshold /\ h.good \in 0..SuccessThreshold
      /\ h.quiet \in 0..RecoveryTimeout
  BY DEF GoodBreaker, Breaker, BreakerState
<1>1. CASE c = AfterFailure(b) /\ g = HearFailure(h)
  <2>1. /\ g = [fails |-> Upto(FailureThreshold, h.fails + 1), good |-> 0, quiet |-> 0]
        /\ g.fails = Upto(FailureThreshold, h.fails + 1) /\ g.good = 0 /\ g.quiet = 0
    BY <1>1 DEF HearFailure
  <2>2. Upto(FailureThreshold, h.fails + 1) \in 0..FailureThreshold
    BY <1>0 DEF Upto
  <2>3. g \in Heard
    BY <2>1, <2>2
  <2>4. CASE b.state = "CLOSED"
    <3>1. /\ c.state = IF b.failures + 1 >= FailureThreshold THEN "OPEN" ELSE "CLOSED"
          /\ c.failures = b.failures + 1 /\ c.age = 0
      BY <1>1, <2>4 DEF AfterFailure, Is
    <3>2. b.failures = h.fails /\ b.failures < FailureThreshold
      BY <1>0, <2>4 DEF Agree, BreakerOK
    <3> QED BY <1>0, <2>1, <2>3, <2>4, <3>1, <3>2
            DEF Agree, Promised, FailureStep, Upto
  <2>5. CASE b.state # "CLOSED"
    <3>1. c.state = "OPEN" /\ c.age = 0
      BY <1>1, <2>5 DEF AfterFailure, Is
    <3> QED BY <2>1, <2>3, <2>5, <3>1 DEF Agree, Promised, FailureStep
  <2> QED BY <2>4, <2>5
<1>2. CASE c = AfterSuccess(b) /\ g = HearSuccess(h)
  <2>1. g = [h EXCEPT !.fails = 0, !.good = Upto(SuccessThreshold, h.good + 1)]
    BY <1>2 DEF HearSuccess
  <2>2. g \in Heard /\ g.fails = 0 /\ g.good = Upto(SuccessThreshold, h.good + 1) /\ g.quiet = h.quiet
    <3>1. Upto(SuccessThreshold, h.good + 1) \in 0..SuccessThreshold /\ 0 \in 0..FailureThreshold
      BY <1>0 DEF Upto
    <3> QED BY <2>1, <3>1
  <2>3. CASE b.state = "HALF_OPEN"
    <3>1. b.successes = h.good
      BY <2>3 DEF Agree
    <3>2. CASE b.successes + 1 >= SuccessThreshold
      <4>1. c.state = "CLOSED" /\ c.failures = 0 /\ c.age = NoFailure
        BY <1>2, <2>3, <3>2 DEF AfterSuccess, NewBreaker
      <4> QED BY <1>0, <2>2, <2>3, <3>1, <3>2, <4>1 DEF Agree, Promised, SuccessStep, Upto
    <3>3. CASE ~(b.successes + 1 >= SuccessThreshold)
      <4>1. c = [b EXCEPT !.successes = @ + 1]
        BY <1>2, <2>3, <3>3 DEF AfterSuccess
      <4>2. c.state = "HALF_OPEN" /\ c.successes = b.successes + 1 /\ c.age = b.age
        BY <2>3, <4>1 DEF GoodBreaker, Breaker
      <4> QED BY <1>0, <2>2, <2>3, <3>1, <3>3, <4>2 DEF Agree, Promised, SuccessStep, Upto
    <3> QED BY <3>2, <3>3
  <2>4. CASE b.state = "CLOSED"
    <3>1. c = [b EXCEPT !.failures = 0]
      BY <1>2, <2>4 DEF AfterSuccess
    <3>2. c.state = "CLOSED" /\ c.failures = 0 /\ c.age = b.age
      BY <2>4, <3>1 DEF GoodBreaker, Breaker
    <3> QED BY <2>2, <2>4, <3>2 DEF Agree, Promised, SuccessStep
  <2>5. CASE b.state = "OPEN"
    <3>1. c = b
      BY <1>2, <2>5 DEF AfterSuccess
    <3> QED BY <2>2, <2>5, <3>1 DEF Agree, Promised, SuccessStep
  <2> QED BY <1>0, <2>3, <2>4, <2>5
<1>3. CASE /\ ~Rejects(b) /\ c = AfterCheck(b)
           /\ g = (IF b.state = "OPEN" THEN [h EXCEPT !.good = 0] ELSE h)
  <2>1. CASE b.state = "OPEN"
    <3>1. b.age = RecoveryTimeout /\ h.quiet = RecoveryTimeout
      BY <1>0, <1>3, <2>1 DEF Rejects, RecoveryDue, Agree, NoFailure
    <3>2. c.state = "HALF_OPEN" /\ c.successes = 0 /\ c.age = b.age
      BY <1>3, <2>1 DEF AfterCheck, Is
    <3>3. g = [h EXCEPT !.good = 0]
      BY <1>3, <2>1
    <3>4. g \in Heard /\ g.good = 0 /\ g.fails = h.fails /\ g.quiet = h.quiet
      BY <1>0, <3>3
    <3> QED BY <2>1, <3>1, <3>2, <3>4 DEF Agree, Promised, ProbeStep
  <2>2. CASE b.state # "OPEN"
    <3>1. c = b /\ g = h
      BY <1>3, <2>2 DEF AfterCheck
    <3> QED BY <3>1 DEF Promised, StillStep
  <2> QED BY <2>1, <2>2
<1>4. CASE c = AfterTick(b) /\ g = HearTick(h)
  <2>1. g = [h EXCEPT !.quiet = Upto(RecoveryTimeout, h.quiet + 1)]
    BY <1>4 DEF HearTick
  <2>2. g \in Heard /\ g.fails = h.fails /\ g.good = h.good /\ g.quiet = Upto(RecoveryTimeout, h.quiet + 1)
    BY <1>0, <2>1 DEF Upto
  <2>3. /\ c.state = b.state /\ c.failures = b.failures /\ c.successes = b.successes
        /\ c.age = IF b.age = NoFailure \/ b.age >= RecoveryTimeout THEN b.age ELSE b.age + 1
    <3>1. CASE b.age = NoFailure \/ b.age >= RecoveryTimeout
      BY <1>4, <3>1 DEF AfterTick
    <3>2. CASE ~(b.age = NoFailure \/ b.age >= RecoveryTimeout)
      <4>1. c = [b EXCEPT !.age = @ + 1]
        BY <1>4, <3>2 DEF AfterTick
      <4> QED BY <3>2, <4>1 DEF GoodBreaker, Breaker
    <3> QED BY <3>1, <3>2
  <2>4. Agree(c, g)
    BY <1>0, <2>2, <2>3 DEF Agree, Upto, NoFailure
  <2> QED BY <2>2, <2>3, <2>4 DEF Promised, TickStep
<1>5. CASE c = b /\ g = h
  BY <1>5 DEF Promised, StillStep
<1> QED BY <1>1, <1>2, <1>3, <1>4, <1>5 DEF Reported

-----------------------------------------------------------------------------
(* The steps of the program *)

\* A request that is answered, or retries, is known to its provider.
LEMMA AnsweredProvider ==
  ASSUME HInv, NEW r \in Requests, Active(calls[r])
  PROVE  calls[r].provider \in Providers
BY DEF HInv, IInv, GoodCall, Explained

\* What the observer notes of a breaker that is not the one reported to.
Elsewhere(p) == IF breakers[p].state = "OPEN" /\ breakers'[p].state = "HALF_OPEN"
                THEN [heard[p] EXCEPT !.good = 0] ELSE heard[p]

\* A failure is heard of the provider that answers.
LEMMA FailureHeard ==
  ASSUME NEW r \in Requests, Active(calls[r]), Hear(r, HearFailure), NEW p \in Providers
  PROVE  heard'[p] = IF p = calls[r].provider THEN HearFailure(heard[p]) ELSE Elsewhere(p)
BY DEF Hear, Elsewhere

\* So is a success.
LEMMA SuccessHeard ==
  ASSUME NEW r \in Requests, Active(calls[r]), Hear(r, HearSuccess), NEW p \in Providers
  PROVE  heard'[p] = IF p = calls[r].provider THEN HearSuccess(heard[p]) ELSE Elsewhere(p)
BY DEF Hear, Elsewhere

\* A request that begins is heard of nowhere.
LEMMA NothingHeard ==
  ASSUME NEW r \in Requests, ~Active(calls[r]), Hear(r, Unheard), NEW p \in Providers
  PROVE  heard'[p] = Elsewhere(p)
BY DEF Hear, Elsewhere

\* What is reported to one breaker.
ReportedTo(p) == Reported(breakers[p], heard[p], breakers'[p], heard'[p])

\* A breaker that a step leaves alone hears nothing.
LEMMA StillReported ==
  ASSUME NEW p \in Providers, breakers'[p] = breakers[p], heard'[p] = Elsewhere(p)
  PROVE  ReportedTo(p)
BY DEF ReportedTo, Reported, Elsewhere

\* A breaker that admits a call in a step is heard to probe if it does.
LEMMA CheckReported ==
  ASSUME HInv, NEW p \in Providers, ~Rejects(breakers[p]),
         breakers'[p] = AfterCheck(breakers[p]), heard'[p] = Elsewhere(p)
  PROVE  ReportedTo(p)
<1>1. breakers[p].state = "OPEN" => breakers'[p].state = "HALF_OPEN"
  BY DEF AfterCheck, Is
<1> QED BY <1>1 DEF ReportedTo, Reported, Elsewhere

\* The loop over the providers after provider b, whose breaker has been
\* reported to: at most one of those after it admits a call.
LEMMA TryNextReports ==
  ASSUME HInv, NEW r \in Requests, NEW c, NEW b \in 0..NumProviders,
         NEW brk \in [Providers -> Breaker],
         \A k \in Providers : k # b => brk[k] = breakers[k] /\ heard'[k] = Elsewhere(k),
         TryNext(r, c, b, brk), NEW p \in Providers
  PROVE  IF p = b THEN breakers'[p] = brk[p] ELSE ReportedTo(p)
<1>1. ASSUME NEW q \in Providers, NextAdmitting(b, q), breakers' = [brk EXCEPT ![q] = AfterCheck(@)]
      PROVE  IF p = b THEN breakers'[p] = brk[p] ELSE ReportedTo(p)
  <2>1. q # b /\ ~Rejects(breakers[q])
    BY <1>1, CallsAssumption DEF NextAdmitting, Providers
  <2>2. CASE p = q
    BY <1>1, <2>1, <2>2, CheckReported
  <2>3. CASE p # q
    BY <1>1, <2>3, StillReported
  <2> QED BY <2>2, <2>3
<1>2. CASE breakers' = brk
  BY <1>2, StillReported
<1> QED BY <1>1, <1>2 DEF TryNext

\* Every step reports to every breaker what the promise speaks of.
LEMMA StepReports ==
  ASSUME HInv, HNext, NEW p \in Providers
  PROVE  ReportedTo(p)
<1>0. breakers \in [Providers -> Breaker] /\ heard \in [Providers -> Heard] /\ IInv
  BY DEF HInv, IInv
<1>1. ASSUME NEW r \in Requests, Succeed(r) \/ FinishStream(r), Hear(r, HearSuccess)
      PROVE  ReportedTo(p)
  <2>1. /\ Active(calls[r])
        /\ breakers' = [breakers EXCEPT ![calls[r].provider] = AfterSuccess(@)]
    BY <1>1 DEF Succeed, FinishStream, Answering, Streaming, Active
  <2>2. calls[r].provider \in Providers
    BY <2>1, AnsweredProvider
  <2>3. heard'[p] = IF p = calls[r].provider THEN HearSuccess(heard[p]) ELSE Elsewhere(p)
    BY <1>1, <2>1, SuccessHeard
  <2> QED BY <1>0, <2>1, <2>2, <2>3, StillReported DEF ReportedTo, Reported
<1>2. ASSUME NEW r \in Requests, Hear(r, HearFailure),
             RetryLater(r) \/ CloseStream(r) \/ \E why \in {"retry", "fallback", "fatal"} : BreakStream(r, why)
      PROVE  ReportedTo(p)
  <2>1. /\ Active(calls[r])
        /\ breakers' = [breakers EXCEPT ![calls[r].provider] = AfterFailure(@)]
    BY <1>2 DEF RetryLater, CloseStream, BreakStream, RecordedFailure, Answering, Streaming, Active
  <2>2. calls[r].provider \in Providers
    BY <2>1, AnsweredProvider
  <2>3. heard'[p] = IF p = calls[r].provider THEN HearFailure(heard[p]) ELSE Elsewhere(p)
    BY <1>2, <2>1, FailureHeard
  <2> QED BY <1>0, <2>1, <2>2, <2>3, StillReported DEF ReportedTo, Reported
<1>3. ASSUME NEW r \in Requests, Exhaust(r) \/ FallBack(r), Hear(r, HearFailure)
      PROVE  ReportedTo(p)
  <2> DEFINE b == calls[r].provider
  <2>1. Active(calls[r])
    BY <1>3 DEF Exhaust, FallBack, Answering, Active
  <2>2. b \in Providers /\ b \in 0..NumProviders
    BY <2>1, AnsweredProvider, CallsAssumption DEF Providers
  <2>3. PICK c : TryNext(r, c, b, RecordedFailure(b))
    BY <1>3 DEF Exhaust, FallBack, GiveUp
  <2>4. /\ RecordedFailure(b) \in [Providers -> Breaker]
        /\ \A k \in Providers : k # b => RecordedFailure(b)[k] = breakers[k]
        /\ RecordedFailure(b)[b] = AfterFailure(breakers[b])
    BY <1>0, <2>2, RecordedFailureGood DEF RecordedFailure
  <2>5. \A k \in Providers :
          heard'[k] = IF k = b THEN HearFailure(heard[k]) ELSE Elsewhere(k)
    BY <1>3, <2>1, FailureHeard
  <2> HIDE DEF b
  <2>6. IF p = b THEN breakers'[p] = RecordedFailure(b)[p] ELSE ReportedTo(p)
    BY <2>2, <2>3, <2>4, <2>5, TryNextReports
  <2> QED BY <2>4, <2>5, <2>6 DEF ReportedTo, Reported
<1>4. ASSUME NEW r \in Requests, Start(r), Hear(r, Unheard)
      PROVE  ReportedTo(p)
  <2>1. ~Active(calls[r]) /\ TryNext(r, IdleCall, 0, breakers)
    BY <1>4 DEF Start
  <2>2. \A k \in Providers : heard'[k] = Elsewhere(k)
    BY <1>4, <2>1, NothingHeard
  <2>3. 0 \in 0..NumProviders /\ p # 0
    BY CallsAssumption DEF Providers
  <2> QED BY <1>0, <2>1, <2>2, <2>3, TryNextReports
<1>5. ASSUME NEW r \in Requests, StartStream(r), Hear(r, Unheard)
      PROVE  ReportedTo(p)
  <2>1. ~Active(calls[r])
    BY <1>5 DEF StartStream
  <2>2. heard'[p] = Elsewhere(p)
    BY <1>5, <2>1, NothingHeard
  <2>3. ASSUME NEW q \in Providers, NextAdmitting(0, q), breakers' = [breakers EXCEPT ![q] = AfterCheck(@)]
        PROVE  ReportedTo(p)
    <3>1. ~Rejects(breakers[q])
      BY <2>3 DEF NextAdmitting
    <3>2. breakers'[p] = IF p = q THEN AfterCheck(breakers[p]) ELSE breakers[p]
      BY <1>0, <2>3
    <3> QED BY <2>2, <3>1, <3>2, CheckReported, StillReported
  <2>4. CASE UNCHANGED breakers
    BY <2>2, <2>4, StillReported
  <2> QED BY <1>5, <2>3, <2>4 DEF StartStream
<1>6. ASSUME NEW r \in Requests, Fatal(r) \/ Cancel(r) \/ WakeUp(r), UNCHANGED heard
      PROVE  ReportedTo(p)
  <2>1. breakers' = breakers
    BY <1>6 DEF Fatal, Cancel, WakeUp
  <2> QED BY <1>6, <2>1 DEF ReportedTo, Reported
<1>7. ASSUME Tick, heard' = [k \in Providers |-> HearTick(heard[k])]
      PROVE  ReportedTo(p)
  BY <1>7 DEF Tick, ReportedTo, Reported
<1> QED BY <1>1, <1>2, <1>3, <1>4, <1>5, <1>6, <1>7 DEF HNext

-----------------------------------------------------------------------------
(* The refinement *)

\* The observer watches; what the program does is what it does unobserved.
LEMMA HNextIsNext == HNext => Next
BY DEF HNext, Next, Answer

LEMMA HInitInv == HInit => HInv
<1> SUFFICES ASSUME HInit PROVE HInv
  OBVIOUS
<1>1. IInv /\ breakers = [p \in Providers |-> NewBreaker]
  BY InitIInv DEF HInit, Init
<1>2. [fails |-> 0, good |-> 0, quiet |-> RecoveryTimeout] \in Heard
  BY BreakerAssumption DEF Heard
<1>3. Agree(NewBreaker, [fails |-> 0, good |-> 0, quiet |-> RecoveryTimeout])
  BY DEF Agree, NewBreaker
<1> QED BY <1>1, <1>2, <1>3 DEF HInit, HInv

\* Every step keeps what the refinement rests on, and does to every breaker
\* what its promise allows.
LEMMA HNextInv ==
  ASSUME HInv, [HNext]_allVars
  PROVE  /\ HInv'
         /\ \A p \in Providers : Promised(breakers[p], heard[p], breakers'[p], heard'[p])
<1>1. CASE HNext
  <2>1. IInv'
    BY <1>1, HNextIsNext, NextIInv DEF HInv
  <2>2. \A p \in Providers : /\ heard'[p] \in Heard /\ Agree(breakers'[p], heard'[p])
                             /\ Promised(breakers[p], heard[p], breakers'[p], heard'[p])
    <3>1. ASSUME NEW p \in Providers
          PROVE  /\ heard'[p] \in Heard /\ Agree(breakers'[p], heard'[p])
                 /\ Promised(breakers[p], heard[p], breakers'[p], heard'[p])
      <4>1. GoodBreaker(breakers[p]) /\ heard[p] \in Heard /\ Agree(breakers[p], heard[p])
        BY DEF HInv, IInv
      <4>2. Reported(breakers[p], heard[p], breakers'[p], heard'[p])
        BY <1>1, StepReports DEF ReportedTo
      <4> HIDE DEF HInv
      <4> QED BY <4>1, <4>2, ReportedIsPromised
    <3> QED BY <3>1
  <2>3. \E f : heard' = [p \in Providers |-> f[p]]
    BY <1>1 DEF HNext, Hear, HInv
  <2> QED BY <2>1, <2>2, <2>3 DEF HInv
<1>2. CASE UNCHANGED allVars
  BY <1>2 DEF allVars, HInv, IInv, Promised, StillStep
<1> QED BY <1>1, <1>2

LEMMA HInvariance == HSpec => []HInv
BY HInitInv, HNextInv, PTL DEF HSpec

\* The breaker of the primary provider changes state exactly when the reports
\* of the requests and streams that used it say so.
LEMMA PrimaryImplements == HSpec => PrimaryPromise!Spec
<1>1. 1 \in Providers
  BY CallsAssumption DEF Providers
<1>2. HInit => PrimaryPromise!Init
  BY <1>1 DEF HInit, Init, NewBreaker, PrimaryPromise!Init
<1>3. HInv /\ [HNext]_allVars => [PrimaryPromise!Next]_(PrimaryPromise!vars)
  <2> SUFFICES ASSUME HInv, [HNext]_allVars
               PROVE  [PrimaryPromise!Next]_(PrimaryPromise!vars)
    OBVIOUS
  <2>1. Promised(breakers[1], heard[1], breakers'[1], heard'[1])
    BY <1>1, HNextInv
  <2> QED BY <2>1
          DEF Promised, FailureStep, SuccessStep, ProbeStep, TickStep, StillStep, Upto,
              PrimaryPromise!Next, PrimaryPromise!vars, PrimaryPromise!Failure,
              PrimaryPromise!Success, PrimaryPromise!Probe, PrimaryPromise!Tick,
              PrimaryPromise!Upto
<1> QED BY <1>2, <1>3, HInvariance, PTL DEF HSpec, PrimaryPromise!Spec

\* So does that of the first fallback, if there is one.
LEMMA FallbackImplements ==
  ASSUME NumProviders >= 2
  PROVE  HSpec => FallbackPromise!Spec
<1>1. 2 \in Providers
  BY CallsAssumption DEF Providers
<1>2. HInit => FallbackPromise!Init
  BY <1>1 DEF HInit, Init, NewBreaker, FallbackPromise!Init
<1>3. HInv /\ [HNext]_allVars => [FallbackPromise!Next]_(FallbackPromise!vars)
  <2> SUFFICES ASSUME HInv, [HNext]_allVars
               PROVE  [FallbackPromise!Next]_(FallbackPromise!vars)
    OBVIOUS
  <2>1. Promised(breakers[2], heard[2], breakers'[2], heard'[2])
    BY <1>1, HNextInv
  <2> QED BY <2>1
          DEF Promised, FailureStep, SuccessStep, ProbeStep, TickStep, StillStep, Upto,
              FallbackPromise!Next, FallbackPromise!vars, FallbackPromise!Failure,
              FallbackPromise!Success, FallbackPromise!Probe, FallbackPromise!Tick,
              FallbackPromise!Upto
<1> QED BY <1>2, <1>3, HInvariance, PTL DEF HSpec, FallbackPromise!Spec

\* The breakers of the primary provider and of the first fallback implement
\* BreakerPromise, however requests and streams interleave: the counters the
\* class keeps and resets stand for the reports it was given.
THEOREM PromisesAreKept ==
  ASSUME NumProviders >= 2
  PROVE  HSpec => PromisesKept
BY PrimaryImplements, FallbackImplements DEF PromisesKept
=============================================================================
