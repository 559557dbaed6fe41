------------------------- MODULE ProviderCallsHistory -------------------------
(***************************************************************************)
(* ProviderCalls with an observer that remembers what was reported to each  *)
(* breaker, and the refinement it makes visible: every breaker, used by     *)
(* concurrent requests and streams, implements BreakerPromise.              *)
(***************************************************************************)
EXTENDS ProviderCalls

VARIABLE heard   \* per provider, the observer's counts; no action reads them

allVars == <<breakers, calls, heard>>

Upto(bound, n) == IF n < bound THEN n ELSE bound

HInit == Init /\ heard = [p \in Providers |-> [fails |-> 0, good |-> 0, quiet |-> RecoveryTimeout]]

HearFailure(h) == [fails |-> Upto(FailureThreshold, h.fails + 1), good |-> 0, quiet |-> 0]
HearSuccess(h) == [h EXCEPT !.fails = 0, !.good = Upto(SuccessThreshold, @ + 1)]
HearTick(h) == [h EXCEPT !.quiet = Upto(RecoveryTimeout, @ + 1)]

\* The provider answering r is heard as `What`; a breaker that begins to
\* probe in the same step starts a new count of successes.
Hear(r, What(_)) ==
  heard' = [p \in Providers |->
    IF Active(calls[r]) /\ p = calls[r].provider THEN What(heard[p])
    ELSE IF breakers[p].state = "OPEN" /\ breakers'[p].state = "HALF_OPEN"
    THEN [heard[p] EXCEPT !.good = 0]
    ELSE heard[p]]

Unheard(h) == h

HNext ==
  \/ \E r \in Requests :
       \/ (Succeed(r) \/ FinishStream(r)) /\ Hear(r, HearSuccess)
       \/ RetryLater(r) /\ Hear(r, HearFailure)
       \/ (Exhaust(r) \/ FallBack(r)) /\ Hear(r, HearFailure)
       \/ (CloseStream(r) \/ \E why \in {"retry", "fallback", "fatal"} : BreakStream(r, why))
            /\ Hear(r, HearFailure)
       \/ (Start(r) \/ StartStream(r)) /\ Hear(r, Unheard)
       \/ (Fatal(r) \/ Cancel(r) \/ WakeUp(r)) /\ UNCHANGED heard
  \/ Tick /\ heard' = [p \in Providers |-> HearTick(heard[p])]

HSpec == HInit /\ [][HNext]_allVars

PrimaryPromise == INSTANCE BreakerPromise WITH
  state <- breakers[1].state,
  failuresInRow <- heard[1].fails,
  goodProbes <- heard[1].good,
  quiet <- heard[1].quiet

FallbackPromise == INSTANCE BreakerPromise WITH
  state <- breakers[2].state,
  failuresInRow <- heard[2].fails,
  goodProbes <- heard[2].good,
  quiet <- heard[2].quiet

\* The breakers of the primary provider and of the first fallback, which is
\* consulted in the step that records the primary's failure, change state
\* exactly when the reports of the requests and streams that used the provider
\* say so (circuit_breaker.py:52).
PromisesKept == PrimaryPromise!Spec /\ FallbackPromise!Spec
=============================================================================
