--------------------------- MODULE CircuitBreaker ---------------------------
(***************************************************************************)
(* The circuit breaker of onion_core/circuit_breaker.py, as a record and    *)
(* one operator per method.  Every method of the class runs its body under  *)
(* self._lock and awaits nothing inside it, so on one event loop a call is  *)
(* a single step; the modules that own breakers decide when the steps       *)
(* happen.                                                                  *)
(*                                                                          *)
(* Time: the code keeps the time of the last failure and only ever compares *)
(* its age with recovery_timeout.  The model keeps that age, in ticks, and  *)
(* stops counting when it reaches RecoveryTimeout, where the comparison no  *)
(* longer changes.                                                          *)
(***************************************************************************)
EXTENDS Integers

CONSTANTS
  FailureThreshold,  \* consecutive failures that open a closed breaker
  SuccessThreshold,  \* successes that close a half-open breaker
  RecoveryTimeout    \* age of the last failure, in ticks, that allows a probe

\* The constructor takes any number; a threshold of 0 behaves as 1.
ASSUME BreakerAssumption ==
  /\ FailureThreshold \in Nat \ {0}
  /\ SuccessThreshold \in Nat \ {0}
  /\ RecoveryTimeout \in Nat

BreakerState == {"CLOSED", "OPEN", "HALF_OPEN"}

NoFailure == -1      \* _last_failure_time is None

Breaker == [state     : BreakerState,
            failures  : 0..FailureThreshold,
            successes : 0..SuccessThreshold - 1,
            age       : -1..RecoveryTimeout]

\* __init__, and also what _reset leaves behind.
NewBreaker == [state |-> "CLOSED", failures |-> 0, successes |-> 0, age |-> NoFailure]

RecoveryDue(b) == b.age # NoFailure /\ b.age >= RecoveryTimeout

\* check_call raises CircuitBreakerError.
Rejects(b) == b.state = "OPEN" /\ ~RecoveryDue(b)

Is(state, failures, successes, age) ==
  [state |-> state, failures |-> failures, successes |-> successes, age |-> age]

\* check_call on a breaker that does not reject: an open one starts probing.
AfterCheck(b) == IF b.state = "OPEN" THEN Is("HALF_OPEN", 0, 0, b.age) ELSE b

\* Mutant: a success does not reset the failures.
AfterSuccess_KeepFailures(b) ==
  IF b.state = "HALF_OPEN" THEN
    IF b.successes + 1 >= SuccessThreshold
    THEN NewBreaker
    ELSE [b EXCEPT !.successes = @ + 1]
  ELSE b

\* record_success
AfterSuccess(b) ==
  IF b.state = "HALF_OPEN" THEN
    IF b.successes + 1 >= SuccessThreshold
    THEN NewBreaker
    ELSE [b EXCEPT !.successes = @ + 1]
  ELSE IF b.state = "CLOSED" THEN [b EXCEPT !.failures = 0]
  ELSE b

\* Mutant: the time of the failure is not noted.
AfterFailure_KeepAge(b) ==
  IF b.state = "CLOSED"
  THEN Is(IF b.failures + 1 >= FailureThreshold THEN "OPEN" ELSE "CLOSED",
          b.failures + 1, b.successes, b.age)
  ELSE Is("OPEN", b.failures, 0, b.age)

\* Mutant: a failed probe reopens the breaker without noting the time.
AfterFailure_ReopenForgetsTime(b) ==
  IF b.state = "CLOSED"
  THEN Is(IF b.failures + 1 >= FailureThreshold THEN "OPEN" ELSE "CLOSED",
          b.failures + 1, b.successes, 0)
  ELSE Is("OPEN", b.failures, 0, IF b.state = "HALF_OPEN" THEN NoFailure ELSE 0)

\* record_failure: the time is refreshed in every state, also while open; a
\* closed breaker at its threshold and a half-open one open.
AfterFailure(b) ==
  IF b.state = "CLOSED"
  THEN Is(IF b.failures + 1 >= FailureThreshold THEN "OPEN" ELSE "CLOSED",
          b.failures + 1, b.successes, 0)
  ELSE Is("OPEN", b.failures, IF b.state = "HALF_OPEN" THEN 0 ELSE b.successes, 0)

\* One tick of time.time().
AfterTick(b) ==
  IF b.age = NoFailure \/ b.age >= RecoveryTimeout THEN b ELSE [b EXCEPT !.age = @ + 1]

\* What every breaker satisfies, whoever calls it: the counters stay below
\* their thresholds in the states that count, and an open breaker knows when
\* it last failed -- one that did not would reject for ever, as check_call
\* only leaves OPEN when _last_failure_time is set.
BreakerOK(b) ==
  /\ b.state = "CLOSED" => b.failures < FailureThreshold /\ b.successes = 0
  /\ b.state = "OPEN" => b.age # NoFailure
  /\ b.state = "HALF_OPEN" => b.failures = 0 /\ b.age # NoFailure
=============================================================================
