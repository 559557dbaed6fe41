---------------------------- MODULE BreakerPromise ----------------------------
(***************************************************************************)
(* What a circuit breaker promises, in terms of the reports it was given    *)
(* rather than of the counters it keeps (the class docstring of             *)
(* onion_core/circuit_breaker.py):                                          *)
(*   CLOSED -> OPEN       the last FailureThreshold reports were failures    *)
(*   OPEN -> HALF_OPEN    no failure was reported for RecoveryTimeout ticks  *)
(*   HALF_OPEN -> CLOSED  SuccessThreshold successes and no failure since   *)
(*                        the breaker began to probe                        *)
(*   HALF_OPEN -> OPEN    one failure                                       *)
(* and in no other circumstances.  The observer's counts are never reset by *)
(* a change of state, except that successes are counted anew for each probe. *)
(***************************************************************************)
EXTENDS Integers

CONSTANTS FailureThreshold, SuccessThreshold, RecoveryTimeout

VARIABLES
  state,
  failuresInRow,   \* the latest reports that were all failures
  goodProbes,      \* the successes since the last failure or start of a probe
  quiet            \* ticks since the last failure

vars == <<state, failuresInRow, goodProbes, quiet>>

\* All counts stop where they no longer make a difference.
Upto(bound, n) == IF n < bound THEN n ELSE bound

Init == /\ state = "CLOSED"
        /\ failuresInRow = 0
        /\ goodProbes = 0
        /\ quiet = RecoveryTimeout

Failure ==
  /\ failuresInRow' = Upto(FailureThreshold, failuresInRow + 1)
  /\ goodProbes' = 0
  /\ quiet' = 0
  /\ \/ state = "CLOSED" /\ failuresInRow' < FailureThreshold /\ state' = "CLOSED"
     \/ state = "CLOSED" /\ failuresInRow' = FailureThreshold /\ state' = "OPEN"
     \/ state # "CLOSED" /\ state' = "OPEN"

Success ==
  /\ failuresInRow' = 0
  /\ goodProbes' = Upto(SuccessThreshold, goodProbes + 1)
  /\ \/ state = "HALF_OPEN" /\ goodProbes' < SuccessThreshold /\ state' = "HALF_OPEN"
     \/ state = "HALF_OPEN" /\ goodProbes' = SuccessThreshold /\ state' = "CLOSED"
     \/ state # "HALF_OPEN" /\ state' = state
  /\ UNCHANGED quiet

Probe ==
  /\ state = "OPEN"
  /\ quiet = RecoveryTimeout
  /\ state' = "HALF_OPEN"
  /\ goodProbes' = 0
  /\ UNCHANGED <<failuresInRow, quiet>>

Tick ==
  /\ quiet' = Upto(RecoveryTimeout, quiet + 1)
  /\ UNCHANGED <<state, failuresInRow, goodProbes>>

Next == Failure \/ Success \/ Probe \/ Tick

Spec == Init /\ [][Next]_vars
=============================================================================
