-------------------------- MODULE DistributedBreaker --------------------------
(***************************************************************************)
(* DistributedCircuitBreakerMiddleware inside pipelines of several          *)
(* instances: one provider's circuit is a hash in Redis, checked before a   *)
(* request and updated after it by two Lua scripts, each atomic.  An        *)
(* instance sends its own clock along.  Redis may fail any call.            *)
(*                                                                         *)
(* In a pipeline the middleware is not mandatory and CircuitBreakerError    *)
(* does not break the chain: a refusal is isolated, broadcast as an error,  *)
(* and the request goes on to the provider (pipeline.py:740).               *)
(***************************************************************************)
EXTENDS Integers

CONSTANTS
  Requests,
  Skews,              \* how far the clocks of instances are ahead
  FailureThreshold, RecoveryTimeout, SuccessThreshold,
  Buffer,             \* the 60 s added to the life of the key
  MaxTime             \* bound on the clock

ASSUME CircuitAssumption ==
  /\ Skews \subseteq Nat
  /\ \E s \in Skews : \A t \in Skews : t <= s
  /\ FailureThreshold \in Nat \ {0} /\ SuccessThreshold \in Nat \ {0}
  /\ RecoveryTimeout \in Nat /\ Buffer \in Nat /\ MaxTime \in Nat

VARIABLES
  clock,       \* time, as Redis has it
  circuit,     \* the hash, Fresh when the key does not exist
  expires,     \* when the key expires
  requests,    \* per request: stage, the clock of its instance, metadata set
  failedAt,    \* observer: when a failure was last recorded
  brokenAt,    \* observer: when anything but a refusal last failed
  evidence     \* observer: successes recorded since the circuit is HALF_OPEN

circuitVars == <<clock, circuit, expires, requests, failedAt, brokenAt, evidence>>

Fresh == [state |-> "CLOSED", failures |-> 0, successes |-> 0, last |-> 0]

Init == /\ clock = RecoveryTimeout
        /\ circuit = Fresh /\ expires = 0
        /\ requests \in [Requests -> [stage : {"new"}, skew : Skews, watched : {FALSE}]]
        /\ failedAt = 0 /\ brokenAt = 0 /\ evidence = 0

Reading(r) == clock + requests[r].skew

-----------------------------------------------------------------------------
(* The scripts.                                                            *)

\* LUA_CHECK_STATE at time t: the circuit afterwards, and the answer.
Due(t) == circuit.state = "OPEN" /\ t - circuit.last >= RecoveryTimeout
Admits(t) == circuit.state # "OPEN" \/ Due(t)

\* Mutant: the successes of the last recovery still count.
Checked_KeepsSuccesses(t) ==
  IF Due(t) THEN [circuit EXCEPT !.state = "HALF_OPEN"] ELSE circuit

Checked(t) ==
  IF Due(t) THEN [circuit EXCEPT !.state = "HALF_OPEN", !.successes = 0]
  ELSE circuit

\* LUA_UPDATE_STATE with action "failure".  It counts failures in a circuit
\* that is not OPEN, and notes the time in every state.
Counted == [circuit EXCEPT !.failures = @ + 1]

\* Mutant: the time of a failure is noted only while the circuit is CLOSED.
Failed_TimeWhenClosed(t) ==
  CASE circuit.state = "CLOSED" ->
         [Counted EXCEPT !.last = t,
                         !.state = IF Counted.failures >= FailureThreshold
                                   THEN "OPEN" ELSE "CLOSED"]
    [] circuit.state = "HALF_OPEN" -> [Counted EXCEPT !.state = "OPEN"]
    [] OTHER -> circuit

Failed(t) ==
  CASE circuit.state = "CLOSED" ->
         [Counted EXCEPT !.last = t,
                         !.state = IF Counted.failures >= FailureThreshold
                                   THEN "OPEN" ELSE "CLOSED"]
    [] circuit.state = "HALF_OPEN" -> [Counted EXCEPT !.last = t, !.state = "OPEN"]
    [] OTHER -> [circuit EXCEPT !.last = t]

\* The same with action "success".
Succeeded ==
  CASE circuit.state = "HALF_OPEN" ->
         IF circuit.successes + 1 >= SuccessThreshold
         THEN [circuit EXCEPT !.state = "CLOSED", !.failures = 0, !.successes = 0]
         ELSE [circuit EXCEPT !.successes = @ + 1]
    [] circuit.state = "CLOSED" -> [circuit EXCEPT !.failures = 0]
    [] OTHER -> circuit

\* Either script ends with EXPIRE; the check does not.
Store(new) == /\ circuit' = new
              /\ expires' = clock + RecoveryTimeout + Buffer

-----------------------------------------------------------------------------
(* The hooks, called by the pipeline.                                      *)

\* _record_failure, unless the request is not watched or Redis fails.
RecordFailure(r) ==
  \/ /\ requests[r].watched
     /\ Store(Failed(Reading(r)))
     /\ failedAt' = clock
     /\ UNCHANGED <<clock, evidence>>
  \/ UNCHANGED <<clock, circuit, expires, failedAt, evidence>>

\* _record_success; a stream has no response phase and records none.
RecordSuccess(r) ==
  \/ /\ requests[r].watched
     /\ Store(Succeeded)
     /\ evidence' = evidence + 1
     /\ UNCHANGED <<clock, failedAt, brokenAt>>
  \/ UNCHANGED <<clock, circuit, expires, failedAt, brokenAt, evidence>>

Goes(r, from, to) == /\ requests[r].stage = from
                     /\ requests' = [requests EXCEPT ![r].stage = to]

\* process_request.  When Redis fails, before or after it has run the script,
\* nothing is put into the metadata, and with fallback_allow or without it the
\* request goes on.
RunCheck(r) == /\ circuit' = Checked(Reading(r))
               /\ evidence' = IF Due(Reading(r)) THEN 0 ELSE evidence

Check(r) ==
  /\ requests[r].stage = "new"
  /\ UNCHANGED <<clock, expires, failedAt, brokenAt>>
  /\ \/ /\ RunCheck(r)
        /\ requests' = [requests EXCEPT ![r].watched = TRUE,
                          ![r].stage = IF Admits(Reading(r)) THEN "calling" ELSE "refused"]
     \/ /\ RunCheck(r) \/ UNCHANGED <<circuit, evidence>>
        /\ requests' = [requests EXCEPT ![r].stage = "calling"]

\* The refusal is broadcast, this middleware included, and isolated.
Refuse(r) == /\ Goes(r, "refused", "calling")
             /\ RecordFailure(r)
             /\ UNCHANGED brokenAt

\* Another middleware raises and is isolated, in either phase.
Complain(r) ==
  /\ requests[r].stage \in {"calling", "answered"}
  /\ requests' = [requests EXCEPT ![r].stage =
                    IF @ = "calling" THEN "troubled" ELSE "ended"]
  /\ RecordFailure(r)
  /\ brokenAt' = clock

\* process_response: the provider answered, or a cache did in its place.
Answer(r) == /\ \E s \in {"calling", "troubled"} : Goes(r, s, "answered")
             /\ RecordSuccess(r)

\* The provider fails, or the chain is broken: on_error.
Fail(r) == /\ \E s \in {"calling", "troubled"} : Goes(r, s, "ended")
           /\ RecordFailure(r)
           /\ brokenAt' = clock

\* reset(), by an operator.
Reset == /\ circuit # Fresh
         /\ circuit' = Fresh
         /\ evidence' = 0
         /\ UNCHANGED <<clock, expires, requests, failedAt, brokenAt>>

\* Redis drops the key.
Expire == /\ circuit # Fresh /\ clock >= expires
          /\ circuit' = Fresh
          /\ evidence' = 0
          /\ UNCHANGED <<clock, expires, requests, failedAt, brokenAt>>

Tick == /\ clock < MaxTime
        /\ clock' = clock + 1
        /\ UNCHANGED <<circuit, expires, requests, failedAt, brokenAt, evidence>>

Next == Reset \/ Expire \/ Tick
        \/ \E r \in Requests : Check(r) \/ Refuse(r) \/ Complain(r) \/ Answer(r) \/ Fail(r)

Spec == Init /\ [][Next]_circuitVars

-----------------------------------------------------------------------------
(* Properties.                                                             *)

MaxSkew == CHOOSE s \in Skews : \A t \in Skews : t <= s

\* An OPEN circuit is left, by a check of any instance or because its key
\* expires, only when no failure has been recorded by any instance for the
\* recovery timeout, but for the difference of their clocks, or when it is
\* reset (distributed_circuit_breaker.py:128).
OpenIsKept ==
  [][circuit.state = "OPEN" /\ circuit'.state # "OPEN" =>
       \/ clock - failedAt >= RecoveryTimeout - MaxSkew
       \/ Reset]_circuitVars

\* A HALF_OPEN circuit closes on success_threshold successes that were
\* recorded since it is HALF_OPEN, whatever requests that were admitted in
\* other states report meanwhile, or because it is reset or long unused
\* (distributed_circuit_breaker.py:85).
ClosesOnEvidence ==
  [][circuit.state = "HALF_OPEN" /\ circuit'.state = "CLOSED" =>
       evidence' >= SuccessThreshold \/ Reset \/ Expire]_circuitVars

\* distributed-consistency.md:129: after recovery_timeout the circuit goes to
\* HALF_OPEN by itself.  Stated of a check when nothing but refusals has failed
\* for that long.
HealsAfterTimeout ==
  [][\A r \in Requests :
       /\ circuit.state = "OPEN" /\ requests[r].stage = "new"
       /\ clock - brokenAt >= RecoveryTimeout + MaxSkew
       => requests'[r].stage # "refused"]_circuitVars
=============================================================================
