----------------------------- MODULE Redis_proofs -----------------------------
(***************************************************************************)
(* Proofs about what the instances share in Redis: DistributedBreaker, for  *)
(* any number of requests, thresholds, timeouts and differences of clocks;  *)
(* DistributedCache, for any number of requests, prompts and clearings;     *)
(* DistributedRateLimit, for any limits, windows and differences of clocks. *)
(***************************************************************************)
EXTENDS DistributedBreaker, DistributedCache, DistributedRateLimit,
        FiniteSetTheorems, NaturalsInduction, WellFoundedInduction, TLAPS

-----------------------------------------------------------------------------
(* The circuit.                                                              *)

Circuit == [state : {"CLOSED", "OPEN", "HALF_OPEN"}, failures : Nat, successes : Nat, last : Nat]
Stages == {"new", "refused", "calling", "troubled", "answered", "ended"}

\* The state is one the instances and Redis can be in.
CircuitTypeOK ==
  /\ clock \in Nat /\ circuit \in Circuit /\ expires \in Nat
  /\ requests \in [Requests -> [stage : Stages, skew : Skews, watched : BOOLEAN]]
  /\ failedAt \in Nat /\ failedAt <= clock /\ evidence \in Nat

\* An OPEN circuit remembers the last failure, by a clock that is not behind,
\* and its key outlives the recovery timeout.
OpenRemembers ==
  circuit.state = "OPEN" =>
    failedAt <= circuit.last /\ failedAt + RecoveryTimeout <= expires

\* A HALF_OPEN circuit has counted nothing but successes it has seen.
CountsEvidence == circuit.state = "HALF_OPEN" => circuit.successes <= evidence

CircuitIInv == CircuitTypeOK /\ OpenRemembers /\ CountsEvidence

-----------------------------------------------------------------------------
(* Clocks *)

\* No instance's clock is ahead by more than MaxSkew.
LEMMA MaxSkewBounds == MaxSkew \in Nat /\ \A s \in Skews : s <= MaxSkew
<1> DEFINE P(s) == s \in Skews /\ \A t \in Skews : t <= s
<1>1. \E s : P(s)
  BY CircuitAssumption
<1>2. P(CHOOSE s : P(s))
  <2> HIDE DEF P
  <2> QED BY <1>1
<1>3. MaxSkew = CHOOSE s : P(s)
  BY DEF MaxSkew
<1> QED BY <1>2, <1>3, CircuitAssumption

\* What an instance reads is a time, and not behind that of Redis.
LEMMA ReadingBounds ==
  ASSUME CircuitTypeOK, NEW r \in Requests
  PROVE  Reading(r) \in Nat /\ clock <= Reading(r) /\ Reading(r) <= clock + MaxSkew
<1>1. requests[r].skew \in Nat /\ requests[r].skew <= MaxSkew
  BY MaxSkewBounds, CircuitAssumption DEF CircuitTypeOK
<1> QED BY <1>1, MaxSkewBounds DEF CircuitTypeOK, Reading

-----------------------------------------------------------------------------
(* The scripts *)

\* The key that does not exist.
LEMMA FreshCircuit == Fresh \in Circuit /\ Fresh.state = "CLOSED"
BY DEF Fresh, Circuit

\* The check script: what it returns to HALF_OPEN was due, and starts over.
LEMMA CheckedCircuit ==
  ASSUME CircuitTypeOK, NEW t \in Nat
  PROVE  /\ Checked(t) \in Circuit
         /\ Due(t) => Checked(t).state = "HALF_OPEN" /\ Checked(t).successes = 0
         /\ ~Due(t) => Checked(t) = circuit
BY DEF CircuitTypeOK, Checked, Circuit

\* The update script after a failure: the circuit is not HALF_OPEN, and when it
\* is OPEN it has noted the time.
LEMMA FailedCircuit ==
  ASSUME CircuitTypeOK, NEW t \in Nat
  PROVE  /\ Failed(t) \in Circuit
         /\ Failed(t).last = t
         /\ Failed(t).state # "HALF_OPEN"
         /\ circuit.state = "OPEN" => Failed(t).state = "OPEN"
         /\ circuit.state = "HALF_OPEN" => Failed(t).state = "OPEN"
<1> circuit \in Circuit /\ circuit.state \in {"CLOSED", "OPEN", "HALF_OPEN"}
  BY DEF CircuitTypeOK, Circuit
<1>1. Counted \in Circuit /\ Counted.state = circuit.state
  BY DEF Counted, Circuit
<1>2. CASE circuit.state = "CLOSED"
  <2>1. Failed(t) = [Counted EXCEPT !.last = t,
                       !.state = IF Counted.failures >= FailureThreshold
                                 THEN "OPEN" ELSE "CLOSED"]
    BY <1>2 DEF Failed
  <2> QED BY <1>1, <1>2, <2>1 DEF Circuit
<1>3. CASE circuit.state = "HALF_OPEN"
  <2>1. Failed(t) = [Counted EXCEPT !.last = t, !.state = "OPEN"]
    BY <1>3 DEF Failed
  <2> QED BY <1>1, <1>3, <2>1 DEF Circuit
<1>4. CASE circuit.state = "OPEN"
  <2>1. Failed(t) = [circuit EXCEPT !.last = t]
    BY <1>4 DEF Failed
  <2> QED BY <1>4, <2>1 DEF Circuit
<1> QED BY <1>2, <1>3, <1>4

\* The update script after a success: it closes a HALF_OPEN circuit that has
\* enough successes, counts another one, and leaves an OPEN circuit alone.
LEMMA SucceededCircuit ==
  ASSUME CircuitTypeOK
  PROVE  /\ Succeeded \in Circuit
         /\ circuit.state = "OPEN" => Succeeded = circuit
         /\ circuit.state = "CLOSED" => Succeeded.state = "CLOSED"
         /\ circuit.state = "HALF_OPEN" =>
              \/ Succeeded.state = "CLOSED" /\ circuit.successes + 1 >= SuccessThreshold
              \/ Succeeded.state = "HALF_OPEN" /\ Succeeded.successes = circuit.successes + 1
<1>1. circuit \in Circuit /\ circuit.state \in {"CLOSED", "OPEN", "HALF_OPEN"}
  BY DEF CircuitTypeOK, Circuit
<1>2. CASE circuit.state = "CLOSED"
  <2>1. Succeeded = [circuit EXCEPT !.failures = 0]
    BY <1>2 DEF Succeeded
  <2> QED BY <1>1, <1>2, <2>1 DEF Circuit
<1>3. CASE circuit.state = "HALF_OPEN"
  <2>1. CASE circuit.successes + 1 >= SuccessThreshold
    <3>1. Succeeded = [circuit EXCEPT !.state = "CLOSED", !.failures = 0, !.successes = 0]
      BY <1>3, <2>1 DEF Succeeded
    <3> QED BY <1>1, <1>3, <2>1, <3>1 DEF Circuit
  <2>2. CASE ~(circuit.successes + 1 >= SuccessThreshold)
    <3>1. Succeeded = [circuit EXCEPT !.successes = @ + 1]
      BY <1>3, <2>2 DEF Succeeded
    <3> QED BY <1>1, <1>3, <3>1 DEF Circuit
  <2> QED BY <2>1, <2>2
<1>4. CASE circuit.state = "OPEN"
  BY <1>1, <1>4 DEF Succeeded
<1> QED BY <1>1, <1>2, <1>3, <1>4

-----------------------------------------------------------------------------
(* The inductive invariant *)

\* It holds at the start.
LEMMA CircuitInitially == Init => CircuitIInv
<1> SUFFICES ASSUME Init PROVE CircuitIInv
  OBVIOUS
<1>1. requests \in [Requests -> [stage : Stages, skew : Skews, watched : BOOLEAN]]
  BY DEF Init, Stages
<1>2. circuit \in Circuit /\ circuit.state = "CLOSED"
  BY FreshCircuit DEF Init
<1> QED BY <1>1, <1>2, CircuitAssumption DEF Init, CircuitIInv, CircuitTypeOK, OpenRemembers, CountsEvidence

\* A failure is recorded, or not.
LEMMA RecordFailureKeeps ==
  ASSUME CircuitIInv, NEW r \in Requests, RecordFailure(r)
  PROVE  /\ clock' = clock /\ circuit' \in Circuit /\ expires' \in Nat
         /\ failedAt' \in Nat /\ failedAt' <= clock' /\ evidence' \in Nat
         /\ OpenRemembers' /\ CountsEvidence'
         /\ circuit.state = "OPEN" => circuit'.state = "OPEN"
         /\ circuit.state = "HALF_OPEN" => circuit'.state # "CLOSED"
<1>1. CASE UNCHANGED <<clock, circuit, expires, failedAt, evidence>>
  BY <1>1 DEF CircuitIInv, CircuitTypeOK, OpenRemembers, CountsEvidence
<1>2. CASE /\ Store(Failed(Reading(r)))
           /\ failedAt' = clock
           /\ UNCHANGED <<clock, evidence>>
  <2>1. /\ circuit' = Failed(Reading(r))
        /\ expires' = clock + RecoveryTimeout + Buffer
    BY <1>2 DEF Store
  <2>2. Reading(r) \in Nat /\ clock <= Reading(r) /\ clock \in Nat
    BY ReadingBounds DEF CircuitIInv, CircuitTypeOK
  <2> QED BY <1>2, <2>1, <2>2, FailedCircuit, CircuitAssumption
          DEF CircuitIInv, CircuitTypeOK, OpenRemembers, CountsEvidence
<1> QED BY <1>1, <1>2 DEF RecordFailure

\* Every step keeps the invariant.
LEMMA CircuitStep == CircuitIInv /\ [Next]_circuitVars => CircuitIInv'
<1> SUFFICES ASSUME CircuitIInv, [Next]_circuitVars PROVE CircuitIInv'
  OBVIOUS
<1> USE CircuitAssumption
<1>1. ASSUME NEW r \in Requests, Check(r) PROVE CircuitIInv'
  <2>1. Reading(r) \in Nat
    BY ReadingBounds DEF CircuitIInv
  <2>2. requests' \in [Requests -> [stage : Stages, skew : Skews, watched : BOOLEAN]]
    BY <1>1 DEF Check, CircuitIInv, CircuitTypeOK, Stages
  <2>3. CASE RunCheck(r)
    BY <1>1, <2>1, <2>2, <2>3, CheckedCircuit
       DEF Check, RunCheck, CircuitIInv, CircuitTypeOK, OpenRemembers, CountsEvidence
  <2>4. CASE UNCHANGED <<circuit, evidence>>
    BY <1>1, <2>2, <2>4 DEF Check, CircuitIInv, CircuitTypeOK, OpenRemembers, CountsEvidence
  <2> QED BY <1>1, <2>3, <2>4 DEF Check
<1>2. ASSUME NEW r \in Requests, Refuse(r) \/ Complain(r) \/ Fail(r) PROVE CircuitIInv'
  <2>1. RecordFailure(r)
    BY <1>2 DEF Refuse, Complain, Fail
  <2>2. requests' \in [Requests -> [stage : Stages, skew : Skews, watched : BOOLEAN]]
    BY <1>2 DEF Refuse, Complain, Fail, Goes, CircuitIInv, CircuitTypeOK, Stages
  <2> QED BY <2>1, <2>2, RecordFailureKeeps DEF CircuitIInv, CircuitTypeOK
<1>3. ASSUME NEW r \in Requests, Answer(r) PROVE CircuitIInv'
  <2>1. requests' \in [Requests -> [stage : Stages, skew : Skews, watched : BOOLEAN]]
    BY <1>3 DEF Answer, Goes, CircuitIInv, CircuitTypeOK, Stages
  <2>2. CASE UNCHANGED <<clock, circuit, expires, failedAt, brokenAt, evidence>>
    BY <2>1, <2>2 DEF CircuitIInv, CircuitTypeOK, OpenRemembers, CountsEvidence
  <2>3. CASE /\ Store(Succeeded)
             /\ evidence' = evidence + 1
             /\ UNCHANGED <<clock, failedAt, brokenAt>>
    <3>1. clock \in Nat /\ circuit \in Circuit /\ evidence \in Nat
          /\ failedAt \in Nat /\ failedAt <= clock
      BY DEF CircuitIInv, CircuitTypeOK
    <3>2. circuit' = Succeeded /\ expires' = clock + RecoveryTimeout + Buffer
      BY <2>3 DEF Store
    <3>3. /\ circuit' \in Circuit
          /\ circuit'.state = "OPEN" => circuit' = circuit /\ circuit.state = "OPEN"
          /\ circuit'.state = "HALF_OPEN" =>
               circuit.state = "HALF_OPEN" /\ circuit'.successes = circuit.successes + 1
      BY <3>1, <3>2, SucceededCircuit DEF CircuitIInv, Circuit
    <3>4. circuit \in Circuit => circuit.successes \in Nat
      BY DEF Circuit
    <3>5. OpenRemembers'
      BY <2>3, <3>1, <3>2, <3>3 DEF CircuitIInv, OpenRemembers
    <3>6. CountsEvidence'
      BY <2>3, <3>1, <3>3, <3>4 DEF CircuitIInv, CountsEvidence
    <3> QED BY <2>1, <2>3, <3>1, <3>2, <3>3, <3>5, <3>6 DEF CircuitIInv, CircuitTypeOK
  <2> QED BY <1>3, <2>2, <2>3 DEF Answer, RecordSuccess
<1>4. CASE Reset \/ Expire
  BY <1>4, FreshCircuit DEF Reset, Expire, CircuitIInv, CircuitTypeOK, OpenRemembers, CountsEvidence
<1>5. CASE Tick
  BY <1>5 DEF Tick, CircuitIInv, CircuitTypeOK, OpenRemembers, CountsEvidence
<1>6. CASE UNCHANGED circuitVars
  BY <1>6 DEF circuitVars, CircuitIInv, CircuitTypeOK, OpenRemembers, CountsEvidence
<1> QED BY <1>1, <1>2, <1>3, <1>4, <1>5, <1>6 DEF Next

-----------------------------------------------------------------------------
(* Theorems *)

\* Every reachable state satisfies the inductive invariant.
LEMMA CircuitInvariance == Spec => []CircuitIInv
BY CircuitInitially, CircuitStep, PTL DEF Spec

\* The instances and Redis keep to their types: clocks, counters and metadata,
\* whatever calls are lost (distributed_circuit_breaker.py).
THEOREM TypeCorrect == Spec => []CircuitTypeOK
<1>1. CircuitIInv => CircuitTypeOK
  BY DEF CircuitIInv
<1> QED BY CircuitInvariance, <1>1, PTL

\* An OPEN circuit is left only when no instance has recorded a failure for the
\* recovery timeout, less what the clocks differ by, or when it is reset.
THEOREM OpenIsKeptHolds == Spec => OpenIsKept
<1> DEFINE Kept == circuit.state = "OPEN" /\ circuit'.state # "OPEN" =>
                     \/ clock - failedAt >= RecoveryTimeout - MaxSkew
                     \/ Reset
<1>1. CircuitIInv /\ [Next]_circuitVars => [Kept]_circuitVars
  <2> SUFFICES ASSUME CircuitIInv, Next, circuit.state = "OPEN", circuit'.state # "OPEN", ~Reset
               PROVE  clock - failedAt >= RecoveryTimeout - MaxSkew
    OBVIOUS
  <2>1. /\ clock \in Nat /\ failedAt \in Nat /\ circuit.last \in Nat /\ expires \in Nat
        /\ failedAt <= circuit.last /\ failedAt + RecoveryTimeout <= expires
        /\ RecoveryTimeout \in Nat /\ MaxSkew \in Nat
    BY MaxSkewBounds, CircuitAssumption DEF CircuitIInv, CircuitTypeOK, Circuit, OpenRemembers
  <2>2. CASE Expire
    BY <2>1, <2>2 DEF Expire
  <2>3. ASSUME NEW r \in Requests, Check(r)
        PROVE  clock - failedAt >= RecoveryTimeout - MaxSkew
    <3>1. Due(Reading(r))
      BY <2>3 DEF Check, RunCheck, Checked
    <3>2. Reading(r) \in Nat /\ Reading(r) <= clock + MaxSkew
      BY ReadingBounds DEF CircuitIInv
    <3> QED BY <2>1, <3>1, <3>2 DEF Due
  <2>4. ASSUME NEW r \in Requests, RecordFailure(r) PROVE FALSE
    BY <2>4, RecordFailureKeeps
  <2>5. ASSUME NEW r \in Requests, Answer(r) PROVE FALSE
    <3>1. circuit' = circuit \/ circuit' = Succeeded
      BY <2>5 DEF Answer, RecordSuccess, Store
    <3> QED BY <3>1, SucceededCircuit DEF CircuitIInv
  <2>6. ~Tick
    BY DEF Tick
  <2> QED BY <2>2, <2>3, <2>4, <2>5, <2>6 DEF Next, Refuse, Complain, Fail
<1> QED BY CircuitInvariance, <1>1, PTL DEF Spec, OpenIsKept

\* A HALF_OPEN circuit closes on as many successes as it asks for, recorded
\* since it is HALF_OPEN, or because it is reset or has expired.
THEOREM ClosesOnEvidenceHolds == Spec => ClosesOnEvidence
<1> DEFINE Closes == circuit.state = "HALF_OPEN" /\ circuit'.state = "CLOSED" =>
                       evidence' >= SuccessThreshold \/ Reset \/ Expire
<1>1. CircuitIInv /\ [Next]_circuitVars => [Closes]_circuitVars
  <2> SUFFICES ASSUME CircuitIInv, Next, circuit.state = "HALF_OPEN", circuit'.state = "CLOSED",
                      ~Reset, ~Expire
               PROVE  evidence' >= SuccessThreshold
    OBVIOUS
  <2>1. ASSUME NEW r \in Requests, Answer(r) PROVE evidence' >= SuccessThreshold
    <3>1. circuit' = Succeeded /\ evidence' = evidence + 1
      BY <2>1 DEF Answer, RecordSuccess, Store
    <3>2. circuit.successes + 1 >= SuccessThreshold
      BY <3>1, SucceededCircuit DEF CircuitIInv
    <3>3. /\ circuit.successes \in Nat /\ evidence \in Nat /\ circuit.successes <= evidence
          /\ SuccessThreshold \in Nat
      BY CircuitAssumption DEF CircuitIInv, CircuitTypeOK, Circuit, CountsEvidence
    <3> QED BY <3>1, <3>2, <3>3
  <2>2. ASSUME NEW r \in Requests, Check(r) PROVE FALSE
    <3>1. Reading(r) \in Nat
      BY ReadingBounds DEF CircuitIInv
    <3>2. circuit' = circuit \/ circuit' = Checked(Reading(r))
      BY <2>2 DEF Check, RunCheck
    <3> QED BY <3>1, <3>2, CheckedCircuit DEF CircuitIInv
  <2>3. ASSUME NEW r \in Requests, RecordFailure(r) PROVE FALSE
    BY <2>3, RecordFailureKeeps
  <2>4. ~Tick
    BY DEF Tick
  <2> QED BY <2>1, <2>2, <2>3, <2>4 DEF Next, Refuse, Complain, Fail
<1> QED BY CircuitInvariance, <1>1, PTL DEF Spec, ClosesOnEvidence

-----------------------------------------------------------------------------
(* The cache.                                                                *)

Ask == [stage : {"new", "calling", "answered", "ended"}, prompt : Prompts, provider : Providers,
        answer : Answers]

\* The state is the one Redis, the requests and the sweep can be in.
CacheTypeOK ==
  /\ store \in [CacheKeys -> Entry \cup {Absent}]
  /\ asks \in [Askers -> Ask]
  /\ sweep \in [on : BOOLEAN, keys : SUBSET CacheKeys]
  /\ tock \in Nat /\ clears \in Nat

\* A complete response that is about to be stored answers the request's prompt
\* and comes from the provider in the metadata.
Fits(ask) ==
  /\ ask.stage = "new" => ask.provider = Primary
  /\ ask.stage = "answered" /\ ask.answer.stop
       => ask.answer = Response(ask.prompt, ask.provider, TRUE)

\* What the sweep has still to return, and what was stored since it began.
Covered(k) == sweep.on => store[k].after = clears \/ k \in sweep.keys

CacheIInv ==
  /\ CacheTypeOK
  /\ \A r \in Askers : Fits(asks[r])
  /\ EntriesGenuine
  /\ \A k \in Present : Covered(k)

-----------------------------------------------------------------------------
LEMMA AnswersTyped ==
  ASSUME NEW p \in Prompts, NEW v \in Providers, NEW stop \in BOOLEAN
  PROVE  Response(p, v, stop) \in Answers
BY DEF Answers

LEMMA CacheInitially ==
  ASSUME CacheInit
  PROVE  CacheIInv
<1>1. store = [k \in CacheKeys |-> Absent] /\ Present = {}
  BY DEF CacheInit, Present
<1>2. asks \in [Askers -> Ask] /\ \A r \in Askers : asks[r].stage = "new" /\ asks[r].provider = Primary
  <2>1. ASSUME NEW p \in Prompts,
               NEW a \in [stage : {"new"}, prompt : {p}, provider : {Primary},
                          answer : {Response(p, Primary, FALSE)}]
        PROVE  a \in Ask /\ a.stage = "new" /\ a.provider = Primary
    <3>1. Primary \in Providers
      BY DEF Providers
    <3>2. Response(p, Primary, FALSE) \in Answers
      BY <3>1, AnswersTyped
    <3> QED BY <2>1, <3>1, <3>2 DEF Ask
  <2> DEFINE S == UNION {[stage : {"new"}, prompt : {p}, provider : {Primary},
                          answer : {Response(p, Primary, FALSE)}] : p \in Prompts}
  <2>2. \A a \in S : a \in Ask /\ a.stage = "new" /\ a.provider = Primary
    BY <2>1
  <2>3. asks \in [Askers -> S]
    BY DEF CacheInit
  <2> HIDE DEF S
  <2> QED BY <2>2, <2>3
<1>3. CacheTypeOK
  BY <1>1, <1>2 DEF CacheInit, CacheTypeOK
<1> QED BY <1>1, <1>2, <1>3 DEF CacheIInv, Fits, EntriesGenuine

\* A request moves on; the store and the sweep stay as they are.
LEMMA AskStep ==
  ASSUME CacheIInv, NEW r \in Askers, NEW ask \in Ask, asks' = [asks EXCEPT ![r] = ask], Fits(ask),
         UNCHANGED <<tock, store, sweep, clears>>
  PROVE  CacheIInv'
<1>1. asks' \in [Askers -> Ask] /\ \A q \in Askers : Fits(asks'[q])
  BY DEF CacheIInv, CacheTypeOK
<1>2. CacheTypeOK'
  BY <1>1 DEF CacheIInv, CacheTypeOK
<1>3. EntriesGenuine' /\ Present' = Present
  BY DEF CacheIInv, EntriesGenuine, Present
<1>4. \A k \in Present : Covered(k)'
  BY DEF CacheIInv, Covered
<1>5. \A q \in Askers : Fits(asks[q])'
  BY <1>1 DEF Fits
<1> QED BY <1>2, <1>3, <1>4, <1>5 DEF CacheIInv

LEMMA OfRequest ==
  ASSUME CacheIInv, NEW r \in Askers
  PROVE  /\ asks[r] \in Ask /\ Fits(asks[r]) /\ Key(r) \in CacheKeys
         /\ Key(r)[1] = asks[r].prompt /\ Key(r)[2] = asks[r].provider
<1>1. asks[r] \in Ask /\ Fits(asks[r])
  BY DEF CacheIInv, CacheTypeOK
<1> QED BY <1>1 DEF Ask, Key, CacheKeys

\* GET returns an entry.
LEMMA HitStep ==
  ASSUME CacheIInv, NEW r \in Askers, Hit(r)
  PROVE  CacheIInv'
<1> DEFINE e == store[Key(r)].answer
           ask == [asks[r] EXCEPT !.stage = "answered", !.provider = Primary, !.answer = e]
<1>1. asks[r] \in Ask /\ asks[r].stage = "new" /\ asks[r].provider = Primary /\ Key(r) \in Present
      /\ Key(r)[1] = asks[r].prompt /\ Key(r)[2] = Primary
  BY OfRequest DEF Hit, AskGoes, Fits
<1>2. e = Response(asks[r].prompt, Primary, TRUE)
  BY <1>1 DEF CacheIInv, EntriesGenuine
<1>3. e \in Answers /\ Primary \in Providers
  <2>1. Primary \in Providers /\ asks[r].prompt \in Prompts
    BY <1>1 DEF Ask, Providers
  <2> HIDE DEF e
  <2> QED BY <1>2, <2>1, AnswersTyped
<1>4. asks' = [asks EXCEPT ![r] = ask] /\ UNCHANGED <<tock, store, sweep, clears>>
  BY DEF Hit, AskGoes, CacheIInv, CacheTypeOK
<1> HIDE DEF e
<1>5. ask \in Ask /\ ask.stage = "answered" /\ ask.prompt = asks[r].prompt /\ ask.provider = Primary
      /\ ask.answer = e
  BY <1>1, <1>3 DEF Ask
<1> HIDE DEF ask
<1>6. Fits(ask)
  BY <1>2, <1>5 DEF Fits
<1> QED BY <1>4, <1>5, <1>6, AskStep

LEMMA MissStep ==
  ASSUME CacheIInv, NEW r \in Askers, Miss(r)
  PROVE  CacheIInv'
<1> DEFINE ask == [asks[r] EXCEPT !.stage = "calling", !.prompt = Sent[@]]
<1>1. asks[r] \in Ask
  BY OfRequest
<1>2. ask \in Ask /\ ask.stage = "calling"
  BY <1>1, CacheAssumption DEF Ask
<1>3. asks' = [asks EXCEPT ![r] = ask] /\ UNCHANGED <<tock, store, sweep, clears>>
  BY DEF Miss, CacheIInv, CacheTypeOK
<1> HIDE DEF ask
<1>4. Fits(ask)
  BY <1>2 DEF Fits
<1> QED BY <1>2, <1>3, <1>4, AskStep

LEMMA ProvideStep ==
  ASSUME CacheIInv, NEW r \in Askers, NEW v \in Providers, NEW stop \in BOOLEAN, Provide(r, v, stop)
  PROVE  CacheIInv'
<1> DEFINE a == Response(asks[r].prompt, v, stop)
           ask == [asks[r] EXCEPT !.stage = "answered", !.provider = v, !.answer = a]
<1>1. asks[r] \in Ask
  BY OfRequest
<1>2. a \in Answers /\ a.stop = stop
  BY <1>1 DEF Answers, Ask, Response
<1>3. a.stop => a = Response(asks[r].prompt, v, TRUE)
  BY <1>2
<1>4. asks' = [asks EXCEPT ![r] = ask] /\ UNCHANGED <<tock, store, sweep, clears>>
  BY DEF Provide, AskGoes, CacheIInv, CacheTypeOK
<1> HIDE DEF a
<1>5. ask \in Ask /\ ask.stage = "answered" /\ ask.prompt = asks[r].prompt /\ ask.provider = v
      /\ ask.answer = a
  BY <1>1, <1>2 DEF Ask
<1> HIDE DEF ask
<1>6. Fits(ask)
  BY <1>3, <1>5 DEF Fits
<1> QED BY <1>4, <1>5, <1>6, AskStep

LEMMA FailStep ==
  ASSUME CacheIInv, NEW r \in Askers, AskFails(r)
  PROVE  CacheIInv'
<1> DEFINE ask == [asks[r] EXCEPT !.stage = "ended", !.provider = Fallback, !.answer = asks[r].answer]
<1>1. asks[r] \in Ask
  BY OfRequest
<1>2. ask \in Ask /\ ask.stage = "ended"
  BY <1>1 DEF Ask, Providers
<1>3. asks' = [asks EXCEPT ![r] = ask] /\ UNCHANGED <<tock, store, sweep, clears>>
  BY DEF AskFails, AskGoes, CacheIInv, CacheTypeOK
<1> HIDE DEF ask
<1>4. Fits(ask)
  BY <1>2 DEF Fits
<1> QED BY <1>2, <1>3, <1>4, AskStep

\* The store and the sweep change; the requests keep fitting.
LEMMA StoreStep ==
  ASSUME CacheIInv, store' \in [CacheKeys -> Entry \cup {Absent}], asks' \in [Askers -> Ask],
         sweep' \in [on : BOOLEAN, keys : SUBSET CacheKeys], tock' \in Nat, clears' \in Nat,
         \A r \in Askers : Fits(asks'[r]),
         \A k \in CacheKeys : store'[k] # Absent =>
           /\ store'[k].answer = Response(k[1], k[2], TRUE)
           /\ sweep'.on => store'[k].after = clears' \/ k \in sweep'.keys
  PROVE  CacheIInv'
<1>1. CacheTypeOK'
  BY DEF CacheTypeOK
<1>2. \A k \in Present' : k \in CacheKeys /\ store'[k] # Absent
  BY DEF Present
<1>3. EntriesGenuine' /\ \A k \in Present' : Covered(k)'
  BY <1>2 DEF EntriesGenuine, Covered
<1>4. \A r \in Askers : Fits(asks[r])'
  BY DEF Fits
<1> QED BY <1>1, <1>3, <1>4 DEF CacheIInv

\* What is known of the store before a step.
LEMMA OfStore ==
  ASSUME CacheIInv
  PROVE  /\ CacheTypeOK /\ \A r \in Askers : Fits(asks[r])
         /\ \A k \in CacheKeys : store[k] # Absent =>
              /\ store[k].answer = Response(k[1], k[2], TRUE)
              /\ sweep.on => store[k].after = clears \/ k \in sweep.keys
BY DEF CacheIInv, EntriesGenuine, Covered, Present

LEMMA KeepStep ==
  ASSUME CacheIInv, NEW r \in Askers, Keep(r)
  PROVE  CacheIInv'
<1> DEFINE ask == [asks[r] EXCEPT !.stage = "ended", !.provider = asks[r].provider,
                                  !.answer = asks[r].answer]
           entry == [answer |-> asks[r].answer, until |-> tock + Ttl, after |-> clears]
<1>1. asks[r] \in Ask /\ Fits(asks[r]) /\ Key(r) \in CacheKeys /\ asks[r].stage = "answered"
      /\ Key(r)[1] = asks[r].prompt /\ Key(r)[2] = asks[r].provider
  BY OfRequest DEF Keep, AskGoes
<1>2. ask \in Ask /\ Fits(ask)
  BY <1>1 DEF Ask, Fits
<1>3. asks' = [asks EXCEPT ![r] = ask] /\ UNCHANGED <<tock, sweep, clears>>
  BY DEF Keep, AskGoes, CacheIInv, CacheTypeOK
<1> HIDE DEF ask
<1>4. CASE store' = store
  BY <1>2, <1>3, <1>4, AskStep
<1>5. CASE asks[r].answer.stop /\ store' = [store EXCEPT ![Key(r)] = entry]
  <2>1. asks[r].answer = Response(Key(r)[1], Key(r)[2], TRUE)
    BY <1>1, <1>5 DEF Fits
  <2>2. entry \in Entry /\ entry # Absent /\ entry.answer = asks[r].answer /\ entry.after = clears
    <3>1. tock + Ttl \in Nat /\ clears \in Nat
      BY CacheAssumption DEF CacheIInv, CacheTypeOK
    <3>2. asks[r].answer \in Answers
      BY <1>1 DEF Ask
    <3>3. entry \in Entry
      BY <3>1, <3>2 DEF Entry
    <3> QED BY <3>3, AbsentAssumption
  <2> HIDE DEF entry
  <2>3. /\ store' \in [CacheKeys -> Entry \cup {Absent}] /\ store'[Key(r)] = entry
        /\ \A k \in CacheKeys : k # Key(r) => store'[k] = store[k]
    BY <1>1, <1>5, <2>2 DEF CacheIInv, CacheTypeOK
  <2>4. \A k \in CacheKeys : store'[k] # Absent =>
          /\ store'[k].answer = Response(k[1], k[2], TRUE)
          /\ sweep'.on => store'[k].after = clears' \/ k \in sweep'.keys
    BY <1>3, <2>1, <2>2, <2>3, OfStore
  <2>5. asks' \in [Askers -> Ask] /\ \A q \in Askers : Fits(asks'[q])
    BY <1>2, <1>3 DEF CacheIInv, CacheTypeOK
  <2> QED BY <1>3, <2>3, <2>4, <2>5, StoreStep DEF CacheIInv, CacheTypeOK
<1> QED BY <1>4, <1>5 DEF Keep, KeyOfAnswer

LEMMA DropStep ==
  ASSUME CacheIInv, NEW keys \in SUBSET CacheKeys, Drop(keys)
  PROVE  CacheIInv'
<1>1. /\ store' = [k \in CacheKeys |-> IF k \in keys THEN Absent ELSE store[k]]
      /\ sweep' = [sweep EXCEPT !.keys = @ \ keys]
      /\ UNCHANGED <<tock, asks, clears>>
  BY DEF Drop
<1>2. sweep' \in [on : BOOLEAN, keys : SUBSET CacheKeys]
      /\ sweep'.on = sweep.on /\ sweep'.keys = sweep.keys \ keys
  BY <1>1 DEF CacheIInv, CacheTypeOK
<1>3. store' \in [CacheKeys -> Entry \cup {Absent}]
      /\ \A k \in CacheKeys : store'[k] # Absent => k \notin keys /\ store'[k] = store[k]
  BY <1>1 DEF CacheIInv, CacheTypeOK
<1>4. \A k \in CacheKeys : store'[k] # Absent =>
        /\ store'[k].answer = Response(k[1], k[2], TRUE)
        /\ sweep'.on => store'[k].after = clears' \/ k \in sweep'.keys
  BY <1>1, <1>2, <1>3, OfStore
<1> QED BY <1>1, <1>2, <1>3, <1>4, OfStore, StoreStep DEF CacheTypeOK

\* A sweep begins with all keys, or ends.
LEMMA SweepStep ==
  ASSUME CacheIInv, Clear \/ Cleared
  PROVE  CacheIInv'
<1>1. UNCHANGED <<tock, store, asks>>
  BY DEF Clear, Cleared
<1>2. /\ sweep' \in [on : BOOLEAN, keys : SUBSET CacheKeys] /\ clears' \in Nat
      /\ sweep'.on => sweep'.keys = Present
  <2>1. CASE Clear
    BY <2>1, OfStore DEF Clear, Present, CacheTypeOK
  <2>2. CASE Cleared
    BY <2>2, OfStore DEF Cleared, CacheTypeOK
  <2> QED BY <2>1, <2>2
<1>3. \A k \in CacheKeys : store'[k] # Absent =>
        /\ store'[k].answer = Response(k[1], k[2], TRUE)
        /\ sweep'.on => k \in sweep'.keys
  BY <1>1, <1>2, OfStore DEF Present
<1> QED BY <1>1, <1>2, <1>3, OfStore, StoreStep DEF CacheTypeOK

LEMMA TickStep ==
  ASSUME CacheIInv, Tock
  PROVE  CacheIInv'
<1>1. tock' \in Nat /\ UNCHANGED <<store, asks, sweep, clears>>
  BY OfStore DEF Tock, CacheTypeOK
<1> QED BY <1>1, OfStore, StoreStep DEF CacheTypeOK

LEMMA CacheStep ==
  ASSUME CacheIInv, [CacheNext]_cacheVars
  PROVE  CacheIInv'
<1>1. ASSUME NEW r \in Askers, Hit(r) \/ Miss(r) \/ AskFails(r) \/ Keep(r) PROVE CacheIInv'
  BY <1>1, HitStep, MissStep, FailStep, KeepStep
<1>2. ASSUME NEW r \in Askers, NEW v \in Providers, NEW stop \in BOOLEAN, Provide(r, v, stop)
      PROVE  CacheIInv'
  BY <1>2, ProvideStep
<1>3. ASSUME NEW k \in CacheKeys, DropExpired(k) \/ Invalidate(k) PROVE CacheIInv'
  <2>1. Drop({k}) /\ {k} \in SUBSET CacheKeys
    BY <1>3 DEF DropExpired, Invalidate
  <2> QED BY <2>1, DropStep
<1>4. ASSUME NEW keys \in SUBSET CacheKeys, Scan(keys) PROVE CacheIInv'
  BY <1>4, DropStep DEF Scan
<1>5. CASE Clear \/ Cleared \/ Tock
  BY <1>5, SweepStep, TickStep
<1>6. CASE UNCHANGED cacheVars
  BY <1>6, OfStore, StoreStep DEF CacheTypeOK, cacheVars
<1> QED BY <1>1, <1>2, <1>3, <1>4, <1>5, <1>6 DEF CacheNext

\* Every reachable state satisfies the inductive invariant.
LEMMA CacheInvariance == CacheSpec => []CacheIInv
<1>1. CacheInit => CacheIInv
  BY CacheInitially
<1>2. CacheIInv /\ [CacheNext]_cacheVars => CacheIInv'
  BY CacheStep
<1> QED BY <1>1, <1>2, PTL DEF CacheSpec

-----------------------------------------------------------------------------
(* Theorems *)

\* An entry under a key is a complete answer of the key's provider to the key's
\* prompt, for any requests, fallbacks and hits that are stored once more
\* (distributed_cache.py:297).
THEOREM EntriesAreGenuine == CacheSpec => []EntriesGenuine
<1>1. CacheIInv => EntriesGenuine
  BY DEF CacheIInv
<1> QED BY CacheInvariance, <1>1, PTL

\* When clear_cache ends, every entry left was stored after it began, although
\* requests store and hit entries while it walks over the keys
\* (distributed_cache.py:169).
THEOREM ClearIsComplete == CacheSpec => ClearCovers
<1> DEFINE Complete == sweep.on /\ ~sweep'.on => \A k \in Present : store[k].after = clears
<1>1. CacheIInv /\ [CacheNext]_cacheVars => [Complete]_cacheVars
  <2> SUFFICES ASSUME CacheIInv, CacheNext, sweep.on, ~sweep'.on, NEW k \in Present
               PROVE  store[k].after = clears
    OBVIOUS
  <2>1. ASSUME NEW keys, Drop(keys) PROVE FALSE
    BY <2>1 DEF Drop, CacheIInv, CacheTypeOK
  <2>2. sweep.keys = {}
    BY <2>1 DEF CacheNext, Hit, Miss, AskFails, Keep, Provide, DropExpired, Invalidate, Scan, Clear, Cleared, Tock
  <2> QED BY <2>2 DEF CacheIInv, Covered
<1> QED BY CacheInvariance, <1>1, PTL DEF CacheSpec, ClearCovers

-----------------------------------------------------------------------------
(* The rate limit.                                                           *)

LimitTypes ==
  /\ time \in Nat
  /\ zset \in [LimitKeys -> SUBSET Nat]
  /\ dies \in [LimitKeys -> Nat]
  /\ counted \in [LimitKeys -> SUBSET [at : Nat, stamp : Nat]]

\* A request that was counted is not stamped with the past, the key outlives its
\* window, and as long as it may count by any clock its stamp is a member.
Kept(k, c) ==
  /\ c.at <= time /\ c.at <= c.stamp /\ c.at + Life <= dies[k]
  /\ c.at > time - (RateWindow - MostAhead) => c.stamp \in zset[k]

\* The set is no larger than the limit, and holds all that may be counted in a
\* window of any instance; it lives until the last of it is too old.
SetKept(k) ==
  /\ IsFiniteSet(zset[k]) /\ Cardinality(zset[k]) <= MaxRequests
  /\ \A c \in counted[k] : Kept(k, c)

LimitIInv == LimitTypes /\ RateShared /\ \A k \in LimitKeys : SetKept(k)

LEMMA LimitBounds ==
  /\ MaxRequests \in Nat \ {0} /\ RateWindow \in Nat /\ Second \in Nat \ {0}
  /\ Life \in Nat /\ Life >= RateWindow
  /\ MostAhead \in Nat
  /\ \A s \in ClockSkews : s \in Nat /\ s <= MostAhead
<1> DEFINE P(s) == s \in ClockSkews /\ \A t \in ClockSkews : t <= s
<1>1. \E s : P(s)
  BY LimitAssumption DEF LimitAssumption
<1>2. P(CHOOSE s : P(s))
  <2> HIDE DEF P
  <2> QED
    BY <1>1
<1>3. MostAhead = CHOOSE s : P(s)
  BY DEF MostAhead
<1>4. P(MostAhead)
  BY <1>2, <1>3
<1> QED
  BY <1>4, LimitAssumption DEF LimitAssumption, Life

LEMMA LimitInitially == LimitInit => LimitIInv
<1> SUFFICES ASSUME LimitInit PROVE LimitIInv
  OBVIOUS
<1>1. LimitTypes
  BY DEF LimitInit, LimitTypes
<1>2. RateShared
  BY DEF LimitInit, RateShared
<1>3. ASSUME NEW k \in LimitKeys PROVE SetKept(k)
  BY LimitBounds, FS_EmptySet DEF LimitInit, SetKept
<1> QED
  BY <1>1, <1>2, <1>3 DEF LimitIInv

\* What may be counted is not too old by any clock.
LEMMA LiveKeeps ==
  ASSUME LimitIInv, NEW k \in LimitKeys, NEW s \in ClockSkews,
         NEW c \in counted[k],
         c.at > time - (RateWindow - MostAhead)
  PROVE  c.stamp \in Live(k, time + s)
<1>1. c.at \in Nat /\ c.stamp \in Nat /\ time \in Nat
  BY DEF LimitIInv, LimitTypes
<1>2. c.stamp \in zset[k] /\ c.at <= c.stamp
  BY DEF LimitIInv, SetKept, Kept
<1>3. c.stamp > (time + s) - RateWindow
  BY <1>1, <1>2, LimitBounds
<1> QED
  BY <1>2, <1>3 DEF Live

LEMMA LiveFinite ==
  ASSUME LimitIInv, NEW k \in LimitKeys, NEW t
  PROVE  /\ Live(k, t) \subseteq zset[k] /\ IsFiniteSet(Live(k, t))
         /\ Cardinality(Live(k, t)) <= Cardinality(zset[k])
         /\ Cardinality(Live(k, t)) \in Nat /\ Cardinality(zset[k]) \in Nat
<1>1. IsFiniteSet(zset[k]) /\ Live(k, t) \subseteq zset[k]
  BY DEF LimitIInv, SetKept, Live
<1> QED
  BY <1>1, FS_Subset, FS_CardinalityType

\* Another key, or time, is not touched.
LEMMA OtherKey ==
  ASSUME LimitIInv, NEW k \in LimitKeys, UNCHANGED time,
         zset'[k] = zset[k], dies'[k] = dies[k], counted'[k] = counted[k]
  PROVE  /\ SetKept(k)'
         /\ \A c \in counted'[k] : Cardinality(StampsUpto(k, c.at)') <= MaxRequests
<1>1. SetKept(k)'
  BY DEF LimitIInv, SetKept, Kept
<1>2. \A c \in counted[k] : Cardinality(StampsUpto(k, c.at)) <= MaxRequests
  BY DEF LimitIInv, RateShared
<1> QED
  BY <1>1, <1>2 DEF StampsUpto

\* Removing what is too old.
LEMMA Removes ==
  ASSUME LimitIInv, NEW k \in LimitKeys, NEW s \in ClockSkews,
         zset' = [zset EXCEPT ![k] = Live(k, time + s)],
         UNCHANGED <<time, dies, counted>>
  PROVE  LimitIInv'
<1>1. LimitTypes'
  BY LiveFinite DEF LimitIInv, LimitTypes
<1>2. RateShared'
  BY DEF LimitIInv, RateShared, StampsUpto
<1>3. SetKept(k)'
  <2>1. zset'[k] = Live(k, time + s)
    BY DEF LimitIInv, LimitTypes
  <2>2. IsFiniteSet(zset'[k]) /\ Cardinality(zset'[k]) <= MaxRequests
    BY <2>1, LiveFinite, LimitBounds DEF LimitIInv, SetKept
  <2>3. \A c \in counted[k] :
          c.at > time - (RateWindow - MostAhead) => c.stamp \in zset'[k]
    BY <2>1, LiveKeeps
  <2> QED
    BY <2>2, <2>3 DEF LimitIInv, SetKept, Kept
<1>4. ASSUME NEW l \in LimitKeys, l # k PROVE SetKept(l)'
  <2>1. zset'[l] = zset[l]
    BY <1>4 DEF LimitIInv, LimitTypes
  <2> QED
    BY <2>1, OtherKey
<1> QED
  BY <1>1, <1>2, <1>3, <1>4 DEF LimitIInv

LEMMA Counts ==
  ASSUME LimitIInv, NEW k \in LimitKeys, NEW s \in ClockSkews,
         Count(k, time + s)
  PROVE  LimitIInv'
<1> DEFINE t == time + s
           new == [at |-> time, stamp |-> t]
<1>1. /\ HasRoom(k, t)
      /\ zset' = [zset EXCEPT ![k] = Live(k, t) \cup {t}]
      /\ dies' = [dies EXCEPT ![k] = time + Life]
      /\ counted' = [counted EXCEPT ![k] = @ \cup {new}]
      /\ UNCHANGED time
  BY DEF Count
<1>2. /\ time \in Nat /\ t \in Nat /\ t >= time
      /\ counted[k] \subseteq [at : Nat, stamp : Nat]
      /\ Live(k, t) \subseteq Nat
      /\ new \in [at : Nat, stamp : Nat] /\ new.at = time /\ new.stamp = t
  BY LiveFinite, LimitBounds DEF LimitIInv, LimitTypes
<1>3. \A c \in counted[k] :
        c.at > time - (RateWindow - MostAhead) => c.stamp \in Live(k, t)
  BY LiveKeeps
<1> HIDE DEF t, new
<1>4. LimitTypes'
  BY <1>1, <1>2, LimitBounds DEF LimitIInv, LimitTypes
<1>5. /\ zset'[k] = Live(k, t) \cup {t}
      /\ dies'[k] = time + Life
      /\ counted'[k] = counted[k] \cup {new}
  BY <1>1 DEF LimitIInv, LimitTypes
<1>6. IsFiniteSet(zset'[k]) /\ Cardinality(zset'[k]) <= MaxRequests
  <2>1. IsFiniteSet(Live(k, t)) /\ Cardinality(Live(k, t)) \in Nat
    BY LiveFinite
  <2>2. Cardinality(Live(k, t)) < MaxRequests
    BY <1>1 DEF HasRoom
  <2> DEFINE live == Live(k, t)
  <2> HIDE DEF live
  <2>3. /\ IsFiniteSet(live \cup {t})
        /\ Cardinality(live \cup {t}) = Cardinality(live)
           \/ Cardinality(live \cup {t}) = Cardinality(live) + 1
    <3>1. IsFiniteSet(live)
      BY <2>1 DEF live
    <3> QED
      BY <3>1, FS_AddElement
  <2> QED
    BY <1>5, <2>1, <2>2, <2>3, LimitBounds DEF live
<1>7. ASSUME NEW c \in counted'[k]
      PROVE  Kept(k, c)'
  <2>1. CASE c = new
    BY <1>1, <1>2, <1>5, <2>1, LimitBounds DEF Kept
  <2>2. CASE c \in counted[k]
    <3>1. c.at \in Nat /\ c.at <= time /\ c.at <= c.stamp
      BY <1>2, <2>2 DEF LimitIInv, SetKept, Kept
    <3>2. c.at + Life <= dies'[k]
      BY <1>2, <1>5, <3>1, LimitBounds, SMTT(40)
    <3> QED
      BY <1>1, <1>3, <1>5, <2>2, <3>1, <3>2 DEF Kept
  <2> QED
    BY <1>5, <2>1, <2>2
<1>8. SetKept(k)'
  BY <1>6, <1>7 DEF SetKept
<1>9. ASSUME NEW c \in counted'[k]
      PROVE  Cardinality(StampsUpto(k, c.at)') <= MaxRequests
  <2>1. StampsUpto(k, c.at)' =
          {e.stamp : e \in {d \in counted'[k] : /\ d.at <= c.at
                                               /\ d.at > c.at - (RateWindow - MostAhead)}}
    BY DEF StampsUpto
  <2>2. CASE c.at = time
    <3>1. StampsUpto(k, c.at)' \subseteq zset'[k]
      BY <1>1, <1>7, <2>1, <2>2 DEF Kept
    <3>2. /\ IsFiniteSet(StampsUpto(k, c.at)')
          /\ Cardinality(StampsUpto(k, c.at)') <= Cardinality(zset'[k])
      BY <1>6, <3>1, FS_Subset
    <3> QED
      BY <1>6, <3>2, FS_CardinalityType, LimitBounds
  <2>3. CASE c.at # time
    <3>1. c.at < time /\ c \in counted[k] /\ c.at \in Nat
      BY <1>1, <1>2, <1>5, <1>7, <2>3 DEF Kept
    <3>2. \A d \in counted'[k] : d.at <= c.at => d \in counted[k]
      BY <1>2, <1>5, <3>1
    <3>3. StampsUpto(k, c.at)' = StampsUpto(k, c.at)
      BY <1>5, <2>1, <3>2 DEF StampsUpto
    <3> QED
      BY <3>1, <3>3 DEF LimitIInv, RateShared
  <2> QED
    BY <2>2, <2>3
<1>10. ASSUME NEW l \in LimitKeys, l # k
       PROVE  /\ SetKept(l)'
              /\ \A c \in counted'[l] : Cardinality(StampsUpto(l, c.at)') <= MaxRequests
  <2>1. zset'[l] = zset[l] /\ dies'[l] = dies[l] /\ counted'[l] = counted[l]
    BY <1>1, <1>10 DEF LimitIInv, LimitTypes
  <2> QED
    BY <1>1, <2>1, OtherKey
<1>11. RateShared'
  BY <1>9, <1>10 DEF RateShared
<1> QED
  BY <1>4, <1>8, <1>10, <1>11 DEF LimitIInv

\* A key that is deleted or expires takes all its members with it; nothing
\* that may be counted is left then, or the count starts afresh.
LEMMA Empties ==
  ASSUME LimitIInv, NEW keys \in SUBSET LimitKeys, UNCHANGED <<time, dies>>,
         zset' = [k \in LimitKeys |-> IF k \in keys THEN {} ELSE zset[k]],
         \A k \in LimitKeys \ keys : counted'[k] = counted[k],
         \A k \in keys : \/ counted'[k] = {}
                         \/ counted'[k] = counted[k] /\ time >= dies[k],
         counted' \in [LimitKeys -> SUBSET [at : Nat, stamp : Nat]]
  PROVE  LimitIInv'
<1>1. LimitTypes'
  BY DEF LimitIInv, LimitTypes
<1>2. ASSUME NEW k \in LimitKeys
      PROVE  /\ SetKept(k)'
             /\ \A c \in counted'[k] : Cardinality(StampsUpto(k, c.at)') <= MaxRequests
  <2>1. CASE k \notin keys
    BY <2>1, OtherKey
  <2>2. CASE k \in keys /\ counted'[k] = {}
    BY <2>2, FS_EmptySet, LimitBounds DEF SetKept
  <2>3. CASE k \in keys /\ counted'[k] = counted[k] /\ time >= dies[k]
    <3>1. \A c \in counted[k] :
            c.at \in Nat /\ c.at <= time /\ c.at <= c.stamp /\ c.at + Life <= dies[k]
      BY DEF LimitIInv, SetKept, Kept, LimitTypes
    <3>2. \A c \in counted[k] : ~(c.at > time - (RateWindow - MostAhead))
      BY <2>3, <3>1, LimitBounds DEF LimitIInv, LimitTypes
    <3>3. SetKept(k)'
      BY <2>3, <3>1, <3>2, FS_EmptySet, LimitBounds DEF SetKept, Kept
    <3>4. \A c \in counted[k] : Cardinality(StampsUpto(k, c.at)) <= MaxRequests
      BY DEF LimitIInv, RateShared
    <3> QED
      BY <2>3, <3>3, <3>4 DEF StampsUpto
  <2> QED
    BY <2>1, <2>2, <2>3
<1>3. RateShared'
  BY <1>2 DEF RateShared
<1> QED
  BY <1>1, <1>2, <1>3 DEF LimitIInv

LEMMA LimitStep ==
  ASSUME LimitIInv, [LimitNext]_limitVars
  PROVE  LimitIInv'
<1>1. ASSUME NEW k \in LimitKeys, NEW s \in ClockSkews,
             Request(k, time + s) \/ GetUsage(k, time + s)
      PROVE  LimitIInv'
  <2>1. CASE Count(k, time + s)
    BY <2>1, Counts
  <2>2. CASE Full(k, time + s) \/ GetUsage(k, time + s)
    BY <2>2, Removes DEF Full, GetUsage
  <2> QED
    BY <1>1, <2>1, <2>2 DEF Request
<1>2. ASSUME NEW keys \in SUBSET LimitKeys, Delete(keys)
      PROVE  LimitIInv'
  <2>1. counted' \in [LimitKeys -> SUBSET [at : Nat, stamp : Nat]]
    BY <1>2 DEF Delete, LimitIInv, LimitTypes
  <2> QED
    BY <1>2, <2>1, Empties DEF Delete
<1>3. ASSUME NEW k \in LimitKeys, ResetSession(k[1])
      PROVE  LimitIInv'
  BY <1>2, <1>3 DEF ResetSession
<1>4. ASSUME NEW keys \in SUBSET LimitKeys, ResetBatch(keys)
      PROVE  LimitIInv'
  BY <1>2, <1>4 DEF ResetBatch
<1>5. ASSUME NEW k \in LimitKeys, KeyExpires(k)
      PROVE  LimitIInv'
  <2>1. zset' = [l \in LimitKeys |-> IF l \in {k} THEN {} ELSE zset[l]]
    BY <1>5 DEF KeyExpires, LimitIInv, LimitTypes
  <2>2. UNCHANGED <<time, dies, counted>> /\ time >= dies[k]
        /\ counted' \in [LimitKeys -> SUBSET [at : Nat, stamp : Nat]]
    BY <1>5 DEF KeyExpires, LimitIInv, LimitTypes
  <2>3. {k} \in SUBSET LimitKeys
    OBVIOUS
  <2>4. /\ \A l \in LimitKeys \ {k} : counted'[l] = counted[l]
        /\ \A l \in {k} : \/ counted'[l] = {}
                          \/ counted'[l] = counted[l] /\ time >= dies[l]
    BY <2>2
  <2> QED
    BY <2>1, <2>2, <2>3, <2>4, Empties
<1>6. CASE LimitTick
  <2>1. LimitTypes' /\ RateShared'
    BY <1>6 DEF LimitTick, LimitIInv, LimitTypes, RateShared, StampsUpto
  <2>2. ASSUME NEW k \in LimitKeys PROVE SetKept(k)'
    <3>1. \A c \in counted[k] : c.at \in Nat
      BY DEF LimitIInv, LimitTypes
    <3>2. /\ time \in Nat /\ time' = time + 1
          /\ UNCHANGED <<zset, dies, counted>> /\ SetKept(k)
      BY <1>6 DEF LimitTick, LimitIInv, LimitTypes
    <3>3. ASSUME NEW c \in counted[k]
          PROVE  /\ c.at <= time + 1
                 /\ c.at > (time + 1) - (RateWindow - MostAhead) =>
                      c.at > time - (RateWindow - MostAhead)
      BY <3>1, <3>2, LimitBounds DEF SetKept, Kept
    <3> QED
      BY <3>2, <3>3 DEF SetKept, Kept
  <2> QED
    BY <2>1, <2>2 DEF LimitIInv
<1>7. CASE UNCHANGED limitVars
  BY <1>7 DEF limitVars, LimitIInv, LimitTypes, RateShared, StampsUpto, SetKept,
              Kept
<1> QED
  BY <1>1, <1>3, <1>4, <1>5, <1>6, <1>7 DEF LimitNext

LEMMA LimitInvariant == LimitSpec => []LimitIInv
BY LimitInitially, LimitStep, PTL DEF LimitSpec

\* The requests that all instances let through in a window, less the difference
\* of their clocks, have no more stamps than the limit, for any limit, window and
\* clocks: the stamp of whatever may be counted is still a member of the set, and
\* the set is no larger than the limit.
THEOREM RateIsShared == LimitSpec => []RateShared
<1>1. LimitIInv => RateShared
  BY DEF LimitIInv
<1> QED
  BY <1>1, LimitInvariant, PTL

LEMMA OldestIsLeast ==
  ASSUME NEW members \in SUBSET Nat, members # {}
  PROVE  Oldest(members) \in members
<1> DEFINE Least(s) == s \in members /\ \A m \in members : s <= m
<1>1. PICK x \in members : \A y \in members : ~(<<y, x>> \in OpToRel(<, Nat))
  BY NatLessThanWellFounded, WFMin
<1>2. \A y \in members : ~(y < x)
  BY <1>1 DEF OpToRel
<1>3. Least(x)
  BY <1>2
<1>4. Least(CHOOSE s : Least(s))
  <2> HIDE DEF Least
  <2> QED
    BY <1>3
<1>5. Oldest(members) = CHOOSE s : Least(s)
  BY DEF Oldest
<1> QED
  BY <1>4, <1>5

\* What is truncated to no seconds is less than one.
LEMMA LessThanASecond ==
  ASSUME NEW ticks \in Nat, ticks \div Second = 0
  PROVE  ticks < Second
BY LimitBounds

\* A full set has room a second after retry_after was truncated to nothing.
LEMMA RoomInASecond ==
  ASSUME LimitIInv, NEW k \in LimitKeys, NEW s \in ClockSkews,
         ~HasRoom(k, time + s), RetryAfter(k, time + s) = 0
  PROVE  HasRoom(k, time + s + Second)
<1> DEFINE t == time + s
           live == Live(k, t)
           o == Oldest(live)
<1>1. /\ zset[k] \subseteq Nat /\ time \in Nat /\ t \in Nat
      /\ IsFiniteSet(zset[k]) /\ Cardinality(zset[k]) <= MaxRequests
      /\ live \subseteq zset[k]
  BY LiveFinite, LimitBounds DEF LimitIInv, LimitTypes, SetKept
<1>2. live # {}
  BY FS_EmptySet, LimitBounds DEF HasRoom
<1> HIDE DEF t
<1>3. o \in live
  <2> HIDE DEF live
  <2> QED
    BY <1>1, <1>2, OldestIsLeast
<1>4. o \in zset[k] /\ o \in Nat /\ o > t - RateWindow
  BY <1>1, <1>3 DEF Live
<1>5. o <= (t + Second) - RateWindow
  <2>1. RateWindow - (t - o) \in Nat
    BY <1>1, <1>4, LimitBounds
  <2>2. (RateWindow - (t - o)) \div Second = 0
    BY DEF RetryAfter, t
  <2>3. RateWindow - (t - o) < Second
    BY <2>1, <2>2, LessThanASecond
  <2> QED
    BY <1>1, <1>4, <2>3, LimitBounds
<1>6. Live(k, t + Second) \subseteq zset[k] \ {o}
  BY <1>1, <1>4, <1>5, LimitBounds DEF Live
<1>7. Cardinality(zset[k] \ {o}) = Cardinality(zset[k]) - 1
      /\ IsFiniteSet(zset[k] \ {o})
  BY <1>1, <1>4, FS_RemoveElement
<1>8. Cardinality(Live(k, t + Second)) <= Cardinality(zset[k] \ {o})
      /\ Cardinality(Live(k, t + Second)) \in Nat
  BY <1>6, <1>7, FS_Subset, FS_CardinalityType
<1> QED
  BY <1>1, <1>7, <1>8, FS_CardinalityType, LimitBounds DEF HasRoom, t

\* A request that goes through uncounted is less than a second early: the window
\* of its key would have had room a second later, for any limit, window, clocks
\* and length of a second.
THEOREM AtMostASecondEarlyHolds == LimitSpec => AtMostASecondEarly
<1> DEFINE Early == \A s \in slipped' : HasRoom(s[1], s[2] + Second)
<1>1. LimitIInv /\ [LimitNext]_limitVars => [Early]_limitVars
  <2> SUFFICES ASSUME LimitIInv, LimitNext, NEW r \in slipped'
               PROVE  HasRoom(r[1], r[2] + Second)
    OBVIOUS
  <2>1. PICK k \in LimitKeys, s \in ClockSkews :
          Full(k, time + s) /\ slipped' # {}
    BY DEF LimitNext, Request, Count, GetUsage, ResetSession, ResetBatch, Delete,
           KeyExpires, LimitTick
  <2>2. /\ r = <<k, time + s>> /\ ~HasRoom(k, time + s)
        /\ RetryAfter(k, time + s) = 0
    BY <2>1 DEF Full
  <2> QED
    BY <2>2, RoomInASecond
<1> QED
  BY <1>1, LimitInvariant, PTL DEF LimitSpec, AtMostASecondEarly

=============================================================================
