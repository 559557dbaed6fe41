------------------------ MODULE ToolIdempotency_proofs ------------------------
(***************************************************************************)
(* Proofs about ToolIdempotency, for any number of calls and keys, any mix  *)
(* of threaded and asynchronous tools and any size and lifetime of the      *)
(* cache.                                                                   *)
(***************************************************************************)
EXTENDS ToolIdempotency, FiniteSetTheorems, WellFoundedInduction, TLAPS

-----------------------------------------------------------------------------
(* The inductive invariant *)

\* What the registry knows of call c at each stage.  An ended call holds the
\* reply of a call under the same key that has ended in the same way, so that
\* replies can be handed on without looking at the execution again.
Idle(c) == calls[c].stage = "idle" => future[c] = "none"

Running(c) == calls[c].stage = "running" =>
  /\ calls[c].key \in Keys
  /\ future[c] = "pending"
  /\ inFlight[calls[c].key] = c

Joining(c) == calls[c].stage = "joining" =>
  /\ calls[c].key \in Keys
  /\ calls[c].on \in Calls
  /\ future[calls[c].on] # "none"
  /\ calls[calls[c].on].key = calls[c].key

Genuine(c) == calls[c].stage = "ended" =>
  LET from == calls[c].reply.from IN
  /\ calls[c].key \in Keys
  /\ from \in Calls
  /\ calls[from].stage = "ended"
  /\ calls[from].key = calls[c].key
  /\ calls[from].reply.kind = calls[c].reply.kind
  /\ calls[c].reply.kind = "result" => runs[from] = "succeeded"
  /\ calls[c].reply.kind = "error" => runs[from] = "failed"

FutureSet(c) ==
  /\ future[c] = "pending" => calls[c].stage = "running"
  /\ future[c] \in Outcome =>
       /\ calls[c].stage = "ended"
       /\ calls[c].reply = [kind |-> future[c], from |-> c]

Owned(k) == inFlight[k] # None =>
  calls[inFlight[k]].stage = "running" /\ calls[inFlight[k]].key = k

Cached(k) == cache[k] # None =>
  LET c == cache[k].run IN
  /\ runs[c] = "succeeded"
  /\ calls[c].key = k
  /\ calls[c].stage = "ended"
  /\ calls[c].reply.kind = "result"

GoodCall(c) == Idle(c) /\ Running(c) /\ Joining(c) /\ Genuine(c) /\ FutureSet(c)

IInv == /\ TypeOK
        /\ \A c \in Calls : GoodCall(c)
        /\ \A k \in Keys : Owned(k) /\ Cached(k)

\* The invariant gives the properties of the specification.
LEMMA IInvImplies == IInv => SingleFlight /\ RepliesAreGenuine /\ OnlySuccessCached
<1> SUFFICES ASSUME IInv PROVE SingleFlight /\ RepliesAreGenuine /\ OnlySuccessCached
  OBVIOUS
<1>1. SingleFlight
  <2>1. ASSUME NEW k \in Keys, NEW c \in Calls, inFlight[k] = c
        PROVE  calls[c].stage = "running" /\ calls[c].key = k
    <3>1. inFlight[k] # None
      BY <2>1, RegistryAssumption
    <3>2. QED
      BY <2>1, <3>1 DEF IInv, Owned
  <2>2. ASSUME NEW k \in Keys, NEW c \in Calls, calls[c].stage = "running", calls[c].key = k
        PROVE  inFlight[k] = c
    BY <2>2 DEF IInv, GoodCall, Running
  <2>3. \A c \in Calls : future[c] = "pending" <=> calls[c].stage = "running"
    BY DEF IInv, GoodCall, Running, FutureSet
  <2>4. QED
    BY <2>1, <2>2, <2>3 DEF SingleFlight
<1>2. RepliesAreGenuine
  BY DEF IInv, RepliesAreGenuine, GoodCall, Genuine
<1>3. OnlySuccessCached
  BY DEF IInv, OnlySuccessCached, Cached
<1>4. QED
  BY <1>1, <1>2, <1>3

\* Every run starts in the invariant.
LEMMA InitIInv == Init => IInv
<1> SUFFICES ASSUME Init PROVE IInv
  OBVIOUS
<1>1. IdleCall \in Call
  BY DEF IdleCall, Call, Stage, NoReply, Reply
<1>2. TypeOK
  BY <1>1 DEF Init, TypeOK
<1>3. \A c \in Calls : GoodCall(c)
  BY DEF Init, IdleCall, GoodCall, Idle, Running, Joining, Genuine, FutureSet, Outcome
<1>4. \A k \in Keys : Owned(k) /\ Cached(k)
  BY DEF Init, Owned, Cached
<1>5. QED
  BY <1>2, <1>3, <1>4 DEF IInv

-----------------------------------------------------------------------------
(* Steps *)

\* A fresh entry answers a call.
LEMMA HitStep ==
  ASSUME IInv, NEW c \in Calls, NEW k \in Keys, Hit(c, k)
  PROVE  IInv'
<1> DEFINE d == [stage |-> "ended", key |-> k, on |-> None,
                 reply |-> [kind |-> "result", from |-> cache[k].run]]
<1>1. cache[k] \in Entry /\ cache[k].run \in Calls
  BY RegistryAssumption DEF Hit, Fresh, IInv, TypeOK, Entry
<1>2. [kind |-> "result", from |-> cache[k].run] \in Reply
  BY <1>1 DEF Reply, Outcome
<1>3. d \in Call
  BY <1>2 DEF Call, Stage
<1>4. calls' = [calls EXCEPT ![c] = d] /\ calls[c].stage = "idle"
      /\ future[c] = "none"
      /\ UNCHANGED <<cache, inFlight, future, runs, writeCount>>
  BY DEF Hit, IInv, GoodCall, Idle
<1>5. TypeOK'
  BY <1>3, <1>4 DEF IInv, TypeOK
<1>6. cache[k].run # c /\ Cached(k) /\ cache[k] # None
  BY <1>1, <1>4 DEF IInv, Cached, Hit, Fresh
<1>7. \A e \in Calls : GoodCall(e)'
  <2> TAKE e \in Calls
  <2>1. CASE e = c
    BY <1>1, <1>4, <1>6, <2>1
       DEF IInv, TypeOK, GoodCall, Idle, Running, Joining, Genuine, FutureSet, Cached, Outcome
  <2>2. CASE e # c
    BY <1>4, <2>2
       DEF IInv, TypeOK, GoodCall, Idle, Running, Joining, Genuine, FutureSet, Outcome
  <2>3. QED
    BY <2>1, <2>2
<1>8. \A j \in Keys : Owned(j)' /\ Cached(j)'
  BY <1>4 DEF IInv, TypeOK, Owned, Cached, Entry
<1>9. QED
  BY <1>5, <1>7, <1>8 DEF IInv

\* A call with no fresh entry and nothing in flight runs the tool.
LEMMA OwnStep ==
  ASSUME IInv, NEW c \in Calls, NEW k \in Keys, Own(c, k)
  PROVE  IInv'
<1> DEFINE d == [stage |-> "running", key |-> k, on |-> c, reply |-> NoReply]
<1>1. d \in Call
  BY DEF Call, Stage, NoReply, Reply
<1>2. /\ cache' = [cache EXCEPT ![k] = None]
      /\ inFlight' = [inFlight EXCEPT ![k] = c]
      /\ future' = [future EXCEPT ![c] = "pending"]
      /\ calls' = [calls EXCEPT ![c] = d]
      /\ runs' = [runs EXCEPT ![c] = "running"]
      /\ writeCount' = writeCount
      /\ calls[c].stage = "idle"
      /\ future[c] = "none"
      /\ inFlight[k] = None
  BY DEF Own, IInv, GoodCall, Idle
<1>3. TypeOK'
  BY <1>1, <1>2 DEF IInv, TypeOK
<1>4. \A e \in Calls : GoodCall(e)'
  <2> TAKE e \in Calls
  <2>1. CASE e = c
    BY <1>2, <2>1
       DEF IInv, TypeOK, GoodCall, Idle, Running, Joining, Genuine, FutureSet, Outcome
  <2>2. CASE e # c
    <3>1. Idle(e)' /\ FutureSet(e)'
      BY <1>2, <2>2 DEF IInv, TypeOK, GoodCall, Idle, FutureSet
    <3>2. Running(e)'
      BY <1>2, <2>2, RegistryAssumption DEF IInv, TypeOK, GoodCall, Running
    <3>3. Joining(e)'
      BY <1>2, <2>2 DEF IInv, TypeOK, GoodCall, Joining
    <3>4. Genuine(e)'
      BY <1>2, <2>2 DEF IInv, TypeOK, GoodCall, Genuine
    <3>5. QED
      BY <3>1, <3>2, <3>3, <3>4 DEF GoodCall
  <2>3. QED
    BY <2>1, <2>2
<1>5. \A j \in Keys : Owned(j)' /\ Cached(j)'
  BY <1>2 DEF IInv, TypeOK, Owned, Cached, Entry
<1>6. QED
  BY <1>3, <1>4, <1>5 DEF IInv

\* A call that finds an execution in flight waits for its future.
LEMMA JoinStep ==
  ASSUME IInv, NEW c \in Calls, NEW k \in Keys, Join(c, k)
  PROVE  IInv'
<1> DEFINE o == inFlight[k]
           d == [stage |-> "joining", key |-> k, on |-> o, reply |-> NoReply]
<1>1. /\ o \in Calls
      /\ calls[o].stage = "running"
      /\ calls[o].key = k
      /\ future[o] = "pending"
  BY DEF Join, IInv, TypeOK, Owned, GoodCall, Running
<1>2. d \in Call
  BY <1>1 DEF Call, Stage, NoReply, Reply
<1>3. /\ cache' = [cache EXCEPT ![k] = None]
      /\ calls' = [calls EXCEPT ![c] = d]
      /\ calls[c].stage = "idle"
      /\ future[c] = "none"
      /\ UNCHANGED <<inFlight, future, runs, writeCount>>
  BY DEF Join, IInv, GoodCall, Idle
<1>4. TypeOK'
  BY <1>2, <1>3 DEF IInv, TypeOK
<1>5. \A e \in Calls : GoodCall(e)'
  <2> TAKE e \in Calls
  <2>1. CASE e = c
    BY <1>1, <1>3, <2>1
       DEF IInv, TypeOK, GoodCall, Idle, Running, Joining, Genuine, FutureSet, Outcome
  <2>2. CASE e # c
    BY <1>3, <2>2
       DEF IInv, TypeOK, GoodCall, Idle, Running, Joining, Genuine, FutureSet, Outcome
  <2>3. QED
    BY <2>1, <2>2
<1>6. \A j \in Keys : Owned(j)' /\ Cached(j)'
  BY <1>3 DEF IInv, TypeOK, Owned, Cached, Entry
<1>7. QED
  BY <1>4, <1>5, <1>6 DEF IInv

\* A thread ends: only the execution changes, and it had not succeeded or
\* failed before.
LEMMA ThreadEndsStep ==
  ASSUME IInv, NEW c \in Calls, NEW how \in {"succeeded", "failed"}, ThreadEnds(c, how)
  PROVE  IInv'
<1>1. /\ runs' = [runs EXCEPT ![c] = how]
      /\ runs[c] = "running"
      /\ UNCHANGED <<cache, inFlight, future, calls, writeCount>>
  BY DEF ThreadEnds
<1>2. TypeOK'
  BY <1>1 DEF IInv, TypeOK
<1>3. \A e \in Calls : GoodCall(e)'
  BY <1>1 DEF IInv, TypeOK, GoodCall, Idle, Running, Joining, Genuine, FutureSet
<1>4. \A j \in Keys : Owned(j)' /\ Cached(j)'
  BY <1>1 DEF IInv, TypeOK, Owned, Cached, Entry
<1>5. QED
  BY <1>2, <1>3, <1>4 DEF IInv

-----------------------------------------------------------------------------
(* The end of a call *)

\* What Ended does to a well-typed call.
LEMMA EndedCall ==
  ASSUME TypeOK, NEW c \in Calls, NEW kind \in Outcome, NEW from \in Calls,
         calls' = Ended(c, kind, from)
  PROVE  /\ calls' \in [Calls -> Call]
         /\ \A e \in Calls : e # c => calls'[e] = calls[e]
         /\ calls'[c].stage = "ended"
         /\ calls'[c].key = calls[c].key
         /\ calls'[c].reply = [kind |-> kind, from |-> from]
<1> DEFINE r == [kind |-> kind, from |-> from]
           d == [stage |-> "ended", key |-> calls[c].key, on |-> calls[c].on, reply |-> r]
<1>1. r \in Reply
  BY DEF Reply
<1>2. calls[c] \in Call
  BY DEF TypeOK
<1>3. d \in Call
  BY <1>1, <1>2 DEF Call, Stage
<1>4. calls' = [calls EXCEPT ![c] = d]
  BY DEF Ended
<1>5. QED
  BY <1>3, <1>4 DEF TypeOK

\* An owner ends in some way, and sets its future and frees its key together:
\* whatever the cache becomes, the calls stay in order.
LEMMA OwnerEnds ==
  ASSUME IInv, NEW c \in Calls, NEW kind \in Outcome,
         calls[c].stage = "running",
         calls' = Ended(c, kind, c),
         future' = [future EXCEPT ![c] = kind],
         inFlight' = [inFlight EXCEPT ![calls[c].key] = None],
         runs' \in [Calls -> {"none", "running", "succeeded", "failed", "stopped"}],
         \A e \in Calls : e # c => runs'[e] = runs[e],
         kind = "result" => runs'[c] = "succeeded",
         kind = "error" => runs'[c] = "failed"
  PROVE  /\ calls' \in [Calls -> Call]
         /\ future' \in [Calls -> Outcome \cup {"none", "pending"}]
         /\ inFlight' \in [Keys -> Calls \cup {None}]
         /\ \A e \in Calls : GoodCall(e)'
         /\ \A k \in Keys : Owned(k)'
         /\ \A k \in Keys : cache[k] # None =>
              /\ runs'[cache[k].run] = "succeeded"
              /\ calls'[cache[k].run].key = k
              /\ calls'[cache[k].run].stage = "ended"
              /\ calls'[cache[k].run].reply.kind = "result"
<1> DEFINE k == calls[c].key
<1>1. k \in Keys /\ inFlight[k] = c /\ future[c] = "pending"
  BY DEF IInv, GoodCall, Running
<1>2. /\ calls' \in [Calls -> Call]
      /\ \A e \in Calls : e # c => calls'[e] = calls[e]
      /\ calls'[c].stage = "ended"
      /\ calls'[c].key = k
      /\ calls'[c].reply = [kind |-> kind, from |-> c]
  BY EndedCall DEF IInv
<1>3. /\ future' \in [Calls -> Outcome \cup {"none", "pending"}]
      /\ future'[c] = kind
      /\ \A e \in Calls : e # c => future'[e] = future[e]
  BY DEF IInv, TypeOK
<1>4. /\ inFlight' \in [Keys -> Calls \cup {None}]
      /\ inFlight'[k] = None
      /\ \A j \in Keys : j # k => inFlight'[j] = inFlight[j]
  BY <1>1 DEF IInv, TypeOK
<1>5. \A e \in Calls : GoodCall(e)'
  <2> TAKE e \in Calls
  <2>1. CASE e = c
    BY <1>1, <1>2, <1>3, <2>1
       DEF GoodCall, Idle, Running, Joining, Genuine, FutureSet, Outcome
  <2>2. CASE e # c
    <3>1. GoodCall(e)
      BY DEF IInv
    <3>2. Idle(e)' /\ FutureSet(e)'
      BY <1>2, <1>3, <2>2, <3>1 DEF GoodCall, Idle, FutureSet
    <3>3. Running(e)'
      BY <1>1, <1>2, <1>3, <1>4, <2>2, <3>1 DEF GoodCall, Running
    <3>4. Joining(e)'
      BY <1>1, <1>2, <1>3, <2>2, <3>1 DEF GoodCall, Joining, Outcome
    <3>5. Genuine(e)'
      BY <1>2, <2>2, <3>1 DEF GoodCall, Genuine
    <3>6. QED
      BY <3>2, <3>3, <3>4, <3>5 DEF GoodCall
  <2>3. QED
    BY <2>1, <2>2
<1>6. \A j \in Keys : Owned(j)'
  BY <1>1, <1>2, <1>4 DEF IInv, TypeOK, Owned
<1>7. \A j \in Keys : cache[j] # None =>
         /\ runs'[cache[j].run] = "succeeded"
         /\ calls'[cache[j].run].key = j
         /\ calls'[cache[j].run].stage = "ended"
         /\ calls'[cache[j].run].reply.kind = "result"
  <2> SUFFICES ASSUME NEW j \in Keys, cache[j] # None
               PROVE  /\ runs'[cache[j].run] = "succeeded"
                      /\ calls'[cache[j].run].key = j
                      /\ calls'[cache[j].run].stage = "ended"
                      /\ calls'[cache[j].run].reply.kind = "result"
    OBVIOUS
  <2>1. Cached(j) /\ cache[j].run \in Calls
    BY DEF IInv, TypeOK, Entry
  <2>2. QED
    BY <1>2, <2>1 DEF Cached
<1>8. QED
  BY <1>2, <1>3, <1>4, <1>5, <1>6, <1>7

\* The tool's outcome, in a coroutine or a thread, is what its owner sees.
LEMMA OutcomeSeen ==
  ASSUME TypeOK, NEW c \in Calls, NEW how \in {"succeeded", "failed"}, ToolOutcome(c, how)
  PROVE  /\ runs' \in [Calls -> {"none", "running", "succeeded", "failed", "stopped"}]
         /\ \A e \in Calls : e # c => runs'[e] = runs[e]
         /\ runs'[c] = how
  BY DEF TypeOK, ToolOutcome

\* A clean-up keeps entries or drops them, and never makes one.
LEMMA CleanedUpOnlyDrops ==
  ASSUME NEW ch \in [Keys -> Entry \cup {None}]
  PROVE  /\ CleanedUp(ch) \in [Keys -> Entry \cup {None}]
         /\ \A k \in Keys : CleanedUp(ch)[k] # None => CleanedUp(ch)[k] = ch[k]
  BY DEF CleanedUp

\* The tool succeeds.
LEMMA SucceedStep ==
  ASSUME IInv, NEW c \in Calls, Succeed(c)
  PROVE  IInv'
<1> DEFINE k == calls[c].key
           entry == [run |-> c, age |-> 0, written |-> writeCount + 1]
           written == [cache EXCEPT ![k] = entry]
<1>1. /\ calls[c].stage = "running"
      /\ calls' = Ended(c, "result", c)
      /\ future' = [future EXCEPT ![c] = "result"]
      /\ inFlight' = [inFlight EXCEPT ![calls[c].key] = None]
      /\ ToolOutcome(c, "succeeded")
      /\ writeCount' = writeCount + 1
      /\ cache' = IF writeCount' % CleanupInterval = 0 THEN CleanedUp(written) ELSE written
  BY DEF Succeed
<1>2. /\ runs' \in [Calls -> {"none", "running", "succeeded", "failed", "stopped"}]
      /\ \A e \in Calls : e # c => runs'[e] = runs[e]
      /\ runs'[c] = "succeeded"
  BY <1>1, OutcomeSeen DEF IInv
<1>3. "result" \in Outcome
  BY DEF Outcome
<1>4. /\ calls' \in [Calls -> Call]
      /\ future' \in [Calls -> Outcome \cup {"none", "pending"}]
      /\ inFlight' \in [Keys -> Calls \cup {None}]
      /\ \A e \in Calls : GoodCall(e)'
      /\ \A j \in Keys : Owned(j)'
      /\ \A j \in Keys : cache[j] # None =>
           /\ runs'[cache[j].run] = "succeeded"
           /\ calls'[cache[j].run].key = j
           /\ calls'[cache[j].run].stage = "ended"
           /\ calls'[cache[j].run].reply.kind = "result"
  BY <1>1, <1>2, <1>3, OwnerEnds
<1>5. /\ calls'[c].stage = "ended"
      /\ calls'[c].key = k
      /\ calls'[c].reply = [kind |-> "result", from |-> c]
  BY <1>1, <1>3, EndedCall DEF IInv
<1>6. cache \in [Keys -> Entry \cup {None}] /\ writeCount \in Nat
  BY DEF IInv, TypeOK
<1>7. writeCount + 1 \in Nat
  BY <1>6
<1>8. entry \in Entry
  BY <1>7, RegistryAssumption DEF Entry
<1>9. written \in [Keys -> Entry \cup {None}]
  BY <1>6, <1>8
<1> HIDE DEF written
<1>10. /\ cache' \in [Keys -> Entry \cup {None}]
       /\ \A j \in Keys : cache'[j] # None => cache'[j] = written[j]
  BY <1>1, <1>9, CleanedUpOnlyDrops
<1>11. \A j \in Keys : Cached(j)'
  <2> SUFFICES ASSUME NEW j \in Keys, cache'[j] # None PROVE Cached(j)'
    BY DEF Cached
  <2>1. cache'[j] = IF j = k THEN entry ELSE cache[j]
    BY <1>6, <1>10 DEF written
  <2>2. CASE j = k
    BY <1>2, <1>5, <2>1, <2>2 DEF Cached
  <2>3. CASE j # k
    BY <1>4, <2>1, <2>3 DEF Cached
  <2>4. QED
    BY <2>2, <2>3
<1>12. TypeOK'
  BY <1>1, <1>2, <1>4, <1>7, <1>10 DEF TypeOK
<1>13. QED
  BY <1>4, <1>11, <1>12 DEF IInv

\* An owner ends without a result to cache.
LEMMA OwnerEndsUncached ==
  ASSUME IInv, NEW c \in Calls, NEW kind \in Outcome \ {"result"},
         calls[c].stage = "running",
         calls' = Ended(c, kind, c),
         future' = [future EXCEPT ![c] = kind],
         inFlight' = [inFlight EXCEPT ![calls[c].key] = None],
         runs' \in [Calls -> {"none", "running", "succeeded", "failed", "stopped"}],
         \A e \in Calls : e # c => runs'[e] = runs[e],
         kind = "error" => runs'[c] = "failed",
         UNCHANGED <<cache, writeCount>>
  PROVE  IInv'
<1>1. kind \in Outcome /\ kind # "result"
  OBVIOUS
<1>2. /\ calls' \in [Calls -> Call]
      /\ future' \in [Calls -> Outcome \cup {"none", "pending"}]
      /\ inFlight' \in [Keys -> Calls \cup {None}]
      /\ \A e \in Calls : GoodCall(e)'
      /\ \A j \in Keys : Owned(j)'
      /\ \A j \in Keys : cache[j] # None =>
           /\ runs'[cache[j].run] = "succeeded"
           /\ calls'[cache[j].run].key = j
           /\ calls'[cache[j].run].stage = "ended"
           /\ calls'[cache[j].run].reply.kind = "result"
  BY <1>1, OwnerEnds
<1>3. \A j \in Keys : Cached(j)'
  BY <1>2 DEF Cached
<1>4. TypeOK'
  BY <1>2 DEF IInv, TypeOK
<1>5. QED
  BY <1>2, <1>3, <1>4 DEF IInv

\* The tool fails.
LEMMA FailStep ==
  ASSUME IInv, NEW c \in Calls, Fail(c)
  PROVE  IInv'
<1>1. /\ calls[c].stage = "running"
      /\ calls' = Ended(c, "error", c)
      /\ future' = [future EXCEPT ![c] = "error"]
      /\ inFlight' = [inFlight EXCEPT ![calls[c].key] = None]
      /\ ToolOutcome(c, "failed")
      /\ UNCHANGED <<cache, writeCount>>
  BY DEF Fail
<1>2. /\ runs' \in [Calls -> {"none", "running", "succeeded", "failed", "stopped"}]
      /\ \A e \in Calls : e # c => runs'[e] = runs[e]
      /\ runs'[c] = "failed"
  BY <1>1, OutcomeSeen DEF IInv
<1>3. "error" \in Outcome \ {"result"}
  BY DEF Outcome
<1>4. QED
  BY <1>1, <1>2, <1>3, OwnerEndsUncached

\* The owner is cancelled, and its thread may run on.
LEMMA CancelOwnerStep ==
  ASSUME IInv, NEW c \in Calls, CancelOwner(c)
  PROVE  IInv'
<1>1. /\ calls[c].stage = "running"
      /\ calls' = Ended(c, "cancelled", c)
      /\ future' = [future EXCEPT ![c] = "cancelled"]
      /\ inFlight' = [inFlight EXCEPT ![calls[c].key] = None]
      /\ UNCHANGED <<cache, writeCount>>
  BY DEF CancelOwner
<1>2. /\ runs' \in [Calls -> {"none", "running", "succeeded", "failed", "stopped"}]
      /\ \A e \in Calls : e # c => runs'[e] = runs[e]
  BY DEF CancelOwner, Abandon, IInv, TypeOK
<1>3. "cancelled" \in Outcome \ {"result"} /\ "cancelled" # "error"
  BY DEF Outcome
<1>4. QED
  BY <1>1, <1>2, <1>3, OwnerEndsUncached

\* A joiner ends, with what its future was set to or cancelled itself.
LEMMA JoinerEnds ==
  ASSUME IInv, NEW c \in Calls, NEW kind \in Outcome, NEW from \in Calls,
         calls[c].stage = "joining",
         calls' = Ended(c, kind, from),
         \/ from = c /\ kind = "cancelled"
         \/ from = calls[c].on /\ kind = future[from],
         UNCHANGED <<cache, inFlight, future, runs, writeCount>>
  PROVE  IInv'
<1>1. /\ calls' \in [Calls -> Call]
      /\ \A e \in Calls : e # c => calls'[e] = calls[e]
      /\ calls'[c].stage = "ended"
      /\ calls'[c].key = calls[c].key
      /\ calls'[c].reply = [kind |-> kind, from |-> from]
  BY EndedCall DEF IInv
<1>2. calls[c].key \in Keys /\ future[c] \notin Outcome \cup {"pending"}
  BY DEF IInv, GoodCall, Joining, FutureSet
<1>3. TypeOK'
  BY <1>1 DEF IInv, TypeOK
<1>4. Genuine(c)'
  <2>1. CASE from = c /\ kind = "cancelled"
    BY <1>1, <1>2, <2>1 DEF Genuine
  <2>2. CASE from = calls[c].on /\ kind = future[from]
    <3>1. /\ calls[from].stage = "ended"
          /\ calls[from].reply = [kind |-> kind, from |-> from]
          /\ calls[from].key = calls[c].key
      BY <2>2 DEF IInv, GoodCall, FutureSet, Joining
    <3>2. from # c /\ Genuine(from)
      BY <3>1 DEF IInv, GoodCall
    <3>3. QED
      BY <1>1, <1>2, <3>1, <3>2 DEF Genuine
  <2>3. QED
    BY <2>1, <2>2
<1>5. \A e \in Calls : GoodCall(e)'
  <2> TAKE e \in Calls
  <2>1. CASE e = c
    BY <1>1, <1>2, <1>4, <2>1 DEF GoodCall, Idle, Running, Joining, FutureSet
  <2>2. CASE e # c
    BY <1>1, <2>2 DEF IInv, GoodCall, Idle, Running, Joining, Genuine, FutureSet
  <2>3. QED
    BY <2>1, <2>2
<1>6. \A k \in Keys : Owned(k)'
  BY <1>1 DEF IInv, TypeOK, Owned
<1>7. \A k \in Keys : Cached(k)'
  BY <1>1 DEF IInv, TypeOK, Cached, Entry
<1>8. QED
  BY <1>3, <1>5, <1>6, <1>7 DEF IInv

\* A joiner resumes.
LEMMA ResumeStep ==
  ASSUME IInv, NEW c \in Calls, Resume(c)
  PROVE  IInv'
<1>1. calls[c].on \in Calls /\ calls[c].stage = "joining"
  BY DEF Resume, IInv, GoodCall, Joining
<1>2. /\ future[calls[c].on] \in Outcome
      /\ calls' = Ended(c, future[calls[c].on], calls[c].on)
      /\ UNCHANGED <<cache, inFlight, future, runs, writeCount>>
  BY DEF Resume
<1>3. QED
  BY <1>1, <1>2, JoinerEnds

\* A joiner is cancelled.
LEMMA CancelJoinerStep ==
  ASSUME IInv, NEW c \in Calls, CancelJoiner(c)
  PROVE  IInv'
<1>1. /\ calls[c].stage = "joining"
      /\ calls' = Ended(c, "cancelled", c)
      /\ UNCHANGED <<cache, inFlight, future, runs, writeCount>>
  BY DEF CancelJoiner
<1>2. "cancelled" \in Outcome
  BY DEF Outcome
<1>3. QED
  BY <1>1, <1>2, JoinerEnds

\* The cache loses entries, or its entries grow older; nothing else happens.
LEMMA CacheOnlyStep ==
  ASSUME IInv,
         cache' \in [Keys -> Entry \cup {None}],
         \A k \in Keys : cache'[k] # None => cache[k] # None /\ cache'[k].run = cache[k].run,
         UNCHANGED <<inFlight, future, calls, runs, writeCount>>
  PROVE  IInv'
<1>1. TypeOK'
  BY DEF IInv, TypeOK
<1>2. \A c \in Calls : GoodCall(c)'
  BY DEF IInv, GoodCall, Idle, Running, Joining, Genuine, FutureSet
<1>3. \A k \in Keys : Owned(k)' /\ Cached(k)'
  BY DEF IInv, Owned, Cached
<1>4. QED
  BY <1>1, <1>2, <1>3 DEF IInv

\* Time passes.
LEMMA TickStep == IInv /\ Tick => IInv'
<1> SUFFICES ASSUME IInv, Tick PROVE IInv'
  OBVIOUS
<1>1. \A k \in Keys :
        /\ cache'[k] \in Entry \cup {None}
        /\ cache'[k] # None => cache[k] # None /\ cache'[k].run = cache[k].run
  <2> TAKE k \in Keys
  <2>1. cache[k] \in Entry \cup {None}
    BY DEF IInv, TypeOK
  <2>2. CASE cache[k] # None /\ cache[k].age <= CacheTtl
    <3>1. cache[k] \in Entry
      BY <2>1, <2>2
    <3>2. cache'[k] = [cache[k] EXCEPT !.age = cache[k].age + 1]
      BY <2>2 DEF Tick
    <3>3. cache[k].age + 1 \in 0..CacheTtl + 1
      BY <2>2, <3>1, RegistryAssumption DEF Entry
    <3>4. cache'[k] \in Entry /\ cache'[k].run = cache[k].run
      BY <3>1, <3>2, <3>3 DEF Entry
    <3>5. QED
      BY <2>2, <3>4
  <2>3. CASE ~(cache[k] # None /\ cache[k].age <= CacheTtl)
    BY <2>1, <2>3 DEF Tick
  <2>4. QED
    BY <2>2, <2>3
<1>2. cache' \in [Keys -> Entry \cup {None}]
  BY <1>1 DEF Tick
<1>3. UNCHANGED <<inFlight, future, calls, runs, writeCount>>
  BY DEF Tick
<1>4. QED
  BY <1>1, <1>2, <1>3, CacheOnlyStep

\* The cache is cleared.
LEMMA ClearStep == IInv /\ Clear => IInv'
<1> SUFFICES ASSUME IInv, Clear PROVE IInv'
  OBVIOUS
<1>1. cache' \in [Keys -> Entry \cup {None}] /\ \A k \in Keys : cache'[k] = None
  BY DEF Clear
<1>2. UNCHANGED <<inFlight, future, calls, runs, writeCount>>
  BY DEF Clear
<1>3. QED
  BY <1>1, <1>2, CacheOnlyStep

\* Every step keeps the invariant.
LEMMA NextIInv == IInv /\ [Next]_vars => IInv'
<1> SUFFICES ASSUME IInv, [Next]_vars PROVE IInv'
  OBVIOUS
<1>1. ASSUME NEW c \in Calls, NEW k \in Keys, Hit(c, k) \/ Own(c, k) \/ Join(c, k)
      PROVE  IInv'
  BY <1>1, HitStep, OwnStep, JoinStep
<1>2. ASSUME NEW c \in Calls, NEW how \in {"succeeded", "failed"}, ThreadEnds(c, how)
      PROVE  IInv'
  BY <1>2, ThreadEndsStep
<1>3. ASSUME NEW c \in Calls, Succeed(c) \/ Fail(c) \/ CancelOwner(c)
      PROVE  IInv'
  BY <1>3, SucceedStep, FailStep, CancelOwnerStep
<1>4. ASSUME NEW c \in Calls, Resume(c) \/ CancelJoiner(c)
      PROVE  IInv'
  BY <1>4, ResumeStep, CancelJoinerStep
<1>5. CASE Clear \/ Tick
  BY <1>5, ClearStep, TickStep
<1>6. CASE UNCHANGED vars
  BY <1>6 DEF vars, IInv, TypeOK, GoodCall, Idle, Running, Joining, Genuine, FutureSet, Owned,
              Cached
<1>7. QED
  BY <1>1, <1>2, <1>3, <1>4, <1>5, <1>6 DEF Next

-----------------------------------------------------------------------------
(* Theorems *)

\* The invariant holds throughout.
LEMMA InvariantHolds == Spec => []IInv
  BY InitIInv, NextIInv, PTL DEF Spec

\* The registry's variables always have their types.
THEOREM TypeCorrect == Spec => []TypeOK
<1>1. IInv => TypeOK
  BY DEF IInv
<1>2. QED
  BY <1>1, InvariantHolds, PTL

\* At any time at most one call runs the tool of a key, it is the one that
\* _in_flight names, and it is the one that will set the future its joiners
\* wait for.
THEOREM SingleFlightHolds == Spec => []SingleFlight
  BY InvariantHolds, IInvImplies, PTL

\* Whatever a call returns is the outcome of a real execution under its key,
\* and joiners see what their owner saw.
THEOREM RepliesGenuine == Spec => []RepliesAreGenuine
  BY InvariantHolds, IInvImplies, PTL

\* The cache only ever holds results of executions that succeeded.
THEOREM CacheHoldsSuccesses == Spec => []OnlySuccessCached
  BY InvariantHolds, IInvImplies, PTL

-----------------------------------------------------------------------------
(* What a clean-up keeps *)

\* No entry is newer than the last write.
Stamped == \A k \in Keys : cache[k] # None => cache[k].written <= writeCount

\* A clean-up keeps a live entry that is the newest of all.
LEMMA NewestKept ==
  ASSUME NEW ch \in [Keys -> Entry \cup {None}], NEW k \in Keys,
         MaxCacheSize > 0, ch[k] # None, ch[k].age <= CacheTtl,
         \A j \in Keys : ch[j] # None => ch[j].written <= ch[k].written
  PROVE  CleanedUp(ch)[k] = ch[k]
<1> DEFINE live == {j \in Keys : ch[j] # None /\ ch[j].age <= CacheTtl}
<1>1. \A j \in live : ch[j].written \in Nat /\ ch[k].written \in Nat
  BY DEF Entry
<1>2. {j \in live : ch[j].written > ch[k].written} = {}
  BY <1>1
<1>3. Cardinality({j \in live : ch[j].written > ch[k].written}) < MaxCacheSize
  BY <1>2, FS_EmptySet, RegistryAssumption
<1>4. QED
  BY <1>3 DEF CleanedUp

\* What the cache is after a success.
LEMMA SuccessStores ==
  ASSUME TypeOK, Stamped, NEW c \in Calls, calls[c].key \in Keys, Succeed(c)
  PROVE  /\ Stamped'
         /\ MaxCacheSize > 0 => /\ cache'[calls[c].key] # None
                                /\ cache'[calls[c].key].run = c
<1> DEFINE k == calls[c].key
           entry == [run |-> c, age |-> 0, written |-> writeCount + 1]
           written == [cache EXCEPT ![k] = entry]
<1>1. /\ writeCount' = writeCount + 1
      /\ cache' = IF writeCount' % CleanupInterval = 0 THEN CleanedUp(written) ELSE written
  BY DEF Succeed
<1>2. cache \in [Keys -> Entry \cup {None}] /\ writeCount \in Nat
  BY DEF TypeOK
<1>3. entry \in Entry /\ entry # None
  <2>1. writeCount + 1 \in Nat
    BY <1>2
  <2>2. entry \in Entry
    BY <2>1, RegistryAssumption DEF Entry
  <2>3. QED
    BY <2>2, NoneAssumption
<1>4. written \in [Keys -> Entry \cup {None}] /\ written[k] = entry
  BY <1>2, <1>3
<1>5. \A j \in Keys : written[j] # None => written[j].written <= writeCount + 1
  <2> TAKE j \in Keys
  <2>1. CASE j = k
    BY <1>2, <1>4, <2>1
  <2>2. CASE j # k
    <3>1. written[j] = cache[j]
      BY <1>2, <2>2
    <3>2. ASSUME cache[j] # None PROVE cache[j].written <= writeCount + 1
      <4>1. cache[j].written \in Nat
        BY <1>2, <3>2 DEF Entry
      <4>2. cache[j].written <= writeCount
        BY <3>2 DEF Stamped
      <4>3. QED
        BY <1>2, <4>1, <4>2
    <3>3. QED
      BY <3>1, <3>2
  <2>3. QED
    BY <2>1, <2>2
<1> HIDE DEF written
<1>6. MaxCacheSize > 0 => CleanedUp(written)[k] = written[k]
  BY <1>3, <1>4, <1>5, NewestKept, RegistryAssumption
<1>7. \A j \in Keys : CleanedUp(written)[j] # None => CleanedUp(written)[j] = written[j]
  BY <1>4, CleanedUpOnlyDrops
<1>8. QED
  BY <1>1, <1>3, <1>4, <1>5, <1>6, <1>7 DEF Stamped

\* The stamps stay below the count of writes.
LEMMA NextStamped == IInv /\ Stamped /\ [Next]_vars => Stamped'
<1> SUFFICES ASSUME IInv, Stamped, [Next]_vars PROVE Stamped'
  OBVIOUS
<1>1. ASSUME NEW c \in Calls, Succeed(c)
      PROVE  Stamped'
  BY <1>1, SuccessStores DEF IInv, GoodCall, Running, Succeed
<1>2. ASSUME UNCHANGED <<cache, writeCount>>
      PROVE  Stamped'
  BY <1>2 DEF Stamped
<1>3. ASSUME NEW c \in Calls, NEW k \in Keys, Own(c, k) \/ Join(c, k)
      PROVE  Stamped'
  BY <1>3 DEF Own, Join, Stamped, IInv, TypeOK
<1>4. CASE Clear
  BY <1>4 DEF Clear, Stamped
<1>5. CASE Tick
  <2> SUFFICES ASSUME NEW k \in Keys, cache'[k] # None
               PROVE  cache'[k].written <= writeCount'
    BY DEF Stamped
  <2>1. cache[k] # None /\ cache[k] \in Entry
    BY <1>5 DEF Tick, IInv, TypeOK
  <2>2. cache'[k].written = cache[k].written
    BY <1>5, <2>1 DEF Tick, Entry
  <2>3. QED
    BY <1>5, <2>1, <2>2 DEF Tick, Stamped
<1>6. QED
  BY <1>1, <1>2, <1>3, <1>4, <1>5
     DEF Next, vars, Hit, ThreadEnds, Fail, CancelOwner, Resume, CancelJoiner

\* A success leaves its result in the cache, also when it cleans up.
THEOREM StoredIsKept == Spec => JustStoredIsKept
<1> DEFINE Kept == \A c \in Calls :
             future[c] = "pending" /\ future'[c] = "result" /\ MaxCacheSize > 0
               => cache'[calls[c].key] # None /\ cache'[calls[c].key].run = c
<1>1. Init => Stamped
  BY DEF Init, Stamped
<1>2. ASSUME IInv, Stamped, [Next]_vars
      PROVE  [Kept]_vars
  <2>1. ASSUME NEW c \in Calls, Succeed(c)
        PROVE  Kept
    <3> SUFFICES ASSUME NEW d \in Calls, future[d] = "pending", future'[d] = "result",
                        MaxCacheSize > 0
                 PROVE  cache'[calls[d].key] # None /\ cache'[calls[d].key].run = d
      OBVIOUS
    <3>1. d = c
      BY <2>1 DEF Succeed, IInv, TypeOK
    <3>2. QED
      BY <1>2, <2>1, <3>1, SuccessStores DEF IInv, GoodCall, Running, Succeed
  <2>2. ASSUME \A d \in Calls : future[d] = "pending" => future'[d] # "result"
        PROVE  Kept
    BY <2>2
  <2>3. ASSUME NEW c \in Calls, Fail(c) \/ CancelOwner(c)
        PROVE  Kept
    BY <1>2, <2>2, <2>3 DEF Fail, CancelOwner, IInv, TypeOK
  <2>4. ASSUME NEW c \in Calls, NEW k \in Keys, Own(c, k)
        PROVE  Kept
    BY <1>2, <2>2, <2>4 DEF Own, IInv, TypeOK
  <2>5. ASSUME UNCHANGED future
        PROVE  Kept
    BY <2>2, <2>5
  <2>6. QED
    BY <1>2, <2>1, <2>3, <2>4, <2>5
       DEF Next, vars, Hit, Join, ThreadEnds, Resume, CancelJoiner, Clear, Tick
<1>3. QED
  BY <1>1, <1>2, InitIInv, NextIInv, NextStamped, PTL DEF Spec, JustStoredIsKept

-----------------------------------------------------------------------------
(* How large the cache grows *)

Filled(ch) == {k \in Keys : ch[k] # None}

\* Of any numbers one is the least.
LEMMA Least ==
  ASSUME NEW T \in SUBSET Nat, T # {}
  PROVE  \E x \in T : \A y \in T : x <= y
<1> DEFINE R == OpToRel(<, Nat)
<1>1. IsWellFoundedOn(R, Nat)
  BY NatLessThanWellFounded
<1>2. \A x, y \in Nat : ~(<<y, x>> \in R) => x <= y
  BY DEF OpToRel
<1> HIDE DEF R
<1>3. PICK x \in T : \A y \in T : ~(<<y, x>> \in R)
  BY <1>1, WFMin
<1> QED BY <1>2, <1>3

\* The count of writes since the last clean-up goes up by one or starts again.
LEMMA ModStep ==
  ASSUME NEW w \in Nat, NEW n \in Nat \ {0}
  PROVE  (w + 1) % n = 0 \/ (w + 1) % n = (w % n) + 1
<1> DEFINE q == w \div n
           r == w % n
           p == (w + 1) \div n
           s == (w + 1) % n
<1>1. q \in Int /\ r \in 0..n - 1 /\ w = n * q + r
  OBVIOUS
<1>2. p \in Int /\ s \in 0..n - 1 /\ w + 1 = n * p + s
  OBVIOUS
<1> HIDE DEF q, r, p, s
<1>3. n * (p - q) = r + 1 - s
  BY <1>1, <1>2
<1>4. p - q \in Int /\ r + 1 - s > 0 - n /\ r + 1 - s <= n
  BY <1>1, <1>2
<1>5. p - q = 0 \/ p - q = 1
  <2>1. ~(p - q >= 2)
    BY <1>3, <1>4
  <2>2. ~(p - q <= -1)
    BY <1>3, <1>4
  <2> QED BY <1>4, <2>1, <2>2
<1>6. CASE p - q = 0
  BY <1>6, <1>1, <1>2, <1>3 DEF s, r
<1>7. CASE p - q = 1
  BY <1>7, <1>1, <1>2, <1>3 DEF s, r
<1> QED BY <1>5, <1>6, <1>7

\* No two entries have the same stamp.
Distinct(ch) ==
  \A j, k \in Keys : ch[j] # None /\ ch[k] # None /\ ch[j].written = ch[k].written => j = k

\* A clean-up leaves at most MaxCacheSize entries.
LEMMA CleanedUpBounded ==
  ASSUME NEW ch \in [Keys -> Entry \cup {None}], IsFiniteSet(Filled(ch)), Distinct(ch)
  PROVE  /\ IsFiniteSet(Filled(CleanedUp(ch)))
         /\ Cardinality(Filled(CleanedUp(ch))) <= MaxCacheSize
<1> DEFINE live == {k \in Keys : ch[k] # None /\ ch[k].age <= CacheTtl}
           newer(k) == {j \in live : ch[j].written > ch[k].written}
           K == Filled(CleanedUp(ch))
<1>1. /\ live \subseteq Filled(ch)
      /\ \A k \in live : ch[k].written \in Nat
  BY DEF Filled, Entry
<1>2. /\ K \subseteq live
      /\ \A k \in K : Cardinality(newer(k)) < MaxCacheSize
  BY DEF Filled, CleanedUp
<1>3. IsFiniteSet(K) /\ Cardinality(K) \in Nat
  BY <1>1, <1>2, FS_Subset, FS_CardinalityType
<1>4. CASE K = {}
  BY <1>3, <1>4, FS_EmptySet, RegistryAssumption
<1>5. CASE K # {}
  <2> DEFINE T == {ch[k].written : k \in K}
  <2>1. T \in SUBSET Nat /\ T # {}
    BY <1>1, <1>2, <1>5
  <2>2. PICK x \in T : \A y \in T : x <= y
    BY <2>1, Least
  <2>3. PICK k \in K : ch[k].written = x
    OBVIOUS
  <2>4. \A j \in K : ch[k].written <= ch[j].written
    BY <2>2, <2>3
  <2> HIDE DEF T
  <2>5. K \ {k} \subseteq newer(k)
    <3> SUFFICES ASSUME NEW j \in K, j # k PROVE j \in newer(k)
      OBVIOUS
    <3>1. j \in live /\ k \in live /\ ch[j].written # ch[k].written
      BY <1>2 DEF Distinct
    <3>2. ch[j].written \in Nat /\ ch[k].written \in Nat
      BY <1>1, <3>1
    <3> QED BY <2>4, <3>1, <3>2
  <2>6. IsFiniteSet(newer(k)) /\ Cardinality(newer(k)) < MaxCacheSize
    BY <1>1, <1>2, FS_Subset
  <2> HIDE DEF K, newer, live
  <2>7. /\ Cardinality(K \ {k}) = Cardinality(K) - 1
        /\ Cardinality(K \ {k}) <= Cardinality(newer(k))
    BY <1>3, <2>5, <2>6, FS_RemoveElement, FS_Subset
  <2>8. Cardinality(newer(k)) \in Nat
    BY <2>6, FS_CardinalityType
  <2>9. Cardinality(K) <= MaxCacheSize
    BY <1>3, <2>6, <2>7, <2>8, RegistryAssumption
  <2> QED BY <1>3, <2>9 DEF K
<1> QED BY <1>4, <1>5

\* What holds of the cache besides its stamps.
Small == IsFiniteSet(Filled(cache)) /\ CacheBounded /\ Distinct(cache)

LEMMA SucceedSmall ==
  ASSUME TypeOK, Stamped, Small, NEW c \in Calls, calls[c].key \in Keys, Succeed(c)
  PROVE  Small'
<1> DEFINE k == calls[c].key
           entry == [run |-> c, age |-> 0, written |-> writeCount + 1]
           written == [cache EXCEPT ![k] = entry]
<1>1. /\ writeCount' = writeCount + 1
      /\ cache' = IF writeCount' % CleanupInterval = 0 THEN CleanedUp(written) ELSE written
  BY DEF Succeed
<1>2. /\ cache \in [Keys -> Entry \cup {None}] /\ writeCount \in Nat
      /\ CleanupInterval \in Nat \ {0} /\ MaxCacheSize \in Nat
  BY RegistryAssumption DEF TypeOK
<1>3. entry \in Entry /\ entry # None
  <2>1. writeCount + 1 \in Nat
    BY <1>2
  <2>2. entry \in Entry
    BY <2>1, RegistryAssumption DEF Entry
  <2> QED BY <2>2, NoneAssumption
<1>4. /\ written \in [Keys -> Entry \cup {None}]
      /\ written[k] = entry /\ entry.written = writeCount + 1
      /\ \A j \in Keys : j # k => written[j] = cache[j]
  BY <1>2, <1>3
<1> HIDE DEF written, entry, k
<1>5. Filled(written) = Filled(cache) \cup {k}
  BY <1>3, <1>4 DEF Filled, k
<1>6. /\ IsFiniteSet(Filled(written))
      /\ Cardinality(Filled(written)) <= Cardinality(Filled(cache)) + 1
      /\ Cardinality(Filled(cache)) \in Nat /\ Cardinality(Filled(written)) \in Nat
  <2>1. IsFiniteSet(Filled(cache)) /\ Cardinality(Filled(cache)) \in Nat
    BY FS_CardinalityType DEF Small
  <2>2. /\ IsFiniteSet(Filled(cache) \cup {k})
        /\ Cardinality(Filled(cache) \cup {k}) =
             IF k \in Filled(cache) THEN Cardinality(Filled(cache)) ELSE Cardinality(Filled(cache)) + 1
    BY <2>1, FS_AddElement
  <2>3. Cardinality(Filled(cache) \cup {k}) <= Cardinality(Filled(cache)) + 1
        /\ Cardinality(Filled(cache) \cup {k}) \in Nat
    BY <2>1, <2>2
  <2> QED BY <1>5, <2>1, <2>2, <2>3
<1>7. Distinct(written)
  <2> SUFFICES ASSUME NEW i \in Keys, NEW j \in Keys, written[i] # None, written[j] # None,
                      written[i].written = written[j].written
               PROVE  i = j
    BY DEF Distinct
  <2>1. \A h \in Keys : h # k /\ written[h] # None => written[h].written <= writeCount
    BY <1>4 DEF Stamped
  <2>2. ~(writeCount + 1 <= writeCount)
    BY <1>2
  <2>3. CASE i # k /\ j # k
    BY <1>4, <2>3 DEF Small, Distinct
  <2> QED BY <1>4, <2>1, <2>2, <2>3
<1>8. Cardinality(Filled(cache)) <= MaxCacheSize + (writeCount % CleanupInterval)
  BY DEF Small, CacheBounded, Filled
<1>9. CASE writeCount' % CleanupInterval = 0
  <2>1. cache' = CleanedUp(written)
    BY <1>1, <1>9
  <2>2. IsFiniteSet(Filled(cache')) /\ Cardinality(Filled(cache')) <= MaxCacheSize
    BY <1>4, <1>6, <1>7, <2>1, CleanedUpBounded
  <2>3. CacheBounded'
    BY <1>2, <1>9, <2>2 DEF CacheBounded, Filled
  <2>4. Distinct(cache')
    BY <1>4, <1>7, <2>1, CleanedUpOnlyDrops DEF Distinct
  <2> QED BY <2>2, <2>3, <2>4 DEF Small, Filled, Distinct
<1>10. CASE writeCount' % CleanupInterval # 0
  <2>1. cache' = written
    BY <1>1, <1>10
  <2>2. writeCount' % CleanupInterval = (writeCount % CleanupInterval) + 1
    BY <1>1, <1>2, <1>10, ModStep
  <2>3. writeCount % CleanupInterval \in Nat
    BY <1>2
  <2>4. Cardinality(Filled(cache')) <= MaxCacheSize + (writeCount' % CleanupInterval)
    BY <1>2, <1>6, <1>8, <2>1, <2>2, <2>3
  <2> QED BY <1>6, <1>7, <2>1, <2>4 DEF Small, CacheBounded, Filled, Distinct
<1> QED BY <1>9, <1>10

\* A step that adds no entry and changes no stamp.
LEMMA DropsSmall ==
  ASSUME Small, TypeOK, writeCount' = writeCount,
         \A k \in Keys : cache'[k] # None => cache[k] # None /\ cache'[k].written = cache[k].written
  PROVE  Small'
<1>1. Filled(cache') \subseteq Filled(cache)
  BY DEF Filled
<1>2. IsFiniteSet(Filled(cache')) /\ Cardinality(Filled(cache')) <= Cardinality(Filled(cache))
      /\ Cardinality(Filled(cache)) \in Nat /\ Cardinality(Filled(cache')) \in Nat
  BY <1>1, FS_Subset, FS_CardinalityType DEF Small
<1>3. writeCount % CleanupInterval \in Nat /\ MaxCacheSize \in Nat
  BY RegistryAssumption DEF TypeOK
<1>4. Cardinality(Filled(cache)) <= MaxCacheSize + (writeCount % CleanupInterval)
  BY DEF Small, CacheBounded, Filled
<1>5. Cardinality(Filled(cache')) <= MaxCacheSize + (writeCount % CleanupInterval)
  BY <1>2, <1>3, <1>4
<1>6. Distinct(cache')
  BY DEF Small, Distinct
<1> QED BY <1>2, <1>5, <1>6 DEF Small, CacheBounded, Filled, Distinct

LEMMA NextSmall == IInv /\ Stamped /\ Small /\ [Next]_vars => Small'
<1> SUFFICES ASSUME IInv, Stamped, Small, [Next]_vars PROVE Small'
  OBVIOUS
<1>0. TypeOK
  BY DEF IInv
<1>1. ASSUME NEW c \in Calls, Succeed(c)
      PROVE  Small'
  BY <1>1, SucceedSmall DEF IInv, GoodCall, Running, Succeed
<1>2. ASSUME UNCHANGED <<cache, writeCount>>
      PROVE  Small'
  BY <1>0, <1>2, DropsSmall
<1>3. ASSUME NEW c \in Calls, NEW k \in Keys, Own(c, k) \/ Join(c, k)
      PROVE  Small'
  <2>1. \A j \in Keys : cache'[j] # None => cache'[j] = cache[j]
    BY <1>0, <1>3 DEF Own, Join, TypeOK
  <2>2. writeCount' = writeCount
    BY <1>3 DEF Own, Join
  <2> QED BY <1>0, <2>1, <2>2, DropsSmall
<1>4. CASE Clear
  BY <1>0, <1>4, DropsSmall DEF Clear
<1>5. CASE Tick
  <2>1. ASSUME NEW k \in Keys, cache'[k] # None
        PROVE  cache[k] # None /\ cache'[k].written = cache[k].written
    <3>1. cache[k] # None /\ cache[k] \in Entry
      BY <1>5, <2>1 DEF Tick, IInv, TypeOK
    <3> QED BY <1>5, <3>1 DEF Tick, Entry
  <2> QED BY <1>0, <1>5, <2>1, DropsSmall DEF Tick
<1>6. QED
  BY <1>1, <1>2, <1>3, <1>4, <1>5
     DEF Next, vars, Hit, ThreadEnds, Fail, CancelOwner, Resume, CancelJoiner

\* Between two clean-ups the cache outgrows max_cache_size by no more than the
\* writes since the last one, whatever expires, is cleared or overwritten.
THEOREM CacheStaysBounded == Spec => []CacheBounded
<1>1. Init => Stamped
  BY DEF Init, Stamped
<1>2. Init => Small
  <2> SUFFICES ASSUME Init PROVE Small
    OBVIOUS
  <2>1. Filled(cache) = {}
    BY DEF Init, Filled
  <2>2. IsFiniteSet(Filled(cache)) /\ Cardinality(Filled(cache)) = 0
    BY <2>1, FS_EmptySet
  <2>3. writeCount % CleanupInterval \in Nat /\ MaxCacheSize \in Nat
    BY RegistryAssumption DEF Init
  <2>4. CacheBounded
    BY <2>2, <2>3 DEF CacheBounded, Filled
  <2> QED BY <2>1, <2>2, <2>4 DEF Small, Distinct, Filled
<1>3. Small => CacheBounded
  BY DEF Small
<1>4. QED
  BY <1>1, <1>2, <1>3, InitIInv, NextIInv, NextStamped, NextSmall, PTL DEF Spec
=============================================================================
