------------------------------- MODULE MCRedis -------------------------------
(***************************************************************************)
(* Small instances of DistributedBreaker, DistributedRateLimit and           *)
(* DistributedCache for TLC.  They use different keys of Redis and share no   *)
(* state; a behaviour is one of one of the three.                            *)
(***************************************************************************)
EXTENDS DistributedBreaker, DistributedRateLimit, DistributedCache, TLC

CONSTANTS short, long, primary, fallback

VARIABLE subject

\* The context window middleware cuts the long prompt down to the short one.
Truncated == [p \in Prompts |-> short]

InitEither ==
  /\ Init /\ LimitInit /\ CacheInit
  /\ subject \in {"circuit", "limit", "entries"}
  /\ subject # "circuit" => \A r \in Requests : requests[r].skew = 0
  /\ subject # "entries" => \A r \in Askers : asks[r].prompt = short

NextEither ==
  \/ subject = "circuit" /\ Next /\ UNCHANGED <<limitVars, cacheVars, subject>>
  \/ subject = "limit" /\ LimitNext /\ UNCHANGED <<circuitVars, cacheVars, subject>>
  \/ subject = "entries" /\ CacheNext /\ UNCHANGED <<circuitVars, limitVars, subject>>

SpecEither == InitEither /\ [][NextEither]_<<circuitVars, limitVars, cacheVars, subject>>

\* Kinds of requests of one session.
OneSession == {"s"} \X {"req", "tool"}

RequestSymmetry == Permutations(Requests)
=============================================================================
