------------------------- MODULE DistributedRateLimit -------------------------
(***************************************************************************)
(* DistributedRateLimitMiddleware: per session and kind of request a sorted *)
(* set in Redis holds the times of the requests counted in the window.      *)
(* One Lua script removes what is too old, counts and adds; the instances   *)
(* send their own clocks.  The name of a member is the clock, printed to 14  *)
(* digits, and math.random(1000000); Redis seeds the generator anew for every *)
(* run of a script, so the number is always the same and the name no more    *)
(* than a stamp, which two requests may share.  A tick is what the printed    *)
(* clock tells apart; the score of a member is its stamp.                    *)
(* When Redis fails, fallback_allow decides and nothing is counted: no state *)
(* changes.                                                                  *)
(***************************************************************************)
EXTENDS Integers, FiniteSets

CONSTANTS
  LimitKeys,    \* <<session, "req" or "tool">>
  MaxRequests,  \* max_requests, max_tool_calls
  RateWindow,   \* window_seconds, in ticks
  Second,       \* ticks of a second
  ClockSkews,   \* how far the clocks of instances are ahead
  MaxInstant    \* bound on the clock

ASSUME LimitAssumption ==
  /\ MaxRequests \in Nat \ {0} /\ RateWindow \in Nat /\ Second \in Nat \ {0}
  /\ ClockSkews \subseteq Nat
  /\ \E s \in ClockSkews : \A t \in ClockSkews : t <= s

VARIABLES
  time,      \* time, as Redis has it
  zset,      \* per key: the stamps of the members of the sorted set
  dies,      \* per key: when it expires
  counted,   \* observer, per key: when requests were counted, and their stamps
  slipped    \* observer: key and clock of the last request, if it went through
             \* without being counted

limitVars == <<time, zset, dies, counted, slipped>>

LimitInit == /\ time = 0
             /\ zset = [k \in LimitKeys |-> {}]
             /\ dies = [k \in LimitKeys |-> 0]
             /\ counted = [k \in LimitKeys |-> {}]
             /\ slipped = {}

\* ZREMRANGEBYSCORE up to t - window.
Live(k, t) == {m \in zset[k] : m > t - RateWindow}

\* ZRANGE 0 0 WITHSCORES
Oldest(members) == CHOOSE s \in members : \A m \in members : s <= m

\* Redis hands the caller the integer part of retry_after.
RetryAfter(k, t) == (RateWindow - (t - Oldest(Live(k, t)))) \div Second

\* Mutant: the key does not outlive the window of its last request.
Life_Short == RateWindow - Second

\* EXPIRE ceil(window) + 1.
Life == RateWindow + Second

\* ZCARD, after what is too old is gone.
HasRoom(k, t) == Cardinality(Live(k, t)) < MaxRequests

\* There is room: the request is counted and goes on.  ZADD of a stamp that is a
\* member already adds nothing.
Count(k, t) ==
  /\ HasRoom(k, t)
  /\ zset' = [zset EXCEPT ![k] = Live(k, t) \cup {t}]
  /\ dies' = [dies EXCEPT ![k] = time + Life]
  /\ counted' = [counted EXCEPT ![k] = @ \cup {[at |-> time, stamp |-> t]}]
  /\ slipped' = {}
  /\ UNCHANGED time

\* Mutant: the caller looks at the quota that is left, which is never negative.
Full_ByRemaining(k, t) ==
  /\ ~HasRoom(k, t)
  /\ zset' = [zset EXCEPT ![k] = Live(k, t)]
  /\ slipped' = {<<k, t>>}
  /\ UNCHANGED <<time, dies, counted>>

\* There is none: RateLimitExceeded, unless less than a second is left.
Full(k, t) ==
  /\ ~HasRoom(k, t)
  /\ zset' = [zset EXCEPT ![k] = Live(k, t)]
  /\ slipped' = IF RetryAfter(k, t) = 0 THEN {<<k, t>>} ELSE {}
  /\ UNCHANGED <<time, dies, counted>>

Request(k, t) == Count(k, t) \/ Full(k, t)

\* get_usage removes what is too old by its own clock.
GetUsage(k, t) == /\ zset' = [zset EXCEPT ![k] = Live(k, t)]
                  /\ slipped' = {}
                  /\ UNCHANGED <<time, dies, counted>>

Delete(keys) ==
  /\ \E k \in keys : zset[k] # {}
  /\ zset' = [k \in LimitKeys |-> IF k \in keys THEN {} ELSE zset[k]]
  /\ counted' = [k \in LimitKeys |-> IF k \in keys THEN {} ELSE counted[k]]
  /\ slipped' = {}
  /\ UNCHANGED <<time, dies>>

ResetSession(session) == Delete({k \in LimitKeys : k[1] = session})

\* reset_all deletes the keys in the batches in which SCAN finds them.
ResetBatch(keys) == Delete(keys)

\* Redis drops a key.
KeyExpires(k) == /\ zset[k] # {} /\ time >= dies[k]
                 /\ zset' = [zset EXCEPT ![k] = {}]
                 /\ slipped' = {}
                 /\ UNCHANGED <<time, dies, counted>>

LimitTick == /\ time < MaxInstant
             /\ time' = time + 1
             /\ slipped' = {}
             /\ UNCHANGED <<zset, dies, counted>>

LimitNext ==
  \/ \E k \in LimitKeys, s \in ClockSkews :
       Request(k, time + s) \/ GetUsage(k, time + s)
  \/ \E k \in LimitKeys : ResetSession(k[1]) \/ KeyExpires(k)
  \/ \E keys \in SUBSET LimitKeys : ResetBatch(keys)
  \/ LimitTick

LimitSpec == LimitInit /\ [][LimitNext]_limitVars

-----------------------------------------------------------------------------
MostAhead == CHOOSE s \in ClockSkews : \A t \in ClockSkews : t <= s

\* The stamps of the requests of k counted up to now in a window, less the
\* difference of the clocks.
StampsUpto(k, now) ==
  {c.stamp : c \in {d \in counted[k] : /\ d.at <= now
                                      /\ d.at > now - (RateWindow - MostAhead)}}

\* The requests that all instances together let through in a window, less the
\* difference of their clocks, have at most max_requests different stamps,
\* through expiry of the key and of single entries
\* (distributed_ratelimit.py:58).  Requests of one stamp count as one (line 74):
\* max_requests bounds the stamps, not the requests.
RateShared ==
  \A k \in LimitKeys : \A c \in counted[k] :
    Cardinality(StampsUpto(k, c.at)) <= MaxRequests

\* A request that goes through although the window of its key is full, and is
\* not counted, is less than a second early: a second later by its own clock
\* that window would have had room.  Redis truncates retry_after, and the caller
\* takes 0 for an admission (distributed_ratelimit.py:228).
AtMostASecondEarly ==
  [][\A s \in slipped' : HasRoom(s[1], s[2] + Second)]_limitVars
=============================================================================
