------------------------------- MODULE RateLimiter -------------------------------
(***************************************************************************)
(* RateLimitMiddleware (middlewares/ratelimit.py): a sliding window of        *)
(* timestamps per session, for requests and for tool calls, in stores that    *)
(* evict the least recently used session.  process_request works under one    *)
(* lock and awaits nothing inside, so it is one step.                         *)
(***************************************************************************)
EXTENDS SlidingWindows, FiniteSets

CONSTANTS
  Sessions,         \* session_id
  Phases,           \* the two stores: "request" and "tool_call"
  MaxRequests,      \* max_requests and max_tool_calls: phase -> limit
  RateWindow,       \* window_seconds and tool_call_window: phase -> ticks
  MaxSessions,      \* max_sessions
  MaxTimestamps,    \* _MAX_TIMESTAMPS_PER_SESSION
  MaxClock          \* bound on time, for TLC

ASSUME LimiterAssumption ==
  /\ MaxRequests \in [Phases -> Nat] /\ RateWindow \in [Phases -> Nat]
  /\ MaxSessions \in Nat \ {0} /\ MaxTimestamps \in Nat \ {0} /\ MaxClock \in Nat

VARIABLES
  clock,     \* time.monotonic(), in ticks
  rate,      \* _request_windows and _tool_call_windows: phase -> store
  admitted,  \* observer: when requests of a phase and session passed
  rivals     \* observer: the sessions that came since, for each phase and session

limiterVars == <<clock, rate, admitted, rivals>>

LimiterInit == /\ clock = 0
               /\ rate = [p \in Phases |-> <<>>]
               /\ admitted = [p \in Phases |-> [s \in Sessions |-> <<>>]]
               /\ rivals = [p \in Phases |-> [s \in Sessions |-> {}]]

\* The window from the first timestamp on that is not before the cutoff.
Since(window, cutoff) ==
  LET live == {i \in DOMAIN window : window[i] >= cutoff} IN
  IF live = {} THEN <<>> ELSE SubSeq(window, Min(live), Len(window))

\* Old timestamps go; then the oldest, if there are too many of them.
Recent(window, cutoff) ==
  LET kept == Since(window, cutoff) IN
  IF Len(kept) >= MaxTimestamps THEN SubSeq(kept, Len(kept) - MaxTimestamps + 2, Len(kept)) ELSE kept

\* A rejected request has used its window all the same.
Checked(store, sid, phase, time) ==
  LET used == GetWindow(store, sid, MaxSessions)
      window == Recent(WindowOf(used, sid), time - RateWindow[phase])
      passes == Len(window) < MaxRequests[phase]
  IN [passes |-> passes,
      store |-> SetWindow(used, sid, IF passes THEN Append(window, time) ELSE window)]

\* process_request.  For the observers, a session that MaxSessions others have
\* used the limiter since is a new one.
Check(session, phase) ==
  LET check == Checked(rate[phase], session, phase, clock)
      before == IF Cardinality(rivals[phase][session]) >= MaxSessions THEN <<>>
                ELSE admitted[phase][session]
  IN
  /\ rate' = [rate EXCEPT ![phase] = check.store]
  /\ admitted' = [admitted EXCEPT ![phase][session] =
                    IF check.passes THEN Append(before, clock) ELSE before]
  /\ rivals' = [rivals EXCEPT ![phase] =
                  [s \in Sessions |-> IF s = session THEN {} ELSE @[s] \cup {session}]]
  /\ UNCHANGED clock

\* shutdown, and the observers start anew.
Shutdown ==
  /\ rate' = [p \in Phases |-> <<>>]
  /\ admitted' = [p \in Phases |-> [s \in Sessions |-> <<>>]]
  /\ rivals' = [p \in Phases |-> [s \in Sessions |-> {}]]
  /\ UNCHANGED clock

\* The observer forgets what is older than the window.
ClockTicks ==
  /\ clock < MaxClock
  /\ clock' = clock + 1
  /\ admitted' = [p \in Phases |->
                    [s \in Sessions |-> Since(admitted[p][s], clock' - RateWindow[p])]]
  /\ UNCHANGED <<rate, rivals>>

LimiterNext ==
  \/ \E session \in Sessions, phase \in Phases : Check(session, phase)
  \/ Shutdown \/ ClockTicks

LimiterSpec == LimiterInit /\ [][LimiterNext]_limiterVars

-----------------------------------------------------------------------------
(* Properties *)

\* In no window of time do more requests of a session pass than the limit,
\* whatever other sessions do, unless max_sessions of them come between two of
\* its requests (process_request, _get_window); the limit must be below
\* _MAX_TIMESTAMPS_PER_SESSION, or it is never reached.
RateBounded ==
  \A p \in Phases, s \in Sessions :
    MaxRequests[p] < MaxTimestamps => Len(admitted[p][s]) <= MaxRequests[p]
=============================================================================
