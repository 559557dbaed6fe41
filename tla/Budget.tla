--------------------------------- MODULE Budget ---------------------------------
(***************************************************************************)
(* BudgetMiddleware (middlewares/budget.py).  Its hooks work under one lock   *)
(* and await nothing inside: an operator here is one hook, from the store of  *)
(* windows before to the store after.                                         *)
(***************************************************************************)
EXTENDS SlidingWindows

CONSTANTS
  MaxScopes,        \* max_scopes
  BudgetWindow,     \* window_seconds
  MaxPrompt, MaxCompletion, MaxTotal, MaxCost,  \* the limits, or Unlimited
  Unlimited,
  Cost(_)           \* calculate_cost of a usage

\* budget.py checks neither; without room for a scope popitem fails.
ASSUME BudgetAssumption == MaxScopes \in Nat \ {0} /\ BudgetWindow \in Nat

Usages == [prompt : Nat, completion : Nat]
NoUsage == [prompt |-> 0, completion |-> 0]
Total(u) == u.prompt + u.completion

\* hit, which the code does not keep, tells the usage of a cached response.
Entries == [time : Nat, usage : Usages, hit : BOOLEAN]

\* _prune_window: entries go from the left, up to the first that is recent.
Charged(window, cutoff) ==
  LET live == {i \in DOMAIN window : window[i].time >= cutoff} IN
  IF live = {} THEN <<>> ELSE SubSeq(window, Min(live), Len(window))

Added(u, v) == [prompt |-> u.prompt + v.prompt, completion |-> u.completion + v.completion]

\* _sum_window
TotalUsage(window) ==
  LET upTo[n \in 0..Len(window)] ==
        IF n = 0 THEN NoUsage ELSE Added(upTo[n - 1], window[n].usage)
  IN upTo[Len(window)]

Above(value, limit) == limit # Unlimited /\ value > limit

\* _raise_if_exceeded: only the prompt can be estimated beforehand.
Exceeded(current, estimate) ==
  \/ Above(current.prompt + estimate, MaxPrompt)
  \/ Above(current.completion, MaxCompletion)
  \/ Above(Total(current) + estimate, MaxTotal)
  \/ MaxCost # Unlimited /\ Cost(current) >= MaxCost

\* process_request
BudgetCheck(store, scope, estimate, now) ==
  LET used == GetWindow(store, scope, MaxScopes)
      window == Charged(WindowOf(used, scope), now - BudgetWindow)
  IN [admitted |-> ~Exceeded(TotalUsage(window), estimate), store |-> SetWindow(used, scope, window)]

IsFree(usage) == Total(usage) = 0 /\ Cost(usage) = 0

\* process_response: nothing is charged for a usage of zero.
BudgetCharge(store, scope, usage, hit, now) ==
  LET used == GetWindow(store, scope, MaxScopes)
      window == Charged(WindowOf(used, scope), now - BudgetWindow)
  IN IF IsFree(usage) THEN store
     ELSE SetWindow(used, scope, Append(window, [time |-> now, usage |-> usage, hit |-> hit]))
=============================================================================
