---------------------------- MODULE MiddlewareOrder ----------------------------
(***************************************************************************)
(* The lists of middlewares a Pipeline walks (onion_core/pipeline.py): sorted *)
(* by priority on the way in, reversed on the way out.  Definitions only.     *)
(***************************************************************************)
EXTENDS Integers, Sequences, FiniteSets

\* The middlewares of a list.
Items(s) == {s[i] : i \in 1..Len(s)}

Reversed(s) == [i \in 1..Len(s) |-> s[Len(s) + 1 - i]]

\* A new middleware comes after those of its priority: sorted() is stable.
Inserted(priority, s, m) ==
  LET n == Cardinality({i \in 1..Len(s) : priority[s[i]] <= priority[m]}) IN
  SubSeq(s, 1, n) \o <<m>> \o SubSeq(s, n + 1, Len(s))
=============================================================================
