-------------------------- MODULE MCToolIdempotency --------------------------
(* Small instances of ToolIdempotency for TLC. *)
EXTENDS ToolIdempotency, TLC

CONSTANTS c1, c2, c3, c4, k1, k2, k3

ThreeCalls == {c1, c2, c3}
FourCalls == {c1, c2, c3, c4}
TwoKeys == {k1, k2}
ThreeKeys == {k1, k2, k3}
OneThreadKey == {k1}

\* Calls are interchangeable; only safety is checked under this symmetry.
CallSymmetry == Permutations(Calls)
=============================================================================
