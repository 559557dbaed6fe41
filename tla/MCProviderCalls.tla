--------------------------- MODULE MCProviderCalls ---------------------------
(* Small instances of ProviderCalls for TLC. *)
EXTENDS ProviderCalls, TLC

CONSTANTS r1, r2

TwoRequests == {r1, r2}

\* Requests are interchangeable; only safety is checked under this symmetry.
RequestSymmetry == Permutations(Requests)
=============================================================================
