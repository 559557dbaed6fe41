------------------------ MODULE MCProviderCallsHistory ------------------------
(* A small instance of ProviderCallsHistory for TLC. *)
EXTENDS ProviderCallsHistory, TLC

CONSTANTS r1, r2

TwoRequests == {r1, r2}
RequestSymmetry == Permutations(Requests)
=============================================================================
