----------------------------- MODULE MCReadPath -----------------------------
(* ReadPath with two requests, of any kind each. *)
EXTENDS ReadPath, TLC

CONSTANTS r1, r2

MCRequests == {r1, r2}
Symmetry == Permutations(MCRequests)
=============================================================================
