----------------------------- MODULE MCSessions -----------------------------
(* Sessions with tabs that are alike and users that are alike. *)
EXTENDS Sessions, TLC

\* Nothing is claimed of what follows once answers have crossed.
NotCrossed == ~crossed

SessionSymmetry == Permutations(Tabs) \cup Permutations(Users)
=============================================================================
