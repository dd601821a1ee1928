----------------------------- MODULE MCLeaderGate -----------------------------
(* Gated tasks on two instances, of which any may die at any time.           *)
EXTENDS LeaderGate, TLC

CONSTANTS a, b

MCInstance == {a, b}

Symmetry == Permutations(MCInstance)

OnlyCrashes == {"crash"}
==============================================================================
