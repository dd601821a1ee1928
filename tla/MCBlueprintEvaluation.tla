------------------------ MODULE MCBlueprintEvaluation ------------------------
(* Instances of BlueprintEvaluation for TLC.                                *)
EXTENDS BlueprintEvaluation, TLC

CONSTANTS a, b, e1, e2, e3

OneInstance == {a}
TwoInstances == {a, b}
OneEvent == {e1}
TwoEvents == {e1, e2}
ThreeEvents == {e1, e2, e3}

Symmetry == Permutations({a, b}) \cup Permutations({e1, e2})
==============================================================================
