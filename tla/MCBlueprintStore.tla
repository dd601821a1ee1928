--------------------------- MODULE MCBlueprintStore ---------------------------
(* Instances of BlueprintStore for TLC.                                     *)
EXTENDS BlueprintStore

CONSTANTS request, task, memory, order1

TwoProcesses == {request, task}
OneCache == {memory}
OneRevision == {order1}
UseOne == [p \in TwoProcesses |-> memory]
==============================================================================
