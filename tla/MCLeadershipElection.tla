------------------------ MODULE MCLeadershipElection ------------------------
(* Two instances and a lease of nine time units, with a heartbeat every three. *)
EXTENDS LeadershipElection

CONSTANTS a, b

MCInstance == {a, b}
==============================================================================
