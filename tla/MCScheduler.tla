----------------------------- MODULE MCScheduler -----------------------------
(* Instances of Scheduler for TLC.                                          *)
EXTENDS Scheduler

CONSTANTS i1, i2, digest, alert, hourly

OneInstance == {i1}
TwoInstances == {i1, i2}
OneBlueprint == {digest}
TwoBlueprints == {digest, alert}
NoCron == {}
OneCron == {hourly}
==============================================================================
