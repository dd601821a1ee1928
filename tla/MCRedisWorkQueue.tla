--------------------------- MODULE MCRedisWorkQueue ---------------------------
(* Instances of RedisWorkQueue for TLC.                                     *)
EXTENDS RedisWorkQueue

CONSTANTS v, w, x, y, z

TwoWorkers == {v, w}
ThreeItems == {x, y, z}
TwoItems == {x, y}
LastMalformed == {z}
==============================================================================
