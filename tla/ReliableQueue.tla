---------------------------- MODULE ReliableQueue ----------------------------
(***************************************************************************)
(* What a reliable work queue promises (the guarantees listed at the head  *)
(* of src/queue_adapter/redis.rs): an item that was added waits, is leased *)
(* to one worker, or is settled; only the worker that leases an item can   *)
(* settle it or give it back; a settled item never comes back.             *)
(***************************************************************************)
CONSTANTS Worker, Item

VARIABLES waiting,  \* items any worker may take
          leased,   \* the items each worker has taken and not settled
          settled   \* items that are done with

vars == <<waiting, leased, settled>>

Init ==
    /\ waiting = {}
    /\ leased = [w \in Worker |-> {}]
    /\ settled = {}

Add(x) ==
    /\ x \notin waiting \cup settled
    /\ \A w \in Worker : x \notin leased[w]
    /\ waiting' = waiting \cup {x}
    /\ UNCHANGED <<leased, settled>>

Take(w, x) ==
    /\ x \in waiting
    /\ waiting' = waiting \ {x}
    /\ leased' = [leased EXCEPT ![w] = @ \cup {x}]
    /\ UNCHANGED settled

GiveBack(w, x) ==
    /\ x \in leased[w]
    /\ leased' = [leased EXCEPT ![w] = @ \ {x}]
    /\ waiting' = waiting \cup {x}
    /\ UNCHANGED settled

Settle(w, x) ==
    /\ x \in leased[w]
    /\ leased' = [leased EXCEPT ![w] = @ \ {x}]
    /\ settled' = settled \cup {x}
    /\ UNCHANGED waiting

Next ==
    \E x \in Item :
        \/ Add(x)
        \/ \E w \in Worker : Take(w, x) \/ GiveBack(w, x) \/ Settle(w, x)

Spec == Init /\ [][Next]_vars
==============================================================================
