---------------------------- MODULE RedisWorkQueue ----------------------------
(***************************************************************************)
(* The Redis queue adapter of src/queue_adapter/redis.rs: one primary list *)
(* shared by all workers, and one list per worker with the items it has    *)
(* pulled and not acknowledged.  A worker runs the loop for which the      *)
(* trait QueueAdapter is made: recover, then pull, process, acknowledge.   *)
(* Its process may die between any two commands, and any command may fail  *)
(* before or after Redis has executed it.                                  *)
(*                                                                         *)
(* The primary list is written in the order in which it is pulled: its     *)
(* head is the right end of the Redis list, LPUSH appends.  A worker list  *)
(* is a set: nothing depends on the order in which its items come back.    *)
(***************************************************************************)
EXTENDS Naturals, Sequences, Functions

CONSTANTS Worker,          \* the workers, each with a worker_id of its own
          Item,            \* work items, all different
          Malformed,       \* those whose text does not deserialize
          NoItem,
          RecoverOnStart,  \* whether a worker calls recover_worker_queue
          MaxFaults        \* bound on failures, crashes and restarts

ASSUME QueueAssumption ==
    /\ Malformed \subseteq Item
    /\ NoItem \notin Item
    /\ RecoverOnStart \in BOOLEAN
    /\ MaxFaults \in Nat

VARIABLES primary,    \* the primary list, the next item to be pulled first
          parked,     \* the worker list of each worker
          pc,         \* what a worker is doing
          holding,    \* the item it works on
          pushed,     \* (history) items that reached the primary list
          processed,  \* (history) items some worker processed to the end
          settled,    \* (history) items acknowledged or discarded
          faults      \* (bound) failures so far

vars == <<primary, parked, pc, holding, pushed, processed, settled, faults>>

redisVars == <<primary, parked>>
history == <<pushed, processed, settled>>

TypeOK ==
    /\ primary \in Seq(Item)
    /\ parked \in [Worker -> SUBSET Item]
    /\ pc \in [Worker -> {"down", "recovering", "idle", "discarding",
                          "processing", "acking"}]
    /\ holding \in [Worker -> Item \cup {NoItem}]
    /\ pushed \subseteq Item
    /\ processed \subseteq Item
    /\ settled \subseteq Item
    /\ faults \in 0..MaxFaults

Init ==
    /\ primary = <<>>
    /\ parked = [w \in Worker |-> {}]
    /\ pc = [w \in Worker |-> "down"]
    /\ holding = [w \in Worker |-> NoItem]
    /\ pushed = {}
    /\ processed = {}
    /\ settled = {}
    /\ faults = 0

Fault == faults < MaxFaults /\ faults' = faults + 1

Goto(w, where, x) ==
    /\ pc' = [pc EXCEPT ![w] = where]
    /\ holding' = [holding EXCEPT ![w] = x]

------------------------------------------------------------------------------
(* Producers.                                                               *)

\* push, try_push: LPUSH.  (A push that fails before LPUSH changes nothing; one
\* whose reply is lost has pushed.)
Push(x) ==
    /\ x \notin pushed
    /\ primary' = Append(primary, x)
    /\ pushed' = pushed \cup {x}
    /\ UNCHANGED <<parked, pc, holding, processed, settled, faults>>

------------------------------------------------------------------------------
(* Workers.                                                                 *)

Start(w) ==
    /\ pc[w] = "down"
    /\ Goto(w, IF RecoverOnStart THEN "recovering" ELSE "idle", NoItem)
    /\ UNCHANGED <<redisVars, history, faults>>

\* (Mutant) an item is recovered by two commands that are not one transaction.
RecoverOneByCopy(w) ==
    /\ pc[w] = "recovering"
    /\ \E x \in parked[w] : primary' = Append(primary, x)
    /\ UNCHANGED <<parked, pc, holding, history, faults>>

\* recover_worker_queue: one RPOPLPUSH from the worker list to the primary.
RecoverOne(w) ==
    /\ pc[w] = "recovering"
    /\ \E x \in parked[w] :
          /\ parked' = [parked EXCEPT ![w] = @ \ {x}]
          /\ primary' = Append(primary, x)
    /\ UNCHANGED <<pc, holding, history, faults>>

\* (Mutant) recovery moves one item at most.
RecoverDoneEarly(w) ==
    /\ pc[w] = "recovering"
    /\ Goto(w, "idle", NoItem)
    /\ UNCHANGED <<redisVars, history, faults>>

\* ... which ends with the first empty reply.
RecoverDone(w) ==
    /\ pc[w] = "recovering" /\ parked[w] = {}
    /\ Goto(w, "idle", NoItem)
    /\ UNCHANGED <<redisVars, history, faults>>

\* ... or with an error, after none or some of the items: start-up fails.
RecoverFails(w) ==
    /\ pc[w] = "recovering" /\ Fault
    /\ Goto(w, "down", NoItem)
    /\ UNCHANGED <<redisVars, history>>

\* (Mutants) the item is popped without being parked (RPOP); it is read and
\* parked without being popped (LINDEX, LPUSH).
ParkNowhere(w) ==
    /\ primary # <<>>
    /\ primary' = Tail(primary)
    /\ UNCHANGED parked
ParkByCopy(w) ==
    /\ primary # <<>>
    /\ parked' = [parked EXCEPT ![w] = @ \cup {Head(primary)}]
    /\ UNCHANGED primary

\* RPOPLPUSH from the primary list to the worker list.
Park(w) ==
    /\ primary # <<>>
    /\ primary' = Tail(primary)
    /\ parked' = [parked EXCEPT ![w] = @ \cup {Head(primary)}]

\* pull: the item is parked, then deserialized.  (An empty list returns None.)
Pull(w) ==
    /\ pc[w] = "idle"
    /\ Park(w)
    /\ Goto(w, IF Head(primary) \in Malformed THEN "discarding" ELSE "processing",
            Head(primary))
    /\ UNCHANGED <<history, faults>>

\* The reply of RPOPLPUSH is lost: pull returns None, the item stays parked.
PullReplyLost(w) ==
    /\ pc[w] = "idle" /\ Fault
    /\ Park(w)
    /\ UNCHANGED <<pc, holding, history>>

\* LREM of the item from the worker list.
Settle(w) ==
    /\ parked' = [parked EXCEPT ![w] = @ \ {holding[w]}]
    /\ settled' = settled \cup {holding[w]}
    /\ UNCHANGED primary

\* pull drops an item that does not deserialize, if LREM succeeds.
Discard(w) ==
    /\ pc[w] = "discarding"
    /\ Settle(w)
    /\ Goto(w, "idle", NoItem)
    /\ UNCHANGED <<pushed, processed, faults>>

\* The worker processes the item ...
Process(w) ==
    /\ pc[w] = "processing"
    /\ processed' = processed \cup {holding[w]}
    /\ Goto(w, "acking", holding[w])
    /\ UNCHANGED <<redisVars, pushed, settled, faults>>

\* ... or fails to, and keeps it in its worker list.
ProcessFails(w) ==
    /\ pc[w] = "processing" /\ Fault
    /\ Goto(w, "idle", NoItem)
    /\ UNCHANGED <<redisVars, history>>

\* ack: LREM of the item the worker has processed.
Ack(w) ==
    /\ pc[w] = "acking"
    /\ Settle(w)
    /\ Goto(w, "idle", NoItem)
    /\ UNCHANGED <<pushed, processed, faults>>

\* LREM fails: nobody looks at the error, the item stays parked.
SettleFails(w) ==
    /\ pc[w] \in {"discarding", "acking"} /\ Fault
    /\ Goto(w, "idle", NoItem)
    /\ UNCHANGED <<redisVars, history>>

\* The process dies, whatever it is doing.
Crash(w) ==
    /\ pc[w] # "down" /\ Fault
    /\ Goto(w, "down", NoItem)
    /\ UNCHANGED <<redisVars, history>>

\* An idle worker is stopped, to be started again.
Stop(w) ==
    /\ pc[w] = "idle"
    /\ Goto(w, "down", NoItem)
    /\ UNCHANGED <<redisVars, history, faults>>

Work(w) == Discard(w) \/ Process(w) \/ Ack(w)
Recover(w) == Start(w) \/ RecoverOne(w) \/ RecoverDone(w)
Failure(w) ==
    \/ RecoverFails(w) \/ PullReplyLost(w) \/ ProcessFails(w)
    \/ SettleFails(w) \/ Crash(w)

Next ==
    \/ \E x \in Item : Push(x)
    \/ \E w \in Worker : Recover(w) \/ Pull(w) \/ Work(w) \/ Stop(w) \/ Failure(w)

Spec == Init /\ [][Next]_vars

\* Workers make progress and are restarted now and then; a worker that is idle
\* again and again pulls some time.  Failures end (MaxFaults).
Fairness ==
    \A w \in Worker :
        /\ WF_vars(Recover(w))
        /\ WF_vars(Work(w))
        /\ WF_vars(Stop(w))
        /\ SF_vars(Pull(w))

FairSpec == Spec /\ Fairness

------------------------------------------------------------------------------
(* Properties                                                               *)

Parked == UNION {parked[w] : w \in Worker}

\* "Persistent: Data survives process restarts": whatever fails, an item that
\* was pushed is in the primary list or parked until it is settled, and it is
\* settled only after it was processed (or found malformed).
NothingLost ==
    /\ pushed \subseteq Range(primary) \cup Parked \cup settled
    /\ settled \subseteq processed \cup Malformed

\* Workers share the primary list, and recovery puts back what a worker was
\* doing; still no item is worked on by two workers at the same time.
NoConcurrentDelivery ==
    \A v, w \in Worker : holding[v] = holding[w] /\ holding[v] # NoItem => v = w

\* Why: no item is twice in the primary list, an item is in one place only, and
\* a worker works on an item it has parked.
PrimaryDistinct == \A m, n \in DOMAIN primary : primary[m] = primary[n] => m = n

OnePlace ==
    /\ Range(primary) \cap settled = {}
    /\ \A w \in Worker :
          /\ parked[w] \cap (Range(primary) \cup settled) = {}
          /\ \A v \in Worker \ {w} : parked[v] \cap parked[w] = {}
    /\ Range(primary) \cup Parked \cup settled \subseteq pushed

WorksOnParked ==
    \A w \in Worker :
        /\ pc[w] \in {"discarding", "processing", "acking"} =>
              holding[w] \in parked[w]
        /\ pc[w] \in {"down", "recovering", "idle"} => holding[w] = NoItem
        /\ pc[w] = "discarding" => holding[w] \in Malformed
        /\ pc[w] = "acking" => holding[w] \in processed

QueueInv ==
    TypeOK /\ NothingLost /\ PrimaryDistinct /\ OnePlace /\ WorksOnParked

\* An item is added, leased, given back or settled, as a reliable queue
\* promises; in particular a settled item is never delivered again.
Promise == INSTANCE ReliableQueue
              WITH waiting <- Range(primary), leased <- parked
ImplementsReliableQueue == Promise!Spec

\* "Reliable: At-least-once delivery with acknowledgment" and "Recoverable:
\* Failed work can be recovered from worker queues": every item that is pushed
\* is settled in the end, after it was processed.
AtLeastOnce == \A x \in Item : x \in pushed ~> x \in settled
==============================================================================
