------------------------- MODULE BlueprintEvaluation -------------------------
(***************************************************************************)
(* The evaluation of blueprints: src/tasks/blueprint.rs over the queue of  *)
(* src/tasks/blueprint_adapter.rs.  An event is submitted to the channel   *)
(* of an instance; the instance's only evaluation task pulls one work item *)
(* at a time, evaluates one node of the blueprint, pushes a work item for  *)
(* the next node, and acknowledges.                                        *)
(*                                                                         *)
(* With the mpsc adapter the channel is the queue of the instance.  With   *)
(* the Redis adapter a forwarder moves what the channel receives to the    *)
(* list all instances share; an item that is pulled is parked in the       *)
(* worker list of the instance until it is acknowledged.                   *)
(*                                                                         *)
(* All events are for one blueprint.  Its row and its nodes are edited by  *)
(* their owner at any time, so each reading of them has any result.        *)
(***************************************************************************)
EXTENDS Naturals, Sequences, FiniteSets, Functions

CONSTANTS Instance,
          Event,
          MaxNodes,      \* bound on the nodes of the blueprint
          Capacity,      \* of the channel: mpsc_buffer_size, or 500
          Adapter,       \* "mpsc" or "redis"
          Gated,         \* whether a leadership election is configured
          MayFail,       \* whether Redis commands and the gate may fail
          MayCrash,      \* whether instances may crash, stop and restart
          Nobody         \* no leader

ASSUME EvaluationAssumption ==
    /\ MaxNodes \in Nat \ {0}
    /\ Nobody \notin Instance \cup Event
    /\ Capacity \in Nat \ {0}
    /\ Adapter \in {"mpsc", "redis"}
    /\ Gated \in BOOLEAN /\ MayFail \in BOOLEAN /\ MayCrash \in BOOLEAN

\* A work item: the event it carries on (its trace_id) and its node_index.
Work == [event : Event, index : 0..(MaxNodes - 1)]
NoWork == [event |-> Nobody, index |-> 0]

VARIABLES channel,  \* the channel of each instance
          primary,  \* the shared Redis list, the next item to be pulled first
          parked,   \* the worker list of each instance
          pc,       \* where the evaluation task of an instance is
          work,     \* the work item it has pulled
          count,    \* the length of the list of nodes it has read
          leader,   \* the instance whose is_leader() answers true, or Nobody
          outcome,  \* what became of an event
          trace     \* (history) the nodes evaluated for an event, in order

vars == <<channel, primary, parked, pc, work, count, leader, outcome, trace>>

queueVars == <<channel, primary, parked>>

\* "pending" until a line of the code settles it, one way or another.
Settled == {"completed", "stopped", "failed", "skipped", "not_leader", "full",
            "push_failed", "died"}

Init ==
    /\ channel = [i \in Instance |-> <<>>]
    /\ primary = <<>>
    /\ parked = [i \in Instance |-> {}]
    /\ pc = [i \in Instance |-> "pull"]
    /\ work = [i \in Instance |-> NoWork]
    /\ count = [i \in Instance |-> 0]
    /\ leader = Nobody
    /\ outcome = [e \in Event |-> "unseen"]
    /\ trace = [e \in Event |-> <<>>]

------------------------------------------------------------------------------
(* Submission.                                                              *)

HasRoom(i) == Len(channel[i]) < Capacity

Becomes(e, what) == outcome' = [outcome EXCEPT ![e] = what]

\* submit_blueprint: try_send, which answers Ok whether the channel had room or
\* the work was dropped.
Submit(i, e) ==
    /\ pc[i] # "down"
    /\ outcome[e] = "unseen"
    /\ \/ /\ HasRoom(i)
          /\ channel' = [channel EXCEPT ![i] = Append(@, [event |-> e, index |-> 0])]
          /\ Becomes(e, "pending")
       \/ /\ ~HasRoom(i)
          /\ Becomes(e, "full")
          /\ UNCHANGED channel
    /\ UNCHANGED <<primary, parked, pc, work, count, leader, trace>>

\* The forwarder of create_blueprint_queue_adapter.
Forward(i) ==
    /\ Adapter = "redis" /\ pc[i] # "down" /\ channel[i] # <<>>
    /\ channel' = [channel EXCEPT ![i] = Tail(@)]
    /\ \/ /\ primary' = Append(primary, Head(channel[i]))
          /\ UNCHANGED outcome
       \/ /\ MayFail
          /\ Becomes(Head(channel[i]).event, "push_failed")
          /\ UNCHANGED primary
    /\ UNCHANGED <<parked, pc, work, count, leader, trace>>

------------------------------------------------------------------------------
(* The evaluation task: run.                                                *)

\* The task goes on with the same work, or with the work it has just pulled.
Goto(i, where, item) ==
    /\ pc' = [pc EXCEPT ![i] = where]
    /\ work' = [work EXCEPT ![i] = item]

\* A work item that was pulled goes through the gate, if there is one.
Begin(i, item) == Goto(i, IF Gated THEN "gate" ELSE "read", item)

\* The adapter hands the task the next item; MPSC waits for one.
PullFromChannel(i) ==
    /\ Adapter = "mpsc" /\ pc[i] = "pull" /\ channel[i] # <<>>
    /\ channel' = [channel EXCEPT ![i] = Tail(@)]
    /\ Begin(i, Head(channel[i]))
    /\ UNCHANGED <<primary, parked, count, leader, outcome, trace>>

\* (Mutant) RPOP instead of RPOPLPUSH: the item is parked nowhere.
PullUnparked(i) ==
    /\ Adapter = "redis" /\ pc[i] = "pull" /\ primary # <<>>
    /\ primary' = Tail(primary)
    /\ Begin(i, Head(primary))
    /\ UNCHANGED <<channel, parked, count, leader, outcome, trace>>

PullFromRedis(i) ==
    /\ Adapter = "redis" /\ pc[i] = "pull" /\ primary # <<>>
    /\ primary' = Tail(primary)
    /\ parked' = [parked EXCEPT ![i] = @ \cup {Head(primary)}]
    /\ Begin(i, Head(primary))
    /\ UNCHANGED <<channel, count, leader, outcome, trace>>

\* Redis answers None if the list is empty or the command fails.  None does not
\* match the pattern of the branch in select!, which is disabled: all that is
\* left to wait for is the cancellation of the task.
PullNone(i) ==
    /\ Adapter = "redis" /\ pc[i] = "pull"
    /\ primary = <<>> \/ MayFail
    /\ Goto(i, "halted", NoWork)
    /\ UNCHANGED <<queueVars, count, leader, outcome, trace>>

\* The work is settled; what remains is to acknowledge it.
Settle(i, what) ==
    /\ Becomes(work[i].event, what)
    /\ Goto(i, "ack", work[i])

\* (Mutant) the work is acknowledged, and then not skipped.
CheckLeaderFallsThrough(i) ==
    /\ pc[i] = "gate"
    /\ \/ leader = i /\ UNCHANGED outcome
       \/ leader # i /\ Becomes(work[i].event, "not_leader")
    /\ Goto(i, "read", work[i])
    /\ UNCHANGED <<queueVars, count, leader, trace>>

\* The gate: a leader goes on; who is not, or cannot tell, skips the work and
\* acknowledges it.
CheckLeader(i) ==
    /\ pc[i] = "gate"
    /\ \/ /\ leader = i
          /\ Goto(i, "read", work[i])
          /\ UNCHANGED outcome
       \/ /\ leader # i \/ MayFail
          /\ Settle(i, "not_leader")
    /\ UNCHANGED <<queueVars, count, leader, trace>>

\* ack: LREM from the worker list (nothing to do for mpsc); an error is ignored.
Acknowledge(i) ==
    /\ pc[i] = "ack"
    /\ \/ Adapter = "redis" /\ parked' = [parked EXCEPT ![i] = @ \ {work[i]}]
       \/ (Adapter = "mpsc" \/ MayFail) /\ UNCHANGED parked
    /\ Goto(i, "pull", NoWork)
    /\ UNCHANGED <<channel, primary, count, leader, outcome, trace>>

------------------------------------------------------------------------------
(* evaluate_work.                                                           *)

\* get_blueprint: the row is absent, disabled, cannot be read, or is enabled.
\* (No writer of the row leaves it both enabled and with an error, so there is
\* never an error to clear.)
ReadBlueprint(i) ==
    /\ pc[i] = "read"
    /\ \/ Settle(i, "skipped")
       \/ Goto(i, "list", work[i]) /\ UNCHANGED outcome
    /\ UNCHANGED <<queueVars, count, leader, trace>>

\* list_nodes, and the checks on the list: its length, which may have changed
\* since the work was pushed, the disabled node types, the collections.
ListNodes(i) ==
    /\ pc[i] = "list"
    /\ \E n \in 0..MaxNodes :
          /\ count' = [count EXCEPT ![i] = n]
          /\ \/ Settle(i, "skipped")
             \/ /\ n > 0
                /\ Goto(i, "disable", work[i])
                /\ UNCHANGED outcome
             \/ /\ work[i].index < n
                /\ Goto(i, "evaluate", work[i])
                /\ UNCHANGED outcome
    /\ UNCHANGED <<queueVars, leader, trace>>

\* The node at node_index is evaluated: it yields a value, for the next node or
\* as the end of the evaluation; it stops the pipeline; it fails.
Evaluate(i) ==
    /\ pc[i] = "evaluate"
    /\ trace' = [trace EXCEPT ![work[i].event] = Append(@, work[i].index)]
    /\ \/ /\ work[i].index + 1 < count[i]
          /\ Goto(i, "push", work[i])
          /\ UNCHANGED outcome
       \/ /\ work[i].index + 1 = count[i]
          /\ Settle(i, "completed")
       \/ Settle(i, "stopped")
       \/ Goto(i, "disable", work[i]) /\ UNCHANGED outcome
    /\ UNCHANGED <<queueVars, count, leader>>

\* (Mutant) the next work item is for the same node.
NextWorkSame(i) == work[i]

\* The work item for the next node.
NextWork(i) == [work[i] EXCEPT !.index = @ + 1]

\* (Mutant) push instead of try_push.
PushNextBlocking(i) ==
    /\ pc[i] = "push"
    /\ \/ /\ Adapter = "mpsc" /\ HasRoom(i)
          /\ channel' = [channel EXCEPT ![i] = Append(@, NextWork(i))]
          /\ UNCHANGED primary
       \/ /\ Adapter = "redis"
          /\ primary' = Append(primary, NextWork(i))
          /\ UNCHANGED channel
    /\ Goto(i, "ack", work[i])
    /\ UNCHANGED <<parked, count, leader, outcome, trace>>
\* try_push.  A full channel answers "Queue capacity exceeded", in which the
\* task looks for "full" and for "closed" in vain: it drops the next node.
PushNext(i) ==
    /\ pc[i] = "push"
    /\ \/ /\ Adapter = "mpsc" /\ HasRoom(i)
          /\ channel' = [channel EXCEPT ![i] = Append(@, NextWork(i))]
          /\ Goto(i, "ack", work[i])
          /\ UNCHANGED <<primary, outcome>>
       \/ /\ Adapter = "mpsc" /\ ~HasRoom(i)
          /\ Settle(i, "full")
          /\ UNCHANGED <<channel, primary>>
       \/ /\ Adapter = "redis"
          /\ primary' = Append(primary, NextWork(i))
          /\ Goto(i, "ack", work[i])
          /\ UNCHANGED <<channel, outcome>>
       \/ /\ Adapter = "redis" /\ MayFail
          /\ Settle(i, "push_failed")
          /\ UNCHANGED <<channel, primary>>
    /\ UNCHANGED <<parked, count, leader, trace>>

\* update_blueprint_error disables the blueprint, or fails to.
Disable(i) ==
    /\ pc[i] = "disable"
    /\ Settle(i, "failed")
    /\ UNCHANGED <<queueVars, count, leader, trace>>

------------------------------------------------------------------------------
(* The environment.                                                         *)

\* The election (LeaderLease) goes on, independent of the work.
Elect(i) ==
    /\ Gated
    /\ \/ leader = Nobody /\ leader' = i
       \/ leader = i /\ leader' = Nobody
    /\ UNCHANGED <<queueVars, pc, work, count, outcome, trace>>

\* An instance dies, or is shut down, with what only its memory holds.
Crash(i) ==
    /\ MayCrash /\ pc[i] # "down"
    /\ LET dead == {x.event : x \in Range(channel[i])} \cup
                   {e \in {work[i].event} :
                       Adapter = "mpsc" /\ pc[i] \notin {"pull", "ack"}}
       IN  outcome' = [e \in Event |-> IF e \in dead THEN "died" ELSE outcome[e]]
    /\ channel' = [channel EXCEPT ![i] = <<>>]
    /\ Goto(i, "down", NoWork)
    /\ UNCHANGED <<primary, parked, count, leader, trace>>

\* It starts again, under the worker id it had.
Restart(i) ==
    /\ pc[i] = "down"
    /\ Goto(i, "pull", NoWork)
    /\ UNCHANGED <<queueVars, count, leader, outcome, trace>>

Task(i) ==
    \/ PullFromChannel(i) \/ PullFromRedis(i) \/ PullNone(i)
    \/ CheckLeader(i) \/ Acknowledge(i)
    \/ ReadBlueprint(i) \/ ListNodes(i) \/ Evaluate(i) \/ PushNext(i) \/ Disable(i)

Next ==
    \E i \in Instance :
        \/ \E e \in Event : Submit(i, e)
        \/ Forward(i) \/ Task(i) \/ Elect(i) \/ Crash(i) \/ Restart(i)

Spec == Init /\ [][Next]_vars

\* The tasks of an instance are scheduled, and every call they make returns.
Fairness == \A i \in Instance : WF_vars(Task(i)) /\ WF_vars(Forward(i))

FairSpec == Spec /\ Fairness

------------------------------------------------------------------------------
(* Properties                                                               *)

\* The nodes of a blueprint are evaluated for an event in the order of the
\* pipeline, from the first, none of them twice: whatever instances share the
\* queue, lead, fail or crash, no event publishes the same record again.
NodesRunInOrder ==
    \A e \in Event : trace[e] = [k \in DOMAIN trace[e] |-> k - 1]

\* What was decided about an event is final: no instance goes on with an event
\* that was completed, stopped, dropped or skipped.
SettledIsFinal ==
    [][\A e \in Event :
          outcome[e] \in Settled =>
             outcome'[e] = outcome[e] /\ trace'[e] = trace[e]]_vars

\* The places where the work of an event may be.
Items(i) ==
    Range(channel[i]) \cup parked[i] \cup {x \in {work[i]} : x # NoWork}

\* A pending event can be resumed from where it is, without skipping a node and
\* repeating at most one: somewhere is a work item for the next node, or for the
\* node evaluated last.  So it is even when an instance dies between the push of
\* the next node and the acknowledgement, or in the middle of an evaluation.
PendingCanResume ==
    \A e \in Event : outcome[e] = "pending" =>
        \E x \in Range(primary) \cup UNION {Items(i) : i \in Instance} :
            x.event = e /\ x.index \in {Len(trace[e]) - 1, Len(trace[e])}

\* Every event an instance accepted is settled: the only evaluation task, which
\* also feeds its own queue, never waits for room in it.
PendingIsSettled ==
    \A e \in Event : outcome[e] = "pending" ~> outcome[e] \in Settled
==============================================================================
