------------------------------- MODULE Scheduler -------------------------------
(***************************************************************************)
(* The scheduler of periodic blueprints: src/tasks/scheduler.rs over the   *)
(* rows of src/storage/scheduler_state.rs.  Every instance runs one task   *)
(* with a cache of the periodic blueprints; the task whose instance leads  *)
(* queues the blueprints whose row is due and then moves the row.          *)
(*                                                                         *)
(* Time is counted in the occurrences of each cron expression: the next    *)
(* occurrence after now is the one after those that have passed, and a row *)
(* is due when the occurrence it waits for has passed.  Occurrences are at *)
(* least 30 minutes apart (validate_cron_schedule).                        *)
(***************************************************************************)
EXTENDS Naturals, FiniteSets

CONSTANTS Instance,
          Blueprint,
          Cron,           \* the cron expressions
          Edited,         \* the blueprints whose owner edits them
          Ending,         \* those that name a year, after which they may end
          MaxOccurrence,  \* bound on the occurrences of each that pass
          MaxFaults,      \* bound on failures and crashes
          None            \* no row, no run, no cron, no leader

Occurrence == 1..(MaxOccurrence + 1)

\* A blueprint to be run for an occurrence of a cron expression.
Run == [blueprint : Blueprint, cron : Cron, at : Occurrence]

\* A row of scheduler_state: next_run, as an occurrence, and enabled.
Row == [cron : Cron, at : Occurrence, enabled : BOOLEAN]

ASSUME SchedulerAssumption ==
    /\ None \notin Instance \cup Cron \cup Row
    /\ Edited \subseteq Blueprint
    /\ Ending \subseteq Cron
    /\ MaxOccurrence \in Nat \ {0}
    /\ MaxFaults \in Nat

VARIABLES passed,   \* how many occurrences of each cron expression have passed
          plan,     \* the cron expression in the nodes of a blueprint which the
                    \* scheduler accepts, None for any other blueprint
          row,      \* the row of each blueprint, or None
          leader,   \* the instance whose is_leader() answers true, or None
          pc,       \* where the task of an instance is
          cache,    \* cached_blueprints: the cron of each, None if not cached
          todo,     \* the runs the task has yet to look at
          current,  \* the next run it is about to store, or None
          faults,   \* failures and crashes so far
          runs,     \* (history) how often each run has been queued
          excuses   \* (history) how often the row was left at a run after it
                    \* was queued, or was set to it by a task that starts

vars == <<passed, plan, row, leader, pc, cache, todo, current, faults,
          runs, excuses>>

Busy == {"ready", "fetch", "process", "update", "disable"}

Init ==
    /\ passed = [c \in Cron |-> 0]
    /\ plan \in [Blueprint -> Cron \cup {None}]
    /\ row = [b \in Blueprint |-> None]
    /\ leader = None
    /\ pc = [i \in Instance |-> "down"]
    /\ cache = [i \in Instance |-> [b \in Blueprint |-> None]]
    /\ todo = [i \in Instance |-> {}]
    /\ current = [i \in Instance |-> None]
    /\ faults = 0
    /\ runs = [r \in Run |-> 0]
    /\ excuses = [r \in Run |-> 0]

------------------------------------------------------------------------------
(* The cron expressions and the rows.                                       *)

\* find_next_occurrence(now) may fail: there may be no occurrence after the last
\* that is modelled.
MayHaveEnded(c) == c \in Ending /\ passed[c] = MaxOccurrence

\* The run of b after now.
NextRun(b, c) == [blueprint |-> b, cron |-> c, at |-> passed[c] + 1]

\* get_ready_blueprints: WHERE enabled = true AND next_run <= now.
Due(b) ==
    /\ row[b] # None
    /\ row[b].enabled
    /\ row[b].at <= passed[row[b].cron]

\* The run a row waits for.
RowRun(b) == [blueprint |-> b, cron |-> row[b].cron, at |-> row[b].at]

SetNext(r) ==
    row' = [row EXCEPT ![r.blueprint].cron = r.cron, ![r.blueprint].at = r.at]

Fault == faults < MaxFaults /\ faults' = faults + 1

Excuse(r) == excuses' = [excuses EXCEPT ![r] = @ + 1]

Goto(i, where, r) ==
    /\ pc' = [pc EXCEPT ![i] = where]
    /\ current' = [current EXCEPT ![i] = r]

------------------------------------------------------------------------------
(* The start of the task.                                                   *)

\* load_blueprints_cache.  Each blueprint is read on its own; what counts is
\* that the cache is set when all have been read.
LoadCache(i) == cache' = [cache EXCEPT ![i] = plan]

\* The program starts, and with it the task: the initial load.  If it fails, the
\* task ends, and its end ends the program.
Start(i) ==
    /\ pc[i] = "down"
    /\ LoadCache(i)
    /\ todo' = [todo EXCEPT ![i] =
          {NextRun(b, plan[b]) : b \in {x \in Blueprint : plan[x] # None}}]
    /\ Goto(i, "init", None)
    /\ UNCHANGED <<passed, plan, row, leader, faults, runs, excuses>>

\* initialize_scheduler_state, one blueprint: if it has no row, or if its row
\* cannot be read, and its cron has not ended, then its next run is computed.
CheckState(i, r) ==
    /\ pc[i] = "init" /\ r \in todo[i]
    /\ todo' = [todo EXCEPT ![i] = @ \ {r}]
    /\ \/ /\ row[r.blueprint] # None \/ MayHaveEnded(r.cron)
          /\ Goto(i, "init", None)
          /\ UNCHANGED faults
       \/ /\ \/ row[r.blueprint] = None /\ UNCHANGED faults
             \/ row[r.blueprint] # None /\ Fault
          /\ Goto(i, "save", NextRun(r.blueprint, r.cron))
    /\ UNCHANGED <<passed, plan, row, leader, cache, runs, excuses>>

\* The row of a run that is to come: an INSERT ... ON CONFLICT DO UPDATE.
PutState(r) ==
    row' = [row EXCEPT ![r.blueprint] = [cron |-> r.cron, at |-> r.at, enabled |-> TRUE]]

\* save_state of the new row, which replaces a row another has saved meanwhile;
\* a failure is logged.
SaveState(i) ==
    /\ pc[i] = "save"
    /\ \/ /\ PutState(current[i])
          /\ IF row[current[i].blueprint] = None THEN UNCHANGED excuses
             ELSE Excuse(current[i])
          /\ UNCHANGED faults
       \/ Fault /\ UNCHANGED <<row, excuses>>
    /\ Goto(i, "init", None)
    /\ UNCHANGED <<passed, plan, leader, cache, todo, runs>>

Started(i) ==
    /\ pc[i] = "init" /\ todo[i] = {}
    /\ Goto(i, "sleep", None)
    /\ UNCHANGED <<passed, plan, row, leader, cache, todo, faults, runs, excuses>>

------------------------------------------------------------------------------
(* The loop of the task, every 10 seconds.                                  *)

\* The gate; who does not lead, or cannot tell, goes on sleeping.
PassGate(i) ==
    /\ pc[i] = "sleep" /\ leader = i
    /\ Goto(i, "ready", None)
    /\ UNCHANGED <<passed, plan, row, leader, cache, todo, faults, runs, excuses>>

\* A cache that is older than 60 seconds (how old it is, is left open) is
\* reloaded.
Reload(i) ==
    /\ pc[i] = "ready"
    /\ LoadCache(i)
    /\ Goto(i, "fetch", None)
    /\ UNCHANGED <<passed, plan, row, leader, todo, faults, runs, excuses>>

\* A cache is young, or its reload fails: the task goes on with what it has.
KeepCache(i) ==
    /\ pc[i] = "ready"
    /\ Goto(i, "fetch", None)
    /\ UNCHANGED <<passed, plan, row, leader, cache, todo, faults, runs, excuses>>

\* process_scheduled_blueprints reads the rows that are due, or gives up.
FetchReady(i) ==
    /\ pc[i] = "fetch"
    /\ \/ /\ todo' = [todo EXCEPT ![i] = {RowRun(b) : b \in {x \in Blueprint : Due(x)}}]
          /\ Goto(i, "process", None)
          /\ UNCHANGED faults
       \/ /\ Fault
          /\ Goto(i, "sleep", None)
          /\ UNCHANGED todo
    /\ UNCHANGED <<passed, plan, row, leader, cache, runs, excuses>>

\* (Mutant) the task returns at a row whose blueprint is not cached.
ReturnAtUncached(i, r) ==
    /\ pc[i] = "process" /\ r \in todo[i]
    /\ cache[i][r.blueprint] = None
    /\ todo' = [todo EXCEPT ![i] = {}]
    /\ UNCHANGED <<passed, plan, row, leader, pc, cache, current, faults, runs, excuses>>

\* A row whose blueprint is not cached is passed over.
SkipUncached(i, r) ==
    /\ pc[i] = "process" /\ r \in todo[i]
    /\ cache[i][r.blueprint] = None
    /\ todo' = [todo EXCEPT ![i] = @ \ {r}]
    /\ UNCHANGED <<passed, plan, row, leader, pc, cache, current, faults, runs, excuses>>

\* push, and the computation of the next run from the cached cron expression.
Push(i, r) ==
    /\ pc[i] = "process" /\ r \in todo[i]
    /\ todo' = [todo EXCEPT ![i] = @ \ {r}]
    /\ runs' = [runs EXCEPT ![r] = @ + 1]
    /\ LET c == cache[i][r.blueprint]
       IN  /\ c # None
           /\ \/ Goto(i, "update", NextRun(r.blueprint, c))
              \/ MayHaveEnded(c) /\ Goto(i, "disable", r)
    /\ UNCHANGED <<passed, plan, row, leader, cache, faults, excuses>>

\* (Mutant) the row is moved whether push succeeds or not.
PushFailsMoves(i, r) ==
    /\ pc[i] = "process" /\ r \in todo[i] /\ cache[i][r.blueprint] # None
    /\ Fault
    /\ todo' = [todo EXCEPT ![i] = @ \ {r}]
    /\ Goto(i, "update", NextRun(r.blueprint, cache[i][r.blueprint]))
    /\ UNCHANGED <<passed, plan, row, leader, cache, runs, excuses>>

\* push fails before or after the queue has the work; the row stays due.
PushFails(i, r) ==
    /\ pc[i] = "process" /\ r \in todo[i] /\ cache[i][r.blueprint] # None
    /\ Fault
    /\ todo' = [todo EXCEPT ![i] = @ \ {r}]
    /\ \/ UNCHANGED <<runs, excuses>>
       \/ runs' = [runs EXCEPT ![r] = @ + 1] /\ Excuse(r)
    /\ UNCHANGED <<passed, plan, row, leader, pc, cache, current>>

\* (Mutant) only last_run is set.
UpdateLastRunOnly(i) ==
    /\ pc[i] = "update"
    /\ Goto(i, "process", None)
    /\ UNCHANGED <<passed, plan, row, leader, cache, todo, faults, runs, excuses>>
\* update_run_times; a failure is logged.
UpdateRunTimes(i) ==
    /\ pc[i] = "update"
    /\ \/ SetNext(current[i]) /\ UNCHANGED <<faults, excuses>>
       \/ Fault /\ Excuse(RowRun(current[i].blueprint)) /\ UNCHANGED row
    /\ Goto(i, "process", None)
    /\ UNCHANGED <<passed, plan, leader, cache, todo, runs>>

\* There is no next run: get_state and save_state with enabled = false, unless
\* one of them fails.
DisableRow(i) ==
    /\ pc[i] = "disable"
    /\ LET b == current[i].blueprint
       IN  \/ /\ row' = [row EXCEPT ![b].enabled = FALSE]
              /\ UNCHANGED <<faults, excuses>>
           \/ Fault /\ Excuse(RowRun(b)) /\ UNCHANGED row
    /\ Goto(i, "process", None)
    /\ UNCHANGED <<passed, plan, leader, cache, todo, runs>>

Processed(i) ==
    /\ pc[i] = "process" /\ todo[i] = {}
    /\ Goto(i, "sleep", None)
    /\ UNCHANGED <<passed, plan, row, leader, cache, todo, faults, runs, excuses>>

------------------------------------------------------------------------------
(* The environment.                                                         *)

\* An occurrence of a cron expression passes.
Passes(c) ==
    /\ passed[c] < MaxOccurrence
    /\ passed' = [passed EXCEPT ![c] = @ + 1]
    /\ UNCHANGED <<plan, row, leader, pc, cache, todo, current, faults, runs, excuses>>

\* The owner creates, edits, disables or deletes a blueprint.
Edit(b, c) ==
    /\ b \in Edited /\ plan[b] # c
    /\ plan' = [plan EXCEPT ![b] = c]
    /\ UNCHANGED <<passed, row, leader, pc, cache, todo, current, faults, runs, excuses>>

\* The election (LeaderLease) goes on.  A lease does not end while its owner
\* processes rows: see OneInstanceProcesses of LeaderGate for when that is so.
Elect(i) ==
    /\ \/ leader = None /\ leader' = i
       \/ leader = i /\ pc[i] \notin Busy /\ leader' = None
    /\ UNCHANGED <<passed, plan, row, pc, cache, todo, current, faults, runs, excuses>>

\* An instance dies or is shut down.  A run it has queued, and whose row it has
\* not moved, will be queued again.
Crash(i) ==
    /\ pc[i] # "down" /\ Fault
    /\ IF pc[i] \in {"update", "disable"}
       THEN Excuse(RowRun(current[i].blueprint)) ELSE UNCHANGED excuses
    /\ cache' = [cache EXCEPT ![i] = [b \in Blueprint |-> None]]
    /\ todo' = [todo EXCEPT ![i] = {}]
    /\ Goto(i, "down", None)
    /\ UNCHANGED <<passed, plan, row, leader, runs>>

Process(i) ==
    \/ FetchReady(i) \/ UpdateRunTimes(i) \/ DisableRow(i) \/ Processed(i)
    \/ \E r \in todo[i] : SkipUncached(i, r) \/ Push(i, r) \/ PushFails(i, r)

Task(i) ==
    \/ SaveState(i) \/ Started(i) \/ PassGate(i)
    \/ Reload(i) \/ KeepCache(i)
    \/ \E r \in todo[i] : CheckState(i, r)
    \/ Process(i)

Next ==
    \/ \E i \in Instance : Task(i) \/ Elect(i) \/ Start(i) \/ Crash(i)
    \/ \E c \in Cron : Passes(c)
    \/ \E b \in Blueprint, c \in Cron \cup {None} : Edit(b, c)

Spec == Init /\ [][Next]_vars

\* Every task is scheduled and every call it awaits returns; and since time
\* passes, a task that comes by the reload again and again does it at some time.
Fairness == \A i \in Instance : WF_vars(Task(i)) /\ SF_vars(Reload(i))

FairSpec == Spec /\ Fairness

------------------------------------------------------------------------------
(* Properties                                                               *)

\* A blueprint is queued once for an occurrence of its schedule, except that it
\* is queued again each time the row could not be moved after the push, or was
\* set back by an instance that starts.
RepeatsHaveAnExcuse == \A r \in Run : runs[r] <= 1 + excuses[r]

\* A row moves on from a run that is due only if the run was queued: a failed
\* push, a crash or a failed update loses none.  The exception is an instance
\* that starts, did not see the row, and sets it.
DueRunsAreQueued ==
    [][\A b \in Blueprint :
          Due(b) /\ row'[b] # row[b] =>
             \/ runs[RowRun(b)] > 0 \/ excuses[RowRun(b)] > 0
             \/ \E i \in Instance : pc[i] = "save" /\ current[i].blueprint = b]_vars

\* The rows of blueprints that are no longer periodic stay due for ever
\* (cleanup_stale_states is never called).  They keep nobody else waiting: while
\* an instance lasts as the leader, and a blueprint stays periodic, its row does
\* not stay due.
DueRowsAreHandled ==
    \A b \in Blueprint :
        <>[](\E i \in Instance : leader = i /\ pc[i] # "down" /\ plan[b] # None)
            => []<>~Due(b)

\* src/tasks/scheduler.rs:83-84: "In the main loop (every 10 seconds): 1. Evaluates
\* blueprints that have never run before".  A blueprint that stays periodic gets
\* a row while an instance lasts as the leader.  It does not if it became
\* periodic after the start of the task.
NewBlueprintsAreScheduled ==
    \A b \in Blueprint :
        <>[](\E i \in Instance : leader = i /\ pc[i] # "down" /\ plan[b] # None)
            => <>(row[b] # None)
==============================================================================
