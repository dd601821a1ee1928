--------------------------- MODULE Scheduler_proofs ---------------------------
(***************************************************************************)
(* Proofs about Scheduler, for every set of instances, blueprints and cron *)
(* expressions, and however many occurrences pass and failures happen.     *)
(***************************************************************************)
EXTENDS Scheduler, TLAPS

USE SchedulerAssumption

TypeOK ==
    /\ passed \in [Cron -> 0..MaxOccurrence]
    /\ plan \in [Blueprint -> Cron \cup {None}]
    /\ row \in [Blueprint -> Row \cup {None}]
    /\ leader \in Instance \cup {None}
    /\ pc \in [Instance -> {"down", "init", "save", "sleep"} \cup Busy]
    /\ cache \in [Instance -> [Blueprint -> Cron \cup {None}]]
    /\ todo \in [Instance -> SUBSET Run]
    /\ current \in [Instance -> Run \cup {None}]
    /\ \A i \in Instance :
          pc[i] \in {"save", "update", "disable"} => current[i] \in Run
    /\ runs \in [Run -> Nat]
    /\ excuses \in [Run -> Nat]

\* A task has queued the run of b, and not yet moved its row.
Settles(i, b) == pc[i] \in {"update", "disable"} /\ current[i].blueprint = b
Settling(b) == \E i \in Instance : Settles(i, b)

\* A run is repeated only with an excuse, and queued only when it is due.
RunInv(r) ==
    /\ runs[r] <= 1 + excuses[r]
    /\ runs[r] > 0 => r.at <= passed[r.cron]

\* No run is queued without a row.  The run a row waits for has an excuse for
\* each time it was queued before; and while the row is about to be moved, that
\* run has been queued, or the row has been set meanwhile.
RowInv(b) ==
    /\ row[b] = None => \A r \in Run : r.blueprint = b => runs[r] = 0
    /\ row[b] # None /\ row[b].enabled /\ ~Settling(b) =>
          runs[RowRun(b)] <= excuses[RowRun(b)]
    /\ Settling(b) =>
          /\ row[b] # None
          /\ runs[RowRun(b)] > 0 \/ excuses[RowRun(b)] > 0

\* What the task of i has fetched and not yet looked at: due, not yet queued but
\* with an excuse, and one run of each blueprint; the row still waits for it
\* unless an instance that starts has set the row.
FetchedInv(i, r) ==
    /\ row[r.blueprint] # None
    /\ r.at <= passed[r.cron]
    /\ runs[r] <= excuses[r]
    /\ RowRun(r.blueprint) = r \/ excuses[RowRun(r.blueprint)] > 0
    /\ \A s \in todo[i] : s.blueprint = r.blueprint => s = r
    /\ ~Settles(i, r.blueprint)

\* Only the leader processes rows.  The run it is about to move a row to has an
\* excuse for each time it was queued.
TaskInv(i) ==
    /\ pc[i] \in Busy => leader = i
    /\ pc[i] = "update" => runs[current[i]] <= excuses[current[i]]
    /\ pc[i] \in {"process", "update", "disable"} =>
          \A r \in todo[i] : FetchedInv(i, r)

SchedulerInv ==
    /\ TypeOK
    /\ \A r \in Run : RunInv(r)
    /\ \A b \in Blueprint : RowInv(b)
    /\ \A i \in Instance : TaskInv(i)

------------------------------------------------------------------------------
\* What the operators of the model yield.

\* The run a row waits for, and the run of a cron expression after now, are runs.
LEMMA TypeOfRuns ==
  ASSUME TypeOK, NEW b \in Blueprint
  PROVE  /\ row[b] # None => row[b] \in Row /\ RowRun(b) \in Run
         /\ \A c \in Cron : NextRun(b, c) \in Run
<1>1. row[b] # None => row[b] \in Row /\ RowRun(b) \in Run
  BY DEF TypeOK, RowRun, Row, Run
<1>2. ASSUME NEW c \in Cron
      PROVE  NextRun(b, c) \in Run
  BY <1>2 DEF TypeOK, NextRun, Run, Occurrence
<1> QED
  BY <1>1, <1>2

\* A row that is moved waits for the run it is moved to, and stays enabled or
\* disabled as it was; no other row changes.
LEMMA MovedRow ==
  ASSUME TypeOK, NEW r \in Run, row[r.blueprint] # None, SetNext(r)
  PROVE  /\ r.blueprint \in Blueprint
         /\ row' \in [Blueprint -> Row \cup {None}]
         /\ row'[r.blueprint] # None
         /\ row'[r.blueprint].enabled = row[r.blueprint].enabled
         /\ RowRun(r.blueprint)' = r
         /\ \A b \in Blueprint \ {r.blueprint} : row'[b] = row[b]
<1> DEFINE b == r.blueprint
           new == [cron |-> r.cron, at |-> r.at, enabled |-> row[b].enabled]
<1>1. b \in Blueprint /\ row[b] \in Row
  BY DEF TypeOK, Run
<1>2. row' = [row EXCEPT ![b] = [[row[b] EXCEPT !.cron = r.cron] EXCEPT !.at = r.at]]
  BY <1>1 DEF TypeOK, SetNext
<1>3. row'[b] = new /\ new \in Row
  BY <1>1, <1>2 DEF TypeOK, Row, Run
<1>4. \A x \in Blueprint \ {b} : row'[x] = row[x]
  BY <1>1, <1>2 DEF TypeOK
<1>5. RowRun(b)' = r
  BY <1>3 DEF RowRun, Run
<1>6. row' \in [Blueprint -> Row \cup {None}]
  BY <1>1, <1>2, <1>3 DEF TypeOK
<1> QED
  BY <1>1, <1>3, <1>4, <1>5, <1>6

\* So does a row that is saved, which is enabled.
LEMMA SavedRow ==
  ASSUME TypeOK, NEW r \in Run, PutState(r)
  PROVE  /\ r.blueprint \in Blueprint
         /\ row' \in [Blueprint -> Row \cup {None}]
         /\ row'[r.blueprint] # None
         /\ RowRun(r.blueprint)' = r
         /\ \A b \in Blueprint \ {r.blueprint} : row'[b] = row[b]
<1> DEFINE b == r.blueprint
           new == [cron |-> r.cron, at |-> r.at, enabled |-> TRUE]
<1>1. b \in Blueprint /\ new \in Row
  BY DEF Row, Run
<1>2. row' = [row EXCEPT ![b] = new]
  BY DEF PutState
<1>3. row'[b] = new
  BY <1>1, <1>2 DEF TypeOK
<1>4. RowRun(b)' = r
  BY <1>3 DEF RowRun, Run
<1> QED
  BY <1>1, <1>2, <1>3, <1>4 DEF TypeOK

\* An excuse is added to one run.
LEMMA ExcuseAdds ==
  ASSUME TypeOK, NEW r \in Run, Excuse(r)
  PROVE  /\ excuses' \in [Run -> Nat]
         /\ excuses'[r] = excuses[r] + 1
         /\ \A s \in Run \ {r} : excuses'[s] = excuses[s]
  BY DEF TypeOK, Excuse

\* Where a task goes concerns no other task.
LEMMA GotoOne ==
  ASSUME TypeOK, NEW i \in Instance, NEW r \in Run \cup {None},
         NEW where \in {"down", "init", "save", "sleep"} \cup Busy, Goto(i, where, r),
         where \in {"save", "update", "disable"} => r \in Run
  PROVE  /\ pc' \in [Instance -> {"down", "init", "save", "sleep"} \cup Busy]
         /\ current' \in [Instance -> Run \cup {None}]
         /\ \A j \in Instance :
               pc'[j] \in {"save", "update", "disable"} => current'[j] \in Run
         /\ pc'[i] = where /\ current'[i] = r
         /\ \A j \in Instance \ {i} : pc'[j] = pc[j] /\ current'[j] = current[j]
  BY DEF TypeOK, Goto

------------------------------------------------------------------------------
\* Every step preserves the invariant.

\* One task at a time processes rows.
LEMMA OneIsBusy ==
  ASSUME SchedulerInv, NEW i \in Instance, NEW j \in Instance,
         pc[i] \in Busy, pc[j] \in Busy
  PROVE  i = j
  BY DEF SchedulerInv, TaskInv

\* A task that goes from one place to another, queues nothing, moves no row and
\* fetches no run preserves the invariant if it leads where it must.
LEMMA QuietStep ==
  ASSUME SchedulerInv, TypeOK', NEW i \in Instance,
         UNCHANGED <<passed, row, leader, runs, excuses>>,
         \A j \in Instance \ {i} :
            pc'[j] = pc[j] /\ current'[j] = current[j] /\ todo'[j] = todo[j],
         pc[i] \notin {"update", "disable"}, pc'[i] \notin {"update", "disable"},
         pc'[i] \in Busy => leader = i,
         pc'[i] = "process" => pc[i] = "process" /\ todo'[i] \subseteq todo[i]
  PROVE  SchedulerInv'
<1>1. \A j \in Instance, b \in Blueprint : Settles(j, b)' <=> Settles(j, b)
  BY DEF Settles
<1>2. ASSUME NEW b \in Blueprint
      PROVE  RowInv(b)'
  BY <1>1 DEF SchedulerInv, RowInv, Settling, RowRun
<1>3. ASSUME NEW r \in Run
      PROVE  RunInv(r)'
  BY DEF SchedulerInv, RunInv
<1>4. ASSUME NEW j \in Instance
      PROVE  TaskInv(j)'
  <2>1. TaskInv(j)
    BY DEF SchedulerInv
  <2>2. (pc[j] \in Busy => leader = j)' /\ ((pc[j] = "update")' => j # i)
    BY <2>1 DEF TaskInv
  <2>3. ASSUME pc'[j] \in {"process", "update", "disable"}, NEW r \in todo'[j]
        PROVE  FetchedInv(j, r)'
    <3>1. pc[j] \in {"process", "update", "disable"} /\ r \in todo[j]
          /\ todo'[j] \subseteq todo[j]
      BY <2>3
    <3>2. FetchedInv(j, r) /\ r.blueprint \in Blueprint
      BY <2>1, <3>1 DEF TaskInv, SchedulerInv, TypeOK, Run
    <3> QED
      BY <1>1, <3>1, <3>2 DEF FetchedInv, RowRun
  <2> QED
    BY <2>1, <2>2, <2>3 DEF TaskInv
<1> QED
  BY <1>2, <1>3, <1>4 DEF SchedulerInv

\* The start of the task, its way to the gate and through it, the reload of the
\* cache, and the end of a round.
LEMMA QuietSteps ==
  ASSUME SchedulerInv, NEW i \in Instance,
         \/ Start(i) \/ Started(i) \/ PassGate(i) \/ Reload(i) \/ KeepCache(i)
         \/ Processed(i)
         \/ \E r \in todo[i] : CheckState(i, r) \/ SkipUncached(i, r)
  PROVE  SchedulerInv'
<1> USE DEF Busy
<1>0. TypeOK /\ TaskInv(i)
  BY DEF SchedulerInv
<1>1. CASE Start(i)
  <2>1. LoadCache(i) => cache' \in [Instance -> [Blueprint -> Cron \cup {None}]]
    BY <1>0 DEF TypeOK, LoadCache
  <2>2. {NextRun(b, plan[b]) : b \in {x \in Blueprint : plan[x] # None}} \subseteq Run
    BY <1>0, TypeOfRuns DEF TypeOK
  <2>3. TypeOK' /\ pc'[i] = "init" /\ pc[i] = "down"
    BY <1>0, <1>1, <2>1, <2>2, GotoOne DEF TypeOK, Start
  <2> QED
    BY <1>0, <1>1, <2>3, QuietStep, GotoOne DEF Start, TypeOK
<1>2. CASE Started(i) \/ PassGate(i) \/ KeepCache(i) \/ Processed(i)
  <2>1. TypeOK'
    BY <1>0, <1>2, GotoOne DEF TypeOK, Started, PassGate, KeepCache, Processed
  <2> QED
    BY <1>0, <1>2, <2>1, QuietStep, GotoOne
       DEF Started, PassGate, KeepCache, Processed, TypeOK, TaskInv
<1>3. CASE Reload(i)
  <2>1. TypeOK'
    BY <1>0, <1>3, GotoOne DEF TypeOK, Reload, LoadCache
  <2>2. /\ pc[i] = "ready" /\ leader = i /\ pc'[i] = "fetch"
        /\ \A j \in Instance \ {i} : pc'[j] = pc[j] /\ current'[j] = current[j]
    BY <1>0, <1>3, GotoOne DEF Reload, TaskInv
  <2> QED
    BY <1>3, <2>1, <2>2, QuietStep DEF Reload
<1>4. ASSUME NEW r \in todo[i], CheckState(i, r)
      PROVE  SchedulerInv'
  <2>1. r \in Run /\ r.blueprint \in Blueprint /\ r.cron \in Cron
    BY <1>0 DEF TypeOK, Run
  <2>2. NextRun(r.blueprint, r.cron) \in Run
    BY <1>0, <2>1, TypeOfRuns
  <2>3. todo' \in [Instance -> SUBSET Run]
        /\ \A j \in Instance \ {i} : todo'[j] = todo[j]
    BY <1>0, <1>4 DEF TypeOK, CheckState
  <2>4. /\ TypeOK' /\ pc'[i] \in {"init", "save"}
        /\ \A j \in Instance \ {i} : pc'[j] = pc[j] /\ current'[j] = current[j]
    BY <1>0, <1>4, <2>2, <2>3, GotoOne DEF TypeOK, CheckState
  <2> QED
    BY <1>4, <2>3, <2>4, QuietStep DEF CheckState
<1>5. ASSUME NEW r \in todo[i], SkipUncached(i, r)
      PROVE  SchedulerInv'
  <2>1. TypeOK' /\ todo'[i] \subseteq todo[i]
        /\ \A j \in Instance \ {i} : todo'[j] = todo[j]
    BY <1>0, <1>5 DEF TypeOK, SkipUncached
  <2> QED
    BY <1>0, <1>5, <2>1, QuietStep DEF SkipUncached, TaskInv
<1> QED
  BY <1>1, <1>2, <1>3, <1>4, <1>5

\* What the environment does: occurrences pass, blueprints are edited, and an
\* instance that processes rows stays the leader.
LEMMA EnvironmentSteps ==
  ASSUME SchedulerInv,
         \/ \E c \in Cron : Passes(c)
         \/ \E b \in Blueprint, c \in Cron \cup {None} : Edit(b, c)
         \/ \E i \in Instance : Elect(i)
         \/ UNCHANGED vars
  PROVE  SchedulerInv'
<1>0. TypeOK
  BY DEF SchedulerInv
<1>1. /\ TypeOK'
      /\ UNCHANGED <<row, pc, todo, current, runs, excuses>>
      /\ \A c \in Cron : passed[c] <= passed'[c] /\ passed[c] \in Nat /\ passed'[c] \in Nat
      /\ \A i \in Instance : pc[i] \in Busy => (leader = i => leader' = i)
  <2>1. ASSUME NEW c \in Cron, Passes(c)
        PROVE  <1>1!1 /\ <1>1!2 /\ <1>1!3 /\ <1>1!4
    BY <1>0, <2>1 DEF TypeOK, Passes
  <2>2. ASSUME NEW b \in Blueprint, NEW c \in Cron \cup {None}, Edit(b, c)
        PROVE  <1>1!1 /\ <1>1!2 /\ <1>1!3 /\ <1>1!4
    BY <1>0, <2>2 DEF TypeOK, Edit
  <2>3. ASSUME NEW i \in Instance, Elect(i)
        PROVE  <1>1!1 /\ <1>1!2 /\ <1>1!3 /\ <1>1!4
    BY <1>0, <2>3 DEF TypeOK, Elect
  <2>4. CASE UNCHANGED vars
    BY <1>0, <2>4 DEF TypeOK, vars
  <2> QED
    BY <2>1, <2>2, <2>3, <2>4
<1>2. ASSUME NEW r \in Run
      PROVE  RunInv(r)'
  <2>1. RunInv(r) /\ r.cron \in Cron /\ r.at \in Nat
    BY DEF SchedulerInv, Run, Occurrence
  <2> QED
    BY <1>1, <2>1 DEF RunInv
<1>3. \A i \in Instance, b \in Blueprint : Settles(i, b)' <=> Settles(i, b)
  BY <1>1 DEF Settles
<1>4. ASSUME NEW b \in Blueprint
      PROVE  RowInv(b)'
  BY <1>1, <1>3 DEF SchedulerInv, RowInv, Settling, RowRun
<1>5. ASSUME NEW i \in Instance
      PROVE  TaskInv(i)'
  <2>1. TaskInv(i)
    BY DEF SchedulerInv
  <2>2. ASSUME pc[i] \in {"process", "update", "disable"}, NEW r \in todo[i]
        PROVE  FetchedInv(i, r)'
    <3>1. FetchedInv(i, r) /\ r.blueprint \in Blueprint /\ r.cron \in Cron /\ r.at \in Nat
      BY <1>0, <2>1, <2>2 DEF TaskInv, TypeOK, Run, Occurrence
    <3> QED
      BY <1>1, <1>3, <3>1 DEF FetchedInv, RowRun
  <2> QED
    BY <1>1, <2>1, <2>2 DEF TaskInv
<1> QED
  BY <1>1, <1>2, <1>4, <1>5 DEF SchedulerInv

\* An instance that starts sets a row: to a run that was never queued if the
\* blueprint had no row, and with an excuse otherwise.
LEMMA SaveStep ==
  ASSUME SchedulerInv, NEW i \in Instance, SaveState(i)
  PROVE  SchedulerInv'
<1> PICK r \in Run : r = current[i]
  BY DEF SchedulerInv, TypeOK, SaveState
<1> DEFINE b0 == r.blueprint
<1>0. TypeOK /\ b0 \in Blueprint /\ pc[i] = "save"
  BY DEF SchedulerInv, SaveState, Run
<1>1. /\ pc' \in [Instance -> {"down", "init", "save", "sleep"} \cup Busy]
      /\ current' \in [Instance -> Run \cup {None}]
      /\ \A j \in Instance :
            pc'[j] \in {"save", "update", "disable"} => current'[j] \in Run
      /\ pc'[i] = "init"
      /\ \A j \in Instance \ {i} : pc'[j] = pc[j] /\ current'[j] = current[j]
  BY <1>0, GotoOne DEF SaveState
<1>2. \A j \in Instance, b \in Blueprint : Settles(j, b)' <=> Settles(j, b)
  BY <1>0, <1>1 DEF Settles
<1>3. CASE row' = row /\ excuses' = excuses
  <2>1. TypeOK'
    BY <1>0, <1>1, <1>3 DEF SaveState, TypeOK
  <2> QED
    BY <1>0, <1>1, <1>3, <2>1, QuietStep DEF SaveState, Busy
<1>4. CASE PutState(r) /\ IF row[b0] = None THEN UNCHANGED excuses ELSE Excuse(r)
  <2>1. /\ row' \in [Blueprint -> Row \cup {None}]
        /\ row'[b0] # None /\ RowRun(b0)' = r
        /\ \A b \in Blueprint \ {b0} : row'[b] = row[b]
    BY <1>0, <1>4, SavedRow
  <2>2. /\ excuses' \in [Run -> Nat]
        /\ \A s \in Run : excuses[s] \in Nat /\ excuses[s] <= excuses'[s]
        /\ row[b0] # None => excuses'[r] = excuses[r] + 1
    BY <1>0, <1>4, ExcuseAdds DEF TypeOK
  <2>3. /\ TypeOK'
        /\ UNCHANGED <<passed, leader, todo, runs>>
        /\ \A s \in Run : runs[s] \in Nat
    BY <1>0, <1>1, <2>1, <2>2 DEF SaveState, TypeOK
  <2>4. ASSUME NEW s \in Run
        PROVE  RunInv(s)'
    BY <2>2, <2>3 DEF SchedulerInv, RunInv
  <2>5. ASSUME NEW b \in Blueprint
        PROVE  RowInv(b)'
    <3>1. RowInv(b) /\ \A s \in Run : RunInv(s)
      BY DEF SchedulerInv
    <3>2. CASE b # b0
      <4>1. row[b] # None => RowRun(b) \in Run
        BY <1>0, TypeOfRuns
      <4> QED
        BY <1>2, <2>1, <2>2, <2>3, <3>1, <3>2, <4>1 DEF RowInv, Settling, RowRun
    <3>3. CASE b = b0 /\ row[b0] = None
      BY <1>0, <1>2, <2>1, <2>2, <2>3, <3>1, <3>3 DEF RowInv, Settling
    <3>4. CASE b = b0 /\ row[b0] # None
      BY <1>0, <1>2, <2>1, <2>2, <2>3, <3>1, <3>4 DEF RowInv, RunInv, Settling
    <3> QED
      BY <3>2, <3>3, <3>4
  <2>6. ASSUME NEW j \in Instance
        PROVE  TaskInv(j)'
    <3>1. TaskInv(j)
      BY DEF SchedulerInv
    <3>2. ASSUME pc'[j] \in {"process", "update", "disable"}, NEW s \in todo[j]
          PROVE  FetchedInv(j, s)'
      <4>1. FetchedInv(j, s) /\ s \in Run /\ s.blueprint \in Blueprint
        BY <1>0, <1>1, <3>1, <3>2 DEF TaskInv, TypeOK, Run
      <4>2. CASE s.blueprint # b0
        <5>1. RowRun(s.blueprint)' = RowRun(s.blueprint) /\ RowRun(s.blueprint) \in Run
          BY <1>0, <2>1, <4>1, <4>2, TypeOfRuns DEF RowRun, FetchedInv
        <5> QED
          BY <1>2, <2>1, <2>2, <2>3, <4>1, <4>2, <5>1 DEF FetchedInv
      <4>3. CASE s.blueprint = b0
        BY <1>0, <1>2, <2>1, <2>2, <2>3, <4>1, <4>3 DEF FetchedInv
      <4> QED
        BY <4>2, <4>3
    <3>3. /\ (pc[j] \in Busy => leader = j)'
          /\ (pc[j] = "update" => runs[current[j]] <= excuses[current[j]])'
      <4>1. CASE j = i
        BY <1>1, <4>1 DEF Busy
      <4>2. CASE j # i
        <5>1. pc[j] = "update" => current[j] \in Run
          BY <1>0 DEF TypeOK
        <5> QED
          BY <1>1, <2>2, <2>3, <3>1, <4>2, <5>1 DEF TaskInv
      <4> QED
        BY <4>1, <4>2
    <3> QED
      BY <2>3, <3>2, <3>3 DEF TaskInv
  <2> QED
    BY <2>3, <2>4, <2>5, <2>6 DEF SchedulerInv
<1> QED
  BY <1>0, <1>3, <1>4 DEF SaveState

\* Every run the leader fetches is due and has an excuse for each time it was
\* queued: nobody else processes rows.
LEMMA FetchStep ==
  ASSUME SchedulerInv, NEW i \in Instance, FetchReady(i)
  PROVE  SchedulerInv'
<1>0. TypeOK /\ TaskInv(i) /\ pc[i] = "fetch" /\ leader = i
  BY DEF SchedulerInv, FetchReady, TaskInv, Busy
<1>1. CASE Fault /\ Goto(i, "sleep", None) /\ UNCHANGED todo
  <2>1. TypeOK'
    BY <1>0, <1>1, GotoOne DEF FetchReady, TypeOK
  <2> QED
    BY <1>0, <1>1, <2>1, QuietStep, GotoOne DEF FetchReady, Busy
<1>2. CASE /\ todo' = [todo EXCEPT ![i] = {RowRun(b) : b \in {x \in Blueprint : Due(x)}}]
           /\ Goto(i, "process", None)
  <2>1. /\ pc' \in [Instance -> {"down", "init", "save", "sleep"} \cup Busy]
        /\ current' \in [Instance -> Run \cup {None}]
        /\ \A j \in Instance :
              pc'[j] \in {"save", "update", "disable"} => current'[j] \in Run
        /\ pc'[i] = "process"
        /\ \A j \in Instance \ {i} : pc'[j] = pc[j] /\ current'[j] = current[j]
    BY <1>0, <1>2, GotoOne DEF Busy
  <2>2. /\ \A r \in todo'[i] : \E b \in Blueprint : Due(b) /\ r = RowRun(b)
        /\ \A j \in Instance \ {i} : todo'[j] = todo[j]
    BY <1>0, <1>2 DEF TypeOK
  <2>3. \A b \in Blueprint : Due(b) => RowRun(b) \in Run
    BY <1>0, TypeOfRuns DEF Due
  <2>4. TypeOK' /\ UNCHANGED <<passed, leader, row, runs, excuses>>
    <3>1. todo' \in [Instance -> SUBSET Run]
      BY <1>0, <1>2, <2>3 DEF TypeOK
    <3> QED
      BY <1>0, <2>1, <3>1 DEF FetchReady, TypeOK
  <2>5. \A j \in Instance, b \in Blueprint : Settles(j, b)' <=> Settles(j, b)
    BY <1>0, <2>1 DEF Settles
  <2>6. \A j \in Instance : pc[j] \in Busy => j = i
    BY <1>0, OneIsBusy DEF Busy
  <2>7. ASSUME NEW r \in todo'[i]
        PROVE  FetchedInv(i, r)'
    <3>1. PICK b \in Blueprint : Due(b) /\ r = RowRun(b)
      BY <2>2
    <3>2. /\ r.blueprint = b /\ r.cron = row[b].cron /\ r.at = row[b].at
          /\ ~Settling(b) /\ RowInv(b)
      BY <1>0, <2>6, <3>1 DEF RowRun, Settling, Settles, Busy, SchedulerInv
    <3>3. runs[r] <= excuses[r] /\ row[b] # None /\ r.at <= passed[r.cron]
      BY <3>1, <3>2 DEF RowInv, Due
    <3>4. \A s \in todo'[i] : s.blueprint = b => s = r
      BY <2>2, <3>1 DEF RowRun
    <3>5. (row[b] # None /\ RowRun(b) = r)'
      BY <2>4, <3>1, <3>3 DEF RowRun
    <3>6. ~Settles(i, b)'
      BY <2>5, <3>2 DEF Settling
    <3> QED
      BY <2>4, <3>2, <3>3, <3>4, <3>5, <3>6 DEF FetchedInv
  <2>8. \A r \in Run : RunInv(r)'
    BY <2>4 DEF SchedulerInv, RunInv
  <2>9. \A b \in Blueprint : RowInv(b)'
    BY <2>4, <2>5 DEF SchedulerInv, RowInv, Settling, RowRun
  <2>10. ASSUME NEW j \in Instance
         PROVE  TaskInv(j)'
    <3>1. CASE j = i
      BY <1>0, <2>1, <2>4, <2>7, <3>1 DEF TaskInv
    <3>2. CASE j # i
      BY <2>1, <2>6, <3>2 DEF TaskInv, Busy
    <3> QED
      BY <3>1, <3>2
  <2> QED
    BY <2>4, <2>8, <2>9, <2>10 DEF SchedulerInv
<1> QED
  BY <1>1, <1>2 DEF FetchReady

\* Only the task that processes rows settles one.
LEMMA BusyTask ==
  ASSUME SchedulerInv, NEW i \in Instance, pc[i] \in Busy
  PROVE  /\ \A j \in Instance \ {i} : pc[j] \notin Busy
         /\ \A b \in Blueprint : Settling(b) <=> Settles(i, b)
         /\ leader = i
<1>1. \A j \in Instance \ {i} : pc[j] \notin Busy
  BY OneIsBusy
<1> QED
  BY <1>1 DEF Settling, Settles, Busy, SchedulerInv, TaskInv

\* A run that is queued had an excuse for each time it was queued before, and
\* the next run its row is to be moved to was never queued: it is not yet due.
LEMMA PushStep ==
  ASSUME SchedulerInv, NEW i \in Instance, NEW r \in todo[i], Push(i, r)
  PROVE  SchedulerInv'
<1> DEFINE b0 == r.blueprint
<1>0. TypeOK /\ TaskInv(i) /\ pc[i] = "process" /\ r \in Run
      /\ b0 \in Blueprint /\ r.cron \in Cron /\ r.at \in Nat
  BY DEF SchedulerInv, Push, TypeOK, Run, Occurrence
<1>1. FetchedInv(i, r) /\ \A s \in todo[i] : FetchedInv(i, s) /\ s \in Run
  BY <1>0 DEF TaskInv, TypeOK
<1>2. PICK c \in Cron : c = cache[i][b0]
  BY <1>0 DEF Push, TypeOK
<1>3. PICK next \in Run : next = NextRun(b0, c)
  BY <1>0, TypeOfRuns
<1>4. Goto(i, "update", next) \/ Goto(i, "disable", r)
  BY <1>2, <1>3 DEF Push
<1>5. /\ pc' \in [Instance -> {"down", "init", "save", "sleep"} \cup Busy]
      /\ current' \in [Instance -> Run \cup {None}]
      /\ \A j \in Instance :
            pc'[j] \in {"save", "update", "disable"} => current'[j] \in Run
      /\ \/ pc'[i] = "update" /\ current'[i] = next
         \/ pc'[i] = "disable" /\ current'[i] = r
      /\ \A j \in Instance \ {i} : pc'[j] = pc[j] /\ current'[j] = current[j]
  <2> USE DEF Busy
  <2>1. CASE Goto(i, "update", next)
    BY <1>0, <2>1, GotoOne
  <2>2. CASE Goto(i, "disable", r)
    BY <1>0, <2>2, GotoOne
  <2> QED
    BY <1>4, <2>1, <2>2
<1>6. /\ runs' \in [Run -> Nat] /\ runs'[r] = runs[r] + 1
      /\ \A s \in Run \ {r} : runs'[s] = runs[s]
      /\ todo' \in [Instance -> SUBSET Run]
      /\ todo'[i] = todo[i] \ {r} /\ \A j \in Instance \ {i} : todo'[j] = todo[j]
      /\ UNCHANGED <<passed, plan, row, leader, cache, excuses>>
  BY <1>0 DEF Push, TypeOK
<1>7. TypeOK'
  BY <1>0, <1>5, <1>6 DEF TypeOK
<1>8. /\ next.blueprint = b0
      /\ runs[next] = 0 /\ next # r
  <2>1. next.cron = c /\ next.at = passed[c] + 1 /\ next.blueprint = b0
    BY <1>3 DEF NextRun
  <2>2. passed[c] \in Nat /\ runs[next] \in Nat
    BY <1>0 DEF TypeOK
  <2>3. RunInv(next) /\ r.at <= passed[r.cron]
    BY <1>1 DEF SchedulerInv, FetchedInv
  <2> QED
    BY <1>0, <2>1, <2>2, <2>3 DEF RunInv
<1>9. /\ \A j \in Instance \ {i} : pc[j] \notin Busy
      /\ \A b \in Blueprint : ~Settling(b)
      /\ \A b \in Blueprint : Settles(i, b)' <=> b = b0
      /\ \A b \in Blueprint : Settling(b)' <=> b = b0
  <2>1. /\ \A j \in Instance \ {i} : pc[j] \notin Busy
        /\ \A b \in Blueprint : ~Settling(b)
    BY <1>0, BusyTask DEF Busy, Settles
  <2>2. \A b \in Blueprint : Settles(i, b)' <=> b = b0
    BY <1>5, <1>8 DEF Settles
  <2>3. \A j \in Instance \ {i}, b \in Blueprint : ~Settles(j, b)'
    BY <1>5, <2>1 DEF Settles, Busy
  <2> QED
    BY <2>1, <2>2, <2>3 DEF Settling
<1>10. ASSUME NEW s \in Run
       PROVE  RunInv(s)'
  <2>1. RunInv(s) /\ runs[r] <= excuses[r] /\ r.at <= passed[r.cron]
        /\ runs[s] \in Nat /\ excuses[s] \in Nat
    BY <1>0, <1>1 DEF SchedulerInv, FetchedInv, TypeOK
  <2>2. CASE s = r
    BY <1>6, <2>1, <2>2 DEF RunInv
  <2>3. CASE s # r
    BY <1>6, <2>1, <2>3 DEF RunInv
  <2> QED
    BY <2>2, <2>3
<1>11. ASSUME NEW b \in Blueprint
       PROVE  RowInv(b)'
  <2>1. RowInv(b)
    BY DEF SchedulerInv
  <2>2. CASE b # b0
    <3>1. row[b] # None => RowRun(b) \in Run /\ RowRun(b) # r
      BY <1>0, <2>2, TypeOfRuns DEF RowRun
    <3> QED
      BY <1>6, <1>9, <2>1, <2>2, <3>1 DEF RowInv, RowRun
  <2>3. CASE b = b0
    <3>1. row[b] # None /\ (RowRun(b) = r \/ excuses[RowRun(b)] > 0)
      BY <1>1, <2>3 DEF FetchedInv
    <3>2. RowRun(b) = r => runs'[RowRun(b)] > 0
      BY <1>0, <1>6 DEF TypeOK
    <3> QED
      BY <1>6, <1>9, <2>3, <3>1, <3>2 DEF RowInv, RowRun
  <2> QED
    BY <2>2, <2>3
<1>12. TaskInv(i)'
  <2>1. ASSUME NEW s \in todo'[i]
        PROVE  FetchedInv(i, s)'
    <3>1. s \in todo[i] /\ s # r /\ s \in Run /\ FetchedInv(i, s) /\ s.blueprint # b0
          /\ s.blueprint \in Blueprint
      BY <1>1, <1>6 DEF FetchedInv, Run
    <3> QED
      BY <1>6, <1>9, <3>1 DEF FetchedInv, RowRun
  <2>2. pc'[i] = "update" => runs'[current'[i]] <= excuses'[current'[i]]
    BY <1>0, <1>5, <1>6, <1>8 DEF TypeOK
  <2> QED
    BY <1>0, <1>5, <1>6, <2>1, <2>2 DEF TaskInv, Busy
<1>13. \A j \in Instance \ {i} : TaskInv(j)'
  BY <1>5, <1>9 DEF TaskInv, Busy
<1> QED
  BY <1>7, <1>10, <1>11, <1>12, <1>13 DEF SchedulerInv

\* A push that fails leaves the row with its run, and adds an excuse if it has
\* queued it all the same.
LEMMA PushFailsStep ==
  ASSUME SchedulerInv, NEW i \in Instance, NEW r \in todo[i], PushFails(i, r)
  PROVE  SchedulerInv'
<1>0. TypeOK /\ TaskInv(i) /\ pc[i] = "process" /\ r \in Run
  BY DEF SchedulerInv, PushFails, TypeOK
<1>1. /\ todo' \in [Instance -> SUBSET Run] /\ todo'[i] \subseteq todo[i]
      /\ \A j \in Instance \ {i} : todo'[j] = todo[j]
      /\ UNCHANGED <<passed, plan, row, leader, pc, cache, current>>
  BY <1>0 DEF PushFails, TypeOK
<1>2. CASE UNCHANGED <<runs, excuses>>
  <2>1. TypeOK'
    BY <1>0, <1>1, <1>2 DEF TypeOK
  <2> QED
    BY <1>0, <1>1, <1>2, <2>1, QuietStep DEF Busy, TaskInv
<1>3. CASE runs' = [runs EXCEPT ![r] = @ + 1] /\ Excuse(r)
  <2>1. /\ runs' \in [Run -> Nat] /\ runs'[r] = runs[r] + 1
        /\ \A s \in Run \ {r} : runs'[s] = runs[s]
        /\ excuses' \in [Run -> Nat] /\ excuses'[r] = excuses[r] + 1
        /\ \A s \in Run \ {r} : excuses'[s] = excuses[s]
        /\ \A s \in Run : runs[s] \in Nat /\ excuses[s] \in Nat
    BY <1>0, <1>3, ExcuseAdds DEF TypeOK
  <2>2. TypeOK'
    BY <1>0, <1>1, <2>1 DEF TypeOK
  <2>3. /\ \A j \in Instance, b \in Blueprint : Settles(j, b)' <=> Settles(j, b)
        /\ \A b \in Blueprint : ~Settling(b) /\ ~Settling(b)'
        /\ \A j \in Instance \ {i} : pc[j] \notin Busy
    <3>1. /\ \A b \in Blueprint : ~Settling(b)
          /\ \A j \in Instance \ {i} : pc[j] \notin Busy
      BY <1>0, BusyTask DEF Busy, Settles
    <3> QED
      BY <1>1, <3>1 DEF Settling, Settles
  <2>4. FetchedInv(i, r) /\ r.blueprint \in Blueprint /\ r.cron \in Cron
    BY <1>0 DEF TaskInv, Run
  <2>5. ASSUME NEW s \in Run
        PROVE  RunInv(s)'
    <3>1. RunInv(s) /\ r.at <= passed[r.cron]
      BY <2>4 DEF SchedulerInv, FetchedInv
    <3> QED
      BY <1>1, <2>1, <3>1 DEF RunInv
  <2>6. ASSUME NEW b \in Blueprint
        PROVE  RowInv(b)'
    <3>1. RowInv(b) /\ (row[b] # None => RowRun(b) \in Run)
      BY <1>0, TypeOfRuns DEF SchedulerInv
    <3>2. row[b] = None => r.blueprint # b
      BY <2>4 DEF FetchedInv
    <3> QED
      BY <1>1, <2>1, <2>3, <3>1, <3>2 DEF RowInv, RowRun
  <2>7. TaskInv(i)'
    <3>1. ASSUME NEW s \in todo'[i]
          PROVE  FetchedInv(i, s)'
      <4>1. /\ s \in Run /\ s.blueprint \in Blueprint /\ FetchedInv(i, s)
            /\ RowRun(s.blueprint) \in Run
        BY <1>0, <1>1, TypeOfRuns DEF TaskInv, TypeOK, Run, FetchedInv
      <4>2. runs'[s] <= excuses'[s]
        BY <2>1, <4>1 DEF FetchedInv
      <4>3. RowRun(s.blueprint)' = s \/ excuses'[RowRun(s.blueprint)] > 0
        BY <1>1, <2>1, <4>1 DEF FetchedInv, RowRun
      <4> QED
        BY <1>1, <2>3, <4>1, <4>2, <4>3 DEF FetchedInv, RowRun
    <3> QED
      BY <1>0, <1>1, <3>1 DEF TaskInv, Busy
  <2>8. \A j \in Instance \ {i} : TaskInv(j)'
    BY <1>1, <2>3 DEF TaskInv, Busy
  <2> QED
    BY <2>2, <2>5, <2>6, <2>7, <2>8 DEF SchedulerInv
<1> QED
  BY <1>2, <1>3 DEF PushFails

\* A row is moved to the run computed after the push: the blueprint is settled.
LEMMA UpdateStep ==
  ASSUME SchedulerInv, NEW i \in Instance, pc[i] = "update", SetNext(current[i]),
         Goto(i, "process", None),
         UNCHANGED <<passed, plan, leader, cache, todo, runs, excuses>>
  PROVE  SchedulerInv'
<1> PICK r \in Run : r = current[i]
  BY DEF SchedulerInv, TypeOK
<1> DEFINE b0 == r.blueprint
<1>0. TypeOK /\ TaskInv(i) /\ b0 \in Blueprint /\ Settles(i, b0)
  BY DEF SchedulerInv, Settles, Run
<1>1. /\ pc' \in [Instance -> {"down", "init", "save", "sleep"} \cup Busy]
      /\ current' \in [Instance -> Run \cup {None}]
      /\ \A j \in Instance :
            pc'[j] \in {"save", "update", "disable"} => current'[j] \in Run
      /\ pc'[i] = "process"
      /\ \A j \in Instance \ {i} : pc'[j] = pc[j] /\ current'[j] = current[j]
  BY <1>0, GotoOne DEF Busy
<1>2. /\ \A j \in Instance \ {i} : pc[j] \notin Busy
      /\ \A b \in Blueprint : Settling(b) <=> b = b0
      /\ \A b \in Blueprint : ~Settling(b)' /\ ~Settles(i, b)'
  <2>1. /\ \A j \in Instance \ {i} : pc[j] \notin Busy
        /\ \A b \in Blueprint : Settling(b) <=> b = b0
    BY <1>0, BusyTask DEF Busy, Settles
  <2> QED
    BY <1>1, <2>1 DEF Settling, Settles, Busy
<1>3. row[b0] # None
  BY <1>0, <1>2 DEF SchedulerInv, RowInv
<1>4. /\ row' \in [Blueprint -> Row \cup {None}]
      /\ row'[b0] # None /\ RowRun(b0)' = r
      /\ \A b \in Blueprint \ {b0} : row'[b] = row[b]
  BY <1>0, <1>3, MovedRow
<1>5. TypeOK'
  BY <1>0, <1>1, <1>4 DEF TypeOK
<1>6. ASSUME NEW s \in Run
      PROVE  RunInv(s)'
  BY DEF SchedulerInv, RunInv
<1>7. ASSUME NEW b \in Blueprint
      PROVE  RowInv(b)'
  <2>1. CASE b = b0
    BY <1>0, <1>2, <1>4, <2>1 DEF RowInv, TaskInv
  <2>2. CASE b # b0
    BY <1>2, <1>4, <2>2 DEF SchedulerInv, RowInv, RowRun
  <2> QED
    BY <2>1, <2>2
<1>8. TaskInv(i)'
  <2>1. ASSUME NEW s \in todo'[i]
        PROVE  FetchedInv(i, s)'
    <3>1. /\ s \in todo[i] /\ s \in Run /\ s.blueprint \in Blueprint
          /\ FetchedInv(i, s) /\ s.blueprint # b0
      BY <1>0 DEF TaskInv, TypeOK, Run, Settles, FetchedInv
    <3> QED
      BY <1>2, <1>4, <3>1 DEF FetchedInv, RowRun
  <2> QED
    BY <1>0, <1>1, <2>1 DEF TaskInv, Busy
<1>9. \A j \in Instance \ {i} : TaskInv(j)'
  BY <1>1, <1>2 DEF TaskInv, Busy
<1> QED
  BY <1>5, <1>6, <1>7, <1>8, <1>9 DEF SchedulerInv

\* A row that is disabled waits for nothing.
LEMMA DisableStep ==
  ASSUME SchedulerInv, NEW i \in Instance, pc[i] = "disable",
         row' = [row EXCEPT ![current[i].blueprint].enabled = FALSE],
         Goto(i, "process", None),
         UNCHANGED <<passed, plan, leader, cache, todo, runs, excuses>>
  PROVE  SchedulerInv'
<1> PICK r \in Run : r = current[i]
  BY DEF SchedulerInv, TypeOK
<1> DEFINE b0 == r.blueprint
<1>0. TypeOK /\ TaskInv(i) /\ b0 \in Blueprint /\ Settles(i, b0)
  BY DEF SchedulerInv, Settles, Run
<1>1. /\ pc' \in [Instance -> {"down", "init", "save", "sleep"} \cup Busy]
      /\ current' \in [Instance -> Run \cup {None}]
      /\ \A j \in Instance :
            pc'[j] \in {"save", "update", "disable"} => current'[j] \in Run
      /\ pc'[i] = "process"
      /\ \A j \in Instance \ {i} : pc'[j] = pc[j] /\ current'[j] = current[j]
  BY <1>0, GotoOne DEF Busy
<1>2. /\ \A j \in Instance \ {i} : pc[j] \notin Busy
      /\ \A b \in Blueprint : Settling(b) <=> b = b0
      /\ \A b \in Blueprint : ~Settling(b)' /\ ~Settles(i, b)'
  <2>1. /\ \A j \in Instance \ {i} : pc[j] \notin Busy
        /\ \A b \in Blueprint : Settling(b) <=> b = b0
    BY <1>0, BusyTask DEF Busy, Settles
  <2> QED
    BY <1>1, <2>1 DEF Settling, Settles, Busy
<1>3. row[b0] \in Row /\ row[b0] # None
  BY <1>0, <1>2 DEF SchedulerInv, RowInv, TypeOK
<1>4. /\ row' \in [Blueprint -> Row \cup {None}]
      /\ row'[b0] # None /\ ~row'[b0].enabled
      /\ \A b \in Blueprint \ {b0} : row'[b] = row[b]
  <2>1. row' = [row EXCEPT ![b0] = [row[b0] EXCEPT !.enabled = FALSE]]
    BY <1>0 DEF TypeOK
  <2>2. ASSUME NEW x \in Row
        PROVE  [x EXCEPT !.enabled = FALSE] \in Row /\ ~[x EXCEPT !.enabled = FALSE].enabled
    BY DEF Row
  <2> DEFINE off == [row[b0] EXCEPT !.enabled = FALSE]
  <2>3. row' = [row EXCEPT ![b0] = off]
    BY <2>1
  <2>4. row'[b0] = off /\ \A b \in Blueprint \ {b0} : row'[b] = row[b]
    BY <1>0, <2>3 DEF TypeOK
  <2>5. off \in Row /\ ~off.enabled
    BY <1>3, <2>2
  <2> HIDE DEF off
  <2>6. row' \in [Blueprint -> Row \cup {None}]
    BY <1>0, <2>3, <2>5 DEF TypeOK
  <2> QED
    BY <2>4, <2>5, <2>6
<1>5. TypeOK'
  BY <1>0, <1>1, <1>4 DEF TypeOK
<1>6. ASSUME NEW s \in Run
      PROVE  RunInv(s)'
  BY DEF SchedulerInv, RunInv
<1>7. ASSUME NEW b \in Blueprint
      PROVE  RowInv(b)'
  <2>1. CASE b = b0
    BY <1>0, <1>2, <1>4, <2>1 DEF RowInv
  <2>2. CASE b # b0
    BY <1>2, <1>4, <2>2 DEF SchedulerInv, RowInv, RowRun
  <2> QED
    BY <2>1, <2>2
<1>8. TaskInv(i)'
  <2>1. ASSUME NEW s \in todo'[i]
        PROVE  FetchedInv(i, s)'
    <3>1. /\ s \in todo[i] /\ s \in Run /\ s.blueprint \in Blueprint
          /\ FetchedInv(i, s) /\ s.blueprint # b0
      BY <1>0 DEF TaskInv, TypeOK, Run, Settles, FetchedInv
    <3> QED
      BY <1>2, <1>4, <3>1 DEF FetchedInv, RowRun
  <2> QED
    BY <1>0, <1>1, <2>1 DEF TaskInv, Busy
<1>9. \A j \in Instance \ {i} : TaskInv(j)'
  BY <1>1, <1>2 DEF TaskInv, Busy
<1> QED
  BY <1>5, <1>6, <1>7, <1>8, <1>9 DEF SchedulerInv

\* A row that could not be moved, because a statement failed or the instance
\* died, is left at its run: an excuse for queueing that run again.
LEMMA LeftStep ==
  ASSUME SchedulerInv, TypeOK', NEW i \in Instance, pc[i] \in {"update", "disable"},
         Excuse(RowRun(current[i].blueprint)),
         pc'[i] \in {"process", "down"}, todo'[i] \subseteq todo[i],
         \A j \in Instance \ {i} : pc'[j] = pc[j] /\ current'[j] = current[j],
         UNCHANGED <<passed, row, leader, runs>>
  PROVE  SchedulerInv'
<1> PICK r \in Run : r = current[i]
  BY DEF SchedulerInv, TypeOK
<1> DEFINE b0 == r.blueprint
<1>0. TypeOK /\ TaskInv(i) /\ b0 \in Blueprint /\ Settles(i, b0)
  BY DEF SchedulerInv, Settles, Run
<1>2. /\ \A j \in Instance \ {i} : pc[j] \notin Busy
      /\ \A b \in Blueprint : Settling(b) <=> b = b0
      /\ \A b \in Blueprint : ~Settling(b)' /\ ~Settles(i, b)'
  <2>1. /\ \A j \in Instance \ {i} : pc[j] \notin Busy
        /\ \A b \in Blueprint : Settling(b) <=> b = b0
    BY <1>0, BusyTask DEF Busy, Settles
  <2> QED
    BY <2>1 DEF Settling, Settles, Busy
<1>3. row[b0] # None /\ RowRun(b0) \in Run
  BY <1>0, <1>2, TypeOfRuns DEF SchedulerInv, RowInv
<1>4. PICK left \in Run : left = RowRun(b0)
  BY <1>3
<1>5. /\ excuses'[left] = excuses[left] + 1
      /\ \A s \in Run \ {left} : excuses'[s] = excuses[s]
      /\ \A s \in Run : runs[s] \in Nat /\ excuses[s] \in Nat
  BY <1>0, <1>4, ExcuseAdds DEF TypeOK
<1>6. ASSUME NEW s \in Run
      PROVE  RunInv(s)'
  BY <1>5 DEF SchedulerInv, RunInv
<1>7. ASSUME NEW b \in Blueprint
      PROVE  RowInv(b)'
  <2>1. RowInv(b) /\ RunInv(left) /\ (row[b] # None => RowRun(b) \in Run)
    BY <1>0, TypeOfRuns DEF SchedulerInv
  <2>2. CASE b = b0
    <3>1. row' = row /\ RowRun(b)' = left /\ RowRun(b) = left /\ runs' = runs
      BY <1>4, <2>2 DEF RowRun
    <3>2. row[b] # None /\ ~Settling(b)'
      BY <1>2, <1>3, <2>2
    <3>3. runs[left] <= 1 + excuses[left]
      BY <2>1 DEF RunInv
    <3>4. runs[left] <= excuses'[left]
      BY <1>5, <3>3
    <3> QED
      BY <3>1, <3>2, <3>4 DEF RowInv
  <2>3. CASE b # b0
    <3>1. row' = row /\ RowRun(b)' = RowRun(b) /\ runs' = runs
      BY DEF RowRun
    <3>2. ~Settling(b) /\ ~Settling(b)'
      BY <1>2, <2>3
    <3>3. \A s \in Run : excuses[s] \in Nat /\ runs[s] \in Nat /\ excuses'[s] \in Nat
                          /\ excuses[s] <= excuses'[s]
      BY <1>5
    <3>4. row[b] # None /\ row[b].enabled => runs[RowRun(b)] <= excuses'[RowRun(b)]
      BY <2>1, <3>2, <3>3 DEF RowInv
    <3> QED
      BY <2>1, <3>1, <3>2, <3>4 DEF RowInv
  <2> QED
    BY <2>2, <2>3
<1>8. TaskInv(i)'
  <2>1. ASSUME NEW s \in todo'[i]
        PROVE  FetchedInv(i, s)'
    <3>1. /\ s \in todo[i] /\ s \in Run /\ s.blueprint \in Blueprint
          /\ FetchedInv(i, s) /\ RowRun(s.blueprint) \in Run
      BY <1>0, TypeOfRuns DEF TaskInv, TypeOK, Run, FetchedInv
    <3> QED
      BY <1>2, <1>5, <3>1 DEF FetchedInv, RowRun
  <2> QED
    BY <1>0, <2>1 DEF TaskInv, Busy
<1>9. \A j \in Instance \ {i} : TaskInv(j)'
  BY <1>2 DEF TaskInv, Busy
<1> QED
  BY <1>6, <1>7, <1>8, <1>9 DEF SchedulerInv

\* UpdateRunTimes, DisableRow and Crash, with and without a failure.
LEMMA SettleSteps ==
  ASSUME SchedulerInv, NEW i \in Instance,
         UpdateRunTimes(i) \/ DisableRow(i) \/ Crash(i)
  PROVE  SchedulerInv'
<1>0. TypeOK
  BY DEF SchedulerInv
<1>1. ASSUME pc[i] \in {"update", "disable"}
      PROVE  RowRun(current[i].blueprint) \in Run
  <2>1. PICK r \in Run : r = current[i]
    BY <1>0, <1>1 DEF TypeOK
  <2>2. r.blueprint \in Blueprint /\ Settling(r.blueprint)
    BY <1>1, <2>1 DEF Settling, Settles, Run
  <2> QED
    BY <1>0, <2>1, <2>2, TypeOfRuns DEF SchedulerInv, RowInv
<1>2. ASSUME pc[i] \in {"update", "disable"}, Excuse(RowRun(current[i].blueprint)),
             Goto(i, "process", None),
             UNCHANGED <<passed, plan, row, leader, cache, todo, runs>>
      PROVE  SchedulerInv'
  <2>1. excuses' \in [Run -> Nat]
    BY <1>0, <1>1, <1>2, ExcuseAdds
  <2>2. /\ pc' \in [Instance -> {"down", "init", "save", "sleep"} \cup Busy]
        /\ current' \in [Instance -> Run \cup {None}]
        /\ \A j \in Instance :
              pc'[j] \in {"save", "update", "disable"} => current'[j] \in Run
        /\ pc'[i] = "process"
        /\ \A j \in Instance \ {i} : pc'[j] = pc[j] /\ current'[j] = current[j]
    BY <1>0, <1>2, GotoOne DEF Busy
  <2>3. TypeOK'
    BY <1>0, <1>2, <2>1, <2>2 DEF TypeOK
  <2> QED
    BY <1>2, <2>2, <2>3, LeftStep
<1>3. CASE UpdateRunTimes(i)
  BY <1>2, <1>3, UpdateStep DEF UpdateRunTimes
<1>4. CASE DisableRow(i)
  BY <1>2, <1>4, DisableStep DEF DisableRow
<1>5. CASE Crash(i)
  <2>1. /\ pc' \in [Instance -> {"down", "init", "save", "sleep"} \cup Busy]
        /\ current' \in [Instance -> Run \cup {None}]
        /\ \A j \in Instance :
              pc'[j] \in {"save", "update", "disable"} => current'[j] \in Run
        /\ pc'[i] = "down"
        /\ \A j \in Instance \ {i} : pc'[j] = pc[j] /\ current'[j] = current[j]
    BY <1>0, <1>5, GotoOne DEF Crash
  <2>2. /\ cache' \in [Instance -> [Blueprint -> Cron \cup {None}]]
        /\ todo' \in [Instance -> SUBSET Run]
        /\ todo'[i] = {} /\ \A j \in Instance \ {i} : todo'[j] = todo[j]
    BY <1>0, <1>5 DEF Crash, TypeOK
  <2>3. CASE pc[i] \in {"update", "disable"}
    <3>1. Excuse(RowRun(current[i].blueprint))
      BY <1>5, <2>3 DEF Crash
    <3>2. excuses' \in [Run -> Nat]
      BY <1>0, <1>1, <2>3, <3>1, ExcuseAdds
    <3>3. TypeOK'
      BY <1>0, <1>5, <2>1, <2>2, <3>2 DEF Crash, TypeOK
    <3> QED
      BY <1>5, <2>1, <2>2, <2>3, <3>1, <3>3, LeftStep DEF Crash
  <2>4. CASE pc[i] \notin {"update", "disable"}
    <3>1. UNCHANGED <<passed, plan, row, leader, runs, excuses>>
      BY <1>5, <2>4 DEF Crash
    <3>2. TypeOK'
      BY <1>0, <2>1, <2>2, <3>1 DEF TypeOK
    <3> QED
      BY <2>1, <2>2, <2>4, <3>1, <3>2, QuietStep DEF Busy
  <2> QED
    BY <2>3, <2>4
<1> QED
  BY <1>3, <1>4, <1>5

\* SchedulerInv is inductive.
LEMMA SchedulerInvInductive ==
  ASSUME SchedulerInv, [Next]_vars
  PROVE  SchedulerInv'
<1>1. ASSUME NEW i \in Instance, Task(i) \/ Start(i) \/ Crash(i)
      PROVE  SchedulerInv'
  BY <1>1, QuietSteps, SaveStep, FetchStep, PushStep, PushFailsStep, SettleSteps
     DEF Task, Process
<1> QED
  BY <1>1, EnvironmentSteps DEF Next

LEMMA SchedulerInvInitial == Init => SchedulerInv
<1> SUFFICES ASSUME Init
             PROVE  SchedulerInv
  OBVIOUS
<1>1. TypeOK
  BY DEF Init, TypeOK, Busy
<1>2. \A r \in Run : RunInv(r)
  BY DEF Init, RunInv
<1>3. \A b \in Blueprint : RowInv(b)
  BY DEF Init, RowInv, Settling, Settles
<1>4. \A i \in Instance : TaskInv(i)
  BY DEF Init, TaskInv, Busy
<1> QED
  BY <1>1, <1>2, <1>3, <1>4 DEF SchedulerInv

\* Everything the proofs rest on: types, one task at a time that processes rows,
\* no run queued before it is due or without a row, and an excuse for each time
\* the run a row waits for was queued.
THEOREM SchedulerCorrect == Spec => []SchedulerInv
<1>1. SchedulerInv /\ [Next]_vars => SchedulerInv'
  BY SchedulerInvInductive
<1> QED
  BY <1>1, SchedulerInvInitial, PTL DEF Spec

\* A blueprint is queued once for an occurrence of its schedule, and again only
\* when its row could not be moved or was set back: however instances crash,
\* lose the lease between two rounds, fail to write a row, or start anew.
THEOREM RepeatsAreExcused == Spec => []RepeatsHaveAnExcuse
<1>1. SchedulerInv => RepeatsHaveAnExcuse
  BY DEF SchedulerInv, RunInv, RepeatsHaveAnExcuse
<1> QED
  BY <1>1, SchedulerCorrect, PTL

\* A row that is due moves on only after its run was queued, unless an instance
\* that starts sets it.
THEOREM DueRunsWait == Spec => DueRunsAreQueued
<1> DEFINE Queued(b) == Due(b) /\ row'[b] # row[b] =>
              \/ runs[RowRun(b)] > 0 \/ excuses[RowRun(b)] > 0
              \/ \E i \in Instance : pc[i] = "save" /\ current[i].blueprint = b
<1>1. ASSUME SchedulerInv, [Next]_vars, NEW b \in Blueprint, row'[b] # row[b]
      PROVE  Queued(b)
  <2>1. PICK i \in Instance : SaveState(i) \/ UpdateRunTimes(i) \/ DisableRow(i)
    BY <1>1 DEF Next, Task, Process, Start, Crash, Elect, Passes, Edit, CheckState,
           Started, PassGate, Reload, KeepCache, FetchReady, SkipUncached, Push,
           PushFails, Processed, vars
  <2>2. PICK r : r = current[i]
    OBVIOUS
  <2>3. \A x \in Blueprint : x # r.blueprint => row'[x] = row[x]
    BY <1>1, <2>1, <2>2 DEF SaveState, UpdateRunTimes, DisableRow, PutState, SetNext,
           SchedulerInv, TypeOK
  <2>4. b = current[i].blueprint
    BY <1>1, <2>2, <2>3
  <2>5. CASE SaveState(i)
    BY <2>4, <2>5 DEF SaveState
  <2>6. CASE UpdateRunTimes(i) \/ DisableRow(i)
    <3>1. Settling(b)
      BY <2>4, <2>6 DEF UpdateRunTimes, DisableRow, Settling, Settles
    <3> QED
      BY <1>1, <3>1 DEF SchedulerInv, RowInv
  <2> QED
    BY <2>1, <2>5, <2>6
<1>2. SchedulerInv /\ [Next]_vars => [\A b \in Blueprint : Queued(b)]_vars
  BY <1>1
<1> QED
  BY <1>2, SchedulerCorrect, PTL DEF Spec, DueRunsAreQueued
==============================================================================
