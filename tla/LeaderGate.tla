------------------------------ MODULE LeaderGate ------------------------------
(***************************************************************************)
(* The tasks gated by a leadership election.  BlueprintEvaluationTask,     *)
(* WebhookTask and SchedulerTask do not see the loop's local flag: before  *)
(* each piece of work they call is_leader(), which reads the election key, *)
(* and then work for as long as the work takes, never asking again.        *)
(***************************************************************************)
EXTENDS LeadershipElection

VARIABLE busy  \* the instances whose gated task is processing work

gateVars == <<vars, busy>>

GateInit == Init /\ busy = {}

\* is_leader() answers true and the task starts on its work.  (A task that is
\* told false, or that gets an error, skips its work: nothing changes here.)
PassGate(i) ==
    /\ HasTickers(i) /\ i \notin busy
    /\ owner = i
    /\ busy' = busy \cup {i}
    /\ UNCHANGED vars

FinishWork(i) ==
    /\ i \in busy
    /\ busy' = busy \ {i}
    /\ UNCHANGED vars

\* A process that has been shut down ends when its work has ended.
ElectionStep ==
    /\ Progress
    /\ \A i \in busy : pc[i] = "down" => pc'[i] = "down"
    /\ UNCHANGED busy

\* Work dies with its process.
CrashStep(i) ==
    /\ Crash(i)
    /\ busy' = busy \ {i}

GateNext ==
    \/ ElectionStep
    \/ \E i \in Instance : PassGate(i) \/ FinishWork(i) \/ CrashStep(i)

GateSpec == GateInit /\ [][GateNext]_gateVars

------------------------------------------------------------------------------
\* src/leadership.rs:3-4 promises a system "that ensures only one instance
\* processes specific tasks at a time".  It is so while commands are fast, no
\* command fails, nobody is shut down, and a process that dies comes back, if
\* at all, under a new instance id; it is not so if any of these happens.
OneInstanceProcesses == \A i, j \in busy : i = j

\* Why it holds.  A loop holds the lease when it leads, or is about to be told
\* that it does.  A process that is up and owns the key holds the lease: the key
\* outlives its process only once the process is down, for good.
Holds(i) == isLeader[i] \/ (pc[i] = "SET" /\ reply[i] = "acquired")

OwnerHolds(i) ==
    /\ owner = i => pc[i] = "down" \/ Holds(i)
    /\ pc[i] # "DEL"
    /\ pc[i] = "GET" => reply[i] \in {"none", "mine"}
    /\ \A c \in Command : <<i, c>> \in stray => pc[i] = "down"

GateInv ==
    /\ LeaseInv
    /\ busy \subseteq Instance
    /\ \A i \in Instance : OwnerHolds(i)
    /\ \A i \in busy : Holds(i)
==============================================================================
