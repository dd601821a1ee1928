----------------------- MODULE LeadershipElection_proofs -----------------------
(***************************************************************************)
(* Proofs about LeadershipElection, for every set of instances, every time *)
(* to live, retry interval and latency, and every choice of faults; and    *)
(* about the tasks that LeaderGate lets it gate.                           *)
(***************************************************************************)
EXTENDS LeaderGate, TLAPS

USE ElectionAssumption

\* The heartbeat interval is a number of time units.
LEMMA HeartbeatIsNat == HeartbeatInterval \in Nat
  BY SMT DEF HeartbeatInterval

\* The helpers of the actions change what they are meant to change.
LEMMA TypeOfSend ==
  ASSUME TypeOK, NEW i \in Instance,
         NEW c \in Command \cup {"select", "down"}, Send(i, c)
  PROVE  /\ pc' \in [Instance -> Command \cup {"new", "select", "down"}]
         /\ reply' \in [Instance -> Answer \cup {"none"}]
         /\ age' \in [Instance -> 0..MaxLatency]
  BY DEF TypeOK, Send, Command, Answer

\* A loop that is dropped leaves every variable with its type.
LEMMA TypeOfLeave ==
  ASSUME TypeOK, NEW i \in Instance, NEW next \in {"DEL", "down"}, Leave(i, next)
  PROVE  TypeOK'
<1>1. next \in Command \cup {"select", "down"} /\ Send(i, next)
  BY DEF Leave, Command
<1>2. /\ retry' \in [Instance -> Int] /\ heartbeat' \in [Instance -> Int]
      /\ \A j \in Instance : retry'[j] <= RetryInterval
      /\ \A j \in Instance : heartbeat'[j] <= HeartbeatInterval
  BY HeartbeatIsNat DEF TypeOK, Leave
<1>3. stray' \subseteq Instance \X (Command \ {"GET"})
  BY DEF TypeOK, Leave, Abandon
<1> QED
  BY <1>1, <1>2, <1>3, TypeOfSend DEF TypeOK, Leave, redisVars

\* The domains that the conjuncts of TypeOK refer to are preserved by Redis.
LEMMA TypeOfRedis ==
  ASSUME TypeOK, NEW i \in Instance,
         RedisSet(i) \/ RedisExpire \/ RedisRelease(i) \/ UNCHANGED redisVars
  PROVE  /\ owner' \in Instance \cup {Nobody}
         /\ ttl' \in 0..TTL
         /\ (owner' = Nobody) <=> (ttl' = 0)
  BY DEF TypeOK, RedisSet, RedisExpire, RedisRelease, redisVars

\* Every action preserves the types.
LEMMA TypeInductive ==
  ASSUME TypeOK, [Next]_vars
  PROVE  TypeOK'
<1> USE HeartbeatIsNat
<1>1. ASSUME NEW i \in Instance, Loop(i)
      PROVE  TypeOK'
  BY <1>1 DEF TypeOK, Loop, RetryTick, HeartbeatTick, Send, redisVars, timerVars, Command, Answer
<1>2. ASSUME NEW i \in Instance, Execute(i)
      PROVE  TypeOK'
  BY <1>2, TypeOfRedis DEF TypeOK, Execute, ExecuteSet, ExecuteGet, ExecuteExpire,
         ExecuteRelease, Answers, redisVars, timerVars, Command, Answer
<1>3. ASSUME NEW i \in Instance, Receive(i)
      PROVE  TypeOK'
  <2>1. CASE ReceiveSet(i) \/ ReceiveExpire(i)
    BY <2>1, TypeOfSend DEF TypeOK, ReceiveSet, ReceiveExpire, BackToSelect,
           redisVars, timerVars, Command
  <2>2. CASE ReceiveGet(i)
    BY <2>2, TypeOfSend DEF TypeOK, ReceiveGet, BackToSelect,
           redisVars, timerVars, Command
  <2>3. CASE ReleaseEnds(i)
    BY <2>3, TypeOfLeave DEF ReleaseEnds
  <2> QED
    BY <1>3, <2>1, <2>2, <2>3 DEF Receive
<1>4. ASSUME NEW i \in Instance, Environment(i) \/ Crash(i)
      PROVE  TypeOK'
  <2>1. CASE Start(i)
    BY <2>1, TypeOfSend DEF TypeOK, Start, redisVars, Command
  <2>2. CASE RequestFails(i)
    BY <2>2, TypeOfSend DEF TypeOK, RequestFails, BackToSelect, Abandon,
           redisVars, timerVars, Command
  <2>3. CASE Cancel(i) \/ Crash(i)
    BY <2>3, TypeOfLeave DEF Cancel, Crash
  <2>4. CASE \E c \in Command : StrayArrives(i, c)
    BY <2>4, TypeOfRedis DEF TypeOK, StrayArrives, timerVars
  <2> QED
    BY <1>4, <2>1, <2>2, <2>3, <2>4 DEF Environment
<1>5. CASE Tick
  <2>1. /\ owner' \in Instance \cup {Nobody}
        /\ ttl' \in 0..TTL
        /\ (owner' = Nobody) <=> (ttl' = 0)
    BY <1>5 DEF TypeOK, Tick, redisVars
  <2>2. age' \in [Instance -> 0..MaxLatency]
    BY <1>5 DEF TypeOK, Tick
  <2>3. /\ retry' \in [Instance -> Int]
        /\ \A i \in Instance : retry'[i] <= RetryInterval
    BY <1>5 DEF TypeOK, Tick
  <2>4. /\ heartbeat' \in [Instance -> Int]
        /\ \A i \in Instance : heartbeat'[i] <= HeartbeatInterval
    BY <1>5 DEF TypeOK, Tick
  <2> QED
    BY <1>5, <2>1, <2>2, <2>3, <2>4 DEF TypeOK, Tick
<1>6. CASE UNCHANGED vars
  BY <1>6 DEF TypeOK, vars
<1> QED
  BY <1>1, <1>2, <1>3, <1>4, <1>5, <1>6 DEF Next, Progress

\* The types hold before any instance has started.
LEMMA TypeInitial == Init => TypeOK
  BY HeartbeatIsNat DEF Init, TypeOK, Command, Answer

\* Every variable keeps its type; in particular the key exists exactly while it
\* has time to live, and no ticker is ever more than one period ahead.
THEOREM TypeCorrect == Spec => []TypeOK
<1>1. TypeOK /\ [Next]_vars => TypeOK'
  BY TypeInductive
<1> QED
  BY <1>1, TypeInitial, PTL DEF Spec
------------------------------------------------------------------------------
(* The lease of a loop that leads lasts until it is renewed.  The proof goes *)
(* through what a step of instance i does to the lease of i itself, and what *)
(* it does to the lease of another instance j.                               *)

\* A command that Redis executes for another instance does not end the lease
\* of its owner, and does not shorten it.
LEMMA OthersSpareTheLease ==
  ASSUME TypeOK, NEW i \in Instance, NEW j \in Instance, i # j,
         RedisSet(i) \/ RedisExpire \/ RedisRelease(i) \/ UNCHANGED redisVars,
         owner = j
  PROVE  owner' = j /\ ttl' >= ttl
  BY DEF TypeOK, RedisSet, RedisExpire, RedisRelease, redisVars

\* What the loop, the process and the commands of an instance change of its own.
OwnStep(i) == Loop(i) \/ Execute(i) \/ Receive(i) \/ Environment(i) \/ Crash(i)

\* A step of one instance leaves another's part of the state alone, and does
\* to the key what one of its commands does.
LEMMA StepOfOther ==
  ASSUME TypeOK, NEW i \in Instance, NEW j \in Instance, i # j, OwnStep(i)
  PROVE  /\ pc'[j] = pc[j] /\ reply'[j] = reply[j] /\ age'[j] = age[j]
         /\ isLeader'[j] = isLeader[j] /\ heartbeat'[j] = heartbeat[j]
         /\ \A c \in Command : <<j, c>> \in stray' => <<j, c>> \in stray
         /\ RedisSet(i) \/ RedisExpire \/ RedisRelease(i) \/ UNCHANGED redisVars
<1>1. CASE Loop(i)
  BY <1>1 DEF TypeOK, Loop, RetryTick, HeartbeatTick, Send
<1>2. CASE Execute(i)
  BY <1>2 DEF TypeOK, Execute, ExecuteSet, ExecuteGet, ExecuteExpire,
         ExecuteRelease, Answers, timerVars
<1>3. CASE Receive(i)
  BY <1>3 DEF TypeOK, Receive, ReceiveSet, ReceiveGet, ReceiveExpire, ReleaseEnds,
         BackToSelect, Leave, Send, Abandon, timerVars
<1>4. CASE Crash(i) \/ Cancel(i)
  BY <1>4 DEF TypeOK, Crash, Cancel, Leave, Send, Abandon
<1>5. CASE Start(i) \/ RequestFails(i)
  BY <1>5 DEF TypeOK, Start, RequestFails, BackToSelect, Send, Abandon, timerVars
<1>6. CASE \E c \in Command : StrayArrives(i, c)
  BY <1>6 DEF StrayArrives, timerVars
<1> QED
  BY <1>1, <1>2, <1>3, <1>4, <1>5, <1>6 DEF OwnStep, Environment

\* Hence no instance disturbs what LeaseLasts says of another.
LEMMA OthersKeepLeaseLasts ==
  ASSUME TypeOK, TypeOK', NEW i \in Instance, NEW j \in Instance, i # j,
         LeaseLasts(j), OwnStep(i)
  PROVE  LeaseLasts(j)'
<1>1. /\ pc'[j] = pc[j] /\ reply'[j] = reply[j] /\ age'[j] = age[j]
      /\ isLeader'[j] = isLeader[j] /\ heartbeat'[j] = heartbeat[j]
      /\ <<j, "DEL">> \in stray' => <<j, "DEL">> \in stray
  BY StepOfOther DEF Command
<1>2. owner = j => owner' = j /\ ttl' >= ttl
  BY StepOfOther, OthersSpareTheLease
<1>3. ttl \in Int /\ ttl' \in Int /\ heartbeat[j] \in Int /\ age[j] \in Int
  BY DEF TypeOK
<1> QED
  BY <1>1, <1>2, <1>3 DEF LeaseLasts, Awaits

\* Every step of an instance itself preserves what LeaseLasts says of it: it
\* starts to lead with a full lease, and spends at most MaxLatency per command.
LEMMA OwnLeaseLasts ==
  ASSUME TypeOK, TypeOK', Timely, NEW i \in Instance, LeaseLasts(i), OwnStep(i)
  PROVE  LeaseLasts(i)'
<1> USE HeartbeatIsNat
<1>1. CASE Loop(i)
  BY <1>1 DEF TypeOK, Loop, RetryTick, HeartbeatTick, Send, LeaseLasts, Awaits, redisVars
<1>2. CASE Execute(i)
  <2>1. CASE ExecuteSet(i)
    BY <2>1 DEF TypeOK, ExecuteSet, Answers, RedisSet, LeaseLasts, Awaits, redisVars
  <2>2. CASE ExecuteGet(i)
    BY <2>2 DEF TypeOK, ExecuteGet, Answers, LeaseLasts, Awaits, redisVars
  <2>3. CASE ExecuteExpire(i)
    BY <2>3 DEF TypeOK, ExecuteExpire, Answers, RedisExpire, LeaseLasts, Awaits, redisVars
  <2>4. CASE ExecuteRelease(i)
    BY <2>4 DEF TypeOK, ExecuteRelease, Answers, LeaseLasts, Awaits
  <2> QED
    BY <1>2, <2>1, <2>2, <2>3, <2>4 DEF Execute
<1>3. CASE Receive(i)
  <2>1. CASE ReceiveSet(i)
    BY <2>1 DEF TypeOK, Timely, ReceiveSet, Answered, BackToSelect, Send, LeaseLasts,
           Awaits, redisVars, timerVars
  <2>2. CASE ReceiveGet(i)
    BY <2>2 DEF TypeOK, ReceiveGet, Answered, BackToSelect, Send, LeaseLasts,
           Awaits, redisVars, timerVars
  <2>3. CASE ReceiveExpire(i)
    BY <2>3 DEF TypeOK, Timely, ReceiveExpire, Answered, BackToSelect, Send, LeaseLasts,
           Awaits, redisVars, timerVars
  <2>4. CASE ReleaseEnds(i)
    BY <2>4 DEF TypeOK, ReleaseEnds, Leave, Abandon, Send, LeaseLasts
  <2> QED
    BY <1>3, <2>1, <2>2, <2>3, <2>4 DEF Receive
<1>4. CASE Cancel(i) \/ Crash(i)
  BY <1>4 DEF TypeOK, Cancel, Crash, HasTickers, Leave, Abandon, Send, LeaseLasts
<1>5. CASE Start(i)
  BY <1>5 DEF TypeOK, Start, Send, LeaseLasts, Awaits, Command
<1>6. CASE RequestFails(i)
  BY <1>6 DEF TypeOK, RequestFails, Abandon, BackToSelect, Send, LeaseLasts
<1>7. CASE \E c \in Command : StrayArrives(i, c)
  BY <1>7 DEF TypeOK, StrayArrives, RedisSet, RedisExpire, RedisRelease, LeaseLasts,
         Awaits, redisVars, timerVars
<1> QED
  BY <1>1, <1>2, <1>3, <1>4, <1>5, <1>6, <1>7 DEF OwnStep, Environment

\* Time passes only while no command has been awaited for MaxLatency and no
\* timer of an idle loop is due, so it cannot use up the time that is left.
LEMMA TickKeepsLeaseLasts ==
  ASSUME TypeOK, TypeOK', Timely, NEW i \in Instance, LeaseLasts(i), Tick
  PROVE  LeaseLasts(i)'
<1> USE HeartbeatIsNat
<1>1. /\ pc' = pc /\ reply' = reply /\ isLeader' = isLeader /\ stray' = stray
      /\ pc[i] \in Command => age[i] < MaxLatency /\ age'[i] = age[i] + 1
      /\ pc[i] = "select" => heartbeat[i] > 0 /\ heartbeat'[i] = heartbeat[i] - 1
  BY DEF TypeOK, Tick, Urgent, HasTickers, Command
<1>2. /\ ttl > 1 => owner' = owner /\ ttl' = ttl - 1
      /\ age[i] \in Nat /\ ttl \in Nat /\ heartbeat[i] \in Int
  BY DEF TypeOK, Tick, redisVars
<1>3. isLeader[i] => ttl > 1
  BY <1>1, <1>2 DEF LeaseLasts, Awaits, Timely, Command
<1>4. pc[i] = "SET" /\ reply[i] = "acquired" => ttl > 1
  BY <1>1, <1>2 DEF LeaseLasts, Timely, Command
<1> QED
  BY <1>1, <1>2, <1>3, <1>4 DEF LeaseLasts, Awaits, Command

\* LeaseInv is inductive while commands are fast enough for the heartbeat.
LEMMA LeaseInvInductive ==
  ASSUME Timely, LeaseInv, [Next]_vars
  PROVE  LeaseInv'
<1>1. TypeOK /\ TypeOK'
  BY TypeInductive DEF LeaseInv
<1>2. CASE Tick
  BY <1>1, <1>2, TickKeepsLeaseLasts DEF LeaseInv
<1>3. ASSUME NEW i \in Instance, OwnStep(i)
      PROVE  LeaseInv'
  BY <1>1, <1>3, OwnLeaseLasts, OthersKeepLeaseLasts DEF LeaseInv
<1>4. CASE UNCHANGED vars
  BY <1>1, <1>4 DEF LeaseInv, LeaseLasts, Awaits, vars
<1> QED
  BY <1>2, <1>3, <1>4 DEF Next, Progress, OwnStep

\* No lease, no belief: LeaseInv holds initially.
LEMMA LeaseInvInitial == Init => LeaseInv
  BY TypeInitial DEF Init, LeaseInv, LeaseLasts

\* LeaseInv holds in every reachable state.
LEMMA LeaseInvHolds == ASSUME Timely PROVE Spec => []LeaseInv
<1>1. LeaseInv /\ [Next]_vars => LeaseInv'
  BY LeaseInvInductive
<1> QED
  BY <1>1, LeaseInvInitial, PTL DEF Spec

\* While commands are fast enough for the heartbeat, an instance whose loop
\* believes to lead owns the election key: the flag of start_election_loop can
\* be trusted, with any number of instances and under every fault.
THEOREM LeadersHoldTheLease == ASSUME Timely PROVE Spec => []LeaderHoldsLease
<1>1. LeaseInv => LeaderHoldsLease
  BY DEF LeaseInv, LeaseLasts, LeaderHoldsLease
<1> QED
  BY <1>1, LeaseInvHolds, PTL

\* However slow commands are, a lease ends only by running out or by the
\* release of its own owner.
THEOREM LeaseEndings == Spec => LeaseEndsByExpiryOrRelease
<1> DEFINE Ending == owner # Nobody /\ owner' # owner =>
                        /\ owner' = Nobody
                        /\ \/ ttl = 1
                           \/ pc[owner] = "DEL"
                           \/ <<owner, "DEL">> \in stray
<1>1. ASSUME TypeOK, [Next]_vars
      PROVE  Ending
  <2>1. CASE Tick
    BY <1>1, <2>1 DEF TypeOK, Tick, redisVars
  <2>2. ASSUME NEW i \in Instance, Execute(i)
        PROVE  Ending
    BY <1>1, <2>2 DEF TypeOK, Execute, ExecuteSet, ExecuteGet, ExecuteExpire,
           ExecuteRelease, RedisSet, RedisExpire, RedisRelease, Awaits, redisVars
  <2>3. ASSUME NEW i \in Instance, NEW c \in Command, StrayArrives(i, c)
        PROVE  Ending
    BY <1>1, <2>3 DEF TypeOK, StrayArrives, RedisSet, RedisExpire, RedisRelease, redisVars
  <2>4. ASSUME NEW i \in Instance,
               Loop(i) \/ Receive(i) \/ Start(i) \/ RequestFails(i) \/ Cancel(i) \/ Crash(i)
        PROVE  UNCHANGED owner
    BY <2>4 DEF Loop, RetryTick, HeartbeatTick, Receive, ReceiveSet, ReceiveGet,
           ReceiveExpire, ReleaseEnds, Start, RequestFails, Cancel, Crash, Leave, redisVars
  <2> QED
    BY <1>1, <2>1, <2>2, <2>3, <2>4 DEF Next, Progress, Environment, vars
<1> QED
  BY <1>1, TypeCorrect, PTL DEF Spec, LeaseEndsByExpiryOrRelease

------------------------------------------------------------------------------
(* The election implements the abstract lease.                              *)

Believers == {i \in Instance : isLeader[i]}

\* Only the owner of the lease believes to lead; hence nobody does when the
\* owner does not.
LEMMA OnlyOwnerBelieves ==
  ASSUME LeaseInv
  PROVE  /\ Believers \subseteq {owner}
         /\ owner \notin Believers => Believers = {}
  BY DEF LeaseInv, LeaseLasts, Believers

\* A loop that returns to its select!, and one that is dropped, changes at most
\* its own belief.
LEMMA BeliefOfOne ==
  ASSUME TypeOK, NEW i \in Instance, NEW leading \in BOOLEAN,
         isLeader' = [isLeader EXCEPT ![i] = leading]
  PROVE  Believers' = IF leading THEN Believers \cup {i} ELSE Believers \ {i}
  BY DEF TypeOK, Believers

\* Each action is a step of the abstract lease or leaves owner and believers
\* alone: an acquisition grants, its reply steps up, a failed or late heartbeat
\* steps down, expiry and release vacate.
LEMMA StepImplementsLease ==
  ASSUME LeaseInv, Timely, [Next]_vars
  PROVE  [Lease!Next]_(Lease!leaseVars)
<1> USE DEF Lease!Next, Lease!leaseVars
<1>1. TypeOK
  BY DEF LeaseInv
<1>2. CASE Tick
  <2>1. Believers' = Believers
    BY <1>2 DEF Tick, Believers
  <2>2. ttl = 1 => Believers = {}
    <3> SUFFICES ASSUME ttl = 1, NEW i \in Instance, isLeader[i]
                 PROVE  FALSE
      BY DEF Believers
    <3>1. age[i] \in 0..MaxLatency /\ LeaseLasts(i)
      BY DEF LeaseInv, TypeOK
    <3>2. pc[i] \in {"GET", "EXPIRE"} => age[i] < MaxLatency
      BY <1>2, <3>1 DEF Tick, Urgent, Command
    <3> QED
      BY <3>1, <3>2, HeartbeatIsNat DEF LeaseLasts, Awaits, Timely
  <2> QED
    <3>1. CASE ttl = 1
      BY <1>2, <2>1, <2>2, <3>1 DEF Tick, redisVars, Lease!Vacate, Believers
    <3>2. CASE ttl # 1
      <4>1. UNCHANGED owner
        BY <1>2, <3>2 DEF Tick, redisVars
      <4> QED
        BY <2>1, <4>1 DEF Believers
    <3> QED
      BY <3>1, <3>2
<1>3. ASSUME NEW i \in Instance, Loop(i) \/ Start(i)
      PROVE  UNCHANGED <<owner, isLeader>>
  BY <1>3 DEF Loop, RetryTick, HeartbeatTick, Start, redisVars
<1>4. ASSUME NEW i \in Instance, RedisSet(i) \/ RedisExpire \/ UNCHANGED redisVars,
             UNCHANGED isLeader
      PROVE  Lease!Grant(i) \/ UNCHANGED <<owner, Believers>>
  BY <1>4 DEF RedisSet, RedisExpire, redisVars, Lease!Grant, Believers
<1>5. ASSUME NEW i \in Instance, RedisRelease(i), UNCHANGED isLeader, ~isLeader[i]
      PROVE  Lease!Vacate \/ UNCHANGED <<owner, Believers>>
  BY <1>5, OnlyOwnerBelieves DEF RedisRelease, redisVars, Lease!Vacate, Believers
<1>6. ASSUME NEW i \in Instance, Execute(i)
      PROVE  [Lease!Next]_(Lease!leaseVars)
  <2>1. UNCHANGED isLeader
    BY <1>6 DEF Execute, ExecuteSet, ExecuteGet, ExecuteExpire, ExecuteRelease, Answers
  <2>2. CASE ExecuteRelease(i)
    <3>1. ~isLeader[i]
      BY <2>2 DEF ExecuteRelease, Awaits, LeaseInv, LeaseLasts
    <3> QED
      BY <2>1, <2>2, <3>1, <1>5 DEF ExecuteRelease, Believers
  <2>3. CASE ~ExecuteRelease(i)
    BY <1>6, <2>1, <2>3, <1>4 DEF Execute, ExecuteSet, ExecuteGet, ExecuteExpire, Believers
  <2> QED
    BY <2>2, <2>3
<1>7. ASSUME NEW i \in Instance, NEW leading \in BOOLEAN, UNCHANGED owner,
             isLeader' = [isLeader EXCEPT ![i] = leading],
             leading => owner = i
      PROVE  Lease!StepUp(i) \/ Lease!StepDown(i)
  BY <1>1, <1>7, BeliefOfOne DEF Lease!StepUp, Lease!StepDown, Believers
<1>8. ASSUME NEW i \in Instance,
             Receive(i) \/ RequestFails(i) \/ Cancel(i) \/ Crash(i)
      PROVE  [Lease!Next]_(Lease!leaseVars)
  <2>1. CASE ReceiveSet(i)
    BY <2>1, <1>7 DEF ReceiveSet, Answered, BackToSelect, redisVars, LeaseInv, LeaseLasts
  <2>2. CASE ReceiveGet(i)
    BY <2>2, <1>7 DEF ReceiveGet, BackToSelect, redisVars, Believers
  <2>3. CASE ReceiveExpire(i)
    BY <2>3, <1>7 DEF ReceiveExpire, Answered, BackToSelect, redisVars, LeaseInv, LeaseLasts
  <2>4. CASE ReleaseEnds(i) \/ Cancel(i) \/ Crash(i)
    BY <2>4, <1>7 DEF ReleaseEnds, Cancel, Crash, Leave, redisVars
  <2>5. CASE RequestFails(i)
    BY <2>5, <1>7 DEF RequestFails, BackToSelect, redisVars
  <2> QED
    BY <1>8, <2>1, <2>2, <2>3, <2>4, <2>5 DEF Receive
<1>9. ASSUME NEW i \in Instance, NEW c \in Command, StrayArrives(i, c)
      PROVE  [Lease!Next]_(Lease!leaseVars)
  <2>1. c = "DEL" => ~isLeader[i]
    <3>1. LeaseLasts(i) /\ <<i, c>> \in stray
      BY <1>9 DEF StrayArrives, LeaseInv
    <3> QED
      BY <3>1 DEF LeaseLasts, Awaits
  <2>2. UNCHANGED isLeader
    BY <1>9 DEF StrayArrives
  <2>3. \/ RedisSet(i) \/ RedisExpire \/ UNCHANGED redisVars
        \/ c = "DEL" /\ RedisRelease(i)
    BY <1>9 DEF StrayArrives
  <2>4. CASE RedisSet(i) \/ RedisExpire \/ UNCHANGED redisVars
    <3>1. Lease!Grant(i) \/ UNCHANGED <<owner, Believers>>
      BY <2>2, <2>4, <1>4
    <3> QED
      BY <3>1 DEF Believers
  <2>5. CASE c = "DEL" /\ RedisRelease(i)
    <3>1. Lease!Vacate \/ UNCHANGED <<owner, Believers>>
      BY <2>1, <2>2, <2>5, <1>5
    <3> QED
      BY <3>1 DEF Believers
  <2> QED
    BY <2>3, <2>4, <2>5
<1> QED
  <2>1. CASE UNCHANGED vars
    BY <2>1 DEF vars
  <2>2. ASSUME NEW i \in Instance, Loop(i) \/ Start(i)
        PROVE  [Lease!Next]_(Lease!leaseVars)
    BY <2>2, <1>3
  <2> QED
    BY <1>2, <1>6, <1>8, <1>9, <2>1, <2>2 DEF Next, Progress, Environment

\* While commands are fast enough, everything the election does is a step of
\* the abstract lease: one owner at a time, a change of owner only through
\* vacancy, and no vacancy as long as a loop believes to lead.
THEOREM ElectionImplementsLease == ASSUME Timely PROVE Spec => ImplementsLeaderLease
<1>1. Init => Lease!Init
  BY DEF Init, Lease!Init
<1>2. LeaseInv /\ [Next]_vars => [Lease!Next]_(Lease!leaseVars)
  BY StepImplementsLease
<1> QED
  BY <1>1, <1>2, LeaseInvHolds, PTL DEF Spec, ImplementsLeaderLease, Lease!Spec
------------------------------------------------------------------------------
(* The tasks the election gates, while nothing fails but processes that die. *)

\* What only a command that fails or a shutdown could do does not happen.
LEMMA OnlyCrashesHappen ==
  ASSUME Faults \subseteq {"crash"}, NEW i \in Instance
  PROVE  ~RequestFails(i) /\ ~Cancel(i)
  BY DEF RequestFails, Cancel

\* A step of i itself lets it own the key only as one who holds the lease: its
\* SET acquires, and a loop that leads goes on to lead until its process dies.
LEMMA OwnOwnerHolds ==
  ASSUME Faults \subseteq {"crash"}, TypeOK, TypeOK', NEW i \in Instance,
         LeaseLasts(i), OwnerHolds(i),
         Loop(i) \/ Execute(i) \/ Receive(i) \/ Environment(i)
  PROVE  OwnerHolds(i)' /\ (Holds(i) => Holds(i)')
<1> USE DEF OwnerHolds, Holds
<1>1. CASE Loop(i)
  BY <1>1 DEF TypeOK, Loop, RetryTick, HeartbeatTick, Send, LeaseLasts, redisVars
<1>2. CASE Execute(i)
  <2>1. CASE ExecuteSet(i)
    BY <2>1, ElectionAssumption DEF TypeOK, ExecuteSet, Answers, RedisSet, LeaseLasts, Awaits, redisVars, Command
  <2>2. CASE ExecuteGet(i)
    BY <2>2 DEF TypeOK, ExecuteGet, Answers, LeaseLasts, Awaits, redisVars, Command
  <2>3. CASE ExecuteExpire(i)
    BY <2>3 DEF TypeOK, ExecuteExpire, Answers, RedisExpire, LeaseLasts, Awaits, redisVars, Command
  <2> QED
    BY <1>2, <2>1, <2>2, <2>3 DEF Execute, ExecuteRelease, Awaits
<1>3. CASE Receive(i)
  <2>1. CASE ReceiveSet(i)
    BY <2>1 DEF TypeOK, ReceiveSet, Answered, BackToSelect, Send, LeaseLasts, Awaits, redisVars
  <2>2. CASE ReceiveGet(i)
    BY <2>2 DEF TypeOK, ReceiveGet, Answered, BackToSelect, Send, LeaseLasts, Awaits, redisVars
  <2>3. CASE ReceiveExpire(i)
    BY <2>3 DEF TypeOK, ReceiveExpire, Answered, BackToSelect, Send, LeaseLasts, Awaits, redisVars
  <2> QED
    BY <1>3, <2>1, <2>2, <2>3 DEF Receive, ReleaseEnds
<1>4. CASE Start(i)
  BY <1>4 DEF TypeOK, Start, Send, redisVars, LeaseLasts, Command
<1>5. CASE \E c \in Command : StrayArrives(i, c)
  BY <1>5 DEF TypeOK, StrayArrives, LeaseLasts
<1> QED
  BY <1>1, <1>2, <1>3, <1>4, <1>5, OnlyCrashesHappen DEF Environment

\* A step of another instance, and time, change nothing of it.
LEMMA OthersKeepOwnerHolds ==
  ASSUME TypeOK, NEW i \in Instance, OwnerHolds(i),
         Tick \/ \E j \in Instance \ {i} : OwnStep(j)
  PROVE  OwnerHolds(i)' /\ (Holds(i) => Holds(i)')
<1>1. CASE Tick
  BY <1>1, ElectionAssumption DEF Tick, OwnerHolds, Holds, redisVars
<1>2. ASSUME NEW j \in Instance, j # i, OwnStep(j)
      PROVE  OwnerHolds(i)' /\ (Holds(i) => Holds(i)')
  <2>1. /\ pc'[i] = pc[i] /\ reply'[i] = reply[i] /\ isLeader'[i] = isLeader[i]
        /\ \A c \in Command : <<i, c>> \in stray' => <<i, c>> \in stray
        /\ RedisSet(j) \/ RedisExpire \/ RedisRelease(j) \/ UNCHANGED redisVars
    BY <1>2, StepOfOther
  <2>2. owner' = i => owner = i
    BY <1>2, <2>1, ElectionAssumption DEF RedisSet, RedisExpire, RedisRelease, redisVars
  <2> QED
    BY <2>1, <2>2 DEF OwnerHolds, Holds
<1> QED
  BY <1>1, <1>2

\* Every step of the election but a crash keeps what the gate relies on, and who
\* holds the lease goes on holding it.
LEMMA ProgressKeepsHolds ==
  ASSUME Faults \subseteq {"crash"}, LeaseInv, TypeOK', Progress,
         NEW i \in Instance, OwnerHolds(i)
  PROVE  OwnerHolds(i)' /\ (Holds(i) => Holds(i)')
<1>1. TypeOK /\ LeaseLasts(i)
  BY DEF LeaseInv
<1>2. CASE Tick
  BY <1>1, <1>2, OthersKeepOwnerHolds
<1>3. ASSUME NEW j \in Instance, Loop(j) \/ Execute(j) \/ Receive(j) \/ Environment(j)
      PROVE  OwnerHolds(i)' /\ (Holds(i) => Holds(i)')
  BY <1>1, <1>3, OwnOwnerHolds, OthersKeepOwnerHolds DEF OwnStep
<1> QED
  BY <1>2, <1>3 DEF Progress

\* A crash ends the holding of its own process only.
LEMMA CrashKeepsHolds ==
  ASSUME LeaseInv, NEW i \in Instance, Crash(i), NEW j \in Instance, OwnerHolds(j)
  PROVE  OwnerHolds(j)' /\ (j # i /\ Holds(j) => Holds(j)')
<1>1. TypeOK
  BY DEF LeaseInv
<1>2. CASE j = i
  BY <1>1, <1>2 DEF TypeOK, Crash, Leave, Abandon, Send, OwnerHolds
<1>3. CASE j # i
  BY <1>1, <1>3, OthersKeepOwnerHolds DEF OwnStep
<1> QED
  BY <1>2, <1>3

\* GateInv is inductive: a task passes the gate only while its instance owns the
\* key, hence holds the lease, and it holds the lease as long as it works.
LEMMA GateInvInductive ==
  ASSUME Timely, Faults \subseteq {"crash"}, GateInv, [GateNext]_gateVars
  PROVE  GateInv'
<1>1. [Next]_vars
  BY DEF GateNext, ElectionStep, PassGate, FinishWork, CrashStep, Next, gateVars
<1>2. LeaseInv /\ LeaseInv' /\ TypeOK'
  BY <1>1, LeaseInvInductive DEF GateInv, LeaseInv
<1>3. CASE ElectionStep
  BY <1>2, <1>3, ProgressKeepsHolds DEF ElectionStep, GateInv
<1>4. ASSUME NEW i \in Instance, CrashStep(i)
      PROVE  GateInv'
  BY <1>2, <1>4, CrashKeepsHolds DEF CrashStep, GateInv
<1>5. ASSUME UNCHANGED vars
      PROVE  \A i \in Instance : OwnerHolds(i)' /\ (Holds(i) => Holds(i)')
  BY <1>5 DEF OwnerHolds, Holds, vars, GateInv
<1>6. ASSUME NEW i \in Instance, PassGate(i)
      PROVE  GateInv'
  <2>1. Holds(i)
    BY <1>6 DEF PassGate, HasTickers, GateInv, OwnerHolds
  <2> QED
    BY <1>2, <1>5, <1>6, <2>1 DEF PassGate, GateInv
<1>7. ASSUME NEW i \in Instance, FinishWork(i)
      PROVE  GateInv'
  BY <1>2, <1>5, <1>7 DEF FinishWork, GateInv
<1>8. CASE UNCHANGED gateVars
  BY <1>2, <1>5, <1>8 DEF gateVars, GateInv
<1> QED
  BY <1>3, <1>4, <1>6, <1>7, <1>8 DEF GateNext

\* While commands are fast enough for the heartbeat, and nothing fails but
\* processes that die, one instance at a time processes gated work, although
\* the tasks ask is_leader() once and never again.
THEOREM GateAdmitsOne ==
  ASSUME Timely, Faults \subseteq {"crash"}
  PROVE  GateSpec => []OneInstanceProcesses
<1>1. GateInit => GateInv
  BY LeaseInvInitial, ElectionAssumption DEF GateInit, GateInv, Init, OwnerHolds, Holds
<1>2. GateInv /\ [GateNext]_gateVars => GateInv'
  BY GateInvInductive
<1>3. GateInv => OneInstanceProcesses
  BY DEF GateInv, Holds, LeaseInv, LeaseLasts, OneInstanceProcesses
<1> QED
  BY <1>1, <1>2, <1>3, PTL DEF GateSpec
==============================================================================
