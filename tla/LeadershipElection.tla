-------------------------- MODULE LeadershipElection --------------------------
(***************************************************************************)
(* The Redis-backed leadership election of src/leadership.rs, with the     *)
(* election loop every instance runs (LeadershipManager) and the way the   *)
(* binary cancels it.                                                      *)
(*                                                                         *)
(* Redis keeps one key with a time to live.  Every command takes time: it  *)
(* is sent, it is executed by Redis, its reply is received; the connection *)
(* may fail at any of these points, and a command whose sender has given   *)
(* up may still reach Redis.  Time is discrete; Tick advances it, but not  *)
(* past a command that has been awaited for MaxLatency, nor past a timer   *)
(* that an idle loop has yet to serve.                                     *)
(***************************************************************************)
EXTENDS Integers, FiniteSets

CONSTANTS Instance,       \* the instance ids competing for the election key
          Nobody,         \* no owner: the key does not exist
          TTL,            \* leadership_ttl_secs
          RetryInterval,  \* retry_interval_secs
          MaxLatency,     \* longest time between sending a command and
                          \* handling its reply (or its error)
          MaxStray,       \* bound on the commands that outlive their sender
          Faults          \* what may happen to a process: a subset of AnyFault

\* A command fails; the process is shut down; it dies; it is started again
\* under the instance id it had (a configured LEADERSHIP_INSTANCE_ID; a
\* generated id is an instance of its own).
AnyFault == {"error", "shutdown", "crash", "restart"}

ASSUME ElectionAssumption ==
    /\ Nobody \notin Instance
    /\ TTL \in Nat /\ TTL >= 3
    /\ RetryInterval \in Nat \ {0}
    /\ MaxLatency \in Nat \ {0}
    /\ MaxStray \in Nat
    /\ Faults \subseteq AnyFault

\* (Mutant) the leader renews once per time to live.
HeartbeatOncePerTTL == TTL

\* Renewal period of a leader: leadership_ttl_secs / 3.
HeartbeatInterval == TTL \div 3

VARIABLES owner,      \* value of the election key, or Nobody
          ttl,        \* time the key has left; 0 when there is no key
          pc,         \* what the loop of an instance awaits
          reply,      \* the answer of Redis on its way back, or "none"
          age,        \* how long the current command has been awaited
          isLeader,   \* the loop's local flag is_leader
          retry,      \* time until the next tick of retry_interval
          heartbeat,  \* time until the next tick of the heartbeat interval
          stray       \* commands on their way to Redis whose sender gave up

vars == <<owner, ttl, pc, reply, age, isLeader, retry, heartbeat, stray>>

redisVars == <<owner, ttl>>
timerVars == <<retry, heartbeat>>

Command == {"SET", "GET", "EXPIRE", "DEL"}
Answer  == {"acquired", "refused", "mine", "other", "absent",
            "renewed", "missed", "deleted"}

TypeOK ==
    /\ owner \in Instance \cup {Nobody}
    /\ ttl \in 0..TTL
    /\ (owner = Nobody) <=> (ttl = 0)
    /\ pc \in [Instance -> Command \cup {"new", "select", "down"}]
    /\ reply \in [Instance -> Answer \cup {"none"}]
    /\ age \in [Instance -> 0..MaxLatency]
    /\ isLeader \in [Instance -> BOOLEAN]
    /\ retry \in [Instance -> Int]
    /\ heartbeat \in [Instance -> Int]
    /\ \A i \in Instance : retry[i] <= RetryInterval
    /\ \A i \in Instance : heartbeat[i] <= HeartbeatInterval
    /\ stray \subseteq Instance \X (Command \ {"GET"})

Init ==
    /\ owner = Nobody
    /\ ttl = 0
    /\ pc = [i \in Instance |-> "new"]
    /\ reply = [i \in Instance |-> "none"]
    /\ age = [i \in Instance |-> 0]
    /\ isLeader = [i \in Instance |-> FALSE]
    /\ retry = [i \in Instance |-> 0]
    /\ heartbeat = [i \in Instance |-> 0]
    /\ stray = {}

------------------------------------------------------------------------------
(* What each command does to the key.                                       *)

\* (Mutants) SET EX without NX; a refused SET that extends the key of its own
\* sender.
RedisSetOverwrites(i) == owner' = i /\ ttl' = TTL
RedisSetExtendsOwn(i) ==
    \/ owner \in {Nobody, i} /\ owner' = i /\ ttl' = TTL
    \/ owner \notin {Nobody, i} /\ UNCHANGED redisVars

\* SET election_key instance_id NX EX ttl, of try_acquire_leadership.
RedisSet(i) ==
    \/ owner = Nobody /\ owner' = i /\ ttl' = TTL
    \/ owner # Nobody /\ UNCHANGED redisVars

\* EXPIRE election_key ttl, of maintain_leadership: it renews the key no
\* matter whom the key names.
RedisExpire ==
    \/ owner # Nobody /\ ttl' = TTL /\ UNCHANGED owner
    \/ owner = Nobody /\ UNCHANGED redisVars

\* (Mutant) DEL without the comparison.
RedisReleaseUnchecked(i) == owner' = Nobody /\ ttl' = 0

\* The script of release_leadership: delete the key if it names i.
RedisRelease(i) ==
    \/ owner = i /\ owner' = Nobody /\ ttl' = 0
    \/ owner # i /\ UNCHANGED redisVars

------------------------------------------------------------------------------
(* The election loop (start_election_loop).                                 *)

\* The election loop of i is running.
HasTickers(i) == pc[i] \notin {"new", "down", "DEL"}

Awaits(i, c) == pc[i] = c /\ reply[i] = "none"
Answered(i, c) == pc[i] = c /\ reply[i] # "none"

\* The loop of i sends command c and awaits its reply.
Send(i, c) ==
    /\ pc' = [pc EXCEPT ![i] = c]
    /\ reply' = [reply EXCEPT ![i] = "none"]
    /\ age' = [age EXCEPT ![i] = 0]

\* The loop of i is back in its select!, leading or not.
BackToSelect(i, leading) ==
    /\ Send(i, "select")
    /\ isLeader' = [isLeader EXCEPT ![i] = leading]

\* The process of i starts; the first tick of a tokio interval is immediate.
\* A restart takes longer than MaxLatency, and longer than a command of the
\* dead process stays on its way.
Start(i) ==
    /\ \/ pc[i] = "new"
       \/ pc[i] = "down" /\ age[i] = MaxLatency /\ "restart" \in Faults
    /\ \A c \in Command : <<i, c>> \notin stray
    /\ Send(i, "select")
    /\ retry' = [retry EXCEPT ![i] = 0]
    /\ heartbeat' = [heartbeat EXCEPT ![i] = 0]
    /\ UNCHANGED <<redisVars, isLeader, stray>>

\* retry_interval.tick(): a loop that does not lead tries to acquire.  The
\* next deadline is one period after this one, however late this one is.
RetryTick(i) ==
    /\ pc[i] = "select" /\ retry[i] <= 0
    /\ retry' = [retry EXCEPT ![i] = @ + RetryInterval]
    /\ \/ ~isLeader[i] /\ Send(i, "SET")
       \/ isLeader[i] /\ UNCHANGED <<pc, reply, age>>
    /\ UNCHANGED <<redisVars, isLeader, heartbeat, stray>>

\* heartbeat_interval_ticker.tick(): a loop that leads maintains the lease.
HeartbeatTick(i) ==
    /\ pc[i] = "select" /\ heartbeat[i] <= 0
    /\ heartbeat' = [heartbeat EXCEPT ![i] = @ + HeartbeatInterval]
    /\ \/ isLeader[i] /\ Send(i, "GET")
       \/ ~isLeader[i] /\ UNCHANGED <<pc, reply, age>>
    /\ UNCHANGED <<redisVars, isLeader, retry, stray>>

\* Redis executes the command the loop of i awaits, and answers.
Answers(i, a) ==
    /\ reply' = [reply EXCEPT ![i] = a]
    /\ UNCHANGED <<pc, age, isLeader, timerVars, stray>>

ExecuteSet(i) ==
    /\ Awaits(i, "SET")
    /\ RedisSet(i)
    /\ Answers(i, IF owner = Nobody THEN "acquired" ELSE "refused")

ExecuteGet(i) ==
    /\ Awaits(i, "GET")
    /\ Answers(i, CASE owner = i      -> "mine"
                    [] owner = Nobody -> "absent"
                    [] OTHER          -> "other")
    /\ UNCHANGED redisVars

ExecuteExpire(i) ==
    /\ Awaits(i, "EXPIRE")
    /\ RedisExpire
    /\ Answers(i, IF owner # Nobody THEN "renewed" ELSE "missed")

ExecuteRelease(i) ==
    /\ Awaits(i, "DEL")
    /\ RedisRelease(i)
    /\ Answers(i, "deleted")

\* try_acquire_leadership returns: the loop leads if the key was set.
ReceiveSet(i) ==
    /\ Answered(i, "SET")
    /\ BackToSelect(i, reply[i] = "acquired")
    /\ UNCHANGED <<redisVars, timerVars, stray>>

\* maintain_leadership reads the key: it goes on to renew a key that names
\* i, and returns Follower or Vacant otherwise.
ReceiveGet(i) ==
    /\ Answered(i, "GET")
    /\ \/ /\ reply[i] = "mine"
          /\ Send(i, "EXPIRE")
          /\ UNCHANGED isLeader
       \/ /\ reply[i] # "mine"
          /\ BackToSelect(i, FALSE)
    /\ UNCHANGED <<redisVars, timerVars, stray>>

\* maintain_leadership returns Leader if a key was renewed, else Vacant.
ReceiveExpire(i) ==
    /\ Answered(i, "EXPIRE")
    /\ BackToSelect(i, reply[i] = "renewed")
    /\ UNCHANGED <<redisVars, timerVars, stray>>

\* The sender gives up: if Redis has not executed its command, the command
\* is lost or still on its way.
Abandon(i) ==
    \/ UNCHANGED stray
    \/ /\ pc[i] \in Command \ {"GET"} /\ reply[i] = "none"
       /\ Cardinality(stray) < MaxStray
       /\ stray' = stray \cup {<<i, pc[i]>>}

\* (Mutant) a failed heartbeat leaves the flag as it is.
RequestFailsKeepsFlag(i) ==
    /\ "error" \in Faults
    /\ pc[i] \in {"SET", "GET", "EXPIRE"}
    /\ Abandon(i)
    /\ BackToSelect(i, isLeader[i])
    /\ UNCHANGED <<redisVars, timerVars>>

\* An error instead of a reply: no acquisition, or leadership assumed lost.
RequestFails(i) ==
    /\ "error" \in Faults
    /\ pc[i] \in {"SET", "GET", "EXPIRE"}
    /\ Abandon(i)
    /\ BackToSelect(i, FALSE)
    /\ UNCHANGED <<redisVars, timerVars>>

------------------------------------------------------------------------------
(* Shutdown, crash, commands that arrive late, and time.                    *)

\* The loop of i is dropped, with its local flag and its tickers.
Leave(i, next) ==
    /\ Send(i, next)
    /\ isLeader' = [isLeader EXCEPT ![i] = FALSE]
    /\ retry' = [retry EXCEPT ![i] = 0]
    /\ heartbeat' = [heartbeat EXCEPT ![i] = 0]
    /\ Abandon(i)
    /\ UNCHANGED redisVars

\* The token is cancelled.  Both the election task and the task manager that
\* runs it select on the token: the release begins, or the task is dropped.
Cancel(i) ==
    /\ "shutdown" \in Faults
    /\ HasTickers(i)
    /\ Leave(i, "DEL") \/ Leave(i, "down")

\* The release ends: answered, failed, or dropped by the task manager.
ReleaseEnds(i) ==
    /\ pc[i] = "DEL"
    /\ Leave(i, "down")

\* The process dies with everything it was doing.
Crash(i) ==
    /\ "crash" \in Faults
    /\ pc[i] \notin {"new", "down"}
    /\ Leave(i, "down")

\* A command whose sender gave up reaches Redis after all, or never.
StrayArrives(i, c) ==
    /\ <<i, c>> \in stray
    /\ stray' = stray \ {<<i, c>>}
    /\ \/ c = "SET" /\ RedisSet(i)
       \/ c = "EXPIRE" /\ RedisExpire
       \/ c = "DEL" /\ RedisRelease(i)
       \/ UNCHANGED redisVars
    /\ UNCHANGED <<pc, reply, age, isLeader, timerVars>>

\* The loop of i has something to do before time may pass.
Urgent(i) ==
    \/ pc[i] = "select" /\ (retry[i] <= 0 \/ heartbeat[i] <= 0)
    \/ pc[i] \in Command /\ age[i] >= MaxLatency

Tick ==
    /\ \A i \in Instance : ~Urgent(i)
    /\ \/ ttl = 0 /\ UNCHANGED redisVars
       \/ ttl = 1 /\ owner' = Nobody /\ ttl' = 0
       \/ ttl > 1 /\ ttl' = ttl - 1 /\ UNCHANGED owner
    /\ age' = [i \in Instance |->
                  IF pc[i] \notin {"new", "select"} /\ age[i] < MaxLatency
                  THEN age[i] + 1 ELSE age[i]]
    /\ retry' = [i \in Instance |->
                  IF HasTickers(i) THEN retry[i] - 1 ELSE retry[i]]
    /\ heartbeat' = [i \in Instance |->
                  IF HasTickers(i) THEN heartbeat[i] - 1 ELSE heartbeat[i]]
    /\ UNCHANGED <<pc, reply, isLeader, stray>>

Loop(i) == RetryTick(i) \/ HeartbeatTick(i)
Execute(i) == ExecuteSet(i) \/ ExecuteGet(i) \/ ExecuteExpire(i) \/ ExecuteRelease(i)
Receive(i) == ReceiveSet(i) \/ ReceiveGet(i) \/ ReceiveExpire(i) \/ ReleaseEnds(i)
Environment(i) ==
    \/ Start(i) \/ RequestFails(i) \/ Cancel(i)
    \/ \E c \in Command : StrayArrives(i, c)

\* Every step but a crash.
Progress ==
    \/ Tick
    \/ \E i \in Instance :
          Loop(i) \/ Execute(i) \/ Receive(i) \/ Environment(i)

Next == Progress \/ \E i \in Instance : Crash(i)

Spec == Init /\ [][Next]_vars

\* Loops that can run do run, a request is answered or fails, time passes, and
\* a loop that tries again and again is heard by Redis at some time.  Nothing
\* is assumed of processes starting or stopping, nor of stray commands.
Fairness ==
    /\ SF_vars(Tick)
    /\ \A i \in Instance :
          /\ WF_vars(Loop(i))
          /\ WF_vars(Execute(i) \/ Receive(i) \/ RequestFails(i))
          /\ SF_vars(ExecuteSet(i))

FairSpec == Spec /\ Fairness

------------------------------------------------------------------------------
(* Properties                                                               *)

\* Commands are fast enough for the heartbeat: the acquisition, a heartbeat
\* interval, the reading and the renewal fit in one lease.
Timely == HeartbeatInterval + 3 * MaxLatency < TTL

\* When commands are fast enough, an instance whose loop believes to lead does
\* own the election key, whatever fails, restarts or arrives late: the
\* non-atomic GET and EXPIRE of maintain_leadership never renew the lease of
\* another instance while the loop goes on to believe it leads.
LeaderHoldsLease == \A i \in Instance : isLeader[i] => owner = i

\* Why LeaderHoldsLease holds.  The lease of a loop that leads has, in every
\* state of that loop, time left for the commands still to come before it is
\* renewed, each MaxLatency long; only a process that is down leaves a release
\* behind.
LeaseLasts(i) ==
    /\ isLeader[i] =>
          /\ owner = i
          /\ \/ /\ pc[i] = "select"
                /\ ttl > 2 * MaxLatency
                /\ ttl > heartbeat[i] + 2 * MaxLatency
             \/ pc[i] = "GET" /\ ttl + age[i] > 2 * MaxLatency
             \/ Awaits(i, "EXPIRE") /\ ttl + age[i] > MaxLatency
             \/ pc[i] = "EXPIRE" /\ reply[i] = "renewed" /\ ttl + age[i] >= TTL
    /\ pc[i] \in {"GET", "EXPIRE"} => isLeader[i]
    /\ pc[i] = "SET" /\ reply[i] = "acquired" => owner = i /\ ttl + age[i] >= TTL
    /\ <<i, "DEL">> \in stray => pc[i] = "down"

LeaseInv == TypeOK /\ \A i \in Instance : LeaseLasts(i)

\* A lease ends because nobody renewed it for its whole time to live, or
\* because its owner, shutting down, releases it: the release of an instance
\* that lost the lease meanwhile (or whose script arrives late) spares the
\* lease of its successor, and no acquisition takes a lease from its owner.
LeaseEndsByExpiryOrRelease ==
    [][owner # Nobody /\ owner' # owner =>
          /\ owner' = Nobody
          /\ \/ ttl = 1
             \/ pc[owner] = "DEL"
             \/ <<owner, "DEL">> \in stray]_vars

\* A vacancy is filled while some instance stays up: connection errors and lost
\* replies may delay the acquisition, never defeat it.
VacancyIsFilled ==
    (owner = Nobody /\ \E i \in Instance : HasTickers(i))
        ~> (owner # Nobody \/ \A i \in Instance : ~HasTickers(i))

\* A lease whose owner does not know of it (the reply to its SET was lost, a
\* heartbeat failed, the process died) is not kept alive for ever: its own SET
\* NX is refused, and it must end before anyone can lead.
UnheldLeaseEnds ==
    \A i \in Instance :
        (owner = i /\ ~isLeader[i]) ~> (owner # i \/ isLeader[i])

\* What the gated tasks are promised, for an election fast enough.
Lease == INSTANCE LeaderLease
            WITH believers <- {i \in Instance : isLeader[i]}
ImplementsLeaderLease == Lease!Spec
==============================================================================
