------------------------ MODULE RedisWorkQueue_proofs ------------------------
(***************************************************************************)
(* Proofs about RedisWorkQueue, for every set of workers and items.        *)
(***************************************************************************)
EXTENDS RedisWorkQueue, TLAPS

\* What LPUSH does to the primary list, as a list and as a set.
LEMMA RangeOfAppend ==
    ASSUME NEW S, NEW s \in Seq(S), NEW e \in S
    PROVE  /\ Append(s, e) \in Seq(S)
           /\ Range(Append(s, e)) = Range(s) \cup {e}
  <1>1. DOMAIN s = 1..Len(s) /\ DOMAIN Append(s, e) = 1..(Len(s) + 1)
    OBVIOUS
  <1>2. /\ \A n \in 1..Len(s) : Append(s, e)[n] = s[n]
        /\ Append(s, e)[Len(s) + 1] = e
    OBVIOUS
  <1>3. Len(s) \in Nat
    OBVIOUS
  <1> QED BY <1>1, <1>2, <1>3 DEF Range

\* Appending an item that is not in a list leaves the list without repetitions.
LEMMA DistinctAppend ==
    ASSUME NEW S, NEW s \in Seq(S), NEW e \in S, e \notin Range(s),
           \A m, n \in DOMAIN s : s[m] = s[n] => m = n
    PROVE  \A m, n \in DOMAIN Append(s, e) :
               Append(s, e)[m] = Append(s, e)[n] => m = n
  <1>1. DOMAIN s = 1..Len(s) /\ DOMAIN Append(s, e) = 1..(Len(s) + 1)
    OBVIOUS
  <1>2. /\ \A n \in 1..Len(s) : Append(s, e)[n] = s[n]
        /\ Append(s, e)[Len(s) + 1] = e
    OBVIOUS
  <1>3. \A n \in 1..Len(s) : s[n] # e
    BY <1>1 DEF Range
  <1>4. Len(s) \in Nat
    OBVIOUS
  <1> QED BY <1>1, <1>2, <1>3, <1>4

\* What popping the next item does to the primary list, as a list and as a
\* set, when no item occurs twice.
LEMMA PopDistinct ==
    ASSUME NEW S, NEW s \in Seq(S), s # <<>>,
           \A m, n \in DOMAIN s : s[m] = s[n] => m = n
    PROVE  /\ Head(s) \in S
           /\ Head(s) \in Range(s)
           /\ Tail(s) \in Seq(S)
           /\ Range(Tail(s)) = Range(s) \ {Head(s)}
           /\ \A m, n \in DOMAIN Tail(s) : Tail(s)[m] = Tail(s)[n] => m = n
  <1>1. DOMAIN s = 1..Len(s) /\ Len(s) \in Nat /\ Len(s) > 0
    OBVIOUS
  <1>2. Head(s) = s[1] /\ s[1] \in S /\ Tail(s) \in Seq(S)
    BY <1>1
  <1>3. /\ DOMAIN Tail(s) = 1..(Len(s) - 1)
        /\ \A n \in 1..(Len(s) - 1) : Tail(s)[n] = s[n + 1]
    BY <1>1
  <1>4. Range(Tail(s)) \subseteq Range(s) \ {Head(s)}
    BY <1>1, <1>2, <1>3 DEF Range
  <1>5. ASSUME NEW y \in Range(s) \ {Head(s)}
        PROVE  y \in Range(Tail(s))
    <2>1. PICK n \in 1..Len(s) : y = s[n]
      BY <1>1 DEF Range
    <2>2. n # 1
      BY <1>2, <2>1
    <2>3. n - 1 \in 1..(Len(s) - 1) /\ Tail(s)[n - 1] = y
      BY <1>1, <1>3, <2>1, <2>2
    <2> QED BY <1>3, <2>3 DEF Range
  <1>6. \A m, n \in DOMAIN Tail(s) : Tail(s)[m] = Tail(s)[n] => m = n
    BY <1>1, <1>3
  <1>7. Head(s) \in Range(s)
    BY <1>1, <1>2 DEF Range
  <1> QED BY <1>2, <1>4, <1>5, <1>6, <1>7

------------------------------------------------------------------------------

\* An empty queue with all workers down satisfies the invariant.
LEMMA QueueInitial == Init => QueueInv
  <1> SUFFICES ASSUME Init PROVE QueueInv
    OBVIOUS
  <1> USE DEF Init
  <1>1. Range(primary) = {} /\ Parked = {}
    BY DEF Range, Parked
  <1>2. TypeOK
    BY QueueAssumption DEF TypeOK
  <1>3. NothingLost
    BY <1>1 DEF NothingLost
  <1>4. PrimaryDistinct /\ OnePlace /\ WorksOnParked
    BY <1>1 DEF PrimaryDistinct, OnePlace, WorksOnParked
  <1> QED BY <1>2, <1>3, <1>4 DEF QueueInv

\* A step that leaves Redis and the history alone preserves the invariant if it
\* leaves a worker that works on nothing, or on the item it worked on.
LEMMA QuietStep ==
    ASSUME QueueInv, UNCHANGED <<redisVars, pushed, settled>>,
           processed \subseteq processed', processed' \subseteq Item,
           faults' \in 0..MaxFaults,
           NEW w \in Worker, NEW where, NEW x, Goto(w, where, x),
           \/ where \in {"down", "recovering", "idle"} /\ x = NoItem
           \/ /\ where = "acking" /\ pc[w] = "processing"
              /\ x = holding[w] /\ x \in processed'
    PROVE  QueueInv'
  <1> USE DEF QueueInv, redisVars, Goto
  <1>1. TypeOK'
    BY DEF TypeOK
  <1>2. NothingLost'
    BY DEF NothingLost, Parked
  <1>3. PrimaryDistinct' /\ OnePlace'
    BY DEF PrimaryDistinct, OnePlace, Parked
  <1>4. WorksOnParked'
    BY DEF WorksOnParked, TypeOK
  <1> QED BY <1>1, <1>2, <1>3, <1>4

\* push and try_push preserve the invariant.
LEMMA PushStep ==
    ASSUME QueueInv, NEW x \in Item, Push(x)
    PROVE  QueueInv'
  <1> USE DEF QueueInv, Push
  <1>1. /\ primary' \in Seq(Item)
        /\ Range(primary') = Range(primary) \cup {x}
    BY RangeOfAppend DEF TypeOK
  <1>2. TypeOK'
    BY <1>1 DEF TypeOK
  <1>3. NothingLost'
    BY <1>1 DEF NothingLost, Parked
  <1>4. PrimaryDistinct'
    BY DistinctAppend DEF PrimaryDistinct, OnePlace, TypeOK
  <1>5. OnePlace'
    BY <1>1 DEF OnePlace, Parked
  <1>6. WorksOnParked'
    BY DEF WorksOnParked
  <1> QED BY <1>2, <1>3, <1>4, <1>5, <1>6

\* One RPOPLPUSH of recover_worker_queue preserves the invariant.
LEMMA RecoverOneStep ==
    ASSUME QueueInv, NEW w \in Worker, RecoverOne(w)
    PROVE  QueueInv'
  <1> USE DEF QueueInv
  <1>1. PICK x \in parked[w] :
              /\ parked' = [parked EXCEPT ![w] = @ \ {x}]
              /\ primary' = Append(primary, x)
    BY DEF RecoverOne
  <1>2. x \in Item
    BY <1>1 DEF TypeOK
  <1>3. /\ primary' \in Seq(Item)
        /\ Range(primary') = Range(primary) \cup {x}
    BY <1>1, <1>2, RangeOfAppend DEF TypeOK
  <1>4. parked' \in [Worker -> SUBSET Item]
        /\ \A v \in Worker : parked'[v] = IF v = w THEN parked[w] \ {x} ELSE parked[v]
    BY <1>1 DEF TypeOK
  <1>5. Parked' \cup {x} = Parked
    BY <1>1, <1>4 DEF Parked
  <1>6. UNCHANGED <<pc, holding, pushed, processed, settled, faults>>
    BY DEF RecoverOne, history
  <1>7. TypeOK'
    BY <1>3, <1>4, <1>6 DEF TypeOK
  <1>8. NothingLost'
    BY <1>3, <1>5, <1>6 DEF NothingLost
  <1>9. PrimaryDistinct'
    BY <1>1, <1>2, DistinctAppend DEF PrimaryDistinct, OnePlace, TypeOK
  <1>10. OnePlace'
    BY <1>3, <1>4, <1>5, <1>6 DEF OnePlace
  <1>11. WorksOnParked'
    BY <1>4, <1>6 DEF WorksOnParked, RecoverOne
  <1> QED BY <1>7, <1>8, <1>9, <1>10, <1>11

\* pull, with or without its reply.
LEMMA ParkStep ==
    ASSUME QueueInv, NEW w \in Worker, Pull(w) \/ PullReplyLost(w)
    PROVE  QueueInv'
  <1> DEFINE x == Head(primary)
  <1> USE DEF QueueInv
  <1>1. /\ primary # <<>>
        /\ primary' = Tail(primary)
        /\ parked' = [parked EXCEPT ![w] = @ \cup {x}]
        /\ pc[w] = "idle"
        /\ UNCHANGED <<pushed, processed, settled>>
        /\ faults' \in 0..MaxFaults
    BY QueueAssumption DEF Pull, PullReplyLost, Park, Fault, history, TypeOK
  <1>2. primary \in Seq(Item)
    BY DEF TypeOK
  <1>3. /\ x \in Item
        /\ x \in Range(primary)
        /\ primary' \in Seq(Item)
        /\ Range(primary') = Range(primary) \ {x}
        /\ PrimaryDistinct'
    BY <1>1, <1>2, PopDistinct DEF PrimaryDistinct
  <1> HIDE DEF x
  <1>4. parked' \in [Worker -> SUBSET Item]
        /\ \A v \in Worker :
              parked'[v] = IF v = w THEN parked[w] \cup {x} ELSE parked[v]
    BY <1>1, <1>3 DEF TypeOK
  <1>5. Parked' = Parked \cup {x}
    BY <1>1, <1>4 DEF Parked
  <1>6. \/ UNCHANGED <<pc, holding>>
        \/ Goto(w, IF x \in Malformed THEN "discarding" ELSE "processing", x)
    BY DEF Pull, PullReplyLost, x
  <1>7. TypeOK'
    BY <1>1, <1>3, <1>4, <1>6 DEF TypeOK, Goto
  <1>8. NothingLost'
    BY <1>1, <1>3, <1>5 DEF NothingLost
  <1>9. OnePlace'
    BY <1>1, <1>3, <1>4, <1>5 DEF OnePlace
  <1>10. WorksOnParked'
    BY <1>1, <1>4, <1>6 DEF WorksOnParked, Goto, TypeOK
  <1> QED BY <1>3, <1>7, <1>8, <1>9, <1>10

\* ack, and the LREM of a malformed item.
LEMMA SettleStep ==
    ASSUME QueueInv, NEW w \in Worker, Discard(w) \/ Ack(w)
    PROVE  QueueInv'
  <1> DEFINE x == holding[w]
  <1> USE DEF QueueInv
  <1>1. /\ parked' = [parked EXCEPT ![w] = @ \ {x}]
        /\ settled' = settled \cup {x}
        /\ UNCHANGED <<primary, pushed, processed, faults>>
        /\ Goto(w, "idle", NoItem)
    BY DEF Discard, Ack, Settle
  <1>2. x \in parked[w] /\ x \in Item /\ x \in processed \cup Malformed
    BY DEF Discard, Ack, WorksOnParked, TypeOK
  <1> HIDE DEF x
  <1>3. parked' \in [Worker -> SUBSET Item]
        /\ \A v \in Worker : parked'[v] = IF v = w THEN parked[w] \ {x} ELSE parked[v]
    BY <1>1 DEF TypeOK
  <1>4. Parked' \cup {x} = Parked
    BY <1>1, <1>2, <1>3 DEF Parked
  <1>5. TypeOK'
    BY <1>1, <1>2, <1>3 DEF TypeOK, Goto
  <1>6. NothingLost'
    BY <1>1, <1>2, <1>4 DEF NothingLost
  <1>7. PrimaryDistinct'
    BY <1>1 DEF PrimaryDistinct
  <1>8. OnePlace'
    BY <1>1, <1>2, <1>3, <1>4 DEF OnePlace
  <1>9. WorksOnParked'
    BY <1>1, <1>3 DEF WorksOnParked, Goto, TypeOK
  <1> QED BY <1>5, <1>6, <1>7, <1>8, <1>9

\* The invariant of the queue is inductive: one step per kind of action.
LEMMA QueueInductive == QueueInv /\ [Next]_vars => QueueInv'
  <1> SUFFICES ASSUME QueueInv, [Next]_vars PROVE QueueInv'
    OBVIOUS
  <1>0. faults \in 0..MaxFaults /\ processed \subseteq Item
    BY DEF QueueInv, TypeOK
  <1>1. CASE UNCHANGED vars
    BY <1>1 DEF QueueInv, vars, TypeOK, NothingLost, PrimaryDistinct, OnePlace,
                WorksOnParked, Parked
  <1>2. ASSUME NEW x \in Item, Push(x) PROVE QueueInv'
    BY <1>2, PushStep
  <1>3. ASSUME NEW w \in Worker, Start(w) \/ RecoverDone(w) \/ Stop(w)
        PROVE  QueueInv'
    BY <1>0, <1>3, QuietStep DEF Start, RecoverDone, Stop, history
  <1>4. ASSUME NEW w \in Worker, RecoverOne(w) PROVE QueueInv'
    BY <1>4, RecoverOneStep
  <1>5. ASSUME NEW w \in Worker, Pull(w) \/ PullReplyLost(w) PROVE QueueInv'
    BY <1>5, ParkStep
  <1>6. ASSUME NEW w \in Worker, Discard(w) \/ Ack(w) PROVE QueueInv'
    BY <1>6, SettleStep
  <1>7. ASSUME NEW w \in Worker, Process(w) PROVE QueueInv'
    <2>1. holding[w] \in Item
      BY <1>7 DEF QueueInv, WorksOnParked, TypeOK, Process
    <2> QED BY <1>0, <1>7, <2>1, QuietStep DEF Process
  <1>8. ASSUME NEW w \in Worker,
               RecoverFails(w) \/ ProcessFails(w) \/ SettleFails(w) \/ Crash(w)
        PROVE  QueueInv'
    <2>1. faults' \in 0..MaxFaults
      BY <1>0, <1>8, QueueAssumption
         DEF RecoverFails, ProcessFails, SettleFails, Crash, Fault
    <2> QED BY <1>0, <1>8, <2>1, QuietStep
            DEF RecoverFails, ProcessFails, SettleFails, Crash, history
  <1> QED BY <1>1, <1>2, <1>3, <1>4, <1>5, <1>6, <1>7, <1>8
          DEF Next, Recover, Work, Failure

\* The invariant of the queue holds in every reachable state.
THEOREM QueueCorrect == Spec => []QueueInv
  <1> QED BY QueueInitial, QueueInductive, PTL DEF Spec

\* Whatever fails, restarts or interleaves, no item the queue accepted is lost:
\* it waits, is parked, or was processed (or found malformed) and settled.
THEOREM QueueLosesNothing == Spec => []NothingLost
  <1>1. QueueInv => NothingLost
    BY DEF QueueInv
  <1> QED BY <1>1, QueueCorrect, PTL

\* No two workers ever work on the same item at the same time, however many
\* there are, and whatever is recovered while they work.
THEOREM QueueDeliversToOne == Spec => []NoConcurrentDelivery
  <1>1. QueueInv => NoConcurrentDelivery
    <2> SUFFICES ASSUME QueueInv, NEW v \in Worker, NEW w \in Worker,
                        holding[v] = holding[w], holding[v] # NoItem
                 PROVE  v = w
      BY DEF NoConcurrentDelivery
    <2>1. holding[v] \in parked[v] /\ holding[w] \in parked[w]
      BY DEF QueueInv, TypeOK, WorksOnParked
    <2> QED BY <2>1 DEF QueueInv, OnePlace
  <1> QED BY <1>1, QueueCorrect, PTL

\* Every step of the adapter is a step of a reliable queue, or changes nothing
\* such a queue speaks of.
LEMMA QueueStepRefines ==
    ASSUME QueueInv, [Next]_vars
    PROVE  [Promise!Next]_(Promise!vars)
  <1> USE DEF Promise!vars, Promise!Next
  <1>1. ASSUME UNCHANGED <<primary, parked, settled>>
        PROVE  UNCHANGED Promise!vars
    BY <1>1
  <1>2. CASE UNCHANGED vars
    BY <1>1, <1>2 DEF vars
  <1>3. ASSUME NEW x \in Item, Push(x) PROVE Promise!Add(x)
    <2>1. Range(primary') = Range(primary) \cup {x}
      BY <1>3, RangeOfAppend DEF Push, QueueInv, TypeOK
    <2>2. x \notin Range(primary) \cup Parked \cup settled
      BY <1>3 DEF Push, QueueInv, OnePlace
    <2> QED BY <1>3, <2>1, <2>2 DEF Push, Promise!Add, Parked
  <1>4. ASSUME NEW w \in Worker, RecoverOne(w)
        PROVE  \E x \in Item : Promise!GiveBack(w, x)
    <2>1. PICK x \in parked[w] :
                /\ parked' = [parked EXCEPT ![w] = @ \ {x}]
                /\ primary' = Append(primary, x)
      BY <1>4 DEF RecoverOne
    <2>2. x \in Item
      BY <2>1 DEF QueueInv, TypeOK
    <2>3. Range(primary') = Range(primary) \cup {x}
      BY <2>1, <2>2, RangeOfAppend DEF QueueInv, TypeOK
    <2>4. UNCHANGED settled
      BY <1>4 DEF RecoverOne, history
    <2>5. Promise!GiveBack(w, x)
      BY <2>1, <2>3, <2>4 DEF Promise!GiveBack
    <2> QED BY <2>2, <2>5
  <1>5. ASSUME NEW w \in Worker, Pull(w) \/ PullReplyLost(w)
        PROVE  \E x \in Item : Promise!Take(w, x)
    <2>1. /\ primary # <<>>
          /\ primary' = Tail(primary)
          /\ parked' = [parked EXCEPT ![w] = @ \cup {Head(primary)}]
          /\ UNCHANGED settled
      BY <1>5 DEF Pull, PullReplyLost, Park, history
    <2>2. /\ Head(primary) \in Item
          /\ Head(primary) \in Range(primary)
          /\ Range(primary') = Range(primary) \ {Head(primary)}
      BY <2>1, PopDistinct DEF QueueInv, TypeOK, PrimaryDistinct
    <2>3. Promise!Take(w, Head(primary))
      BY <2>1, <2>2 DEF Promise!Take
    <2> QED BY <2>2, <2>3
  <1>6. ASSUME NEW w \in Worker, Discard(w) \/ Ack(w)
        PROVE  \E x \in Item : Promise!Settle(w, x)
    <2>1. holding[w] \in parked[w] /\ holding[w] \in Item
      BY <1>6 DEF Discard, Ack, QueueInv, WorksOnParked, TypeOK
    <2>2. Promise!Settle(w, holding[w])
      BY <1>6, <2>1 DEF Discard, Ack, Settle, Promise!Settle
    <2> QED BY <2>1, <2>2
  <1>7. ASSUME NEW w \in Worker,
               \/ Start(w) \/ RecoverDone(w) \/ Stop(w) \/ Process(w)
               \/ RecoverFails(w) \/ ProcessFails(w) \/ SettleFails(w) \/ Crash(w)
        PROVE  UNCHANGED <<primary, parked, settled>>
    BY <1>7 DEF Start, RecoverDone, Stop, Process, RecoverFails, ProcessFails,
                SettleFails, Crash, redisVars, history
  <1> QED BY <1>1, <1>2, <1>3, <1>4, <1>5, <1>6, <1>7
          DEF Next, Recover, Work, Failure

\* The Redis adapter implements the reliable queue it is documented to be, for
\* every set of workers and items and under every failure modelled.
THEOREM QueueImplementsPromise == Spec => ImplementsReliableQueue
  <1>1. Init => Promise!Init
    BY DEF Init, Promise!Init, Range
  <1>2. QueueInv /\ [Next]_vars => [Promise!Next]_(Promise!vars)
    BY QueueStepRefines
  <1> QED BY <1>1, <1>2, QueueCorrect, PTL
          DEF Spec, ImplementsReliableQueue, Promise!Spec
==============================================================================
