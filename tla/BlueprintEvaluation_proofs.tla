----------------------- MODULE BlueprintEvaluation_proofs -----------------------
(***************************************************************************)
(* Proofs about BlueprintEvaluation, for any instances, events, pipelines  *)
(* and capacities, with either queue, with or without gate and failures.   *)
(***************************************************************************)
EXTENDS BlueprintEvaluation, TLAPS

Item == [event : Event, index : Nat]

EvalTypeOK ==
    /\ channel \in [Instance -> Seq(Item)]
    /\ primary \in Seq(Item)
    /\ pc \in [Instance -> {"pull", "gate", "read", "list", "evaluate", "push",
                            "disable", "ack", "halted", "down"}]
    /\ work \in [Instance -> Item \cup {NoWork}]
    /\ outcome \in [Event -> Settled \cup {"unseen", "pending"}]
    /\ trace \in [Event -> Seq(Nat)]
    /\ \A i \in Instance : pc[i] = "halted" => Adapter = "redis"

\* A task that still decides about what it has pulled.
Decisions == {"gate", "read", "list", "evaluate", "push", "disable"}
Deciding(i) == pc[i] \in Decisions

\* The work of an event may be alive in the channel of an instance, in the shared
\* list (which is nobody's), or in the hands of a task.
Queued(s, e) == \E k \in DOMAIN s : s[k].event = e
Kind == {"channel", "primary", "task"}
Owner == Instance \cup {Nobody}
Alive(e, kind, i) ==
    \/ kind = "channel" /\ i \in Instance /\ Queued(channel[i], e)
    \/ kind = "primary" /\ i = Nobody /\ Queued(primary, e)
    \/ kind = "task" /\ i \in Instance /\ Deciding(i) /\ work[i].event = e

Once(s) == \A k, m \in DOMAIN s : s[k].event = s[m].event => k = m

\* The work of an event is alive in one place at most, ...
OnePlace ==
    \A e \in Event : \A k1, k2 \in Kind : \A i1, i2 \in Owner :
        Alive(e, k1, i1) /\ Alive(e, k2, i2) => k1 = k2 /\ i1 = i2
OnceEach ==
    /\ \A i \in Instance : Once(channel[i])
    /\ Once(primary)

\* ... only while the event is pending, ...
OnlyPending ==
    \A e \in Event :
        /\ outcome[e] # "pending" => \A k \in Kind, i \in Owner : ~Alive(e, k, i)
        /\ outcome[e] = "unseen" => trace[e] = <<>>

\* ... and is for the node after those that were evaluated.
IsNext(x) == x.index = Len(trace[x.event])
AllNext(s) == \A k \in DOMAIN s : IsNext(s[k])
TaskOnNext(i) ==
    /\ Deciding(i) => work[i] \in Item
    /\ pc[i] \in {"gate", "read", "list", "evaluate"} => IsNext(work[i])
    /\ pc[i] = "push" => work[i].index + 1 = Len(trace[work[i].event])
NextNode ==
    /\ \A i \in Instance : AllNext(channel[i]) /\ TaskOnNext(i)
    /\ AllNext(primary)

EvalInv ==
    /\ EvalTypeOK
    /\ OnePlace
    /\ OnceEach
    /\ OnlyPending
    /\ NextNode
    /\ NodesRunInOrder

------------------------------------------------------------------------------
(* Queues.                                                                  *)

LEMMA Elements ==
    ASSUME NEW s \in Seq(Item), NEW k \in DOMAIN s
    PROVE  s[k] \in Item /\ s[k].event \in Event /\ s[k].index \in Nat
  <1>1. s[k] \in Item
    OBVIOUS
  <1> QED BY <1>1 DEF Item

LEMMA Appended ==
    ASSUME NEW s \in Seq(Item), NEW x \in Item
    PROVE  /\ Append(s, x) \in Seq(Item)
           /\ \A e : Queued(Append(s, x), e) <=> Queued(s, e) \/ x.event = e
           /\ Once(s) /\ ~Queued(s, x.event) => Once(Append(s, x))
  <1>1. /\ Append(s, x) \in Seq(Item) /\ Len(s) \in Nat
        /\ DOMAIN s = 1..Len(s) /\ DOMAIN Append(s, x) = 1..(Len(s) + 1)
        /\ \A k \in 1..Len(s) : Append(s, x)[k] = s[k]
        /\ Append(s, x)[Len(s) + 1] = x
    OBVIOUS
  <1>2. \A k \in DOMAIN Append(s, x) : k \in DOMAIN s \/ k = Len(s) + 1
    BY <1>1
  <1>3. Len(s) + 1 \in DOMAIN Append(s, x) /\ DOMAIN s \subseteq DOMAIN Append(s, x)
    BY <1>1
  <1> QED BY <1>1, <1>2, <1>3 DEF Queued, Once

LEMMA Taken ==
    ASSUME NEW s \in Seq(Item), s # <<>>
    PROVE  /\ Tail(s) \in Seq(Item) /\ Head(s) \in Item
           /\ \A e : Queued(Tail(s), e) => Queued(s, e)
           /\ Queued(s, Head(s).event)
           /\ Once(s) => Once(Tail(s)) /\ ~Queued(Tail(s), Head(s).event)
           /\ \A k \in DOMAIN Tail(s) : \E m \in DOMAIN s : Tail(s)[k] = s[m]
           /\ 1 \in DOMAIN s /\ Head(s) = s[1]
  <1>1. /\ Tail(s) \in Seq(Item) /\ Len(s) \in Nat /\ Len(s) >= 1
        /\ DOMAIN s = 1..Len(s) /\ DOMAIN Tail(s) = 1..(Len(s) - 1)
        /\ \A k \in 1..(Len(s) - 1) : Tail(s)[k] = s[k + 1]
        /\ Head(s) = s[1] /\ s[1] \in Item
    OBVIOUS
  <1>2. \A k \in DOMAIN Tail(s) :
           k \in Int /\ k + 1 \in DOMAIN s /\ Tail(s)[k] = s[k + 1] /\ k + 1 # 1
    BY <1>1
  <1>3. 1 \in DOMAIN s
    BY <1>1
  <1>4. Once(s) => Once(Tail(s))
    <2> SUFFICES ASSUME Once(s), NEW k \in DOMAIN Tail(s), NEW m \in DOMAIN Tail(s),
                        Tail(s)[k].event = Tail(s)[m].event
                 PROVE  k = m
      BY DEF Once
    <2>1. k + 1 = m + 1
      BY <1>2 DEF Once
    <2> QED BY <1>2, <2>1
  <1>5. Once(s) => ~Queued(Tail(s), Head(s).event)
    BY <1>1, <1>2, <1>3 DEF Once, Queued
  <1>6. \A e : Queued(Tail(s), e) => Queued(s, e)
    BY <1>2 DEF Queued
  <1>7. Queued(s, Head(s).event)
    BY <1>1, <1>3 DEF Queued
  <1>8. \A k \in DOMAIN Tail(s) : \E m \in DOMAIN s : Tail(s)[k] = s[m]
    BY <1>2
  <1> QED BY <1>1, <1>3, <1>4, <1>5, <1>6, <1>7, <1>8

------------------------------------------------------------------------------
(* Steps.                                                                   *)

\* After a step the work of event e0 is alive at that one place, if anywhere, and
\* the work of another only where it was.
Moved(e0, k0, i0) ==
    \A e \in Event : \A k \in Kind, i \in Owner : Alive(e, k, i)' =>
        \/ e = e0 /\ k = k0 /\ i = i0
        \/ e # e0 /\ Alive(e, k, i)
Nowhere == "nowhere"

\* What OnePlace and OnlyPending say of it.
LEMMA Moves ==
    ASSUME EvalInv, NEW e0 \in Event, NEW k0, NEW i0, Moved(e0, k0, i0),
           k0 = Nowhere \/ outcome'[e0] = "pending",
           outcome'[e0] # "unseen",
           \A e \in Event \ {e0} : outcome'[e] = outcome[e] /\ trace'[e] = trace[e]
    PROVE  OnePlace' /\ OnlyPending'
  <1>1. OnePlace'
    <2> SUFFICES ASSUME NEW e \in Event, NEW k1 \in Kind, NEW k2 \in Kind,
                        NEW i1 \in Owner, NEW i2 \in Owner,
                        Alive(e, k1, i1)', Alive(e, k2, i2)'
                 PROVE  k1 = k2 /\ i1 = i2
      BY DEF OnePlace
    <2>1. CASE e = e0
      BY <2>1 DEF Moved
    <2>2. CASE e # e0
      BY <2>2 DEF Moved, EvalInv, OnePlace
    <2> QED BY <2>1, <2>2
  <1>2. OnlyPending'
    <2> SUFFICES ASSUME NEW e \in Event
                 PROVE  /\ outcome'[e] # "pending" =>
                              \A k \in Kind, i \in Owner : ~Alive(e, k, i)'
                        /\ outcome'[e] = "unseen" => trace'[e] = <<>>
      BY DEF OnlyPending
    <2>1. CASE e = e0
      <3>1. \A k \in Kind : k # Nowhere
        BY DEF Kind, Nowhere
      <3> QED BY <2>1, <3>1 DEF Moved
    <2>2. CASE e # e0
      BY <2>2 DEF Moved, EvalInv, OnlyPending
    <2> QED BY <2>1, <2>2
  <1> QED BY <1>1, <1>2

\* A step that at most ends the life of some work.
LEMMA Stays ==
    ASSUME EvalInv, trace' = trace,
           \A e \in Event : \A k \in Kind, i \in Owner :
              Alive(e, k, i)' => Alive(e, k, i) /\ outcome'[e] = outcome[e],
           \A e \in Event : outcome'[e] = "unseen" => outcome[e] = "unseen"
    PROVE  OnePlace' /\ OnlyPending'
  <1>1. OnePlace'
    BY DEF OnePlace, EvalInv
  <1>2. OnlyPending'
    BY DEF OnlyPending, EvalInv
  <1> QED BY <1>1, <1>2

\* The invariant, spelled out for the proofs of the steps.
LEMMA Types ==
    ASSUME EvalInv
    PROVE  /\ channel \in [Instance -> Seq(Item)] /\ primary \in Seq(Item)
           /\ DOMAIN pc = Instance /\ work \in [Instance -> Item \cup {NoWork}]
           /\ outcome \in [Event -> Settled \cup {"unseen", "pending"}]
           /\ trace \in [Event -> Seq(Nat)]
           /\ OnePlace /\ OnceEach /\ OnlyPending /\ NextNode /\ NodesRunInOrder
           /\ Nobody \notin Instance /\ Instance \subseteq Owner /\ Nobody \in Owner
  BY EvaluationAssumption DEF EvalInv, EvalTypeOK, Owner

LEMMA EvalInitial == Init => EvalInv
  <1> SUFFICES ASSUME Init PROVE EvalInv
    OBVIOUS
  <1>1. EvalTypeOK
    BY DEF Init, EvalTypeOK
  <1>2. \A s : s = <<>> => DOMAIN s = {}
    OBVIOUS
  <1>3. \A i \in Instance : DOMAIN channel[i] = {} /\ ~Deciding(i) /\ pc[i] = "pull"
    BY <1>2 DEF Init, Deciding, Decisions
  <1>4. DOMAIN primary = {}
    BY <1>2 DEF Init
  <1>5. \A e \in Event, k \in Kind, i \in Owner : ~Alive(e, k, i)
    BY <1>3, <1>4 DEF Alive, Queued
  <1>6. OnePlace /\ OnceEach /\ OnlyPending
    BY <1>3, <1>4, <1>5 DEF OnePlace, OnceEach, Once, OnlyPending, Init
  <1>7. NextNode
    BY <1>3, <1>4 DEF NextNode, AllNext, TaskOnNext, Deciding
  <1>8. NodesRunInOrder
    BY DEF Init, NodesRunInOrder
  <1> QED BY <1>1, <1>6, <1>7, <1>8 DEF EvalInv

\* The invariant for a queue that got or lost an item, or stayed, when the trace of
\* none of its events has changed.
LEMMA QueueAppended ==
    ASSUME EvalInv, trace' = trace, NEW s \in Seq(Item), NEW x \in Item,
           Once(s), AllNext(s), ~Queued(s, x.event), x.index = Len(trace[x.event])
    PROVE  LET t == Append(s, x)
           IN  t \in Seq(Item) /\ Once(t) /\ \A k \in DOMAIN t : t[k].index = Len(trace'[t[k].event])
  <1>1. /\ Append(s, x) \in Seq(Item) /\ Once(Append(s, x))
    BY Appended
  <1>2. /\ \A k \in DOMAIN Append(s, x) :
              Append(s, x)[k] = x \/ (k \in DOMAIN s /\ Append(s, x)[k] = s[k])
    OBVIOUS
  <1> QED BY <1>1, <1>2 DEF AllNext, IsNext

LEMMA QueueTaken ==
    ASSUME EvalInv, trace' = trace, NEW s \in Seq(Item), s # <<>>, Once(s), AllNext(s)
    PROVE  LET t == Tail(s)
           IN  t \in Seq(Item) /\ Once(t) /\ \A k \in DOMAIN t : t[k].index = Len(trace'[t[k].event])
  BY Taken DEF AllNext, IsNext

------------------------------------------------------------------------------
(* The actions.                                                             *)

LEMMA SubmitStep ==
    ASSUME EvalInv, NEW i \in Instance, NEW e \in Event, Submit(i, e)
    PROVE  EvalInv'
  <1>1. /\ UNCHANGED <<primary, pc, work, trace>> /\ outcome[e] = "unseen"
        /\ \A k \in Kind, j \in Owner : ~Alive(e, k, j)
        /\ trace[e] = <<>>
    BY Types DEF Submit, OnlyPending
  <1>2. ASSUME NEW what \in Settled \cup {"pending"}, Becomes(e, what)
        PROVE  /\ outcome' \in [Event -> Settled \cup {"unseen", "pending"}]
               /\ outcome'[e] = what /\ what # "unseen"
               /\ \A f \in Event \ {e} : outcome'[f] = outcome[f]
    BY <1>2, Types DEF Becomes, Settled
  <1>3. CASE UNCHANGED channel /\ Becomes(e, "full")
    <2>1. Moved(e, Nowhere, Nobody)
      BY <1>1, <1>3 DEF Moved, Alive, Queued, Deciding
    <2>2. "full" \in Settled \cup {"pending"}
      BY DEF Settled
    <2>3. OnePlace' /\ OnlyPending'
      BY <1>1, <1>2, <1>3, <2>1, <2>2, Moves
    <2> QED BY <1>1, <1>2, <1>3, <2>2, <2>3
            DEF EvalInv, EvalTypeOK, OnceEach, NextNode, AllNext, IsNext, TaskOnNext,
                Deciding, Decisions, NodesRunInOrder
  <1>4. CASE /\ channel' = [channel EXCEPT ![i] = Append(@, [event |-> e, index |-> 0])]
             /\ Becomes(e, "pending")
    <2> DEFINE x == [event |-> e, index |-> 0]
    <2>1. /\ x \in Item /\ x.event = e /\ x.index = Len(trace[e])
          /\ channel[i] \in Seq(Item) /\ Once(channel[i]) /\ AllNext(channel[i])
      BY <1>1, Types DEF Item, OnceEach, NextNode
    <2>2. ~Queued(channel[i], e)
      BY <1>1, Types DEF Alive, Kind
    <2>3. /\ channel'[i] = Append(channel[i], x)
          /\ \A j \in Instance \ {i} : channel'[j] = channel[j]
      BY <1>4, Types
    <2> HIDE DEF x
    <2>4. /\ channel' \in [Instance -> Seq(Item)]
          /\ \A j \in Instance : Once(channel'[j]) /\ AllNext(channel[j])'
      <3>1. channel'[i] \in Seq(Item) /\ Once(channel'[i]) /\ AllNext(channel[i])'
        <4>1. ~Queued(channel[i], x.event) /\ x.index = Len(trace[x.event])
          BY <2>1, <2>2
        <4>2. /\ channel'[i] \in Seq(Item) /\ Once(channel'[i])
              /\ \A k \in DOMAIN channel'[i] :
                    channel'[i][k].index = Len(trace'[channel'[i][k].event])
          BY <1>1, <2>1, <2>3, <4>1, QueueAppended
        <4> QED BY <4>2 DEF AllNext, IsNext
      <3>2. \A j \in Instance \ {i} : Once(channel'[j]) /\ AllNext(channel[j])'
        BY <1>1, <2>3, Types DEF OnceEach, NextNode, AllNext, IsNext
      <3> QED BY <1>4, <3>1, <3>2, Types DEF x
    <2>5. Moved(e, "channel", i)
      <3>1. \A f : Queued(channel'[i], f) <=> Queued(channel[i], f) \/ f = e
        BY <2>1, <2>3, Appended
      <3>2. \A j \in Instance : Deciding(j)' = Deciding(j)
        BY <1>1 DEF Deciding
      <3>3. ASSUME NEW f \in Event, NEW k \in Kind, NEW j \in Owner, Alive(f, k, j)'
            PROVE  (f = e /\ k = "channel" /\ j = i) \/ Alive(f, k, j)
        <4>1. CASE k = "channel"
          BY <2>3, <3>1, <3>3, <4>1 DEF Alive
        <4>2. CASE k # "channel"
          BY <1>1, <3>2, <3>3, <4>2 DEF Alive
        <4> QED BY <4>1, <4>2
      <3> QED BY <1>1, <3>3 DEF Moved
    <2>6. OnePlace' /\ OnlyPending'
      BY <1>1, <1>2, <1>4, <2>5, Moves
    <2> QED BY <1>1, <1>2, <1>4, <2>4, <2>6, Types
            DEF EvalInv, EvalTypeOK, OnceEach, NextNode, AllNext, IsNext, TaskOnNext,
                Deciding, Decisions, NodesRunInOrder
  <1> QED BY <1>3, <1>4 DEF Submit

\* A task that goes on with the work it has, or is done with it.
LEMMA TaskStep ==
    ASSUME EvalInv, NEW i \in Instance, Deciding(i), NEW w \in Decisions \cup {"ack"},
           Goto(i, w, work[i]), UNCHANGED <<channel, primary>>,
           trace' \in [Event -> Seq(Nat)],
           outcome' \in [Event -> Settled \cup {"unseen", "pending"}],
           \A e \in Event \ {work[i].event} :
              outcome'[e] = outcome[e] /\ trace'[e] = trace[e],
           w \in Decisions => outcome'[work[i].event] = "pending",
           outcome'[work[i].event] # "unseen",
           TaskOnNext(i)', NodesRunInOrder'
    PROVE  EvalInv'
  <1> DEFINE e0 == work[i].event
             k0 == IF w \in Decisions THEN "task" ELSE Nowhere
  <1>1. /\ work[i] \in Item /\ e0 \in Event
        /\ Alive(e0, "task", i)
    BY Types DEF NextNode, TaskOnNext, Item, Alive
  <1>2. /\ pc'[i] = w /\ work'[i] = work[i]
        /\ \A j \in Instance \ {i} : pc'[j] = pc[j] /\ work'[j] = work[j]
        /\ Deciding(i)' <=> w \in Decisions
        /\ \A j \in Instance \ {i} : Deciding(j)' <=> Deciding(j)
    BY Types DEF Goto, Deciding
  <1>3. \A k \in Kind, j \in Owner : Alive(e0, k, j) => k = "task" /\ j = i
    BY <1>1, Types DEF OnePlace, Kind
  <1>4. Moved(e0, k0, i)
    <2> SUFFICES ASSUME NEW e \in Event, NEW k \in Kind, NEW j \in Owner, Alive(e, k, j)'
                 PROVE  (e = e0 /\ k = k0 /\ j = i) \/ (e # e0 /\ Alive(e, k, j))
      BY DEF Moved
    <2>1. CASE k # "task"
      <3>1. Alive(e, k, j)
        BY <2>1 DEF Alive
      <3> QED BY <1>3, <2>1, <3>1
    <2>2. CASE k = "task" /\ j = i
      BY <1>2, <2>2 DEF Alive
    <2>3. CASE k = "task" /\ j # i
      <3>1. Alive(e, k, j)
        BY <1>2, <2>3 DEF Alive
      <3> QED BY <1>3, <2>3, <3>1
    <2> QED BY <2>1, <2>2, <2>3
  <1>5. OnePlace' /\ OnlyPending'
    <2>1. k0 = Nowhere \/ outcome'[e0] = "pending"
      OBVIOUS
    <2> HIDE DEF k0
    <2> QED BY <1>1, <1>4, <2>1, Moves
  <1>6. OnceEach'
    BY Types DEF OnceEach
  <1>7. NextNode'
    <2>1. ASSUME NEW j \in Instance
          PROVE  AllNext(channel[j])'
      <3> SUFFICES ASSUME NEW k \in DOMAIN channel[j]
                   PROVE  channel[j][k].index = Len(trace'[channel[j][k].event])
        BY DEF AllNext, IsNext
      <3>1. channel[j][k] \in Item /\ channel[j][k].event \in Event
        BY Types, Elements
      <3>2. Alive(channel[j][k].event, "channel", j)
        BY DEF Alive, Queued
      <3>3. channel[j][k].event # e0
        BY <1>3, <3>2, Types DEF Kind
      <3> QED BY <3>1, <3>3, Types DEF NextNode, AllNext, IsNext
    <2>2. AllNext(primary)'
      <3> SUFFICES ASSUME NEW k \in DOMAIN primary
                   PROVE  primary[k].index = Len(trace'[primary[k].event])
        BY DEF AllNext, IsNext
      <3>1. primary[k] \in Item /\ primary[k].event \in Event
        BY Types, Elements
      <3>2. Alive(primary[k].event, "primary", Nobody)
        BY DEF Alive, Queued
      <3>3. primary[k].event # e0
        BY <1>3, <3>2, Types DEF Kind
      <3> QED BY <3>1, <3>3, Types DEF NextNode, AllNext, IsNext
    <2>3. ASSUME NEW j \in Instance \ {i}
          PROVE  TaskOnNext(j)'
      <3>1. CASE Deciding(j)
        <4>1. work[j] \in Item /\ work[j].event \in Event
          BY <3>1, Types DEF NextNode, TaskOnNext, Item
        <4>2. work[j].event # e0
          BY <1>3, <3>1, Types DEF Alive, Kind
        <4>3. trace'[work[j].event] = trace[work[j].event]
          BY <4>1, <4>2
        <4> QED BY <1>2, <3>1, <4>1, <4>3, Types DEF NextNode, TaskOnNext, IsNext
      <3>2. CASE ~Deciding(j)
        BY <1>2, <3>2 DEF TaskOnNext, Deciding, Decisions
      <3> QED BY <3>1, <3>2
    <2> QED BY <2>1, <2>2, <2>3 DEF NextNode
  <1>8. EvalTypeOK'
    <2>1. /\ w \in {"pull", "gate", "read", "list", "evaluate", "push",
                     "disable", "ack", "halted", "down"}
          /\ w # "halted"
      BY DEF Decisions
    <2> QED BY <1>1, <1>2, <2>1, Types DEF EvalInv, EvalTypeOK, Goto
  <1> QED BY <1>5, <1>6, <1>7, <1>8 DEF EvalInv

\* A decision about the event the task has, without an evaluation.
LEMMA DecisionStep ==
    ASSUME EvalInv, NEW i \in Instance, Deciding(i), UNCHANGED <<channel, primary, trace>>,
           \/ \E what \in Settled : Settle(i, what)
           \/ \E w \in {"read", "list", "evaluate", "disable"} :
                 /\ Goto(i, w, work[i]) /\ UNCHANGED outcome
                 /\ w # "disable" => pc[i] \in {"gate", "read", "list", "evaluate"}
    PROVE  EvalInv'
  <1>1. /\ work[i] \in Item /\ work[i].event \in Event
        /\ outcome[work[i].event] = "pending"
    <2>1. work[i] \in Item /\ work[i].event \in Event
      BY Types DEF NextNode, TaskOnNext, Item
    <2>2. Alive(work[i].event, "task", i)
      BY DEF Alive
    <2> QED BY <2>1, <2>2, Types DEF OnlyPending, Kind
  <1>2. NodesRunInOrder'
    BY Types DEF NodesRunInOrder
  <1>3. CASE \E what \in Settled : Settle(i, what)
    <2> PICK what \in Settled : Settle(i, what)
      BY <1>3
    <2>1. /\ outcome' \in [Event -> Settled \cup {"unseen", "pending"}]
          /\ outcome'[work[i].event] = what
          /\ \A f \in Event \ {work[i].event} : outcome'[f] = outcome[f]
      BY <1>1, Types DEF Settle, Becomes
    <2>2. what # "unseen"
      BY DEF Settled
    <2>3. Goto(i, "ack", work[i])
      BY DEF Settle
    <2>4. TaskOnNext(i)'
      BY <2>3, Types DEF TaskOnNext, Deciding, Decisions, Goto
    <2>5. "ack" \notin Decisions
      BY DEF Decisions
    <2> QED BY <1>2, <2>1, <2>2, <2>3, <2>4, <2>5, TaskStep, Types
  <1>4. CASE \E w \in {"read", "list", "evaluate", "disable"} :
                 /\ Goto(i, w, work[i]) /\ UNCHANGED outcome
                 /\ w # "disable" => pc[i] \in {"gate", "read", "list", "evaluate"}
    <2> PICK w \in {"read", "list", "evaluate", "disable"} :
                 /\ Goto(i, w, work[i]) /\ UNCHANGED outcome
                 /\ w # "disable" => pc[i] \in {"gate", "read", "list", "evaluate"}
      BY <1>4
    <2>1. w \in Decisions
      BY DEF Decisions
    <2>2. pc'[i] = w /\ work'[i] = work[i]
      BY Types DEF Goto
    <2>3. TaskOnNext(i)'
      BY <1>1, <2>2, Types DEF TaskOnNext, NextNode, IsNext
    <2> QED BY <1>1, <1>2, <2>1, <2>3, TaskStep, Types
  <1> QED BY <1>3, <1>4

LEMMA CheckLeaderStep ==
    ASSUME EvalInv, NEW i \in Instance, CheckLeader(i)
    PROVE  EvalInv'
  <1>1. Deciding(i) /\ "not_leader" \in Settled
    BY DEF CheckLeader, Deciding, Decisions, Settled
  <1> QED BY <1>1, DecisionStep DEF CheckLeader, queueVars

LEMMA ReadBlueprintStep ==
    ASSUME EvalInv, NEW i \in Instance, ReadBlueprint(i)
    PROVE  EvalInv'
  <1>1. Deciding(i) /\ "skipped" \in Settled
    BY DEF ReadBlueprint, Deciding, Decisions, Settled
  <1> QED BY <1>1, DecisionStep DEF ReadBlueprint, queueVars

LEMMA ListNodesStep ==
    ASSUME EvalInv, NEW i \in Instance, ListNodes(i)
    PROVE  EvalInv'
  <1>1. Deciding(i) /\ "skipped" \in Settled
    BY DEF ListNodes, Deciding, Decisions, Settled
  <1> QED BY <1>1, DecisionStep DEF ListNodes, queueVars

LEMMA DisableStep ==
    ASSUME EvalInv, NEW i \in Instance, Disable(i)
    PROVE  EvalInv'
  <1>1. Deciding(i) /\ "failed" \in Settled
    BY DEF Disable, Deciding, Decisions, Settled
  <1> QED BY <1>1, DecisionStep DEF Disable, queueVars

LEMMA EvaluateStep ==
    ASSUME EvalInv, NEW i \in Instance, Evaluate(i)
    PROVE  EvalInv'
  <1> DEFINE e0 == work[i].event
  <1>1. /\ Deciding(i) /\ pc[i] = "evaluate"
        /\ UNCHANGED <<channel, primary>>
        /\ trace' = [trace EXCEPT ![e0] = Append(@, work[i].index)]
    BY DEF Evaluate, queueVars, Deciding, Decisions
  <1>2. /\ work[i] \in Item /\ e0 \in Event /\ work[i].index \in Nat
        /\ work[i].index = Len(trace[e0])
        /\ trace[e0] \in Seq(Nat)
        /\ trace[e0] = [k \in DOMAIN trace[e0] |-> k - 1]
    BY <1>1, Types DEF NextNode, TaskOnNext, Item, IsNext, NodesRunInOrder
  <1>3. outcome[e0] = "pending"
    <2>1. Alive(e0, "task", i)
      BY <1>1 DEF Alive
    <2> QED BY <1>2, <2>1, Types DEF OnlyPending, Kind
  <1>4. /\ trace' \in [Event -> Seq(Nat)]
        /\ trace'[e0] = Append(trace[e0], work[i].index)
        /\ \A e \in Event \ {e0} : trace'[e] = trace[e]
    <2>1. Append(trace[e0], work[i].index) \in Seq(Nat)
      BY <1>2
    <2> QED BY <1>1, <1>2, <2>1, Types
  <1>5. NodesRunInOrder'
    <2>1. /\ DOMAIN trace[e0] = 1..Len(trace[e0]) /\ Len(trace[e0]) \in Nat
          /\ \A k \in 1..Len(trace[e0]) : trace[e0][k] = k - 1
      BY <1>2
    <2>2. /\ DOMAIN trace'[e0] = 1..(Len(trace[e0]) + 1)
          /\ \A k \in 1..Len(trace[e0]) : trace'[e0][k] = trace[e0][k]
          /\ trace'[e0][Len(trace[e0]) + 1] = Len(trace[e0])
      BY <1>2, <1>4
    <2>3. ASSUME NEW k \in DOMAIN trace'[e0]
          PROVE  trace'[e0][k] = k - 1
      <3>1. k \in 1..Len(trace[e0]) \/ k = Len(trace[e0]) + 1
        BY <2>1, <2>2
      <3>2. Len(trace[e0]) = (Len(trace[e0]) + 1) - 1
        BY <2>1
      <3> QED BY <2>1, <2>2, <3>1, <3>2
    <2>4. trace'[e0] = [k \in DOMAIN trace'[e0] |-> k - 1]
      <3>1. PICK t \in Seq(Nat) : t = trace'[e0]
        BY <1>2, <1>4
      <3>2. \A k \in DOMAIN t : t[k] = k - 1
        BY <2>3, <3>1
      <3>3. t = [k \in DOMAIN t |-> t[k]]
        OBVIOUS
      <3>4. t = [k \in DOMAIN t |-> k - 1]
        BY <3>2, <3>3
      <3> QED BY <3>1, <3>4
    <2> QED BY <1>4, <2>4, Types DEF NodesRunInOrder
  <1>6. Len(trace'[e0]) = work[i].index + 1
    BY <1>2, <1>4
  <1>7. ASSUME NEW w \in {"push", "disable"}, Goto(i, w, work[i]), UNCHANGED outcome
        PROVE  EvalInv'
    <2>1. w \in Decisions
      BY DEF Decisions
    <2>2. pc'[i] = w /\ work'[i] = work[i]
      BY <1>7, Types DEF Goto
    <2>3. TaskOnNext(i)'
      BY <1>2, <1>6, <2>2 DEF TaskOnNext
    <2> QED BY <1>1, <1>2, <1>3, <1>4, <1>5, <1>7, <2>1, <2>3, TaskStep, Types
  <1>8. ASSUME NEW what \in Settled, Settle(i, what)
        PROVE  EvalInv'
    <2>1. /\ outcome' \in [Event -> Settled \cup {"unseen", "pending"}]
          /\ outcome'[e0] = what
          /\ \A f \in Event \ {e0} : outcome'[f] = outcome[f]
      BY <1>2, <1>8, Types DEF Settle, Becomes
    <2>2. what # "unseen" /\ "ack" \notin Decisions
      BY DEF Settled, Decisions
    <2>3. Goto(i, "ack", work[i])
      BY <1>8 DEF Settle
    <2>4. TaskOnNext(i)'
      BY <2>3, Types DEF TaskOnNext, Deciding, Decisions, Goto
    <2> QED BY <1>1, <1>2, <1>4, <1>5, <2>1, <2>2, <2>3, <2>4, TaskStep, Types
  <1> QED
    <2>1. "completed" \in Settled /\ "stopped" \in Settled
      BY DEF Settled
    <2> QED BY <1>7, <1>8, <2>1 DEF Evaluate

\* Work that is alive at a place is alive nowhere else, and its event is pending.
LEMMA AliveThere ==
    ASSUME EvalInv, NEW e0 \in Event, NEW k0 \in Kind, NEW i0 \in Owner, Alive(e0, k0, i0)
    PROVE  /\ outcome[e0] = "pending"
           /\ \A k \in Kind, j \in Owner : Alive(e0, k, j) => k = k0 /\ j = i0
  BY Types DEF OnePlace, OnlyPending

\* The head of a channel, of the shared list.
LEMMA ChannelHead ==
    ASSUME EvalInv, NEW i \in Instance, channel[i] # <<>>
    PROVE  /\ Head(channel[i]) \in Item /\ Head(channel[i]).event \in Event
           /\ IsNext(Head(channel[i]))
           /\ outcome[Head(channel[i]).event] = "pending"
           /\ Alive(Head(channel[i]).event, "channel", i)
           /\ \A k \in Kind, j \in Owner :
                 Alive(Head(channel[i]).event, k, j) => k = "channel" /\ j = i
  <1>1. channel[i] \in Seq(Item) /\ AllNext(channel[i]) /\ i \in Owner /\ "channel" \in Kind
    BY Types DEF NextNode, Kind
  <1>2. /\ Head(channel[i]) \in Item /\ Queued(channel[i], Head(channel[i]).event)
        /\ 1 \in DOMAIN channel[i] /\ Head(channel[i]) = channel[i][1]
    BY <1>1, Taken
  <1>3. Head(channel[i]).event \in Event
    BY <1>2 DEF Item
  <1>4. Alive(Head(channel[i]).event, "channel", i)
    BY <1>2 DEF Alive
  <1>5. IsNext(Head(channel[i]))
    BY <1>1, <1>2 DEF AllNext
  <1> QED BY <1>1, <1>2, <1>3, <1>4, <1>5, AliveThere

LEMMA PrimaryHead ==
    ASSUME EvalInv, primary # <<>>
    PROVE  /\ Head(primary) \in Item /\ Head(primary).event \in Event
           /\ IsNext(Head(primary))
           /\ outcome[Head(primary).event] = "pending"
           /\ \A k \in Kind, j \in Owner :
                 Alive(Head(primary).event, k, j) => k = "primary" /\ j = Nobody
  <1>1. primary \in Seq(Item) /\ AllNext(primary) /\ Nobody \in Owner /\ "primary" \in Kind
    BY Types DEF NextNode, Kind
  <1>2. /\ Head(primary) \in Item /\ Queued(primary, Head(primary).event)
        /\ 1 \in DOMAIN primary /\ Head(primary) = primary[1]
    BY <1>1, Taken
  <1>3. Head(primary).event \in Event
    BY <1>2 DEF Item
  <1>4. Alive(Head(primary).event, "primary", Nobody)
    BY <1>2 DEF Alive
  <1>5. IsNext(Head(primary))
    BY <1>1, <1>2 DEF AllNext
  <1> QED BY <1>1, <1>2, <1>3, <1>4, <1>5, AliveThere

LEMMA ChannelTaken ==
    ASSUME EvalInv, trace' = trace, NEW i \in Instance, channel[i] # <<>>,
           channel' = [channel EXCEPT ![i] = Tail(@)]
    PROVE  /\ channel' \in [Instance -> Seq(Item)]
           /\ \A j \in Instance : Once(channel'[j]) /\ AllNext(channel[j])'
           /\ \A j \in Instance, e \in Event : Queued(channel'[j], e) =>
                 Queued(channel[j], e) /\ (j = i => e # Head(channel[i]).event)
  <1>1. /\ channel[i] \in Seq(Item) /\ Once(channel[i]) /\ AllNext(channel[i])
        /\ channel'[i] = Tail(channel[i])
        /\ \A j \in Instance \ {i} : channel'[j] = channel[j]
    BY Types DEF OnceEach, NextNode
  <1>2. /\ channel'[i] \in Seq(Item) /\ Once(channel'[i])
        /\ \A k \in DOMAIN channel'[i] :
              channel'[i][k].index = Len(trace'[channel'[i][k].event])
    <2> DEFINE t == Tail(channel[i])
    <2>1. t \in Seq(Item) /\ Once(t) /\ \A k \in DOMAIN t : t[k].index = Len(trace'[t[k].event])
      BY <1>1, QueueTaken
    <2>2. channel'[i] = t
      BY <1>1
    <2> HIDE DEF t
    <2> QED BY <2>1, <2>2
  <1>3. \A e \in Event : Queued(channel'[i], e) =>
           Queued(channel[i], e) /\ e # Head(channel[i]).event
    BY <1>1, Taken
  <1>4. channel' \in [Instance -> Seq(Item)]
    BY <1>1, <1>2, Types
  <1>5. \A j \in Instance \ {i} : Once(channel'[j]) /\ AllNext(channel[j])'
    BY <1>1, Types DEF OnceEach, NextNode, AllNext, IsNext
  <1>6. AllNext(channel[i])'
    BY <1>2 DEF AllNext, IsNext
  <1> QED BY <1>1, <1>2, <1>3, <1>4, <1>5, <1>6

LEMMA PrimaryTaken ==
    ASSUME EvalInv, trace' = trace, primary # <<>>, primary' = Tail(primary)
    PROVE  /\ primary' \in Seq(Item) /\ Once(primary') /\ AllNext(primary)'
           /\ \A e \in Event : Queued(primary', e) =>
                 Queued(primary, e) /\ e # Head(primary).event
  <1>1. primary \in Seq(Item) /\ Once(primary) /\ AllNext(primary)
    BY Types DEF OnceEach, NextNode
  <1>2. /\ primary' \in Seq(Item) /\ Once(primary')
        /\ \A k \in DOMAIN primary' : primary'[k].index = Len(trace'[primary'[k].event])
    BY <1>1, QueueTaken
  <1>3. \A e \in Event : Queued(primary', e) => Queued(primary, e) /\ e # Head(primary).event
    BY <1>1, Taken
  <1> QED BY <1>2, <1>3 DEF AllNext, IsNext

LEMMA PrimaryAppended ==
    ASSUME EvalInv, trace' = trace, NEW x \in Item, ~Queued(primary, x.event), IsNext(x),
           primary' = Append(primary, x)
    PROVE  /\ primary' \in Seq(Item) /\ Once(primary') /\ AllNext(primary)'
           /\ \A e \in Event : Queued(primary', e) => Queued(primary, e) \/ e = x.event
  <1>1. primary \in Seq(Item) /\ Once(primary) /\ AllNext(primary)
    BY Types DEF OnceEach, NextNode
  <1>2. /\ primary' \in Seq(Item) /\ Once(primary')
        /\ \A k \in DOMAIN primary' : primary'[k].index = Len(trace'[primary'[k].event])
    BY <1>1, QueueAppended DEF IsNext
  <1>3. \A e \in Event : Queued(primary', e) => Queued(primary, e) \/ e = x.event
    BY <1>1, Appended
  <1> QED BY <1>2, <1>3 DEF AllNext, IsNext

\* A task that is left alone.
LEMMA TaskAlone ==
    ASSUME EvalInv, trace' = trace, NEW j \in Instance, pc'[j] = pc[j], work'[j] = work[j]
    PROVE  TaskOnNext(j)' /\ (Deciding(j)' <=> Deciding(j))
  BY Types DEF NextNode, TaskOnNext, Deciding, Decisions, IsNext

\* A task that has no work to decide about.
LEMMA TaskIdle ==
    ASSUME EvalInv, NEW j \in Instance, NEW w \in {"pull", "ack", "halted", "down"}, NEW x,
           Goto(j, w, x)
    PROVE  TaskOnNext(j)' /\ ~Deciding(j)'
  <1>1. pc'[j] = w
    BY Types DEF Goto
  <1> QED BY <1>1 DEF TaskOnNext, Deciding, Decisions

LEMMA PullFromChannelStep ==
    ASSUME EvalInv, NEW i \in Instance, PullFromChannel(i)
    PROVE  EvalInv'
  <1> DEFINE x == Head(channel[i])
             e0 == x.event
  <1>1. /\ UNCHANGED <<primary, outcome, trace>> /\ channel[i] # <<>>
        /\ channel' = [channel EXCEPT ![i] = Tail(@)]
        /\ Begin(i, x)
        /\ ~Deciding(i)
    BY DEF PullFromChannel, Deciding, Decisions
  <1>2. /\ x \in Item /\ e0 \in Event /\ IsNext(x) /\ outcome[e0] = "pending"
        /\ \A k \in Kind, j \in Owner : Alive(e0, k, j) => k = "channel" /\ j = i
    BY <1>1, ChannelHead
  <1>3. /\ channel' \in [Instance -> Seq(Item)]
        /\ \A j \in Instance : Once(channel'[j]) /\ AllNext(channel[j])'
        /\ \A j \in Instance, e \in Event : Queued(channel'[j], e) =>
              Queued(channel[j], e) /\ (j = i => e # e0)
    BY <1>1, ChannelTaken
  <1> HIDE DEF x
  <1>4. PICK w \in {"gate", "read"} : Goto(i, w, x)
    BY <1>1 DEF Begin
  <1>5. /\ pc'[i] = w /\ work'[i] = x
        /\ \A j \in Instance \ {i} : pc'[j] = pc[j] /\ work'[j] = work[j]
    BY <1>4, Types DEF Goto
  <1>6. Moved(e0, "task", i)
    <2> SUFFICES ASSUME NEW e \in Event, NEW k \in Kind, NEW j \in Owner, Alive(e, k, j)'
                 PROVE  (e = e0 /\ k = "task" /\ j = i) \/ (e # e0 /\ Alive(e, k, j))
      BY DEF Moved
    <2>1. CASE k = "channel"
      <3>1. Alive(e, k, j) /\ (j = i => e # e0)
        BY <1>3, <2>1 DEF Alive
      <3> QED BY <1>2, <3>1
    <2>2. CASE k = "primary"
      <3>1. Alive(e, k, j)
        BY <1>1, <2>2 DEF Alive
      <3> QED BY <1>2, <2>2, <3>1
    <2>3. CASE k = "task" /\ j = i
      BY <1>5, <2>3 DEF Alive
    <2>4. CASE k = "task" /\ j # i
      <3>1. j \in Instance \ {i}
        BY <2>4 DEF Alive
      <3>2. Alive(e, k, j)
        BY <1>1, <1>5, <2>4, <3>1, TaskAlone DEF Alive
      <3> QED BY <1>2, <2>4, <3>2
    <2> QED BY <2>1, <2>2, <2>3, <2>4 DEF Kind
  <1>7. OnePlace' /\ OnlyPending'
    BY <1>1, <1>2, <1>6, Moves
  <1>8. NextNode'
    <2>1. TaskOnNext(i)'
      BY <1>1, <1>2, <1>5 DEF TaskOnNext, IsNext
    <2>2. \A j \in Instance \ {i} : TaskOnNext(j)'
      BY <1>1, <1>5, TaskAlone
    <2>3. AllNext(primary)'
      BY <1>1, Types DEF NextNode, AllNext, IsNext
    <2> QED BY <1>3, <2>1, <2>2, <2>3 DEF NextNode
  <1>9. EvalTypeOK'
    BY <1>1, <1>2, <1>3, <1>4, <1>5, Types DEF EvalInv, EvalTypeOK, Goto
  <1> QED BY <1>1, <1>3, <1>7, <1>8, <1>9, Types DEF EvalInv, OnceEach, NodesRunInOrder

LEMMA PullFromRedisStep ==
    ASSUME EvalInv, NEW i \in Instance, PullFromRedis(i)
    PROVE  EvalInv'
  <1> DEFINE x == Head(primary)
             e0 == x.event
  <1>1. /\ UNCHANGED <<channel, outcome, trace>> /\ primary # <<>>
        /\ primary' = Tail(primary)
        /\ Begin(i, x)
        /\ ~Deciding(i)
    BY DEF PullFromRedis, Deciding, Decisions
  <1>2. /\ x \in Item /\ e0 \in Event /\ IsNext(x) /\ outcome[e0] = "pending"
        /\ \A k \in Kind, j \in Owner : Alive(e0, k, j) => k = "primary" /\ j = Nobody
    BY <1>1, PrimaryHead
  <1>3. /\ primary' \in Seq(Item) /\ Once(primary') /\ AllNext(primary)'
        /\ \A e \in Event : Queued(primary', e) => Queued(primary, e) /\ e # e0
    BY <1>1, PrimaryTaken
  <1> HIDE DEF x
  <1>4. PICK w \in {"gate", "read"} : Goto(i, w, x)
    BY <1>1 DEF Begin
  <1>5. /\ pc'[i] = w /\ work'[i] = x
        /\ \A j \in Instance \ {i} : pc'[j] = pc[j] /\ work'[j] = work[j]
    BY <1>4, Types DEF Goto
  <1>6. Moved(e0, "task", i)
    <2> SUFFICES ASSUME NEW e \in Event, NEW k \in Kind, NEW j \in Owner, Alive(e, k, j)'
                 PROVE  (e = e0 /\ k = "task" /\ j = i) \/ (e # e0 /\ Alive(e, k, j))
      BY DEF Moved
    <2>1. CASE k = "channel"
      <3>1. Alive(e, k, j)
        BY <1>1, <2>1 DEF Alive
      <3> QED BY <1>2, <2>1, <3>1
    <2>2. CASE k = "primary"
      <3>1. Alive(e, k, j) /\ e # e0
        BY <1>3, <2>2 DEF Alive
      <3> QED BY <3>1
    <2>3. CASE k = "task" /\ j = i
      BY <1>5, <2>3 DEF Alive
    <2>4. CASE k = "task" /\ j # i
      <3>1. j \in Instance \ {i}
        BY <2>4 DEF Alive
      <3>2. Alive(e, k, j)
        BY <1>1, <1>5, <2>4, <3>1, TaskAlone DEF Alive
      <3> QED BY <1>2, <2>4, <3>2
    <2> QED BY <2>1, <2>2, <2>3, <2>4 DEF Kind
  <1>7. OnePlace' /\ OnlyPending'
    BY <1>1, <1>2, <1>6, Moves
  <1>8. NextNode'
    <2>1. TaskOnNext(i)'
      BY <1>1, <1>2, <1>5 DEF TaskOnNext, IsNext
    <2>2. \A j \in Instance \ {i} : TaskOnNext(j)'
      BY <1>1, <1>5, TaskAlone
    <2>3. \A j \in Instance : AllNext(channel[j])'
      BY <1>1, Types DEF NextNode, AllNext, IsNext
    <2> QED BY <1>3, <2>1, <2>2, <2>3 DEF NextNode
  <1>9. EvalTypeOK'
    BY <1>1, <1>2, <1>3, <1>4, <1>5, Types DEF EvalInv, EvalTypeOK, Goto
  <1> QED BY <1>1, <1>3, <1>7, <1>8, <1>9, Types DEF EvalInv, OnceEach, NodesRunInOrder

LEMMA ForwardStep ==
    ASSUME EvalInv, NEW i \in Instance, Forward(i)
    PROVE  EvalInv'
  <1> DEFINE x == Head(channel[i])
             e0 == x.event
  <1>1. /\ UNCHANGED <<pc, work, trace>> /\ channel[i] # <<>>
        /\ channel' = [channel EXCEPT ![i] = Tail(@)]
        /\ \/ primary' = Append(primary, x) /\ UNCHANGED outcome
           \/ Becomes(e0, "push_failed") /\ UNCHANGED primary
    BY DEF Forward
  <1>2. /\ x \in Item /\ e0 \in Event /\ IsNext(x) /\ outcome[e0] = "pending"
        /\ \A k \in Kind, j \in Owner : Alive(e0, k, j) => k = "channel" /\ j = i
    BY <1>1, ChannelHead
  <1>3. /\ channel' \in [Instance -> Seq(Item)]
        /\ \A j \in Instance : Once(channel'[j]) /\ AllNext(channel[j])'
        /\ \A j \in Instance, e \in Event : Queued(channel'[j], e) =>
              Queued(channel[j], e) /\ (j = i => e # e0)
    BY <1>1, ChannelTaken
  <1> HIDE DEF x
  <1>4. \A j \in Instance : TaskOnNext(j)' /\ (Deciding(j)' <=> Deciding(j))
    BY <1>1, TaskAlone
  \* What is alive after the step, other than in the shared list.
  <1>5. ASSUME NEW e \in Event, NEW k \in Kind \ {"primary"}, NEW j \in Owner,
               Alive(e, k, j)'
        PROVE  e # e0 /\ Alive(e, k, j)
    <2>1. CASE k = "channel"
      <3>1. Alive(e, k, j) /\ (j = i => e # e0)
        BY <1>3, <1>5, <2>1 DEF Alive
      <3> QED BY <1>2, <3>1
    <2>2. CASE k = "task"
      <3>1. Alive(e, k, j)
        BY <1>1, <1>4, <1>5, <2>2 DEF Alive
      <3> QED BY <1>2, <2>2, <3>1
    <2> QED BY <2>1, <2>2 DEF Kind
  <1>6. CASE primary' = Append(primary, x) /\ UNCHANGED outcome
    <2>1. ~Queued(primary, e0)
      BY <1>2, Types DEF Alive, Kind
    <2>2. /\ primary' \in Seq(Item) /\ Once(primary') /\ AllNext(primary)'
          /\ \A e \in Event : Queued(primary', e) => Queued(primary, e) \/ e = e0
      BY <1>1, <1>2, <1>6, <2>1, PrimaryAppended
    <2>3. Moved(e0, "primary", Nobody)
      <3> SUFFICES ASSUME NEW e \in Event, NEW k \in Kind, NEW j \in Owner, Alive(e, k, j)'
                   PROVE  (e = e0 /\ k = "primary" /\ j = Nobody)
                            \/ (e # e0 /\ Alive(e, k, j))
        BY DEF Moved
      <3>1. CASE k = "primary"
        BY <2>2, <3>1 DEF Alive
      <3>2. CASE k # "primary"
        BY <1>5, <3>2
      <3> QED BY <3>1, <3>2
    <2>4. OnePlace' /\ OnlyPending'
      BY <1>1, <1>2, <1>6, <2>3, Moves
    <2> QED BY <1>1, <1>3, <1>4, <1>6, <2>2, <2>4, Types
            DEF EvalInv, EvalTypeOK, OnceEach, NextNode, NodesRunInOrder
  <1>7. CASE Becomes(e0, "push_failed") /\ UNCHANGED primary
    <2>1. /\ outcome' \in [Event -> Settled \cup {"unseen", "pending"}]
          /\ outcome'[e0] = "push_failed"
          /\ \A f \in Event \ {e0} : outcome'[f] = outcome[f]
      BY <1>2, <1>7, Types DEF Becomes, Settled
    <2>2. Moved(e0, Nowhere, Nobody)
      <3> SUFFICES ASSUME NEW e \in Event, NEW k \in Kind, NEW j \in Owner, Alive(e, k, j)'
                   PROVE  e # e0 /\ Alive(e, k, j)
        BY DEF Moved
      <3>1. CASE k = "primary"
        <4>1. Alive(e, k, j)
          BY <1>7, <3>1 DEF Alive
        <4> QED BY <1>2, <3>1, <4>1
      <3>2. CASE k # "primary"
        BY <1>5, <3>2
      <3> QED BY <3>1, <3>2
    <2>3. OnePlace' /\ OnlyPending'
      BY <1>1, <1>2, <2>1, <2>2, Moves
    <2>4. AllNext(primary)'
      BY <1>1, <1>7, Types DEF NextNode, AllNext, IsNext
    <2> QED BY <1>1, <1>3, <1>4, <1>7, <2>1, <2>3, <2>4, Types
            DEF EvalInv, EvalTypeOK, OnceEach, NextNode, NodesRunInOrder
  <1> QED BY <1>1, <1>6, <1>7

LEMMA ChannelAppended ==
    ASSUME EvalInv, trace' = trace, NEW i \in Instance, NEW x \in Item,
           ~Queued(channel[i], x.event), IsNext(x),
           channel' = [channel EXCEPT ![i] = Append(@, x)]
    PROVE  /\ channel' \in [Instance -> Seq(Item)]
           /\ \A j \in Instance : Once(channel'[j]) /\ AllNext(channel[j])'
           /\ \A j \in Instance, e \in Event : Queued(channel'[j], e) =>
                 Queued(channel[j], e) \/ (j = i /\ e = x.event)
  <1>1. /\ channel[i] \in Seq(Item) /\ Once(channel[i]) /\ AllNext(channel[i])
        /\ \A j \in Instance \ {i} : channel'[j] = channel[j]
    BY Types DEF OnceEach, NextNode
  <1> DEFINE t == Append(channel[i], x)
  <1>2. channel'[i] = t
    BY Types
  <1>3. t \in Seq(Item) /\ Once(t) /\ \A k \in DOMAIN t : t[k].index = Len(trace'[t[k].event])
    BY <1>1, QueueAppended DEF IsNext
  <1>4. \A e \in Event : Queued(t, e) => Queued(channel[i], e) \/ e = x.event
    BY <1>1, Appended
  <1> HIDE DEF t
  <1>5. channel' \in [Instance -> Seq(Item)]
    BY <1>1, <1>2, <1>3, Types
  <1>6. \A j \in Instance \ {i} : Once(channel'[j]) /\ AllNext(channel[j])'
    BY <1>1, Types DEF OnceEach, NextNode, AllNext, IsNext
  <1>7. Once(channel'[i]) /\ AllNext(channel[i])'
    BY <1>2, <1>3 DEF AllNext, IsNext
  <1> QED BY <1>1, <1>2, <1>4, <1>5, <1>6, <1>7

LEMMA PushNextStep ==
    ASSUME EvalInv, NEW i \in Instance, PushNext(i)
    PROVE  EvalInv'
  <1> DEFINE x == NextWork(i)
             e0 == work[i].event
  <1>1. /\ pc[i] = "push" /\ Deciding(i) /\ UNCHANGED trace
        /\ "full" \in Settled /\ "push_failed" \in Settled
    BY DEF PushNext, Deciding, Decisions, Settled
  <1>2. /\ work[i] \in Item /\ e0 \in Event
        /\ work[i].index + 1 = Len(trace[e0])
        /\ Alive(e0, "task", i)
    BY <1>1, Types DEF NextNode, TaskOnNext, Item, Alive
  <1>3. x \in Item /\ x.event = e0 /\ IsNext(x)
    BY <1>2 DEF NextWork, Item, IsNext
  <1>4. /\ outcome[e0] = "pending"
        /\ \A k \in Kind, j \in Owner : Alive(e0, k, j) => k = "task" /\ j = i
    BY <1>2, AliveThere, Types DEF Kind
  <1> HIDE DEF x
  <1>5. /\ Goto(i, "ack", work[i]) =>
              /\ TaskOnNext(i)' /\ ~Deciding(i)'
              /\ \A j \in Instance \ {i} : TaskOnNext(j)' /\ (Deciding(j)' <=> Deciding(j))
              /\ \A j \in Instance \ {i} : work'[j] = work[j]
    <2> SUFFICES ASSUME Goto(i, "ack", work[i])
                 PROVE  /\ TaskOnNext(i)' /\ ~Deciding(i)'
                        /\ \A j \in Instance \ {i} :
                              /\ TaskOnNext(j)' /\ (Deciding(j)' <=> Deciding(j))
                              /\ work'[j] = work[j]
      OBVIOUS
    <2>1. \A j \in Instance \ {i} : pc'[j] = pc[j] /\ work'[j] = work[j]
      BY Types DEF Goto
    <2> QED BY <1>1, <2>1, TaskAlone, TaskIdle
  <1>6. CASE /\ channel' = [channel EXCEPT ![i] = Append(@, x)]
             /\ Goto(i, "ack", work[i]) /\ UNCHANGED <<primary, outcome>>
    <2>1. ~Queued(channel[i], e0)
      BY <1>4, Types DEF Alive, Kind
    <2>2. /\ channel' \in [Instance -> Seq(Item)]
          /\ \A j \in Instance : Once(channel'[j]) /\ AllNext(channel[j])'
          /\ \A j \in Instance, e \in Event : Queued(channel'[j], e) =>
                Queued(channel[j], e) \/ (j = i /\ e = e0)
      BY <1>1, <1>3, <1>6, <2>1, ChannelAppended
    <2>3. Moved(e0, "channel", i)
      <3> SUFFICES ASSUME NEW e \in Event, NEW k \in Kind, NEW j \in Owner, Alive(e, k, j)'
                   PROVE  (e = e0 /\ k = "channel" /\ j = i) \/ (e # e0 /\ Alive(e, k, j))
        BY DEF Moved
      <3>1. CASE k = "channel"
        <4>1. (j = i /\ e = e0) \/ Alive(e, k, j)
          BY <2>2, <3>1 DEF Alive
        <4> QED BY <1>4, <3>1, <4>1
      <3>2. CASE k = "primary"
        <4>1. Alive(e, k, j)
          BY <1>6, <3>2 DEF Alive
        <4> QED BY <1>4, <3>2, <4>1
      <3>3. CASE k = "task"
        <4>1. j \in Instance \ {i} /\ Alive(e, k, j)
          BY <1>5, <1>6, <3>3 DEF Alive
        <4> QED BY <1>4, <4>1
      <3> QED BY <3>1, <3>2, <3>3 DEF Kind
    <2>4. OnePlace' /\ OnlyPending'
      BY <1>1, <1>2, <1>4, <1>6, <2>3, Moves
    <2>5. AllNext(primary)'
      BY <1>1, <1>6, Types DEF NextNode, AllNext, IsNext
    <2>6. EvalTypeOK'
      BY <1>1, <1>2, <1>6, <2>2, Types DEF EvalInv, EvalTypeOK, Goto
    <2> QED BY <1>1, <1>5, <1>6, <2>2, <2>4, <2>5, <2>6, Types
            DEF EvalInv, OnceEach, NextNode, NodesRunInOrder
  <1>7. CASE /\ primary' = Append(primary, x)
             /\ Goto(i, "ack", work[i]) /\ UNCHANGED <<channel, outcome>>
    <2>1. ~Queued(primary, e0)
      BY <1>4, Types DEF Alive, Kind
    <2>2. /\ primary' \in Seq(Item) /\ Once(primary') /\ AllNext(primary)'
          /\ \A e \in Event : Queued(primary', e) => Queued(primary, e) \/ e = e0
      BY <1>1, <1>3, <1>7, <2>1, PrimaryAppended
    <2>3. Moved(e0, "primary", Nobody)
      <3> SUFFICES ASSUME NEW e \in Event, NEW k \in Kind, NEW j \in Owner, Alive(e, k, j)'
                   PROVE  (e = e0 /\ k = "primary" /\ j = Nobody)
                            \/ (e # e0 /\ Alive(e, k, j))
        BY DEF Moved
      <3>1. CASE k = "channel"
        <4>1. Alive(e, k, j)
          BY <1>7, <3>1 DEF Alive
        <4> QED BY <1>4, <3>1, <4>1
      <3>2. CASE k = "primary"
        <4>1. j = Nobody /\ (e = e0 \/ Alive(e, k, j))
          BY <2>2, <3>2 DEF Alive
        <4> QED BY <1>4, <3>2, <4>1
      <3>3. CASE k = "task"
        <4>1. j \in Instance \ {i} /\ Alive(e, k, j)
          BY <1>5, <1>7, <3>3 DEF Alive
        <4> QED BY <1>4, <4>1
      <3> QED BY <3>1, <3>2, <3>3 DEF Kind
    <2>4. OnePlace' /\ OnlyPending'
      BY <1>1, <1>2, <1>4, <1>7, <2>3, Moves
    <2>5. \A j \in Instance : AllNext(channel[j])'
      BY <1>1, <1>7, Types DEF NextNode, AllNext, IsNext
    <2>6. EvalTypeOK'
      BY <1>1, <1>2, <1>7, <2>2, Types DEF EvalInv, EvalTypeOK, Goto
    <2> QED BY <1>1, <1>5, <1>7, <2>2, <2>4, <2>5, <2>6, Types
            DEF EvalInv, OnceEach, NextNode, NodesRunInOrder
  <1>8. CASE /\ Settle(i, "full") \/ Settle(i, "push_failed")
             /\ UNCHANGED <<channel, primary>>
    BY <1>1, <1>8, DecisionStep
  <1> QED BY <1>6, <1>7, <1>8 DEF PushNext, x

LEMMA CrashStep ==
    ASSUME EvalInv, NEW i \in Instance, Crash(i)
    PROVE  EvalInv'
  <1> DEFINE dead == {x.event : x \in Range(channel[i])} \cup
                     {e \in {work[i].event} :
                         Adapter = "mpsc" /\ pc[i] \notin {"pull", "ack"}}
  <1>1. /\ outcome' = [e \in Event |-> IF e \in dead THEN "died" ELSE outcome[e]]
        /\ channel' = [channel EXCEPT ![i] = <<>>]
        /\ Goto(i, "down", NoWork) /\ pc[i] # "down"
        /\ UNCHANGED <<primary, trace>>
    BY DEF Crash
  <1>2. \A e \in Event \cap dead :
           Alive(e, "channel", i) \/ Alive(e, "task", i)
    <2> SUFFICES ASSUME NEW e \in Event \cap dead
                 PROVE  Alive(e, "channel", i) \/ Alive(e, "task", i)
      OBVIOUS
    <2>1. CASE e \in {x.event : x \in Range(channel[i])}
      BY <2>1 DEF Range, Alive, Queued
    <2>2. CASE e = work[i].event /\ Adapter = "mpsc" /\ pc[i] \notin {"pull", "ack"}
      <3>1. pc[i] # "halted"
        BY <2>2 DEF EvalInv, EvalTypeOK
      <3>2. Deciding(i)
        BY <1>1, <2>2, <3>1 DEF Deciding, Decisions, EvalInv, EvalTypeOK
      <3> QED BY <2>2, <3>2 DEF Alive
    <2> QED BY <2>1, <2>2
  <1> HIDE DEF dead
  <1>3. /\ channel' \in [Instance -> Seq(Item)] /\ channel'[i] = <<>>
        /\ \A j \in Instance \ {i} : channel'[j] = channel[j]
        /\ \A j \in Instance \ {i} : pc'[j] = pc[j] /\ work'[j] = work[j]
    BY <1>1, Types DEF Goto
  <1>4. DOMAIN channel'[i] = {}
    BY <1>3
  <1>5. TaskOnNext(i)' /\ ~Deciding(i)'
    BY <1>1, TaskIdle
  <1>6. \A j \in Instance \ {i} : TaskOnNext(j)' /\ (Deciding(j)' <=> Deciding(j))
    BY <1>1, <1>3, TaskAlone
  <1>7. ASSUME NEW e \in Event, NEW k \in Kind, NEW j \in Owner, Alive(e, k, j)'
        PROVE  Alive(e, k, j) /\ outcome'[e] = outcome[e]
    <2>1. Alive(e, k, j) /\ (k \in {"channel", "task"} => j # i)
      BY <1>1, <1>3, <1>4, <1>5, <1>6, <1>7 DEF Alive, Queued, Kind
    <2>2. e \notin dead
      BY <1>2, <2>1, Types DEF OnePlace, Kind
    <2> QED BY <1>1, <2>1, <2>2
  <1>8. OnePlace' /\ OnlyPending'
    BY <1>1, <1>7, Stays
  <1>9. /\ OnceEach'
        /\ NextNode'
    <2>1. Once(channel'[i]) /\ AllNext(channel[i])'
      BY <1>4 DEF Once, AllNext
    <2>2. \A j \in Instance \ {i} : Once(channel'[j]) /\ AllNext(channel[j])'
      BY <1>1, <1>3, Types DEF OnceEach, NextNode, AllNext, IsNext
    <2>3. Once(primary') /\ AllNext(primary)'
      BY <1>1, Types DEF OnceEach, NextNode, AllNext, IsNext
    <2> QED BY <1>5, <1>6, <2>1, <2>2, <2>3 DEF OnceEach, NextNode
  <1>10. outcome' \in [Event -> Settled \cup {"unseen", "pending"}]
    BY <1>1, Types DEF Settled
  <1>11. EvalTypeOK'
    BY <1>1, <1>3, <1>10, Types DEF EvalInv, EvalTypeOK, Goto
  <1> QED BY <1>1, <1>8, <1>9, <1>11, Types DEF EvalInv, NodesRunInOrder

\* A step that leaves the queues alone and no task with work to decide about that
\* had none.
LEMMA IdleStep ==
    ASSUME EvalInv, UNCHANGED <<channel, primary, outcome, trace>>,
           NEW i \in Instance, ~Deciding(i), NEW w \in {"pull", "halted"},
           Goto(i, w, NoWork), w = "halted" => Adapter = "redis"
    PROVE  EvalInv'
  <1>1. \A j \in Instance \ {i} : pc'[j] = pc[j] /\ work'[j] = work[j]
    BY Types DEF Goto
  <1>2. TaskOnNext(i)' /\ ~Deciding(i)'
    BY TaskIdle
  <1>3. \A j \in Instance \ {i} : TaskOnNext(j)' /\ (Deciding(j)' <=> Deciding(j))
    BY <1>1, TaskAlone
  <1>4. ASSUME NEW e \in Event, NEW k \in Kind, NEW j \in Owner, Alive(e, k, j)'
        PROVE  Alive(e, k, j)
    BY <1>1, <1>2, <1>3, <1>4 DEF Alive
  <1>5. OnePlace' /\ OnlyPending'
    BY <1>4, Stays
  <1>6. OnceEach' /\ NextNode'
    BY <1>2, <1>3, Types DEF OnceEach, NextNode, AllNext, IsNext
  <1>7. EvalTypeOK'
    BY Types DEF EvalInv, EvalTypeOK, Goto
  <1> QED BY <1>5, <1>6, <1>7, Types DEF EvalInv, NodesRunInOrder

\* A step that changes nothing the invariant speaks of.
LEMMA UnchangedStep ==
    ASSUME EvalInv, UNCHANGED <<channel, primary, pc, work, outcome, trace>>
    PROVE  EvalInv'
  <1>1. \A e \in Event, k \in Kind, j \in Owner : Alive(e, k, j)' = Alive(e, k, j)
    BY DEF Alive, Deciding
  <1>2. OnePlace' /\ OnlyPending'
    BY <1>1, Stays
  <1> QED BY <1>2, Types
          DEF EvalInv, EvalTypeOK, OnceEach, NextNode, AllNext, TaskOnNext, IsNext,
              Deciding, NodesRunInOrder

LEMMA OtherSteps ==
    ASSUME EvalInv, NEW i \in Instance,
           PullNone(i) \/ Acknowledge(i) \/ Elect(i) \/ Restart(i)
    PROVE  EvalInv'
  <1>1. CASE PullNone(i)
    BY <1>1, IdleStep DEF PullNone, queueVars, Deciding, Decisions
  <1>2. CASE Acknowledge(i)
    BY <1>2, IdleStep DEF Acknowledge, Deciding, Decisions
  <1>3. CASE Elect(i)
    BY <1>3, UnchangedStep DEF Elect, queueVars
  <1>4. CASE Restart(i)
    BY <1>4, IdleStep DEF Restart, queueVars, Deciding, Decisions
  <1> QED BY <1>1, <1>2, <1>3, <1>4

------------------------------------------------------------------------------
(* The theorems.                                                            *)

LEMMA EvalNext ==
    ASSUME EvalInv, [Next]_vars
    PROVE  EvalInv'
  <1>1. CASE UNCHANGED vars
    BY <1>1, UnchangedStep DEF vars
  <1>2. ASSUME NEW i \in Instance, Task(i)
        PROVE  EvalInv'
    BY <1>2, PullFromChannelStep, PullFromRedisStep, CheckLeaderStep, ReadBlueprintStep,
       ListNodesStep, EvaluateStep, PushNextStep, DisableStep, OtherSteps
    DEF Task
  <1>3. ASSUME NEW i \in Instance,
               \/ \E e \in Event : Submit(i, e)
               \/ Forward(i) \/ Elect(i) \/ Crash(i) \/ Restart(i)
        PROVE  EvalInv'
    BY <1>3, SubmitStep, ForwardStep, CrashStep, OtherSteps
  <1> QED BY <1>1, <1>2, <1>3 DEF Next

\* The work of an event is in one place at most, while it is pending, and for the
\* node that comes next: pushing before acknowledging, with the item parked, never
\* makes two of it.
THEOREM EvaluationCorrect == Spec => []EvalInv
  <1> QED BY EvalInitial, EvalNext, PTL DEF Spec

\* The nodes of a blueprint are evaluated for an event in order, none twice, with
\* either queue, however the instances crash, fail, lead and share the queue.
THEOREM EvaluatedInOrder == Spec => []NodesRunInOrder
  <1>1. EvalInv => NodesRunInOrder
    BY DEF EvalInv
  <1> QED BY <1>1, EvaluationCorrect, PTL

\* The work of a settled event is alive nowhere.
LEMMA SettledIsDead ==
    ASSUME EvalInv, NEW e \in Event, outcome[e] \in Settled
    PROVE  /\ \A i \in Instance : Deciding(i) => work[i].event # e
           /\ \A i \in Instance : ~Queued(channel[i], e)
  <1>1. \A k \in Kind, j \in Owner : ~Alive(e, k, j)
    BY Types DEF OnlyPending, Settled
  <1> QED BY <1>1, Types DEF Alive, Kind

\* What was decided about an event is final: no instance evaluates or settles it
\* again.
THEOREM DecisionsAreFinal == Spec => SettledIsFinal
  <1>1. ASSUME EvalInv, [Next]_vars, NEW e \in Event, outcome[e] \in Settled
        PROVE  outcome'[e] = outcome[e] /\ trace'[e] = trace[e]
    <2> USE <1>1
    <2>1. ASSUME NEW f \in Event, f # e, NEW what, Becomes(f, what)
          PROVE  outcome'[e] = outcome[e]
      BY <2>1, Types DEF Becomes
    <2>2. ASSUME NEW i \in Instance, Deciding(i)
          PROVE  work[i].event \in Event /\ work[i].event # e
      BY <2>2, SettledIsDead, Types DEF NextNode, TaskOnNext, Item
    <2>3. ASSUME NEW i \in Instance, NEW what, Deciding(i), Settle(i, what)
          PROVE  outcome'[e] = outcome[e]
      BY <2>1, <2>2, <2>3 DEF Settle
    <2>4. ASSUME NEW i \in Instance, NEW f \in Event, Submit(i, f)
          PROVE  outcome'[e] = outcome[e] /\ trace' = trace
      <3>1. f # e
        BY <2>4 DEF Submit, Settled
      <3> QED BY <2>1, <2>4, <3>1 DEF Submit
    <2>5. ASSUME NEW i \in Instance, Forward(i)
          PROVE  outcome'[e] = outcome[e] /\ trace' = trace
      <3>1. /\ Head(channel[i]).event \in Event
            /\ outcome[Head(channel[i]).event] = "pending"
        BY <2>5, ChannelHead DEF Forward
      <3>2. Head(channel[i]).event # e
        BY <3>1 DEF Settled
      <3> QED BY <2>1, <2>5, <3>1, <3>2 DEF Forward
    <2>6. ASSUME NEW i \in Instance, Evaluate(i)
          PROVE  outcome'[e] = outcome[e] /\ trace'[e] = trace[e]
      <3>1. Deciding(i)
        BY <2>6 DEF Evaluate, Deciding, Decisions
      <3>2. trace'[e] = trace[e]
        BY <2>2, <2>6, <3>1, Types DEF Evaluate
      <3> QED BY <2>3, <2>6, <3>1, <3>2 DEF Evaluate
    <2>7. ASSUME NEW i \in Instance,
                 CheckLeader(i) \/ ReadBlueprint(i) \/ ListNodes(i) \/ Disable(i)
          PROVE  outcome'[e] = outcome[e] /\ trace' = trace
      <3>1. Deciding(i)
        BY <2>7 DEF CheckLeader, ReadBlueprint, ListNodes, Disable, Deciding, Decisions
      <3> QED BY <2>3, <2>7, <3>1 DEF CheckLeader, ReadBlueprint, ListNodes, Disable
    <2>8. ASSUME NEW i \in Instance, PushNext(i)
          PROVE  outcome'[e] = outcome[e] /\ trace' = trace
      <3>1. Deciding(i)
        BY <2>8 DEF PushNext, Deciding, Decisions
      <3> QED BY <2>3, <2>8, <3>1 DEF PushNext
    <2>9. ASSUME NEW i \in Instance, Crash(i)
          PROVE  outcome'[e] = outcome[e] /\ trace' = trace
      <3>1. e \notin {x.event : x \in Range(channel[i])}
        BY SettledIsDead DEF Range, Queued
      <3>2. Adapter = "mpsc" /\ pc[i] \notin {"pull", "ack"} => work[i].event # e
        <4>1. pc[i] # "down"
          BY <2>9 DEF Crash
        <4>2. Adapter = "mpsc" => pc[i] # "halted"
          BY DEF EvalInv, EvalTypeOK
        <4>3. Adapter = "mpsc" /\ pc[i] \notin {"pull", "ack"} => Deciding(i)
          BY <4>1, <4>2 DEF Deciding, Decisions, EvalInv, EvalTypeOK
        <4> QED BY <2>2, <4>3
      <3> QED BY <2>9, <3>1, <3>2 DEF Crash
    <2>10. ASSUME NEW i \in Instance,
                  \/ PullFromChannel(i) \/ PullFromRedis(i) \/ PullNone(i)
                  \/ Acknowledge(i) \/ Elect(i) \/ Restart(i)
           PROVE  outcome' = outcome /\ trace' = trace
      BY <2>10 DEF PullFromChannel, PullFromRedis, PullNone, Acknowledge, Elect, Restart
    <2>11. CASE UNCHANGED vars
      BY <2>11 DEF vars
    <2> QED BY <2>4, <2>5, <2>6, <2>7, <2>8, <2>9, <2>10, <2>11 DEF Next, Task
  <1>2. EvalInv /\ [Next]_vars =>
           [\A e \in Event : outcome[e] \in Settled =>
               outcome'[e] = outcome[e] /\ trace'[e] = trace[e]]_vars
    BY <1>1
  <1> QED BY <1>2, EvaluationCorrect, PTL DEF Spec, SettledIsFinal

------------------------------------------------------------------------------
(* What is pending can be resumed.                                          *)

\* A work item for the next node of its event, or for the one evaluated last.
Resumes(x) == \/ x.index = Len(trace[x.event])
              \/ x.index + 1 = Len(trace[x.event])

\* An instance died with the work of e, and left the item in its worker list.
Left(e, j) ==
    \E x \in parked[j] : x.event = e /\ Resumes(x) /\ ~(pc[j] = "ack" /\ work[j] = x)

Somewhere(e) == \E k \in Kind, i \in Owner : Alive(e, k, i)

ResumeInv ==
    /\ parked \in [Instance -> SUBSET Item]
    /\ \A i \in Instance :
          /\ Deciding(i) /\ Adapter = "redis" => work[i] \in parked[i]
          /\ pc[i] = "disable" => Resumes(work[i])
    /\ \A e \in Event : outcome[e] = "pending" =>
          Somewhere(e) \/ \E j \in Instance : Left(e, j)

\* What an instance does, its clients and the environment included.
Act(i) ==
    \/ \E e \in Event : Submit(i, e)
    \/ Forward(i) \/ Task(i) \/ Elect(i) \/ Crash(i) \/ Restart(i)

\* The work of a task that decides is alive, and can be resumed.
LEMMA TaskWork ==
    ASSUME EvalInv, ResumeInv, NEW i \in Instance, Deciding(i)
    PROVE  /\ work[i] \in Item /\ work[i].event \in Event
           /\ work[i] # NoWork
           /\ Alive(work[i].event, "task", i) /\ Somewhere(work[i].event)
           /\ Resumes(work[i])
           /\ outcome[work[i].event] = "pending"
  <1>1. work[i] \in Item /\ work[i].event \in Event
    BY Types DEF NextNode, TaskOnNext, Item
  <1>2. Alive(work[i].event, "task", i) /\ Somewhere(work[i].event)
    BY Types DEF Alive, Somewhere, Kind
  <1>3. Resumes(work[i])
    BY Types DEF NextNode, TaskOnNext, IsNext, ResumeInv, Resumes, Deciding, Decisions
  <1>4. work[i] # NoWork
    BY <1>1, EvaluationAssumption DEF NoWork
  <1> QED BY <1>1, <1>2, <1>3, <1>4, AliveThere, Types DEF Kind

\* An instance changes nothing that another holds; it forgets a parked item only
\* when it acknowledges it; it extends only the trace of the event it evaluates;
\* and it comes to acknowledge only what it has decided about.
LEMMA OneActs ==
    ASSUME EvalInv, ResumeInv, NEW i \in Instance, Act(i)
    PROVE  /\ parked' \in [Instance -> SUBSET Item]
           /\ \A j \in Instance \ {i} :
                 /\ pc'[j] = pc[j] /\ work'[j] = work[j]
                 /\ parked'[j] = parked[j] /\ channel'[j] = channel[j]
           /\ \A x \in parked[i] : x \in parked'[i] \/ (pc[i] = "ack" /\ work[i] = x)
           /\ \A e \in Event :
                 trace'[e] = trace[e] \/ (pc[i] = "evaluate" /\ work[i].event = e)
           /\ pc'[i] = "ack" => work'[i] = work[i] /\ (Deciding(i) \/ pc[i] = "ack")
  <1> USE Types
  <1>0. parked \in [Instance -> SUBSET Item]
    BY DEF ResumeInv
  <1>1. ASSUME NEW w, NEW x, Goto(i, w, x)
        PROVE  /\ pc'[i] = w /\ work'[i] = x
               /\ \A j \in Instance \ {i} : pc'[j] = pc[j] /\ work'[j] = work[j]
    BY <1>1 DEF Goto
  <1>2. CASE \/ \E e \in Event : Submit(i, e)
             \/ Forward(i) \/ Elect(i)
    BY <1>0, <1>2 DEF Submit, Forward, Elect, queueVars
  <1>3. CASE PullFromChannel(i) \/ PullNone(i) \/ Crash(i) \/ Restart(i)
    BY <1>0, <1>1, <1>3 DEF PullFromChannel, PullNone, Crash, Restart, Begin, queueVars
  <1>4. CASE PullFromRedis(i)
    <2>1. Head(primary) \in Item
      BY <1>4, PrimaryHead DEF PullFromRedis
    <2>2. /\ parked' \in [Instance -> SUBSET Item] /\ parked[i] \subseteq parked'[i]
          /\ \A j \in Instance \ {i} : parked'[j] = parked[j]
      BY <1>0, <1>4, <2>1 DEF PullFromRedis
    <2> QED BY <1>1, <1>4, <2>2 DEF PullFromRedis, Begin
  <1>5. CASE Acknowledge(i)
    <2>1. /\ parked' \in [Instance -> SUBSET Item]
          /\ \A x \in parked[i] : x \in parked'[i] \/ work[i] = x
          /\ \A j \in Instance \ {i} : parked'[j] = parked[j]
      BY <1>0, <1>5 DEF Acknowledge
    <2> QED BY <1>1, <1>5, <2>1 DEF Acknowledge
  <1>6. ASSUME NEW what, Settle(i, what)
        PROVE  Goto(i, "ack", work[i])
    BY <1>6 DEF Settle
  <1>7. CASE CheckLeader(i) \/ ReadBlueprint(i) \/ ListNodes(i) \/ Evaluate(i) \/ Disable(i)
    <2>1. /\ UNCHANGED <<channel, parked>> /\ Deciding(i)
          /\ \E w \in Decisions \cup {"ack"} : Goto(i, w, work[i])
      BY <1>6, <1>7 DEF CheckLeader, ReadBlueprint, ListNodes, Evaluate, Disable,
             queueVars, Deciding, Decisions
    <2>2. \A e \in Event :
             trace'[e] = trace[e] \/ (pc[i] = "evaluate" /\ work[i].event = e)
      BY <1>7 DEF CheckLeader, ReadBlueprint, ListNodes, Evaluate, Disable
    <2> QED BY <1>0, <1>1, <2>1, <2>2
  <1>8. CASE PushNext(i)
    <2>1. /\ UNCHANGED <<parked, trace>> /\ Deciding(i) /\ Goto(i, "ack", work[i])
          /\ \A j \in Instance \ {i} : channel'[j] = channel[j]
      BY <1>6, <1>8 DEF PushNext, Deciding, Decisions
    <2> QED BY <1>0, <1>1, <2>1
  <1> QED BY <1>2, <1>3, <1>4, <1>5, <1>7, <1>8 DEF Act, Task

\* An item that was left when its event was alive nowhere stays: nobody evaluates
\* the event, and nobody acknowledges the item.
LEMMA LeftStays ==
    ASSUME EvalInv, ResumeInv, NEW i \in Instance, Act(i),
           NEW e \in Event, ~Somewhere(e), NEW j \in Instance, Left(e, j)
    PROVE  Left(e, j)'
  <1>1. PICK x \in parked[j] :
           x.event = e /\ Resumes(x) /\ ~(pc[j] = "ack" /\ work[j] = x)
    BY DEF Left
  <1>2. Deciding(i) => work[i].event # e
    BY TaskWork
  <1>3. trace'[e] = trace[e]
    BY <1>2, OneActs DEF Deciding, Decisions
  <1>4. x \in parked'[j] /\ ~(pc'[j] = "ack" /\ work'[j] = x)
    <2>1. CASE j = i
      BY <1>1, <1>2, <2>1, OneActs
    <2>2. CASE j # i
      BY <1>1, <2>2, OneActs
    <2> QED BY <2>1, <2>2
  <1>5. Resumes(x)'
    BY <1>1, <1>3 DEF Resumes
  <1> QED BY <1>1, <1>4, <1>5 DEF Left

\* Where the work of a pending event was, it still is, unless the acting instance
\* had it.
LEMMA OthersKeepWork ==
    ASSUME EvalInv, ResumeInv, NEW i \in Instance, Act(i),
           NEW e \in Event, NEW j \in Instance \ {i}, NEW k \in {"channel", "task"},
           Alive(e, k, j)
    PROVE  Somewhere(e)'
  <1>1. Alive(e, k, j)'
    BY OneActs DEF Alive, Deciding
  <1> QED BY <1>1, Types DEF Somewhere, Kind

\* A queue keeps what it held when it gets more, and all but the head when that
\* is taken.
LEMMA QueueKeeps ==
    ASSUME NEW s \in Seq(Item), NEW e, Queued(s, e)
    PROVE  /\ \A x \in Item : Queued(Append(s, x), e)
           /\ s # <<>> /\ (Queued(Tail(s), e) \/ Head(s).event = e)
  <1>1. \A x \in Item : Queued(Append(s, x), e)
    BY Appended
  <1>2. PICK k \in DOMAIN s : s[k].event = e
    BY DEF Queued
  <1>3. /\ DOMAIN s = 1..Len(s) /\ Len(s) \in Nat /\ s # <<>> /\ Head(s) = s[1]
        /\ DOMAIN Tail(s) = 1..(Len(s) - 1)
        /\ \A m \in 1..(Len(s) - 1) : Tail(s)[m] = s[m + 1]
    BY <1>2
  <1>4. CASE k = 1
    BY <1>1, <1>2, <1>3, <1>4
  <1>5. CASE k # 1
    <2>1. k - 1 \in DOMAIN Tail(s) /\ Tail(s)[k - 1] = s[k]
      BY <1>2, <1>3, <1>5
    <2> QED BY <1>1, <1>2, <1>3, <2>1 DEF Queued
  <1> QED BY <1>4, <1>5

\* A task that goes on keeps its work; one that settles its event need not.
LEMMA TaskKeepsWork ==
    ASSUME EvalInv, ResumeInv, NEW i \in Instance, Deciding(i),
           UNCHANGED <<channel, primary>>,
           \/ \E what \in Settled : Settle(i, what)
           \/ \E w \in Decisions : Goto(i, w, work[i]),
           NEW e \in Event, outcome'[e] = "pending",
           NEW k \in Kind, NEW j \in Owner, Alive(e, k, j), k = "task" => j = i
    PROVE  Somewhere(e)'
  <1>1. CASE k # "task"
    <2>1. Alive(e, k, j)'
      BY <1>1 DEF Alive
    <2> QED BY <2>1 DEF Somewhere
  <1>2. CASE k = "task"
    <2>1. work[i].event = e /\ j = i
      BY <1>2 DEF Alive
    <2>2. ASSUME NEW what \in Settled, Settle(i, what)
          PROVE  FALSE
      <3>1. outcome'[e] = what /\ what # "pending"
        BY <2>1, <2>2, Types DEF Settle, Becomes, Settled
      <3> QED BY <3>1
    <2>3. PICK w \in Decisions : Goto(i, w, work[i])
      BY <2>2
    <2>4. Alive(e, "task", i)'
      BY <2>1, <2>3, Types DEF Alive, Goto, Deciding
    <2> QED BY <2>4, Types DEF Somewhere, Kind
  <1> QED BY <1>1, <1>2

\* A step that moves no work and no task keeps all work where it is.
LEMMA NothingMoves ==
    ASSUME EvalInv, NEW i \in Instance,
           UNCHANGED primary, channel'[i] = channel[i],
           \/ ~Deciding(i)
           \/ pc'[i] = pc[i] /\ work'[i] = work[i],
           NEW e \in Event, NEW k \in Kind, NEW j \in Owner, Alive(e, k, j),
           k # "primary" => j = i
    PROVE  Somewhere(e)'
  <1>1. Alive(e, k, j)'
    BY DEF Alive, Deciding, Kind
  <1> QED BY <1>1 DEF Somewhere

LEMMA NextWorkIsAnItem ==
    ASSUME NEW i \in Instance, work[i] \in Item
    PROVE  NextWork(i) \in Item /\ NextWork(i).event = work[i].event
  BY DEF NextWork, Item

\* What the acting instance had, or the shared list, it keeps, passes on, settles,
\* or leaves behind when it dies.
LEMMA OwnWorkKept ==
    ASSUME EvalInv, ResumeInv, NEW i \in Instance, Act(i),
           NEW e \in Event, outcome'[e] = "pending",
           NEW k \in Kind, NEW j \in Owner, Alive(e, k, j), k # "primary" => j = i
    PROVE  Somewhere(e)' \/ Left(e, i)'
  <1> USE Types
  <1>0. /\ "channel" \in Kind /\ "primary" \in Kind /\ "task" \in Kind
        /\ i \in Owner /\ Nobody \in Owner
        /\ channel[i] \in Seq(Item) /\ primary \in Seq(Item)
        /\ k = "primary" => j = Nobody /\ Queued(primary, e)
        /\ k = "channel" => j = i /\ Queued(channel[i], e)
        /\ k = "task" => j = i /\ Deciding(i) /\ work[i].event = e
    BY DEF Kind, Alive
  <1>a. /\ Alive(e, "channel", i)' => Somewhere(e)'
        /\ Alive(e, "primary", Nobody)' => Somewhere(e)'
        /\ Alive(e, "task", i)' => Somewhere(e)'
    BY <1>0 DEF Somewhere
  <1>1. ASSUME NEW f \in Event, Submit(i, f)
        PROVE  Somewhere(e)'
    <2>1. k = "channel" => Alive(e, "channel", i)'
      <3> DEFINE x == [event |-> f, index |-> 0]
      <3>1. x \in Item
        BY DEF Item
      <3>2. k = "channel" => Queued(Append(channel[i], x), e)
        BY <1>0, <3>1, QueueKeeps
      <3>3. channel'[i] = channel[i] \/ channel'[i] = Append(channel[i], x)
        BY <1>1 DEF Submit
      <3> HIDE DEF x
      <3> QED BY <1>0, <3>2, <3>3 DEF Alive
    <2>2. k # "channel" => Alive(e, k, j)'
      BY <1>1 DEF Submit, Alive, Deciding
    <2> QED BY <1>a, <2>1, <2>2 DEF Somewhere
  <1>2. CASE Forward(i)
    <2>0. /\ UNCHANGED <<pc, work, trace>> /\ channel[i] # <<>>
          /\ channel'[i] = Tail(channel[i])
          /\ \/ primary' = Append(primary, Head(channel[i]))
             \/ /\ Becomes(Head(channel[i]).event, "push_failed")
                /\ UNCHANGED primary
      BY <1>2 DEF Forward
    <2>1. Head(channel[i]) \in Item /\ Head(channel[i]).event \in Event
      BY <2>0, ChannelHead
    <2>2. CASE k = "task"
      <3>1. Alive(e, "task", i)'
        BY <1>0, <2>0, <2>2 DEF Alive, Deciding
      <3> QED BY <1>a, <3>1
    <2>3. CASE k = "primary"
      <3>1. Queued(primary, e) /\ Queued(Append(primary, Head(channel[i])), e)
        BY <1>0, <2>1, <2>3, QueueKeeps
      <3>2. Queued(primary', e)
        BY <2>0, <3>1
      <3> QED BY <1>a, <3>2 DEF Alive
    <2>4. CASE k = "channel"
      <3>1. Queued(channel'[i], e) \/ Head(channel[i]).event = e
        BY <1>0, <2>0, <2>4, QueueKeeps
      <3>2. CASE Queued(channel'[i], e)
        BY <1>a, <3>2 DEF Alive
      <3>3. CASE Head(channel[i]).event = e
        <4>1. primary' = Append(primary, Head(channel[i]))
          BY <2>0, <3>3 DEF Becomes
        <4>2. Queued(primary', e)
          BY <1>0, <2>1, <3>3, <4>1, Appended
        <4> QED BY <1>a, <4>2 DEF Alive
      <3> QED BY <3>1, <3>2, <3>3
    <2> QED BY <2>2, <2>3, <2>4 DEF Kind
  <1>3. CASE PullFromChannel(i)
    <2>0. /\ UNCHANGED primary /\ channel[i] # <<>> /\ ~Deciding(i)
          /\ channel'[i] = Tail(channel[i])
          /\ Deciding(i)' /\ work'[i] = Head(channel[i])
      BY <1>3 DEF PullFromChannel, Begin, Goto, Deciding, Decisions
    <2>1. CASE k = "primary"
      BY <1>0, <1>a, <2>0, <2>1 DEF Alive
    <2>2. CASE k = "channel"
      <3>1. Queued(channel'[i], e) \/ work'[i].event = e
        BY <1>0, <2>0, <2>2, QueueKeeps
      <3> QED BY <1>a, <2>0, <3>1 DEF Alive
    <2> QED BY <1>0, <2>0, <2>1, <2>2 DEF Kind
  <1>4. CASE PullFromRedis(i)
    <2>0. /\ UNCHANGED channel /\ primary # <<>> /\ ~Deciding(i)
          /\ primary' = Tail(primary)
          /\ Deciding(i)' /\ work'[i] = Head(primary)
      BY <1>4 DEF PullFromRedis, Begin, Goto, Deciding, Decisions
    <2>1. CASE k = "channel"
      BY <1>0, <1>a, <2>0, <2>1 DEF Alive
    <2>2. CASE k = "primary"
      <3>1. Queued(primary', e) \/ work'[i].event = e
        BY <1>0, <2>0, <2>2, QueueKeeps
      <3> QED BY <1>a, <2>0, <3>1 DEF Alive
    <2> QED BY <1>0, <2>0, <2>1, <2>2 DEF Kind
  <1>5. CASE PullNone(i) \/ Acknowledge(i) \/ Restart(i) \/ Elect(i)
    <2>1. /\ UNCHANGED <<primary, channel>>
          /\ ~Deciding(i) \/ (pc' = pc /\ work' = work)
      BY <1>5 DEF PullNone, Acknowledge, Restart, Elect, Deciding, Decisions, queueVars
    <2> QED BY <2>1, NothingMoves
  <1>6. CASE CheckLeader(i) \/ ReadBlueprint(i) \/ ListNodes(i) \/ Evaluate(i) \/ Disable(i)
    <2>1. /\ UNCHANGED <<channel, primary>> /\ Deciding(i)
          /\ \/ \E what \in Settled : Settle(i, what)
             \/ \E w \in Decisions : Goto(i, w, work[i])
      BY <1>6 DEF CheckLeader, ReadBlueprint, ListNodes, Evaluate, Disable,
             queueVars, Deciding, Decisions, Settled
    <2> QED BY <1>0, <2>1, TaskKeepsWork
  <1>7. CASE PushNext(i)
    <2> DEFINE x == NextWork(i)
    <2>0. Deciding(i)
      BY <1>7 DEF PushNext, Deciding, Decisions
    <2>1. x \in Item /\ x.event = work[i].event
      BY <2>0, TaskWork, NextWorkIsAnItem
    <2> HIDE DEF x
    <2>2. CASE (Settle(i, "full") \/ Settle(i, "push_failed")) /\ UNCHANGED <<channel, primary>>
      BY <1>0, <2>0, <2>2, TaskKeepsWork DEF Settled
    <2>3. CASE channel'[i] = Append(channel[i], x) /\ UNCHANGED primary
      <3>1. k \in {"channel", "task"} => Queued(channel'[i], e)
        BY <1>0, <2>1, <2>3, QueueKeeps, Appended
      <3>2. k = "primary" => Queued(primary', e)
        BY <1>0, <2>3
      <3> QED BY <1>a, <3>1, <3>2 DEF Alive, Kind
    <2>4. CASE primary' = Append(primary, x) /\ UNCHANGED channel
      <3>1. k \in {"primary", "task"} => Queued(primary', e)
        BY <1>0, <2>1, <2>4, QueueKeeps, Appended
      <3>2. k = "channel" => Queued(channel'[i], e)
        BY <1>0, <2>4
      <3> QED BY <1>a, <3>1, <3>2 DEF Alive, Kind
    <2> QED BY <1>7, <2>2, <2>3, <2>4 DEF PushNext, x
  <1>8. CASE Crash(i)
    <2>0. /\ UNCHANGED <<primary, parked, trace>> /\ pc'[i] = "down"
      BY <1>8 DEF Crash, Goto
    <2>1. CASE k = "primary"
      BY <1>0, <1>a, <2>0, <2>1 DEF Alive
    <2>2. k # "channel"
      <3>1. ASSUME k = "channel"
            PROVE  outcome'[e] = "died"
        <4>1. e \in {x.event : x \in Range(channel[i])}
          BY <1>0, <3>1 DEF Queued, Range
        <4> QED BY <1>8, <4>1 DEF Crash
      <3> QED BY <3>1
    <2>3. CASE k = "task"
      <3>1. Adapter = "redis"
        <4>1. pc[i] \notin {"pull", "ack"}
          BY <1>0, <2>3 DEF Deciding, Decisions
        <4>2. Adapter = "mpsc" => outcome'[e] = "died"
          BY <1>0, <1>8, <2>3, <4>1 DEF Crash
        <4> QED BY <4>2, EvaluationAssumption
      <3>2. PICK x \in Item : x = work[i] /\ x \in parked[i] /\ Resumes(x) /\ x.event = e
        BY <1>0, <2>3, <3>1, TaskWork DEF ResumeInv
      <3>3. Resumes(x)'
        BY <2>0, <3>2 DEF Resumes
      <3> QED BY <2>0, <3>2, <3>3 DEF Left
    <2> QED BY <2>1, <2>2, <2>3 DEF Kind
  <1> QED BY <1>1, <1>2, <1>3, <1>4, <1>5, <1>6, <1>7, <1>8 DEF Act, Task

\* An event that becomes pending is in the channel it was submitted to.
LEMMA SubmittedIsSomewhere ==
    ASSUME EvalInv, NEW i \in Instance, Act(i), NEW e \in Event,
           outcome[e] # "pending", outcome'[e] = "pending"
    PROVE  Somewhere(e)'
  <1>1. ASSUME NEW f, NEW what, Becomes(f, what), what # "pending"
        PROVE  FALSE
    BY <1>1, Types DEF Becomes
  <1>2. PICK f \in Event : Submit(i, f)
    <2>1. ASSUME NEW what \in Settled, Settle(i, what)
          PROVE  FALSE
      BY <1>1, <2>1 DEF Settle, Settled
    <2>2. ASSUME Crash(i)
          PROVE  FALSE
      BY <2>2 DEF Crash
    <2> QED BY <1>1, <2>1, <2>2 DEF Act, Task, Forward, PullFromChannel, PullFromRedis,
            PullNone, CheckLeader, Acknowledge, ReadBlueprint, ListNodes, Evaluate,
            PushNext, Disable, Elect, Restart, Settled
  <1>3. /\ f = e
        /\ channel' = [channel EXCEPT ![i] = Append(@, [event |-> e, index |-> 0])]
    BY <1>1, <1>2, Types DEF Submit, Becomes
  <1>4. Queued(channel'[i], e)
    <2> DEFINE x == [event |-> e, index |-> 0]
    <2>1. x \in Item /\ x.event = e /\ channel[i] \in Seq(Item)
      BY Types DEF Item
    <2>2. Queued(Append(channel[i], x), e)
      BY <2>1, Appended
    <2> QED BY <1>3, <2>2, Types
  <1> QED BY <1>4, Types DEF Alive, Somewhere, Kind

\* The work a task decides about is parked, and a task that is about to disable the
\* blueprint has just evaluated its node, or read the list before that.
LEMMA DecidingStaysParked ==
    ASSUME EvalInv, ResumeInv, NEW i \in Instance, Act(i), Adapter = "redis",
           NEW j \in Instance, Deciding(j)'
    PROVE  work'[j] \in parked'[j]
  <1> USE Types
  <1>0. Deciding(j) => work[j] \in parked[j]
    BY DEF ResumeInv
  <1>1. CASE j # i
    BY <1>0, <1>1, OneActs DEF Deciding
  <1>2. CASE j = i /\ PullFromRedis(i)
    <2>1. parked[i] \in SUBSET Item /\ parked'[i] = parked[i] \cup {Head(primary)}
      BY <1>2 DEF PullFromRedis, ResumeInv
    <2> QED BY <1>2, <2>1 DEF PullFromRedis, Begin, Goto
  <1>3. CASE j = i /\ ~PullFromRedis(i)
    <2>1. /\ Deciding(i) /\ work'[i] = work[i]
          /\ ~(pc[i] = "ack")
      <3>1. ASSUME NEW w, NEW x, Goto(i, w, x)
            PROVE  w \in Decisions /\ work'[i] = x
        BY <1>3, <3>1 DEF Goto, Deciding
      <3>2. "ack" \notin Decisions /\ "pull" \notin Decisions /\ "halted" \notin Decisions
            /\ "down" \notin Decisions
        BY DEF Decisions
      <3>3. ASSUME NEW what, Settle(i, what)
            PROVE  FALSE
        BY <3>1, <3>2, <3>3 DEF Settle
      <3>4. CASE \/ \E e \in Event : Submit(i, e)
                 \/ Forward(i) \/ Elect(i)
        BY <1>3, <3>4 DEF Submit, Forward, Elect, Deciding, Decisions
      <3>5. CASE PullNone(i) \/ Crash(i) \/ Restart(i) \/ Acknowledge(i)
        BY <3>1, <3>2, <3>5 DEF PullNone, Crash, Restart, Acknowledge
      <3>6. CASE CheckLeader(i) \/ ReadBlueprint(i) \/ ListNodes(i) \/ Evaluate(i) \/ Disable(i)
        BY <3>1, <3>3, <3>6 DEF CheckLeader, ReadBlueprint, ListNodes, Evaluate, Disable,
               Deciding, Decisions
      <3>7. CASE PushNext(i)
        BY <3>1, <3>2, <3>3, <3>7 DEF PushNext
      <3>8. ~PullFromChannel(i)
        BY DEF PullFromChannel
      <3> QED BY <1>3, <3>4, <3>5, <3>6, <3>7, <3>8 DEF Act, Task
    <2> QED BY <1>0, <1>3, <2>1, OneActs
  <1> QED BY <1>1, <1>2, <1>3

LEMMA DisablingResumes ==
    ASSUME EvalInv, ResumeInv, NEW i \in Instance, Act(i),
           NEW j \in Instance, pc'[j] = "disable"
    PROVE  Resumes(work[j])' 
  <1> USE Types
  <1>1. ASSUME pc[j] = "disable", work'[j] = work[j], ~(pc[i] = "evaluate" /\ j = i)
        PROVE  Resumes(work[j])'
    <2>1. Resumes(work[j]) /\ work[j].event \in Event /\ Alive(work[j].event, "task", j)
      BY <1>1, TaskWork DEF Deciding, Decisions
    <2>2. ASSUME pc[i] = "evaluate", work[i].event = work[j].event
          PROVE  FALSE
      <3>1. Alive(work[j].event, "task", i)
        BY <2>2, TaskWork DEF Deciding, Decisions
      <3> QED BY <1>1, <2>1, <2>2, <3>1 DEF OnePlace, Owner, Kind
    <2>3. trace'[work[j].event] = trace[work[j].event]
      BY <2>1, <2>2, OneActs
    <2> QED BY <1>1, <2>1, <2>3 DEF Resumes
  <1>2. CASE j # i
    BY <1>1, <1>2, OneActs
  <1>3. CASE j = i /\ ListNodes(i)
    <2>1. /\ pc[i] = "list" /\ trace' = trace /\ work'[i] = work[i]
      BY <1>3 DEF ListNodes, Goto, Settle
    <2>2. IsNext(work[i])
      BY <2>1 DEF NextNode, TaskOnNext
    <2> QED BY <1>3, <2>1, <2>2 DEF Resumes, IsNext
  <1>4. CASE j = i /\ Evaluate(i)
    <2>1. PICK w \in Item : w = work[i] /\ IsNext(w) /\ w.event \in Event
      BY <1>4, TaskWork DEF Evaluate, Deciding, Decisions, NextNode, TaskOnNext
    <2>2. /\ work'[i] = w /\ trace[w.event] \in Seq(Nat) /\ w.index \in Nat
          /\ trace'[w.event] = Append(trace[w.event], w.index)
      BY <1>4, <2>1 DEF Evaluate, Goto, Settle, Item
    <2>3. Len(trace'[w.event]) = Len(trace[w.event]) + 1
      BY <2>2
    <2>4. w.index + 1 = Len(trace'[w.event])
      BY <2>1, <2>3 DEF IsNext
    <2> QED BY <1>4, <2>2, <2>4 DEF Resumes
  <1>5. CASE j = i /\ ~ListNodes(i) /\ ~Evaluate(i)
    <2>1. ASSUME NEW w, NEW x, Goto(i, w, x)
          PROVE  w = "disable" /\ work'[i] = x
      BY <1>5, <2>1 DEF Goto
    <2>2. ASSUME NEW what, Settle(i, what)
          PROVE  FALSE
      BY <2>1, <2>2 DEF Settle
    <2>3. \/ \E e \in Event : Submit(i, e)
          \/ Forward(i) \/ Elect(i)
      BY <1>5, <2>1, <2>2 DEF Act, Task, PullNone, Crash, Restart, Acknowledge, CheckLeader,
             ReadBlueprint, Disable, PushNext, PullFromChannel, PullFromRedis, Begin
    <2>4. pc' = pc /\ work' = work
      BY <2>3 DEF Submit, Forward, Elect
    <2>5. pc[i] = "disable"
      BY <1>5, <2>4
    <2> QED BY <1>1, <1>5, <2>4, <2>5
  <1> QED BY <1>2, <1>3, <1>4, <1>5

\* ResumeInv is inductive, given EvalInv.
LEMMA ResumeInitial == Init => ResumeInv
  <1> SUFFICES ASSUME Init
               PROVE  ResumeInv
    OBVIOUS
  <1>1. /\ parked \in [Instance -> SUBSET Item]
        /\ \A i \in Instance : pc[i] = "pull"
        /\ \A e \in Event : outcome[e] # "pending"
    BY DEF Init
  <1> QED BY <1>1 DEF ResumeInv, Deciding, Decisions

LEMMA ResumeNext ==
    ASSUME EvalInv, ResumeInv, [Next]_vars
    PROVE  ResumeInv'
  <1>1. CASE UNCHANGED vars
    BY <1>1 DEF vars, ResumeInv, Deciding, Resumes, Somewhere, Alive, Left
  <1>2. ASSUME NEW i \in Instance, Act(i)
        PROVE  ResumeInv'
    <2>1. parked' \in [Instance -> SUBSET Item]
      BY <1>2, OneActs
    <2>2. \A j \in Instance : Deciding(j)' /\ Adapter = "redis" => work'[j] \in parked'[j]
      BY <1>2, DecidingStaysParked
    <2>3. \A j \in Instance : pc'[j] = "disable" => Resumes(work[j])'
      BY <1>2, DisablingResumes
    <2>4. ASSUME NEW e \in Event, outcome'[e] = "pending"
          PROVE  Somewhere(e)' \/ \E j \in Instance : Left(e, j)'
      <3>1. CASE outcome[e] # "pending"
        BY <1>2, <2>4, <3>1, SubmittedIsSomewhere
      <3>2. CASE ~Somewhere(e) /\ outcome[e] = "pending"
        <4>1. PICK j \in Instance : Left(e, j)
          BY <3>2 DEF ResumeInv
        <4> QED BY <1>2, <3>2, <4>1, LeftStays
      <3>3. CASE Somewhere(e)
        <4>1. PICK k \in Kind, j \in Owner : Alive(e, k, j)
          BY <3>3 DEF Somewhere
        <4>2. CASE k # "primary" /\ j # i
          <5>1. k \in {"channel", "task"} /\ j \in Instance \ {i}
            BY <4>1, <4>2 DEF Alive, Kind
          <5> QED BY <1>2, <4>1, <5>1, OthersKeepWork
        <4>3. CASE k = "primary" \/ j = i
          BY <1>2, <2>4, <4>1, <4>3, OwnWorkKept
        <4> QED BY <4>2, <4>3
      <3> QED BY <3>1, <3>2, <3>3
    <2> QED BY <2>1, <2>2, <2>3, <2>4 DEF ResumeInv
  <1> QED BY <1>1, <1>2 DEF Next, Act

\* Where the work of an event is alive, or left, is an item to resume it from.
LEMMA ResumeInvImplies == EvalInv /\ ResumeInv => PendingCanResume
  <1> SUFFICES ASSUME EvalInv, ResumeInv, NEW e \in Event, outcome[e] = "pending"
               PROVE  \E x \in Range(primary) \cup UNION {Items(i) : i \in Instance} :
                         x.event = e /\ x.index \in {Len(trace[e]) - 1, Len(trace[e])}
    BY DEF PendingCanResume
  <1> USE Types
  <1>1. ASSUME NEW x \in Item, x.event = e, Resumes(x)
        PROVE  x.index \in {Len(trace[e]) - 1, Len(trace[e])}
    <2>1. x.index \in Nat /\ Len(trace[e]) \in Nat
      BY DEF Item
    <2> QED BY <1>1, <2>1 DEF Resumes
  <1>2. ASSUME NEW s \in Seq(Item), AllNext(s), Queued(s, e)
        PROVE  \E x \in Range(s) : x \in Item /\ x.event = e /\ Resumes(x)
    <2>1. PICK k \in DOMAIN s : s[k].event = e
      BY <1>2 DEF Queued
    <2>2. s[k] \in Range(s) /\ s[k] \in Item /\ IsNext(s[k])
      BY <1>2, Elements DEF Range, AllNext
    <2> QED BY <2>1, <2>2 DEF IsNext, Resumes
  <1>3. CASE Somewhere(e)
    <2>1. PICK k \in Kind, i \in Owner : Alive(e, k, i)
      BY <1>3 DEF Somewhere
    <2>2. CASE k = "primary"
      <3>1. \E x \in Range(primary) : x \in Item /\ x.event = e /\ Resumes(x)
        BY <1>2, <2>1, <2>2 DEF Alive, NextNode
      <3> QED BY <1>1, <3>1
    <2>3. CASE k = "channel"
      <3>1. i \in Instance /\ \E x \in Range(channel[i]) : x \in Item /\ x.event = e /\ Resumes(x)
        BY <1>2, <2>1, <2>3 DEF Alive, NextNode
      <3>2. Range(channel[i]) \subseteq Items(i)
        BY DEF Items
      <3> QED BY <1>1, <3>1, <3>2
    <2>4. CASE k = "task"
      <3>1. /\ i \in Instance /\ work[i] \in Item /\ work[i].event = e
            /\ Resumes(work[i]) /\ work[i] # NoWork
        BY <2>1, <2>4, TaskWork DEF Alive
      <3>2. work[i] \in Items(i)
        BY <3>1 DEF Items
      <3> QED BY <1>1, <3>1, <3>2
    <2> QED BY <2>2, <2>3, <2>4 DEF Kind
  <1>4. ASSUME NEW j \in Instance, Left(e, j)
        PROVE  \E x \in Items(j) : x \in Item /\ x.event = e /\ Resumes(x)
    <2>1. PICK x \in parked[j] : x.event = e /\ Resumes(x)
      BY <1>4 DEF Left
    <2>2. x \in Item /\ x \in Items(j)
      BY <2>1 DEF ResumeInv, Items
    <2> QED BY <2>1, <2>2
  <1>5. Somewhere(e) \/ \E j \in Instance : Left(e, j)
    BY DEF ResumeInv
  <1> QED BY <1>1, <1>3, <1>4, <1>5

\* An event that is still pending can always be resumed, without skipping a node and
\* repeating at most one: an instance that dies, or whose calls fail, leaves
\* the item in the queue, in the hands of another or in its worker list.
THEOREM PendingResumes == Spec => []PendingCanResume
  <1>1. Init => EvalInv /\ ResumeInv
    BY EvalInitial, ResumeInitial
  <1>2. EvalInv /\ ResumeInv /\ [Next]_vars => EvalInv' /\ ResumeInv'
    BY EvalNext, ResumeNext
  <1>3. EvalInv /\ ResumeInv => PendingCanResume
    BY ResumeInvImplies
  <1> QED BY <1>1, <1>2, <1>3, PTL DEF Spec
================================================================================
