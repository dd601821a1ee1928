------------------------- MODULE WebhookDelivery_proofs -------------------------
(***************************************************************************)
(* Proofs about WebhookDelivery, for any webhooks with any max_retries,    *)
(* every size of the channel and every number of permits, with and without *)
(* an election.                                                            *)
(***************************************************************************)
EXTENDS WebhookDelivery, FiniteSetTheorems, TLAPS

USE DeliveryAssumption

Stage == {"new", "sending", "queued", "gate", "waiting"} \cup WithPermit \cup Ended

TypeOK ==
    /\ queue \in Seq(Webhook)
    /\ run \in {"pull", "gate", "stopped", "exited"}
    /\ pulled \in Webhook \cup {NoWebhook}
    /\ stage \in [Webhook -> Stage]
    /\ retries \in [Webhook -> Nat]
    /\ leading \in BOOLEAN
    /\ metrics \in [Metric -> Nat]
    /\ sent \in [Webhook -> Nat]

\* A webhook is in one place: the channel holds it once, and only while it is
\* queued; the delivery task holds the one whose leadership check is under way.
InOnePlace ==
    /\ \A m, n \in 1..Len(queue) : queue[m] = queue[n] => m = n
    /\ \A n \in 1..Len(queue) : stage[queue[n]] = "queued"
    /\ run = "gate" => pulled \in Webhook /\ stage[pulled] = "gate"
    /\ run # "gate" => pulled = NoWebhook

\* The stages in which a request is out or was answered.
Asked == {"request", "delivered", "refused", "failed"}

\* retry_count counts the requests of webhook h, the one that is out excepted.
Counted(h) ==
    /\ retries[h] <= MaxRetries[h]
    /\ stage[h] \in Asked => sent[h] = retries[h] + 1
    /\ stage[h] \in {"lost", "skipped"} => sent[h] <= MaxRetries[h] + 1
    /\ stage[h] \notin Asked \cup {"lost", "skipped"} => sent[h] = retries[h]

Answered == {h \in Webhook : stage[h] \in {"delivered", "refused"}}
Failed == {h \in Webhook : stage[h] = "failed"}

\* The metrics count the webhooks that came to an end, of which there are
\* finitely many.
MetricsInv ==
    /\ IsFiniteSet(Answered) /\ IsFiniteSet(Failed)
    /\ metrics["succeeded"] = Cardinality(Answered)
    /\ metrics["failed"] = Cardinality(Failed)
    /\ metrics["processed"] =
          metrics["succeeded"] + metrics["failed"] + metrics["retried"]

DeliveryInv ==
    /\ TypeOK
    /\ InOnePlace
    /\ \A h \in Webhook : Counted(h)
    /\ MetricsInv

\* What the channel does to the sequence of webhooks it holds.
LEMMA Appended ==
  ASSUME NEW q \in Seq(Webhook), NEW h \in Webhook
  PROVE  /\ Append(q, h) \in Seq(Webhook)
         /\ Len(Append(q, h)) = Len(q) + 1
         /\ Append(q, h)[Len(q) + 1] = h
         /\ \A n \in 1..Len(q) : Append(q, h)[n] = q[n]
  OBVIOUS

LEMMA Taken ==
  ASSUME NEW q \in Seq(Webhook), q # <<>>
  PROVE  /\ Head(q) \in Webhook /\ Head(q) = q[1] /\ 1 \in 1..Len(q)
         /\ Tail(q) \in Seq(Webhook)
         /\ Len(Tail(q)) = Len(q) - 1
         /\ \A n \in 1..Len(Tail(q)) : n + 1 \in 1..Len(q) /\ Tail(q)[n] = q[n + 1]
  OBVIOUS

\* Only the webhook that reaches a stage changes its own.
LEMMA ReachOne ==
  ASSUME TypeOK, NEW h \in Webhook, NEW s \in Stage, Reaches(h, s)
  PROVE  /\ stage' \in [Webhook -> Stage]
         /\ stage'[h] = s
         /\ \A g \in Webhook \ {h} : stage'[g] = stage[g]
  BY DEF TypeOK, Reaches

\* The metrics are right if they stay, and no webhook is answered or fails.
LEMMA MetricsStay ==
  ASSUME MetricsInv, TypeOK, stage' \in [Webhook -> Stage],
         \A h \in Webhook : \/ stage'[h] = stage[h]
                            \/ {stage[h], stage'[h]} \cap {"delivered", "refused", "failed"} = {},
         metrics' = metrics
  PROVE  MetricsInv'
<1>1. Answered' = Answered /\ Failed' = Failed
  BY DEF Answered, Failed
<1> QED
  BY <1>1 DEF MetricsInv

\* What the channel holds stays in place if it and the delivery task stay, and no
\* webhook that they hold changes its stage.
LEMMA PlacesStay ==
  ASSUME InOnePlace, TypeOK, NEW h \in Webhook, stage[h] \notin {"queued", "gate"},
         \A g \in Webhook \ {h} : stage'[g] = stage[g],
         UNCHANGED <<queue, run, pulled>>
  PROVE  InOnePlace'
<1>1. \A n \in 1..Len(queue) : queue[n] \in Webhook /\ queue[n] # h
  BY DEF InOnePlace, TypeOK
<1> QED
  BY <1>1 DEF InOnePlace

\* A webhook that is in no place can be put into the channel.
LEMMA EnqueueKeeps ==
  ASSUME DeliveryInv, NEW h \in Webhook, stage[h] \in {"sending", "requeue"}, Enqueue(h),
         UNCHANGED <<run, pulled, retries, leading, metrics, sent>>
  PROVE  DeliveryInv'
<1>0. TypeOK /\ InOnePlace /\ MetricsInv
  BY DEF DeliveryInv
<1>1. stage' \in [Webhook -> Stage] /\ stage'[h] = "queued"
      /\ \A g \in Webhook \ {h} : stage'[g] = stage[g]
  BY <1>0, ReachOne DEF Enqueue, Stage
<1>2. /\ queue \in Seq(Webhook)
      /\ queue' \in Seq(Webhook) /\ Len(queue') = Len(queue) + 1
      /\ queue'[Len(queue) + 1] = h
      /\ \A n \in 1..Len(queue) : queue'[n] = queue[n]
  BY <1>0, Appended DEF Enqueue, TypeOK
<1>3. TypeOK'
  BY <1>0, <1>1, <1>2 DEF TypeOK
<1>4. InOnePlace'
  <2>1. \A n \in 1..Len(queue) : queue[n] \in Webhook /\ queue[n] # h
    BY <1>0, <1>2 DEF InOnePlace
  <2>2. \A n \in 1..Len(queue') : n \in 1..Len(queue) \/ n = Len(queue) + 1
    BY <1>2
  <2>3. \A m, n \in 1..Len(queue') : queue'[m] = queue'[n] => m = n
    <3> SUFFICES ASSUME NEW m \in 1..Len(queue'), NEW n \in 1..Len(queue'),
                        queue'[m] = queue'[n]
                 PROVE  m = n
      OBVIOUS
    <3>1. CASE m \in 1..Len(queue) /\ n \in 1..Len(queue)
      BY <1>0, <1>2, <3>1 DEF InOnePlace
    <3>2. CASE m = Len(queue) + 1 \/ n = Len(queue) + 1
      BY <1>2, <2>1, <2>2, <3>2
    <3> QED
      BY <2>2, <3>1, <3>2
  <2>4. \A n \in 1..Len(queue') : stage'[queue'[n]] = "queued"
    <3> SUFFICES ASSUME NEW n \in 1..Len(queue')
                 PROVE  stage'[queue'[n]] = "queued"
      OBVIOUS
    <3>1. CASE n \in 1..Len(queue)
      <4>1. PICK g \in Webhook : g = queue[n] /\ g # h /\ stage[g] = "queued"
        BY <1>0, <2>1, <3>1 DEF InOnePlace
      <4>2. queue'[n] = g /\ stage'[g] = "queued"
        BY <1>1, <1>2, <3>1, <4>1
      <4> QED
        BY <4>2
    <3>2. CASE n = Len(queue) + 1
      BY <1>1, <1>2, <3>2
    <3> QED
      BY <2>2, <3>1, <3>2
  <2> QED
    BY <1>0, <1>1, <2>3, <2>4 DEF InOnePlace
<1>5. \A g \in Webhook : Counted(g)'
  BY <1>1 DEF DeliveryInv, Counted, Asked
<1>6. MetricsInv'
  BY <1>0, <1>1, MetricsStay
<1> QED
  BY <1>3, <1>4, <1>5, <1>6 DEF DeliveryInv

\* What is pulled was queued, and leaves the channel for good.
LEMMA PullStep ==
  ASSUME DeliveryInv, Pull
  PROVE  DeliveryInv'
<1>0. TypeOK /\ InOnePlace /\ MetricsInv /\ queue # <<>> /\ run = "pull"
  BY DEF DeliveryInv, Pull
<1>1. PICK h \in Webhook : h = Head(queue) /\ h = queue[1] /\ 1 \in 1..Len(queue)
  BY <1>0, Taken DEF TypeOK
<1>2. /\ queue' \in Seq(Webhook)
      /\ Len(queue) \in Nat
      /\ Len(queue') = Len(queue) - 1
      /\ \A n \in 1..Len(queue') : n + 1 \in 1..Len(queue) /\ queue'[n] = queue[n + 1]
  BY <1>0, Taken DEF Pull, TypeOK
<1>3. stage[h] = "queued"
  BY <1>0, <1>1 DEF InOnePlace
<1>4. /\ stage' \in [Webhook -> Stage]
      /\ stage'[h] \in {"gate", "waiting"}
      /\ \A g \in Webhook \ {h} : stage'[g] = stage[g]
      /\ \/ run' = "gate" /\ pulled' = h /\ stage'[h] = "gate"
         \/ UNCHANGED <<run, pulled>>
      /\ UNCHANGED <<retries, leading, metrics, sent>>
  BY <1>0, <1>1, ReachOne DEF Pull, Stage
<1>5. TypeOK'
  BY <1>0, <1>2, <1>4 DEF TypeOK
<1>6. InOnePlace'
  <2>1. \A n \in 1..Len(queue') :
           /\ n + 1 \in 1..Len(queue) /\ queue'[n] = queue[n + 1]
           /\ queue'[n] \in Webhook /\ queue'[n] # h
    <3> SUFFICES ASSUME NEW n \in 1..Len(queue')
                 PROVE  /\ n + 1 \in 1..Len(queue) /\ queue'[n] = queue[n + 1]
                        /\ queue'[n] \in Webhook /\ queue'[n] # h
      OBVIOUS
    <3>1. n + 1 \in 1..Len(queue) /\ queue'[n] = queue[n + 1] /\ n + 1 # 1
      BY <1>2
    <3>2. queue[n + 1] \in Webhook /\ queue[n + 1] # queue[1]
      <4>1. \A k, m \in 1..Len(queue) : queue[k] = queue[m] => k = m
        BY <1>0 DEF InOnePlace
      <4>2. queue[n + 1] \in Webhook
        BY <1>0, <3>1 DEF TypeOK
      <4> QED
        BY <1>1, <3>1, <4>1, <4>2
    <3> QED
      BY <1>1, <3>1, <3>2
  <2>2. \A m, n \in 1..Len(queue') : queue'[m] = queue'[n] => m = n
    <3> SUFFICES ASSUME NEW m \in 1..Len(queue'), NEW n \in 1..Len(queue'),
                        queue'[m] = queue'[n]
                 PROVE  m = n
      OBVIOUS
    <3>1. m + 1 = n + 1
      BY <1>0, <2>1 DEF InOnePlace
    <3> QED
      BY <1>2, <3>1
  <2>3. \A n \in 1..Len(queue') : stage'[queue'[n]] = "queued"
    <3>1. \A n \in 1..Len(queue) : stage[queue[n]] = "queued"
      BY <1>0 DEF InOnePlace
    <3> QED
      BY <1>4, <2>1, <3>1
  <2> QED
    BY <1>0, <1>4, <2>2, <2>3 DEF InOnePlace
<1>7. \A g \in Webhook : Counted(g)'
  BY <1>3, <1>4 DEF DeliveryInv, Counted, Asked
<1>8. MetricsInv'
  BY <1>0, <1>3, <1>4, MetricsStay
<1> QED
  BY <1>5, <1>6, <1>7, <1>8 DEF DeliveryInv

\* A webhook that is in neither place goes from stage to stage.
LEMMA StageStep ==
  ASSUME DeliveryInv, NEW h \in Webhook,
         \/ Evaluate(h) \/ Request(h) \/ Wake(h) \/ Answer(h) \/ NoAnswer(h)
  PROVE  TypeOK' /\ InOnePlace' /\ \A g \in Webhook : Counted(g)'
<1>0. TypeOK /\ InOnePlace /\ Counted(h)
  BY DEF DeliveryInv
<1> USE DEF Stage, WithPermit, Ended
<1>1. PICK s \in Stage : Reaches(h, s)
  BY DEF Evaluate, Request, Wake, Answer, NoAnswer
<1>2. stage' \in [Webhook -> Stage] /\ stage'[h] = s
      /\ \A g \in Webhook \ {h} : stage'[g] = stage[g]
  BY <1>0, <1>1, ReachOne
<1>3. /\ stage[h] \notin {"queued", "gate"}
      /\ UNCHANGED <<queue, run, pulled, leading>>
  BY DEF Evaluate, Request, Wake, Answer, NoAnswer
<1>4. /\ retries' \in [Webhook -> Nat] /\ sent' \in [Webhook -> Nat]
      /\ \A g \in Webhook \ {h} : retries'[g] = retries[g] /\ sent'[g] = sent[g]
      /\ Counted(h)'
  <2>0. MaxRetries[h] \in Nat /\ retries[h] \in Nat /\ sent[h] \in Nat
    BY <1>0 DEF TypeOK
  <2> USE DEF Counted, Asked
  <2>1. CASE Evaluate(h) \/ Wake(h) \/ Answer(h)
    BY <1>0, <2>0, <2>1, ReachOne DEF Evaluate, Wake, Answer, TypeOK
  <2>2. CASE Request(h)
    BY <1>0, <2>0, <2>2, ReachOne DEF Request, TypeOK
  <2>3. CASE NoAnswer(h)
    <3>1. CASE /\ retries[h] < MaxRetries[h]
               /\ retries' = [retries EXCEPT ![h] = @ + 1] /\ Reaches(h, "backoff")
      BY <1>0, <2>0, <2>3, <3>1, ReachOne DEF NoAnswer, TypeOK
    <3>2. CASE Reaches(h, "failed") /\ UNCHANGED retries
      BY <1>0, <2>0, <2>3, <3>2, ReachOne DEF NoAnswer, TypeOK
    <3> QED
      BY <2>3, <3>1, <3>2 DEF NoAnswer
  <2> QED
    BY <2>1, <2>2, <2>3
<1>5. metrics' \in [Metric -> Nat]
  <2>1. ASSUME NEW ms \in SUBSET Metric, Count(ms)
        PROVE  metrics' \in [Metric -> Nat]
    BY <1>0, <2>1 DEF Count, TypeOK
  <2> QED
    BY <1>0, <2>1 DEF Evaluate, Request, Wake, Answer, NoAnswer, TypeOK, Metric
<1>6. TypeOK'
  BY <1>0, <1>2, <1>3, <1>4, <1>5 DEF TypeOK
<1>7. InOnePlace'
  BY <1>0, <1>2, <1>3, PlacesStay
<1>8. ASSUME NEW g \in Webhook
      PROVE  Counted(g)'
  <2>1. CASE g # h
    BY <1>2, <1>4, <2>1 DEF DeliveryInv, Counted
  <2> QED
    BY <1>4, <2>1
<1> QED
  BY <1>6, <1>7, <1>8

\* Each request whose outcome becomes known is counted, as what it is.
LEMMA OutcomeIsCounted ==
  ASSUME DeliveryInv, NEW h \in Webhook, Answer(h) \/ NoAnswer(h)
  PROVE  MetricsInv'
<1>0. TypeOK /\ MetricsInv /\ stage[h] = "request"
      /\ h \notin Answered /\ h \notin Failed
      /\ \A m \in Metric : metrics[m] \in Nat
  BY DEF DeliveryInv, Answer, NoAnswer, Answered, Failed, TypeOK
<1>1. /\ IsFiniteSet(Answered \cup {h}) /\ Cardinality(Answered \cup {h}) = metrics["succeeded"] + 1
      /\ IsFiniteSet(Failed \cup {h}) /\ Cardinality(Failed \cup {h}) = metrics["failed"] + 1
  BY <1>0, FS_AddElement DEF MetricsInv
<1>2. ASSUME NEW s \in Stage, Reaches(h, s)
      PROVE  /\ Answered' = IF s \in {"delivered", "refused"} THEN Answered \cup {h} ELSE Answered
             /\ Failed' = IF s = "failed" THEN Failed \cup {h} ELSE Failed
  BY <1>0, <1>2, ReachOne DEF Answered, Failed
<1> USE DEF Stage, WithPermit, Ended, Metric
<1>3. ASSUME NEW ms, Count(ms)
      PROVE  \A m \in Metric : metrics'[m] = IF m \in ms THEN metrics[m] + 1 ELSE metrics[m]
  BY <1>3 DEF Count
<1>4. CASE Answer(h)
  <2>1. Answered' = Answered \cup {h} /\ Failed' = Failed
    BY <1>2, <1>4 DEF Answer
  <2>2. Count({"processed", "succeeded"})
    BY <1>4 DEF Answer
  <2> QED
    BY <1>0, <1>1, <1>3, <2>1, <2>2 DEF MetricsInv
<1>5. CASE NoAnswer(h) /\ retries[h] < MaxRetries[h]
  <2>0. Reaches(h, "backoff") /\ Count({"processed", "retried"})
    BY <1>0, <1>5 DEF NoAnswer, TypeOK
  <2>1. Answered' = Answered /\ Failed' = Failed
    BY <1>2, <2>0
  <2> QED
    BY <1>0, <1>3, <2>0, <2>1 DEF MetricsInv
<1>6. CASE NoAnswer(h) /\ ~(retries[h] < MaxRetries[h])
  <2>0. Reaches(h, "failed") /\ Count({"processed", "failed"})
    BY <1>6 DEF NoAnswer
  <2>1. Answered' = Answered /\ Failed' = Failed \cup {h}
    BY <1>2, <2>0
  <2> QED
    BY <1>0, <1>1, <1>3, <2>0, <2>1 DEF MetricsInv
<1> QED
  BY <1>4, <1>5, <1>6

\* The task of one webhook, and the evaluation task that sends it.
LEMMA WebhookStep ==
  ASSUME DeliveryInv, NEW h \in Webhook, Evaluate(h) \/ Send(h) \/ Deliver(h)
  PROVE  DeliveryInv'
<1>1. CASE Send(h) \/ Requeue(h)
  BY <1>1, EnqueueKeeps DEF Send, Requeue
<1>2. CASE Answer(h) \/ NoAnswer(h)
  BY <1>2, StageStep, OutcomeIsCounted DEF DeliveryInv
<1>3. CASE Evaluate(h) \/ Request(h) \/ Wake(h)
  <2>1. TypeOK /\ MetricsInv
    BY DEF DeliveryInv
  <2>2. PICK s \in {"sending", "request", "requeue"} :
           Reaches(h, s) /\ metrics' = metrics /\ stage[h] \in {"new", "waiting", "backoff"}
    BY <1>3 DEF Evaluate, Request, Wake
  <2>3. MetricsInv'
    BY <2>1, <2>2, ReachOne, MetricsStay DEF Stage, WithPermit
  <2> QED
    BY <1>3, <2>3, StageStep DEF DeliveryInv
<1> QED
  BY <1>1, <1>2, <1>3 DEF Deliver

\* The gate, the cancellation and the exit.  Neither forgets nor invents a
\* request, and what has ended stays as it ended.
LEMMA RunStep ==
  ASSUME DeliveryInv, CheckLeader \/ Elect \/ Cancel \/ Exit \/ UNCHANGED vars
  PROVE  DeliveryInv'
<1>0. TypeOK /\ InOnePlace /\ MetricsInv
  BY DEF DeliveryInv
<1> USE DEF Stage, WithPermit, Ended
<1>1. CASE CheckLeader
  <2>1. PICK h \in Webhook : h = pulled /\ stage[h] = "gate"
    BY <1>0, <1>1 DEF CheckLeader, InOnePlace
  <2>2. PICK s \in {"waiting", "skipped"} : Reaches(h, s)
    BY <1>1, <2>1 DEF CheckLeader
  <2>3. stage' \in [Webhook -> Stage] /\ stage'[h] = s
        /\ \A g \in Webhook \ {h} : stage'[g] = stage[g]
    BY <1>0, <2>2, ReachOne
  <2>4. TypeOK'
    BY <1>0, <1>1, <2>3 DEF CheckLeader, TypeOK
  <2>5. InOnePlace'
    <3>1. \A n \in 1..Len(queue) : queue[n] \in Webhook /\ queue[n] # h
      BY <1>0, <2>1 DEF InOnePlace, TypeOK
    <3> QED
      BY <1>0, <1>1, <2>3, <3>1 DEF CheckLeader, InOnePlace
  <2>6. \A g \in Webhook : Counted(g)'
    BY <1>0, <1>1, <2>1, <2>3 DEF CheckLeader, DeliveryInv, Counted, Asked, TypeOK
  <2>7. MetricsInv'
    BY <1>0, <1>1, <2>1, <2>3, MetricsStay DEF CheckLeader
  <2> QED
    BY <2>4, <2>5, <2>6, <2>7 DEF DeliveryInv
<1>2. CASE Cancel \/ Exit
  <2>1. /\ stage' \in [Webhook -> Stage]
        /\ \A g \in Webhook : \/ stage'[g] = stage[g]
                              \/ stage'[g] = "lost" /\ stage[g] \notin {"delivered", "refused", "failed", "skipped"}
        /\ UNCHANGED <<retries, leading, metrics, sent>>
    BY <1>0, <1>2 DEF Cancel, Exit, TypeOK, InOnePlace
  <2>2. TypeOK'
    <3>1. queue' \in Seq(Webhook)
      <4>1. CASE Cancel
        BY <1>0, <4>1 DEF Cancel, TypeOK
      <4>2. CASE Exit
        <5>1. queue' = <<>>
          BY <4>2 DEF Exit
        <5> QED
          BY <5>1
      <4> QED
        BY <1>2, <4>1, <4>2
    <3>2. run' \in {"stopped", "exited"} /\ pulled' \in Webhook \cup {NoWebhook}
      BY <1>0, <1>2 DEF Cancel, Exit, TypeOK
    <3> QED
      BY <1>0, <2>1, <3>1, <3>2 DEF TypeOK
  <2>3. InOnePlace'
    <3>1. CASE Cancel
      <4>1. \A n \in 1..Len(queue) : queue[n] \in Webhook /\ queue[n] # pulled
        <5>1. \A n \in 1..Len(queue) : queue[n] \in Webhook /\ stage[queue[n]] = "queued"
          BY <1>0 DEF InOnePlace, TypeOK
        <5>2. stage[pulled] = "gate" \/ pulled \notin Webhook
          BY <1>0 DEF InOnePlace
        <5> QED
          BY <5>1, <5>2
      <4> QED
        BY <1>0, <3>1, <4>1 DEF Cancel, InOnePlace
    <3>2. CASE Exit
      BY <1>0, <3>2 DEF Exit, InOnePlace
    <3> QED
      BY <1>2, <3>1, <3>2
  <2>4. ASSUME NEW g \in Webhook
        PROVE  Counted(g)'
    <3>1. MaxRetries[g] \in Nat /\ retries[g] \in Nat /\ sent[g] \in Nat /\ Counted(g)
      BY <1>0 DEF TypeOK, DeliveryInv
    <3> QED
      BY <2>1, <3>1 DEF Counted, Asked
  <2>5. MetricsInv'
    BY <1>0, <2>1, MetricsStay
  <2> QED
    BY <2>2, <2>3, <2>4, <2>5 DEF DeliveryInv
<1>3. CASE Elect \/ UNCHANGED vars
  <2>1. TypeOK'
    BY <1>0, <1>3 DEF Elect, vars, TypeOK
  <2>2. UNCHANGED <<queue, run, pulled, stage, retries, metrics, sent>>
    BY <1>3 DEF Elect, vars
  <2> QED
    BY <2>1, <2>2 DEF DeliveryInv, InOnePlace, Counted, MetricsInv, Answered, Failed
<1> QED
  BY <1>1, <1>2, <1>3

\* DeliveryInv is inductive.
LEMMA DeliveryInvInductive ==
  ASSUME DeliveryInv, [Next]_vars
  PROVE  DeliveryInv'
  BY PullStep, WebhookStep, RunStep DEF Next

LEMMA DeliveryInvInitial == Init => DeliveryInv
<1> SUFFICES ASSUME Init
             PROVE  DeliveryInv
  OBVIOUS
<1>1. TypeOK
  <2>1. queue \in Seq(Webhook) /\ stage \in [Webhook -> Stage] /\ metrics \in [Metric -> Nat]
    BY DEF Init, Stage
  <2>2. retries \in [Webhook -> Nat] /\ sent \in [Webhook -> Nat] /\ leading \in BOOLEAN
    BY DEF Init
  <2> QED
    BY <2>1, <2>2 DEF Init, TypeOK
<1>2. InOnePlace
  BY DEF Init, InOnePlace
<1>3. \A h \in Webhook : Counted(h)
  BY DEF Init, Counted, Asked
<1>4. MetricsInv
  <2>1. Answered = {} /\ Failed = {}
    BY DEF Init, Answered, Failed
  <2> QED
    BY <2>1, FS_EmptySet DEF Init, MetricsInv, Metric
<1> QED
  BY <1>1, <1>2, <1>3, <1>4 DEF DeliveryInv

\* Types, one place for each webhook, a retry count that counts the requests, and
\* metrics that count what ended.
THEOREM DeliveryCorrect == Spec => []DeliveryInv
<1>1. DeliveryInv /\ [Next]_vars => DeliveryInv'
  BY DeliveryInvInductive
<1> QED
  BY <1>1, DeliveryInvInitial, PTL DEF Spec

\* No webhook is sent more often than its node allows, none again once it was
\* answered, and the metrics add up: although retries travel through the channel
\* with new work, past the gate, and the exit loses what is on its way.
THEOREM RetriesCounted == Spec => []RetriesAreCounted
<1>1. ASSUME DeliveryInv
      PROVE  RetriesAreCounted
  <2>1. AccountsAddUp
    <3>1. /\ Quantify(Webhook, LAMBDA h : stage[h] \in {"delivered", "refused"})
                = Cardinality(Answered)
          /\ Quantify(Webhook, LAMBDA h : stage[h] = "failed") = Cardinality(Failed)
      BY DEF Quantify, Answered, Failed
    <3> QED
      BY <1>1, <3>1 DEF DeliveryInv, MetricsInv, AccountsAddUp
  <2>2. ASSUME NEW h \in Webhook
        PROVE  /\ sent[h] <= MaxRetries[h] + 1
               /\ stage[h] \in {"request", "delivered", "refused", "failed"} =>
                     sent[h] = retries[h] + 1
               /\ stage[h] \in {"queued", "waiting", "backoff", "requeue"} =>
                     sent[h] = retries[h]
    BY <1>1 DEF DeliveryInv, TypeOK, Counted, Asked
  <2> QED
    BY <2>1, <2>2 DEF RetriesAreCounted
<1> QED
  BY <1>1, DeliveryCorrect, PTL
==============================================================================
