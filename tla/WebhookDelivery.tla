---------------------------- MODULE WebhookDelivery ----------------------------
(***************************************************************************)
(* The delivery of webhooks by one instance: src/tasks/webhook.rs over the *)
(* in-memory queue the binary gives it.  The evaluation task enqueues a    *)
(* webhook and waits while the queue is full.  The delivery task pulls     *)
(* without ever waiting for a delivery: it spawns one task for each        *)
(* webhook, and those tasks share MaxConcurrent permits.  A task whose     *)
(* request fails keeps its permit while it backs off, and while it waits   *)
(* for room in the very queue the delivery task empties.                   *)
(***************************************************************************)
EXTENDS Integers, Sequences, FiniteSets, Functions, FiniteSetsExt

CONSTANTS Webhook,        \* the work items, by their id
          NoWebhook,      \* the delivery task holds no work item
          MaxRetries,     \* max_retries of each, from its node's configuration
          QueueSize,      \* capacity of the channel
          MaxConcurrent,  \* permits of the semaphore
          Gated           \* whether a leadership election is configured

ASSUME DeliveryAssumption ==
    /\ NoWebhook \notin Webhook
    /\ MaxRetries \in [Webhook -> Nat]
    /\ QueueSize \in Nat \ {0}
    /\ MaxConcurrent \in Nat \ {0}
    /\ Gated \in BOOLEAN

VARIABLES queue,    \* the channel
          run,      \* where the delivery task is
          pulled,   \* the webhook whose leadership check is under way
          stage,    \* how far each webhook has come
          retries,  \* retry_count of its work item
          leading,  \* what is_leader() answers this instance
          metrics,  \* WebhookMetrics
          sent      \* (history) requests sent for each webhook

vars == <<queue, run, pulled, stage, retries, leading, metrics, sent>>

\* The stages in which a task holds a permit.
WithPermit == {"request", "backoff", "requeue"}

\* How a webhook ends: answered with a success status, or with another one;
\* out of retries; skipped by an instance that does not lead; lost at the exit.
Ended == {"delivered", "refused", "failed", "skipped", "lost"}

Metric == {"processed", "succeeded", "failed", "retried"}

Init ==
    /\ queue = <<>>
    /\ run = "pull"
    /\ pulled = NoWebhook
    /\ stage = [h \in Webhook |-> "new"]
    /\ retries = [h \in Webhook |-> 0]
    /\ leading = FALSE
    /\ metrics = [m \in Metric |-> 0]
    /\ sent = [h \in Webhook |-> 0]

Reaches(h, s) == stage' = [stage EXCEPT ![h] = s]

Count(ms) ==
    metrics' = [m \in Metric |-> IF m \in ms THEN metrics[m] + 1 ELSE metrics[m]]

------------------------------------------------------------------------------
(* The producer: PublishWebhookQueueEvaluator, in the evaluation task.      *)

\* The only evaluation task has one webhook at a time to enqueue.
Evaluate(h) ==
    /\ run # "exited"
    /\ stage[h] = "new"
    /\ \A g \in Webhook : stage[g] # "sending"
    /\ Reaches(h, "sending")
    /\ UNCHANGED <<queue, run, pulled, retries, leading, metrics, sent>>

\* send: it waits for room.
Enqueue(h) ==
    /\ Len(queue) < QueueSize
    /\ queue' = Append(queue, h)
    /\ Reaches(h, "queued")

Send(h) ==
    /\ stage[h] = "sending"
    /\ Enqueue(h)
    /\ UNCHANGED <<run, pulled, retries, leading, metrics, sent>>

------------------------------------------------------------------------------
(* The delivery task: run.                                                  *)

\* (Mutant) the task acquires the permit before it spawns the delivery.
PullWithPermit ==
    /\ run = "pull" /\ queue # <<>>
    /\ Cardinality({h \in Webhook : stage[h] \in WithPermit}) < MaxConcurrent
    /\ queue' = Tail(queue)
    /\ \/ Gated /\ run' = "gate" /\ pulled' = Head(queue) /\ Reaches(Head(queue), "gate")
       \/ ~Gated /\ Reaches(Head(queue), "waiting") /\ UNCHANGED <<run, pulled>>
    /\ UNCHANGED <<retries, leading, metrics, sent>>

\* What is pulled goes to the leadership check, if there is an election, or to
\* a task of its own.
Pull ==
    /\ run = "pull" /\ queue # <<>>
    /\ queue' = Tail(queue)
    /\ \/ Gated /\ run' = "gate" /\ pulled' = Head(queue) /\ Reaches(Head(queue), "gate")
       \/ ~Gated /\ Reaches(Head(queue), "waiting") /\ UNCHANGED <<run, pulled>>
    /\ UNCHANGED <<retries, leading, metrics, sent>>

\* is_leader(): an instance that does not lead, or cannot tell, drops the work.
CheckLeader ==
    /\ run = "gate"
    /\ run' = "pull"
    /\ pulled' = NoWebhook
    /\ \/ leading /\ Reaches(pulled, "waiting")
       \/ Reaches(pulled, "skipped")
    /\ UNCHANGED <<queue, retries, leading, metrics, sent>>

------------------------------------------------------------------------------
(* The task of one webhook: process_webhook and send_webhook.               *)

\* A permit is acquired, and the request goes out.
Request(h) ==
    /\ stage[h] = "waiting"
    /\ Cardinality({g \in Webhook : stage[g] \in WithPermit}) < MaxConcurrent
    /\ Reaches(h, "request")
    /\ sent' = [sent EXCEPT ![h] = @ + 1]
    /\ UNCHANGED <<queue, run, pulled, retries, leading, metrics>>

\* The server answers in time.  Whatever the status, send_webhook returns Ok and
\* process_webhook counts a success; only the status tells them apart.
Answer(h) ==
    /\ stage[h] = "request"
    /\ Reaches(h, "delivered") \/ Reaches(h, "refused")
    /\ Count({"processed", "succeeded"})
    /\ UNCHANGED <<queue, run, pulled, retries, leading, sent>>

\* (Mutant) one retry too many.
NoAnswerOneMore(h) ==
    /\ stage[h] = "request"
    /\ \/ /\ retries[h] <= MaxRetries[h]
          /\ retries' = [retries EXCEPT ![h] = @ + 1]
          /\ Reaches(h, "backoff")
          /\ Count({"processed", "retried"})
       \/ /\ retries[h] > MaxRetries[h]
          /\ Reaches(h, "failed")
          /\ Count({"processed", "failed"})
          /\ UNCHANGED retries
    /\ UNCHANGED <<queue, run, pulled, leading, sent>>

\* The request times out, or the transport fails; the server may have got it.
NoAnswer(h) ==
    /\ stage[h] = "request"
    /\ \/ /\ retries[h] < MaxRetries[h]
          /\ retries' = [retries EXCEPT ![h] = @ + 1]
          /\ Reaches(h, "backoff")
          /\ Count({"processed", "retried"})
       \/ /\ retries[h] >= MaxRetries[h]
          /\ Reaches(h, "failed")
          /\ Count({"processed", "failed"})
          /\ UNCHANGED retries
    /\ UNCHANGED <<queue, run, pulled, leading, sent>>

\* The backoff has passed.
Wake(h) ==
    /\ stage[h] = "backoff"
    /\ Reaches(h, "requeue")
    /\ UNCHANGED <<queue, run, pulled, retries, leading, metrics, sent>>

\* push waits for room, and then the permit is released.  It cannot fail: the
\* adapter the task holds keeps the receiver of the channel alive.
Requeue(h) ==
    /\ stage[h] = "requeue"
    /\ Enqueue(h)
    /\ UNCHANGED <<run, pulled, retries, leading, metrics, sent>>

------------------------------------------------------------------------------
(* Leadership, shutdown and exit.                                           *)

\* The election of webhook processors goes on, independent of the work.
Elect ==
    /\ Gated /\ run # "exited"
    /\ leading' = ~leading
    /\ UNCHANGED <<queue, run, pulled, stage, retries, metrics, sent>>

\* The token is cancelled.  run would wait for all permits, but the task around
\* it is cancelled by the same token: unless all permits are free at that very
\* moment, the waiting is dropped as soon as it begins.  The deliveries go on.
Cancel ==
    /\ run \in {"pull", "gate"}
    /\ run' = "stopped"
    /\ pulled' = NoWebhook
    /\ stage' = [h \in Webhook |-> IF h = pulled THEN "lost" ELSE stage[h]]
    /\ UNCHANGED <<queue, retries, leading, metrics, sent>>

\* main returns, and the runtime drops the queue and every delivery.
Exit ==
    /\ run = "stopped"
    /\ run' = "exited"
    /\ queue' = <<>>
    /\ stage' = [h \in Webhook |->
                    IF stage[h] \in Ended \cup {"new"} THEN stage[h] ELSE "lost"]
    /\ UNCHANGED <<pulled, retries, leading, metrics, sent>>

Deliver(h) == Request(h) \/ Answer(h) \/ NoAnswer(h) \/ Wake(h) \/ Requeue(h)

Next ==
    \/ \E h \in Webhook : Evaluate(h) \/ Send(h) \/ Deliver(h)
    \/ Pull \/ CheckLeader \/ Elect \/ Cancel \/ Exit

Spec == Init /\ [][Next]_vars

\* Every task is scheduled, every request is answered or times out, and main
\* returns some time after the token is cancelled; nothing cancels it for sure.
Fairness ==
    /\ WF_vars(Pull \/ CheckLeader)
    /\ WF_vars(Exit)
    /\ \A h \in Webhook : WF_vars(Send(h)) /\ WF_vars(Deliver(h))

FairSpec == Spec /\ Fairness

------------------------------------------------------------------------------
(* Properties                                                               *)

\* The metrics account for every request whose outcome is known, once: it
\* succeeded or failed for good, or it led to a retry (webhook.rs:402-484).
AccountsAddUp ==
    /\ metrics["processed"] =
          metrics["succeeded"] + metrics["failed"] + metrics["retried"]
    /\ metrics["succeeded"] = Quantify(Webhook,
          LAMBDA h : stage[h] \in {"delivered", "refused"})
    /\ metrics["failed"] = Quantify(Webhook, LAMBDA h : stage[h] = "failed")

\* retry_count, which travels through the queue with the work item, is the
\* number of requests already sent for it: no webhook is sent more often than
\* its node allows, and none again once an answer has come; and the metrics add up.
RetriesAreCounted ==
    /\ AccountsAddUp
    /\ \A h \in Webhook :
        /\ sent[h] <= MaxRetries[h] + 1
        /\ stage[h] \in {"request", "delivered", "refused", "failed"} =>
              sent[h] = retries[h] + 1
        /\ stage[h] \in {"queued", "waiting", "backoff", "requeue"} =>
              sent[h] = retries[h]

\* Every webhook the evaluation task has to send ends, and so the evaluation
\* task goes on: although the deliveries that wait for room hold the permits the
\* others need, and the queue is fed by those who need it emptied.
EveryWebhookEnds ==
    \A h \in Webhook : stage[h] = "sending" ~> stage[h] \in Ended
==============================================================================
