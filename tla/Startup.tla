------------------------------- MODULE Startup -------------------------------
(***************************************************************************)
(* src/bin/ifthisthenat.rs and src/tasks/manager.rs: how the service is    *)
(* put together from its settings, step by step, each of which may fail,   *)
(* and how it ends: a task that fails cancels all others, and the process  *)
(* exits once they are gone.                                               *)
(***************************************************************************)
EXTENDS Settings, Integers

CONSTANT Environment    \* the environments the service is started in

Raw == [is : {"absent", "junk", "number"}, n : Int]

ASSUME StartupAssumption ==
    \A env \in Environment :
        {env.identityCacheSize, env.webhookQueueSize, env.queueBuffer} \subseteq Raw

VARIABLES environment,  \* where this process runs
          stage,        \* how far main() is
          wired,        \* what it has put together
          tasks,        \* the tasks it has spawned and that have not ended
          cancelled,    \* the token they share
          closed,       \* the tracker, which otherwise waits for further tasks
          ended         \* (history) the tasks that ended with an error, or a panic

startupVars == <<environment, stage, wired, tasks, cancelled, closed, ended>>

settings == ConfigOf(environment)
Panicked == "panicked"
Exited == "exited"

Tasks == {"webhook election", "blueprint election", "scheduler election", "webhook",
          "evaluation", "scheduler", "health", "reload", "processor", "jetstream",
          "http"}

Nothing == [pool |-> FALSE, denies |-> FALSE, elections |-> {}, webhooks |-> "none",
            queue |-> "none", throttler |-> "none", results |-> "none",
            cursor |-> "none"]

\* main() gets to the next stage, or ends the process and with it all tasks.
GoOn(from, to) ==
    /\ stage = from /\ stage' = to
    /\ UNCHANGED <<environment, closed, ended>>

Stop(how) ==
    /\ stage' = how /\ tasks' = {}
    /\ UNCHANGED <<environment, wired, cancelled, closed, ended>>

\* What main() takes for granted on the way: unwrap, expect, a channel with room.
Unwrap(holds, from, to) == GoOn(from, IF holds THEN to ELSE Panicked)

\* spawn_cancellable_task, and what becomes known of it.
Spawn(names) == tasks' = tasks \cup names /\ UNCHANGED cancelled
SpawnNothing == UNCHANGED <<tasks, cancelled>>

------------------------------------------------------------------------------
(* Before the first task.                                                   *)

ReadConfig ==
    \/ Accepted(environment) /\ GoOn("config", "scopes")
       /\ UNCHANGED wired /\ SpawnNothing
    \/ ~Accepted(environment) /\ stage = "config" /\ Stop(Exited)

CheckScopes ==
    LET sound == ValidScopes(settings.scopes, settings.disabledTypes,
                             settings.publishCollections)
    IN  \/ sound /\ GoOn("scopes", "redis") /\ UNCHANGED wired /\ SpawnNothing
        \/ ~sound /\ stage = "scopes" /\ Stop(Exited)

\* The pool connects when it is used: it is only refused for its URL, and then the
\* service goes on without.
CreatePool ==
    /\ GoOn("redis", "database") /\ SpawnNothing
    /\ wired' = [wired EXCEPT !.pool = settings.redisUrl = "sound"]

ConnectDatabase ==
    \/ GoOn("database", "denylist") /\ UNCHANGED wired /\ SpawnNothing
    \/ stage = "database" /\ Stop(Exited)

\* A filter that cannot be loaded is used as it is (see DenyList).
CreateDenyList ==
    /\ GoOn("denylist", "identity") /\ SpawnNothing
    /\ wired' = [wired EXCEPT !.denies = settings.denylist = "postgres"]

\* NonZeroUsize::new(size).unwrap()
CreateResolver ==
    /\ Unwrap(settings.identityCacheSize > 0, "identity", "webhook election")
    /\ UNCHANGED wired /\ SpawnNothing

------------------------------------------------------------------------------
(* The tasks.                                                               *)

Elects(scope) == settings.leadership[scope].enabled /\ wired.pool

Elect(scope, from, to) ==
    /\ GoOn(from, to)
    /\ IF Elects(scope)
       THEN /\ Spawn({from})
            /\ wired' = [wired EXCEPT !.elections = @ \cup {scope}]
       ELSE UNCHANGED wired /\ SpawnNothing

\* A channel without room is a panic.
StartWebhooks ==
    /\ Unwrap(settings.webhookQueue => settings.webhookQueueSize > 0,
              "webhooks", "blueprint election")
    /\ Spawn(IF settings.webhookQueue THEN {"webhook"} ELSE {})
    /\ wired' = [wired EXCEPT !.webhooks =
                     IF settings.webhookQueue THEN "queue" ELSE "direct"]

\* ServiceAccessTokenManager::init, which asks the identity provider.
InitTokens ==
    \/ GoOn("tokens", "queue") /\ UNCHANGED wired /\ SpawnNothing
    \/ stage = "tokens" /\ Stop(Exited)

\* create_blueprint_queue_adapter.
CreateQueue ==
    \/ /\ settings.queueAdapter = "redis" => wired.pool
       /\ Unwrap(settings.queueAdapter = "mpsc" => settings.queueBuffer > 0,
                 "queue", "throttler")
       /\ wired' = [wired EXCEPT !.queue = settings.queueAdapter] /\ SpawnNothing
    \/ /\ settings.queueAdapter = "redis" /\ ~wired.pool
       /\ stage = "queue" /\ Stop(Exited)

\* The throttler of the web context; the processor gets another of the same kind.
DefaultsAreThere ==
    \A k \in DOMAIN settings.defaults :
        IsGiven(settings.defaults[k].limit) /\ IsGiven(settings.defaults[k].window)

CreateThrottler ==
    /\ Unwrap(settings.throttler = "redis-per-identity" /\ wired.pool => DefaultsAreThere,
              "throttler", "results")
    /\ wired' = [wired EXCEPT !.throttler =
                     IF wired.pool THEN settings.throttler ELSE "noop"]
    /\ SpawnNothing

CreateResults ==
    /\ Unwrap(settings.results = "filesystem" => settings.resultsDirectory,
              "results", "tasks")
    /\ wired' = [wired EXCEPT !.results = settings.results] /\ SpawnNothing

StartTasks ==
    /\ GoOn("tasks", "signals") /\ UNCHANGED wired
    /\ Spawn({"evaluation"} \cup (IF settings.scheduler THEN {"scheduler"} ELSE {})
             \cup (IF settings.healthCheck THEN {"health"} ELSE {}))

\* From here on the signal handler listens: see Close.
ListenForSignals ==
    GoOn("signals", "jetstream") /\ UNCHANGED wired /\ SpawnNothing

\* The cursor is kept in Redis if there is a pool, or else in a file.
StartJetstream ==
    /\ GoOn("jetstream", "http")
    /\ IF settings.jetstream
       THEN /\ Spawn({"reload", "processor", "jetstream"})
            /\ wired' = [wired EXCEPT !.cursor = IF wired.pool THEN "redis"
                                      ELSE IF settings.cursorPath THEN "file" ELSE "none"]
       ELSE UNCHANGED wired /\ SpawnNothing

StartHttp == GoOn("http", "serving") /\ Spawn({"http"}) /\ UNCHANGED wired

------------------------------------------------------------------------------
(* How tasks end.                                                           *)

\* The webhook task wants a healthy queue, the scheduler its first load, and the
\* server its port; the others go on whatever fails.
MayFail == {"webhook", "scheduler", "http"}

\* (Mutant) the error is logged, and that is all.
LogFailure(t) ==
    /\ t \in tasks \cap MayFail /\ ~cancelled
    /\ tasks' = tasks \ {t} /\ ended' = ended \cup {"error"}
    /\ UNCHANGED <<environment, stage, wired, cancelled, closed>>

TaskFails(t) ==
    /\ t \in tasks \cap MayFail /\ ~cancelled
    /\ tasks' = tasks \ {t} /\ cancelled' = TRUE /\ ended' = ended \cup {"error"}
    /\ UNCHANGED <<environment, stage, wired, closed>>

\* Evaluators can panic: see NodeEvaluators.  The task is gone, and no one is told.
TaskPanics(t) ==
    /\ t \in tasks \cap {"evaluation"} /\ ~cancelled
    /\ tasks' = tasks \ {t} /\ ended' = ended \cup {"panic"}
    /\ UNCHANGED <<environment, stage, wired, cancelled, closed>>

\* select! drops the task's future when the token is cancelled.
TaskStops(t) ==
    /\ cancelled /\ t \in tasks
    /\ tasks' = tasks \ {t}
    /\ UNCHANGED <<environment, stage, wired, cancelled, closed, ended>>

\* The signal handler: a signal, or the token that a task has cancelled.
Listening == stage \in {"jetstream", "http", "serving"}

Signal ==
    /\ Listening /\ ~closed /\ ~cancelled
    /\ closed' = TRUE /\ cancelled' = TRUE
    /\ UNCHANGED <<environment, stage, wired, tasks, ended>>

Close ==
    /\ Listening /\ cancelled /\ ~closed
    /\ closed' = TRUE
    /\ UNCHANGED <<environment, stage, wired, tasks, cancelled, ended>>

\* tracker.wait()
MainEnds == stage = "serving" /\ closed /\ tasks = {} /\ Stop(Exited)

------------------------------------------------------------------------------
StartupInit ==
    /\ environment \in Environment
    /\ stage = "config"
    /\ wired = Nothing
    /\ tasks = {}
    /\ cancelled = FALSE /\ closed = FALSE
    /\ ended = {}

MainStep ==
    \/ ReadConfig \/ CheckScopes \/ CreatePool \/ ConnectDatabase \/ CreateDenyList
    \/ CreateResolver \/ Elect("webhook", "webhook election", "webhooks")
    \/ StartWebhooks \/ Elect("blueprint", "blueprint election", "scheduler election")
    \/ Elect("scheduler", "scheduler election", "tokens")
    \/ InitTokens \/ CreateQueue \/ CreateThrottler \/ CreateResults \/ StartTasks
    \/ ListenForSignals \/ StartJetstream \/ StartHttp \/ MainEnds

StartupNext ==
    \/ MainStep \/ Signal \/ Close
    \/ \E t \in Tasks : TaskFails(t) \/ TaskPanics(t) \/ TaskStops(t)

\* Whatever is left to do, some of it is done.
MainOrTask == MainStep \/ Close \/ \E t \in Tasks : TaskStops(t)
StartupFairness == WF_startupVars(MainOrTask)

StartupSpec == StartupInit /\ [][StartupNext]_startupVars /\ StartupFairness

------------------------------------------------------------------------------
\* No environment that Config::new accepts makes main() panic, and a service that
\* is up does what it was configured to, except that without a pool - no REDIS_URL,
\* or one that does not parse - elections and throttling are left out and cursors
\* go to the file.
StartsAsConfigured ==
    /\ stage # Panicked
    /\ stage = "serving" =>
        /\ wired.queue = settings.queueAdapter
        /\ wired.results = settings.results
        /\ wired.denies = (settings.denylist = "postgres")
        /\ wired.pool \/ settings.redisUrl # "sound"
        /\ wired.pool =>
              /\ wired.throttler = settings.throttler
              /\ \A s \in ScopeNames :
                    settings.leadership[s].enabled => s \in wired.elections
        /\ ~wired.pool => wired.queue = "mpsc" /\ wired.elections = {}

\* Two elections of this process want one lease under different ids.
Contend(s, t) ==
    /\ {s, t} \subseteq wired.elections /\ s # t
    /\ settings.leadership[s].key = settings.leadership[t].key
    /\ settings.leadership[s].id # settings.leadership[t].id

\* A key is set for the scope, or for all.
KeyIsGiven(s) ==
    environment.scopes[s].key # "absent" \/ environment.allScopes.key # "absent"

\* The elections of two scopes of a process contend for one lease - so that only
\* one of the two tasks runs, in the whole deployment - only where the scopes were
\* given one key and not one id: as by LEADERSHIP_ELECTION_KEY without
\* LEADERSHIP_INSTANCE_ID; or where one was given the key the other has by default.
ScopesElectApart ==
    \A s, t \in ScopeNames : Contend(s, t) =>
        /\ \/ KeyIsGiven(s) /\ KeyIsGiven(t)
           \/ environment.scopes[s].key = DefaultElectionKey(t)
           \/ environment.scopes[t].key = DefaultElectionKey(s)
        /\ environment.allScopes.id = "absent" \/ environment.scopes[s].id # "absent"
           \/ environment.scopes[t].id # "absent"

\* A task that ends with an error takes the service down with it.  (One that panics
\* does not.)
FailureStopsTheService == "error" \in ended ~> stage \in {Exited, Panicked}
==============================================================================
