# ifthisthenat: a verification project

`ifthisthenat` runs *blueprints*: short pipelines of nodes, owned by users of the
AT Protocol, that are triggered by an event of the Jetstream firehose, a webhook
or a schedule, and that end by publishing a record or calling a webhook. Several
instances of the program may share one Postgres and one Redis. This directory
holds TLA+ models of its concurrent and fault-tolerant parts, the TLC
configurations that check them, and TLAPS proofs.

All paths below are relative to the repository.

## 1. Inventory

| Component | State it keeps | Operations | Hard behaviour | Correct when |
|---|---|---|---|---|
| **Leadership election** (`src/leadership.rs`, started in `src/bin/ifthisthenat.rs`) | one Redis key with a time to live; a local flag and two tickers per instance | acquire (`SET NX EX`), maintain (`GET` then `EXPIRE`), release (script), `is_leader` (`GET`) | non-atomic maintenance, lost replies, late commands, restarts under the same id, a release that is cancelled | whoever believes to lead owns the key; a lease ends by expiry or its owner's release; a vacancy is filled |
| **Redis work queue** (`src/queue_adapter/redis.rs`) | a primary list and one list per worker | push, pull (`RPOPLPUSH`), ack (`LREM`), `recover_worker_queue` | crash between any two commands, lost replies, recovery while others pull | nothing is lost, nothing is worked on by two workers at once, everything is settled in the end |
| **In-memory queue** (`src/queue_adapter/mpsc.rs`) | a bounded channel | push, try_push, pull | producers that wait for room | nobody waits for himself |
| **Blueprint evaluation** (`src/tasks/blueprint.rs`, `blueprint_adapter.rs`) | the queue, the item in hand | submit, forward, pull, gate, evaluate one node, push the next, ack, disable | the consumer feeds its own queue; blueprint edited meanwhile; leadership moves; crash | nodes run in order and at most once; what is settled stays settled; what is pending can be resumed |
| **Webhook delivery** (`src/tasks/webhook.rs`) | channel, permits, metrics | enqueue, pull, gate, request, retry, cancel | permits held across a backoff and a blocking push; time-outs | requests are bounded, every webhook ends, the metrics add up |
| **Scheduler** (`src/tasks/scheduler.rs`, `src/storage/scheduler_state.rs`) | rows of `scheduler_state`, a cache of periodic blueprints | load, initialise, gate, process due rows, update | queueing and updating are two steps; two instances; rows that outlive blueprints | a due run is queued, and once |
| **Jetstream consumer** (`src/consumer.rs`, run by `src/bin/ifthisthenat.rs`) | the cursor in Redis or a file, `last_known_cursor`, a channel per worker | filter by partition, denylist and collection, dispatch in turn, persist the cursor, reconnect | the cursor runs ahead of the workers; disconnects bring events back; crashes | what the cursor has passed is accounted for; overtaking is bounded |
| **Blueprint processor** (`src/processor.rs`, `src/http/context.rs`) | the matcher's cache, the channel of reload requests | match, throttle, submit, reload | reloads are dropped, fail and overlap; a bounded channel read by one task | after the last reload the cache is what the rows say; every match is submitted |
| **Denylist** (`src/denylist/`) | a table, a filter per instance | init page by page, exists, insert, delete | writes during the init and by other instances | what an instance denied itself it denies while the row is there |
| **Throttle** (`src/throttle.rs`) | counters in Redis | check the authority, then the AT-URI, count | `INCR` and `EXPIRE` are two commands; windows end; errors | no window admits more than its limit |
| **Blueprint and node storage, caches** (`src/storage/`) | rows; read-through caches with a time to live | get, list, create, update, delete, disable | the cache is filled after it was invalidated; updates of several rows | readers see a row that was current within the time to live and a few commands |
| **Blueprint API** (`src/http/handle_xrpc.rs`, `handle_blueprints.rs`, `handle_dashboard.rs`) | none of its own | sequences of storage commands | no transaction around them; the evaluator reads in between | no update of the owner is undone by the system, and none of the system by a stale write; the two orders of nodes agree |
| **Prototypes** (`src/prototype_service.rs`, `src/storage/prototype.rs`) | a prototype; the blueprints made from it | create, share, instantiate | command by command; values replaced one after the other | an instance has all its nodes in order and no reference left |
| **Node evaluators, validation** (`src/engine/`, `src/validation.rs`) | none | decisions per node type | the same shape is demanded twice, by other code | what is accepted can be evaluated; an object never panics |
| **Service token** (`src/atproto/auth.rs`) | one access token and a mutex | auth, refresh, exchange | several callers, margins, a retry | a call fails only by a request of its own |
| **Sessions and authentication** (`src/http/handle_auth.rs`, `src/http/auth.rs`, `src/storage/session.rs`) | rows of logins and sessions, a cookie, a cache of tokens | login, callback, check, logout | repeated and late callbacks; revoked tokens | a login makes one session, a cookie that lasts finds it |
| **Identity resolution** (`src/identity_cache.rs`) | a cache by subject, a storage by DID | resolve | concurrent resolutions of a DID and a handle | how old an answer may be |
| **Configuration** (`src/config.rs`) | none | some sixty variables | zero, junk, missing; per-scope fallbacks | what is accepted can be started |
| **Task management, the binary** (`src/tasks/manager.rs`, `src/bin/ifthisthenat.rs`) | tasks, a token, a tracker | start step by step, fail, shut down | tasks that end early, before the signal handler listens | a task that fails takes the service down |
| **Evaluation results, metrics, serialization, schema** | rows written and not read to decide | I/O | – | not modelled |

How they interact: the consumer feeds the processor, which submits events to the
evaluation queue; the scheduler and the webhook handler submit to the same queue;
the evaluation task reads blueprints through the caches the API handlers write,
pushes the next node to the queue it reads from, and enqueues webhooks; the
publishing node asks for the service token. A handler that has written rows asks
the processor, through a bounded channel, to reload. The evaluation, webhook and
scheduler tasks each ask an election of their own before every piece of work. One
cancellation token stops everything.

The hazards of this code, each at its line, are in `PROJECT.json` together with
the properties that would catch them going wrong; each of them has at least one.

## 2. Modules

| Module | Models | Composes |
|---|---|---|
| `LeaderLease` | *abstract*: who believes to lead owns the lease, and a lease passes to another owner only through a vacancy | |
| `LeadershipElection` | the Redis election: commands that take time, are executed, answered, lost or late; the loop of `LeadershipManager`; cancellation, crash, restart; discrete time | implements `LeaderLease` |
| `LeaderGate` | a task that asks `is_leader()` and then works for as long as it takes | `LeadershipElection` |
| `ReliableQueue` | *abstract*: an item waits, is leased to one worker, and is settled by it, or given back | |
| `RedisWorkQueue` | the two kinds of Redis list and a worker's protocol, with failures, lost replies, crashes, recovery | implements `ReliableQueue` |
| `BlueprintEvaluation` | submission, forwarder, evaluation task, either queue, gate, crash and restart | abstracts both queues and the election |
| `WebhookDelivery` | producer, channel, delivery task, deliveries with permits and retries, cancellation, exit | abstracts the election |
| `Scheduler` | the start and the loop of the scheduler on several instances, the rows of `scheduler_state`, owners who edit blueprints | abstracts the election and the queue |
| `BlueprintStore` | the row of a blueprint, the caches in front of it, requests and tasks that read, write, disable and delete it | |
| `JetstreamEntry` | *definitions*: which DIDs and collections are well-formed, and which commits an entry node lets pass | |
| `NodeValidation` | *definitions*: which nodes and lists of nodes `src/validation.rs` accepts | extends `JetstreamEntry` |
| `Settings` | *definitions*: which environments `Config::new` accepts, and what it makes of them | extends `NodeValidation` |
| `BlueprintProcessor` | rows, the matcher's cache, loads row by row, the reload channel and its interval, the match and the submission of a commit | extends `JetstreamEntry` |
| `EventIntake` | the consumer's two handlers, the workers and their channels, the cursor, disconnects and crashes | |
| `DenyList` | the table, the filters, their initialisation, inserts and deletes of several instances | |
| `Throttle` | both counters, command by command, windows, limits | |
| `NodeEvaluators` | what each type of node does to a value, by the value's form | extends `NodeValidation` |
| `BlueprintApi` | the handlers that write a blueprint and its nodes, and those that submit it, command by command | extends `NodeValidation` |
| `NodeStore` | the cached node storage | |
| `Prototypes` | creation, sharing and instantiation | |
| `ServiceToken` | the access token, its mutex, its callers | |
| `Startup` | `main()` stage by stage, the tasks, cancellation, exit | extends `Settings` |
| `Sessions` | the login, the callback, cookie and session, remembered tokens | |
| `IdentityCache` | resolutions through memory, storage and directory | |
| `MCServices` | *(model checking)* the last twelve state machines side by side | `BlueprintProcessor` … `IdentityCache` |

`MC*.tla` give the constants of a module small values; `*_proofs.tla` hold the
theorems: of a module of the same name, or of several: `Caches_proofs` is about
`BlueprintStore`, `NodeStore` and `IdentityCache`; `Events_proofs` about `EventIntake`,
`BlueprintProcessor` and `DenyList`; `Service_proofs` about `BlueprintApi`, `Throttle`,
`ServiceToken`, `Sessions`, `NodeEvaluators`, `Startup` and `Prototypes`.

### LeadershipElection

Redis is `owner` and `ttl`. The loop of an instance (`pc`) is in its `select!`, or
awaits the reply to one command; `reply` is what Redis answered, `age` for how
long the command has been awaited. `retry` and `heartbeat` count down to the next
tick of the two tokio intervals, whose first tick is immediate and which, being
late, burst (the default of tokio). A command may fail before or after Redis has
executed it (`RequestFails`), or be executed after its sender gave up
(`StrayArrives`). `Tick` lets one unit of time pass, but not beyond `MaxLatency`
for an awaited command nor while a loop has a tick to serve: this is the only
assumption on timing. `Cancel` has two outcomes because the task manager and the
election task select on the same token: the release may begin or be dropped.

A restart under the same instance id takes longer than a command of the dead
process may still be on its way.

### RedisWorkQueue

`primary` and `parked[w]` are the Redis lists, `pc` and `holding` a worker's
progress. `Pull` parks an item and hands it over in one command; `PullReplyLost`
parks it and hands nothing over. `RecoverOnStart` says whether a worker calls
`recover_worker_queue` when it starts. The documentation of the adapter tells a
worker to; the binary never does. Worker ids are distinct.

### BlueprintEvaluation

All events are for one blueprint. What the rows say is arbitrary at each reading,
for their owner may edit them at any time; what a node answers is arbitrary. An
event's `outcome` is settled by the line of code that decides it. `PullNone`
models the `Some(work) = pull()` pattern of `select!`: an answer `None` disables
that branch, and nothing but a cancellation is left to wait for. The Redis pull
answers `None` at once when the list is empty.

### WebhookDelivery

A webhook's `stage` is where its work item is: waiting to be sent into the queue,
queued, at the gate, waiting for a permit, in a request, backing off, waiting for
room. The stages `request`, `backoff` and `requeue` hold a permit. A response of
any status ends a webhook (`delivered` or `refused`), as in `send_webhook`, which
answers `Ok` for all of them. `Cancel` ends the delivery task at once: the wait
for pending deliveries is raced by the cancellation around it. `Exit` drops what
is left.

### Scheduler

Time is counted in the occurrences of each cron expression (`passed`): a row is
due when the occurrence it waits for has passed, and the next run is the one after
those that have passed. `plan` is what the nodes of a blueprint say now, `cache`
what an instance has read of it, `row` the row in Postgres. `Push` queues a run
and computes the next, `UpdateRunTimes` or `DisableRow` store it: a crash or a
failure may come between. How old a cache is, is not modelled: a task may reload
it (`Reload`) or keep it (`KeepCache`) in every round. `DisableRow` takes the read
and the write of the row as one step. The rows are initialised without asking the
gate (`CheckState`, `SaveState`); the gate itself is exclusive here, as
`OneInstanceProcesses` of `LeaderGate` has it. `runs` and `excuses` are history:
how often a run was queued, and how often its row was left behind or set back.

### BlueprintStore

One blueprint. A process is a request or a task; `pc` is the next command of its
operation and `held` the blueprint it carries from one command to the next. What a
handler reads before it writes back (`Hit` or `Fetch` and `Fill`, then `Update`)
may come from the cache. Errors of the cache are ignored, errors of Postgres and
dropped requests end the operation (`Abort`). `CacheOf` makes the cache shared
(Redis) or one of each instance. `Tick` makes entries and copies older; `MaxLatency`
bounds the time from one command of an operation to the next, and is the only
assumption on timing. `age`, the time since the row had a content, is history.
The instantiation of a prototype is in `Prototypes`: its blueprint has a fresh name.

### Events: EventIntake, BlueprintProcessor, JetstreamEntry

The stream is a sequence and the time of an event its place in it. The Jetstream
client gives each event to the handler that filters and dispatches it and to the one
that remembers its time (`handing`); the next event comes when both have returned.
`persisted` is the cursor in Redis or in the file (`cursorStore`); the file is
emptied before it is written, which is why `WriteCursorFile` is an action of its own.
`known` is read from the store only: a disconnect before the first cursor was
persisted resumes from the live stream. Which cursors survive a crash, and what of
the stream was missed, is history (`skipped`, `lost`).

In `BlueprintProcessor` a load reads the list of blueprints and then the nodes of
each, while owners go on editing; it replaces the cache at its end, so that of two
loads the last to end wins. The processor loads once, each worker once, and the task
`Reloader` when it is asked through the channel and the last load began long enough
ago; otherwise it drops the request. `streaming` is whether the consumer is enabled:
only then does anybody read the channel. Blueprints are grouped by the configuration
of their entry; the payload asked is that of the first of the group. `EvaluateJetstreamEntry`
is the decision itself, for both forms of a filter and each form of a payload.

### DenyList, Throttle

A filter is a set: one without false positives, which a second look at the table
would correct. `FillPage` reads what `ListPage` gives, whose cursor is the row after
the page. A call of the throttler counts the authority and then the
AT-URI, each by `INCR` and, for the first, `EXPIRE`; any command may fail. What the
caller makes of an error differs: the processor skips the event (`Fail`), the webhook
handler goes on (`ProceedAnyway`).

### Nodes: NodeValidation, NodeEvaluators, BlueprintApi, NodeStore, Prototypes

A JSON value is its form; of a configuration there is what the code looks at. An
evaluation passes a value on, stops, or ends with the reason of its error: the node
is not as the evaluator wants it, the value is not, something external failed, or the
thread panics. `EvaluateNext` evaluates one more node, `EvaluateAlone` any node on a
value of any form.

A handler of `BlueprintApi` checks its request against what it reads and then has a
list of commands to send (`doing`); `Proceed` sends the next, `CommandFails` ends the
handler where it is. `nodes` are listed in the order of their creation, `row` is
`node_order`. `NodeStore` has the commands of `CachedNodeStorage` between a table and
a cache of single nodes and of lists; the binary wires the plain storage at present,
the module is for the cached one that is kept beside it. In `Prototypes` a text is the
set of the words and of the references to placeholders in it: where they stand changes
nothing. Values are put in one after the other, in any order, for the code iterates over
a hash map, so that what one value brings in the next may replace.

### ServiceToken, Sessions, IdentityCache

`ServiceToken` keeps when a token ends for the server and when for the manager, with
the margins as constants; looking, waiting for the mutex, refreshing and exchanging
are steps of their own. `Sessions` has one browser, or one client: logins, callbacks
that come twice, cookies, rows that end, and the provider's tokens with the time they
are remembered. Revocation is the provider's and may come at any time. In
`IdentityCache` a document is the hour the directory gave it; memory is by subject,
the storage by DID, and every cache may drop what it has.

### Settings, Startup

`ConfigOf` makes the settings of an environment that `Accepted` accepts: numbers that
are absent, junk or there, words, and the fallbacks of each scope of the election.
`Startup` follows `main()` from there: each stage wires something or fails; tasks are
spawned in the code's order and may end in success, with an error or by a panic at
any time; the error cancels the token, the tracker waits for all, the process exits.

### MCServices

The twelve modules from `BlueprintProcessor` to `IdentityCache` share no variable. One
run checks them all: `part` is chosen in the initial state, only that part moves, and
the others rest in one initial state of theirs. The states are the disjoint union of
the parts', not their product; each property speaks of one part and is checked over
all behaviours of that part.

## 3. Runs

| Run | Instance | What it shows |
|---|---|---|
| `election` | 2 instances, every fault, TTL 9, retry 3, latency 1, one late command | a loop that believes to lead owns the key; leases end only by expiry or release by their owner; the election implements `LeaderLease`; vacancies are filled; a lease its owner does not know of ends |
| `gate` | the same, crashes only | two gated tasks never work at once, though work is longer than a lease |
| `queue` | 2 workers, 3 items of which one is malformed, 3 faults | nothing lost, no concurrent delivery, implements `ReliableQueue`, at least once |
| `queue_norecovery` | 2 workers, 2 items, 2 faults, no recovery | **violated**: what a crashed worker had parked is never delivered |
| `evaluation` | in memory, 3 events, 3 nodes, channel of 2, gate, crashes | every accepted event is settled: who feeds its own bounded queue never waits for itself |
| `evaluation_redis` | 2 instances, 2 events, 2 nodes, failures, crashes, gate | order, finality, and a pending event can always be resumed |
| `evaluation_halt` | Redis, 1 event, no failure | **violated**: the task halts at the first empty pull |
| `delivery` | 4 webhooks with 0 to 2 retries, queue of 1, 1 permit, gate, cancellation | the retries made, the attempts and the metrics agree; every webhook ends |
| `scheduler` | 2 instances, 2 blueprints of which one is edited, 1 cron expression that may end, 1 occurrence, 1 fault | a run is queued again only when its row could not be moved or was set back; no due run is passed over; rows of blueprints that are gone keep none waiting |
| `scheduler_new` | 1 instance, 1 blueprint, no fault | **violated**: a blueprint that becomes periodic after the start is never scheduled |
| `store` | 2 processes on 1 cache, TTL 2, latency 1 | what is cached is not older than a bound; a disabled blueprint is not enabled by an old copy; the caches converge |
| `services` | twelve parts, one at a time, see below | the table below |

| Part of `services` | Instance | Properties |
|---|---|---|
| `BlueprintProcessor` | 2 blueprints, 1 worker beside the reloader, channel of 1, 2 edits, 2 commits of which one belongs to the other instance | `StaleHasAnExcuse`: once every reload is over, the cache is what the rows say unless a request was dropped, a load failed, or an older load ended last. `EveryMatchIsSubmitted`: a commit goes to the blueprints whose own entry passes it, except those another of the same configuration represents. `HandlerGetsThrough`: the handler that asks for a reload gets through, if the consumer is enabled or the channel has room |
| `EventIntake` | 4 events, 2 workers, channels of 1, 1 disconnect or crash | `EventsAccountedFor`: behind the cursor every event was handled, is in hand, was before the first cursor, or was lost to a crash, which loses no more than channels and hands hold. `OvertakingIsBounded` |
| `DenyList` | 2 instances, 3 items, pages of 1, 2 writes | `FilterIsExplained`: a filter has all rows but the one after each full page, and whatever was inserted through its own instance |
| `Throttle` | 2 callers, 3 in two minutes for the authority, 2 in one for the AT-URI, 4 calls | `LimitsHold` |
| `NodeEvaluators` | every type with every form of payload and configuration; chains of 2 | `AcceptedNodesFit`: an accepted node suits its evaluator, but for three omissions. `ObjectsNeverPanic` |
| `BlueprintApi` | 2 handlers at once, 4 nodes | `OrderIsCreationOrder`: `node_order` and the list of nodes agree when nobody is at work, and no evaluation is misled, unless handlers overlapped, a command failed, or a client asked for it |
| `NodeStore` | 2 processes, TTL 1, delay 1 | `NodesAreRecent`: what is cached was in the table a TTL and the delay of one command ago at most |
| `Prototypes` | 2 users, 5 forms, values that are sound, do not fit, or bring in a reference | `InstanceIsWhole` |
| `ServiceToken` | 2 callers, tokens of 2 or 4, every margin | `AuthGetsThrough` |
| `Startup` | about 80 environments | `StartsAsConfigured`: nothing that is accepted panics, and what runs is what was asked for. `ScopesElectApart`. `FailureStopsTheService` |
| `Sessions` | 1 login, 2 callbacks, 2 requests, tokens of 1 and 3 | `WhoAsksIsKnown`: one session of a login, cookies that last find it, a revoked token is accepted no longer than it is remembered and a request lasts |
| `IdentityCache` | 2 callers, a DID and its handle, TTL 1 | `DocumentsAreBounded` |

**Bounds and why they are enough.** Two instances are the least that compete;
each of the races of the election is between one holder and one successor. A TTL
of 9 with a heartbeat of 3 and a latency of 1 leaves room for both slow and
missed heartbeats; a smaller TTL of 6 with a heartbeat of 2 would make time stand
still for a loop whose every round takes longer than its period. The queue needs
an item per place (waiting, parked by one, parked by the other). Channels are
smaller than the work they get, so they do fill up. `MaxFaults`, `MaxStray`,
`MaxNodes` and the finite sets of events and webhooks bound the counters.

One occurrence is enough for a run to become due, be queued, and be queued again;
one fault leaves a row behind or stops an instance between two steps; the second
instance sets back the row of the first. In the store, a TTL of 2 and a latency of
1 keep the lifetime of an entry and the delay of a command apart; one `Revision`
suffices, for the contents enabled, disabled and absent already differ. Several
caches and more processes are left to the proof.

In `services`, each part has the two actors a race takes and the smallest capacity that
can be full: a channel of 1, a page of 1, a limit of 2 under one of 3. Two edits are
what it takes for a reload to come too soon; four events fill both hands and channels
of the workers, and one break shows both what comes back and what is lost; the
faults that only lose answers (`Unreliable`) are off there and add no other kind of
loss. Four nodes are two lists of a blueprint. Times to live, margins and delays are as
small as keeps them apart, and the clocks (`MaxTime`, `MaxClock`, `MaxMoment`,
`MaxHour`) go on for longer than all of them together; `MaxEdits`, `MaxBreaks`,
`MaxWrites`, `MaxCalls`, `MaxChain`, `MaxBirths` and `MaxRequests` bound the histories.

**Fairness.** Election: loops that can run do, an awaited command is answered or
fails, time passes (strongly, since it is disabled whenever something is urgent),
and a loop that tries to acquire again and again is heard by Redis at some time;
nothing is assumed of starts, stops and late commands. Queue: workers are
scheduled and restarted, and a worker that tries to pull or recover again and
again succeeds at some time. Evaluation and delivery: every task is scheduled and
every call it awaits returns, as tokio does and as the time-outs of requests make
sure; the delivery needs no fairness between those waiting for a permit or for
room, for their number is finite.
Scheduler: every task is scheduled and every call it awaits returns, and a task that
passes the reload again and again reloads at some time, for the cache's age of 60
seconds is reached; nothing is assumed of the election, edits, crashes or restarts.
Store: time passes, and an operation that was begun goes on or is dropped.
Services: the task that serves reload requests, the request itself and the loads go
on, and so do `main()` and the tasks of the service, as tokio runs what is ready and
every query ends; no other part has fairness, and nothing is assumed of failures.

**Deadlock** is checked except where the system really ends: `delivery` exits;
in `evaluation` and `evaluation_halt` all events may be settled and a task may
have halted; in `services` the process exits and the bounded histories end.

## 4. Findings

* `evaluation_halt`: with `BLUEPRINT_QUEUE` on Redis the evaluation task stops
  pulling for ever at the first empty answer (`src/tasks/blueprint.rs:108`).
* `queue_norecovery`: the binary never recovers worker lists, against the
  "Reliable" and "Recoverable" of `src/queue_adapter/redis.rs:11-12`.
* `scheduler_new`: rows of `scheduler_state` are created only at the start of the
  task (`src/tasks/scheduler.rs:165`), although the loop is said to evaluate
  "blueprints that have never run before" (lines 83-84).

Seen while modelling, without a run of their own: `update_blueprint` of a row that
does not exist succeeds and caches it (`src/storage/blueprint.rs:261` expects an
error); a row of the scheduler that was disabled is never enabled again, an edited
schedule takes effect after the old next run only, and a row that cannot be read
at the start is replaced; a full channel answers "Queue
capacity exceeded", in which `blueprint.rs:297` looks for "full", so the retry
never happens; an instance that does not lead acknowledges and drops what it
pulls (evaluation and webhooks), also from the queue it shares with the leader; a
gated task that outlives a failed heartbeat may overlap with the next leader's;
the release at shutdown may be dropped by the task manager; HTTP 500 counts as a
delivered webhook; `WEBHOOK_MAX_RETRIES` is read and never used.

Of the parts of `services` (the properties named state the code as it is, with the
case below as an exception or a bound):

* Events. A disconnect before the first cursor was persisted, and any disconnect
  without a cursor store, resumes at the live stream: what came meanwhile is skipped
  (`EventsAccountedFor`). Blueprints are grouped by configuration alone
  (`src/processor.rs:46-61`), though their payloads differ (`EveryMatchIsSubmitted`).
  A reload that comes too soon is dropped, not deferred. `JETSTREAM_ENABLED` is on by
  default in `README.md:205`, off in `docs/configuration.md:128` and in the code; with
  it off nobody empties the reload channel, and each edit beyond its ten places waits
  for its time-out (`src/http/context.rs:100`, `HandlerGetsThrough`).
* Denylist. The cursor of a page is the item after it, which the next page skips
  (`src/denylist/postgres.rs:245`); an item another instance denies is not in the
  filter until a restart (`FilterIsExplained`).
* Throttle. On an error of the throttler the processor skips the event and
  `handle_webhook` goes on. The call that the AT-URI's limit refuses has used up one of
  the authority's.
* Nodes. `parse_aturi` and `facet_text` panic on a value that is neither an object nor
  null (`ObjectsNeverPanic`). Nothing checks a cron expression, the payload of
  `sentiment_analysis` or the headers of `publish_webhook` before they are evaluated
  (`AcceptedNodesFit`). Evaluation starts by creation time and goes on by `node_order`
  (`OrderIsCreationOrder`). A failed instantiation leaves an enabled blueprint without
  an order; values of optional placeholders are not checked (`InstanceIsWhole`).
* Configuration. `docs/production.env:194-199` promises independent elections, and
  line 202 and `docs/configuration.md:336` give one
  `LEADERSHIP_ELECTION_KEY` for all scopes: without `LEADERSHIP_INSTANCE_ID` the scopes
  of one process then contend for one lease (`src/leadership.rs:147`,
  `ScopesElectApart`). The Redis queue without `REDIS_URL` is accepted, and refused at
  start-up; the Redis throttlers fall back to none if the URL does not parse;
  `REDIS_CURSOR_TTL_SECONDS=0` is accepted; an id of `JETSTREAM_PARTITION` that does
  not parse is 0.
* Tasks. `src/tasks/manager.rs:1-6` promises automatic shutdown on the failure of a
  task; a task that panics is not noticed (`FailureStopsTheService` is about errors).
* Identities. `IDENTITY_CACHE_TTL_MINUTES` (`docs/configuration.md:273`) does not bound
  the age of what a DID resolves to, for the storage behind the cache has no end and
  what it holds is cached anew (`src/identity_cache.rs:96`, `DocumentsAreBounded`).
* Sessions. Rows of sessions and logins are never deleted (`delete_session` and the
  clean-ups have no caller), the logout removes the cookie only; no code stores the
  kind of session that `get_app_password_status` looks for. `handle_webhook_with_aturi`
  has no route.

## 5. Proofs

Every invariant a passing run checks is a theorem, and so are the action properties and both refinements. None bounds the number of actors, items or
steps: the bounds that the modules put on histories are constants, and any will do.

**The election** (`LeadershipElection_proofs`), for any finite or infinite set of
instances and any constants satisfying `ElectionAssumption`: `TypeCorrect`;
`LeaseEndings`; and, with `Timely` (a heartbeat interval and three latencies fit in a
lease), `LeadersHoldTheLease` and `ElectionImplementsLease`. `LeaderHoldsLease` is not
inductive: nothing in it says that the lease lasts until the loop has renewed it.
`LeaseInv` adds, for each state of a leading loop, how much time the lease has
left at least: in `select!` more than two latencies beyond the next heartbeat,
awaiting `GET` two latencies, awaiting `EXPIRE` one. It also says that only a
process that is down leaves a release behind, without which a late script could
delete the lease its own restarted instance has acquired.

`GateAdmitsOne` is about `LeaderGate`, with `Timely` and `Faults \subseteq {"crash"}`. Its
invariant `GateInv` says that who owns the key holds the lease unless it is down, and who
works holds it. The second assumption is needed, not convenient: a loop that gives up
after a command that failed does not call back the task that has passed the gate, a loop
that is cancelled releases the key while the task works, and an instance that comes back
under its old id owns a lease it does not know of.

**The queue** (`RedisWorkQueue_proofs`), for any workers and items: `QueueCorrect`
(types and the inductive invariant), `QueueLosesNothing`, `QueueDeliversToOne`,
`QueueImplementsPromise`. The inductive invariant `QueueInv` adds to the two
safety properties that an item is in one place and that a worker works on what
it has parked.

**The evaluation** (`BlueprintEvaluation_proofs`), for any instances, events, pipelines
and capacities, with either adapter, with or without gate, failures and crashes:
`EvaluationCorrect`, `EvaluatedInOrder`, `DecisionsAreFinal`, `PendingResumes`. That nodes
are evaluated in order does not follow from itself: a second work item of the same event
would repeat a node. `EvalInv` says that the work of an event is alive (in a channel, in
the shared list, or with a task that has not decided yet) in one place at most, only while
the event is pending, and is for the node after those evaluated. What is parked in Redis
is not alive: without recovery nothing takes it from there. Each step moves the work of one
event (`Moved`) or ends its life, and leaves that of the others where it is. For
`PendingCanResume` `ResumeInv` adds where the work is when it is alive nowhere: parked by
an instance that is not acknowledging it, as the one that died with it left it.

**The delivery** (`WebhookDelivery_proofs`), for any webhooks, retries, permits and
capacities: `DeliveryCorrect`, `RetriesCounted`. A retry travels as a count in a work item,
which says nothing of the requests made; `DeliveryInv` adds that each webhook is in one
place (the channel has it once, and only when its stage says so), that its count there is
the number of requests that have failed, and that the sets of webhooks that have ended in
each way are finite and of the size of their metric.

**The scheduler** (`Scheduler_proofs`), for any instances, blueprints, schedules and
failures: `SchedulerCorrect`, `RepeatsAreExcused`, `DueRunsWait`. `RepeatsHaveAnExcuse`
speaks of history alone. `SchedulerInv` relates it to the rows: the run a row waits for
has an excuse for each time it was queued before, unless its row is about to be moved; no
run without a row was queued; what a task has fetched and not yet looked at is due and was
not queued without an excuse; and only the leader is processing rows.

**The caches** (`Caches_proofs`), for any processes, caches, times to live and latencies:
`StoreCorrect`, `CachesAreRecent`, `DisabledStaysDisabled`. The inductive invariant
`StoreInv` adds to the bound on what is cached one on what each process holds, by
the command it is about to send: what will be cached must be recent enough to stay
for a whole time to live. `NodeStoreCorrect`, `CachedNodesAreRecent`: a read that missed
the cache and is about to fill it may bring back what a write has just invalidated;
`NodeInv` adds that what it carries was in the table no longer ago than the fill has been
on its way, which is the delay of one command at most. `ResolverCorrect`,
`AnswersAreBounded`: `IdentityInv` adds that what memory holds is founded - what it holds
of a handle was resolved when it was cached, what it holds of a DID was then in the
storage - and that what a resolution is about to cache it has found in this very hour.

**The events** (`Events_proofs`).
* `IntakeCorrect`, `EventsAlwaysAccounted`, `OvertakingAlwaysBounded`, for any stream,
  workers and channels with at least one of each, however often the connection breaks or
  the process dies. `AccountInv` says of each cursor the stream may be resumed from - the
  persisted one, the remembered one, and the place of the consumer - that what lies behind
  it is accounted for. The bound on overtaking is the hard one: `OvertakingInv` counts, for
  an event at place `i` of worker `w`, what has overtaken it together with whatever still
  may, which is what lies before the same turn with the other workers, and after a
  disconnect also what came from the stream before (`CleanInv` has the case in which no
  event is in two places).
* `ProcessorCorrect`, `StaleAlwaysExcused`, `MatchesAlwaysSubmitted`, for any blueprints,
  caches and loads. `ProcessorInv` says of a load since whose list the rows were not edited
  that what it has read is of the rows, and that what is left on its list completes it. The
  cache itself is sound only when nothing is to come, and the last load to end replaces it.
* `DenyListCorrect`, `FilterAlwaysExplained`, for tables and pages of any size: while an
  instance fills its filter and nobody writes, its cursor stands at a multiple of a page
  and one row, and the filter has the rows before it, without the last of each such group.

**The service** (`Service_proofs`).
* `ThrottleCorrect`, `LimitsAreKept`, for any limits, windows and callers: the counter of a
  key is at least the number of those admitted under it and of the calls that have passed
  its check and not yet returned, until its window is over; no key expires before.
* `TokenCorrect`, `CallsGetThrough`, for any callers and lifetimes and any margins for which
  `TokenAssumption` holds (the floor is longer than the early refresh; a second attempt
  exists): after a refusal the token a call finds is newer than its own first, or it
  refreshes it itself, so it lasts for longer than the rest of the call.
* `SessionsCorrect`, `WhoAsksAlwaysKnown`, for any browsers, callbacks and clients. `OneStores`:
  of the callbacks of a login one at most has exchanged the code; `CacheInv`: what is
  remembered of a revoked token ends a request and a remembrance after the revocation.
* `EvaluatorsCorrect`, `AcceptedAlwaysFit`, `ObjectsAreSafe`, for any nodes and chains of any
  length: by the results of each type of node (`EachEvaluator`).
* `StartupCorrect`, `AlwaysStartsAsConfigured`, `ScopesAlwaysElectApart`, in every
  environment. `WiredSoFar` says what has been put together by each stage of `main()`; the
  lemma `AcceptedIsEnough` that what `main()` unwraps an accepted configuration has.
* `PrototypesCorrect`, `InstancesAreWhole`, for any prototypes, values and orders of
  replacement. `ReplacedTokens` is the lemma: what is in a text after the replacements was
  there before or is of a value, and a reference that is replaced is left only if a value
  brings it in.
* `HandlersLeadToOrder`, `OrdersAgree`, for any handlers and requests and any lists of
  nodes. `OrderIsCreationOrder` speaks of the moments when nobody writes. `ApiInv` says of
  the commands a handler that has the blueprint for itself has left to send what they make
  of the rows: an update or a creation stores all nodes of a list in the order of their
  creation once what was there is cleared (`Filling`), a deletion drops the row
  (`Deleting`), any other change comes to an order and nodes that agree, each command being
  done or still to do (`Editing`). The lemmas say that an order and its nodes still agree
  after a node is stored again, added last (`AppendAgrees`) or taken out of both
  (`WithoutAgrees`), and that `list_nodes` then lists the order (`ListingAgrees`, for which
  `InOrderIs` shows that an increasing sequence is the only one `InOrder` can give).

**Assumptions.** Each is named and stands in the module that declares the constants, and
TLC evaluates it in the runs. They say what a `usize`, a `Vec` or a channel is (numbers that
are natural, sequences that are finite, capacities that are not zero), that a model value
for "nobody" or "none" is not one of the instances or rows, and the relations between
margins that the constants of the code have: `Timely` and `TokenAssumption` are the only
ones of that kind.

**What the proofs have changed.** `OvertakingIsBounded` had a bound that held for one disconnect
and the small channels of the run only; it is now `(2 Workers - 1)(Buffer + 1) - 1`.
`ScopesElectApart` left out the environment in which a scope is given the key that another
has by default. `AuthGetsThrough` counted the time of a call from its last attempt, and said
nothing of a token that the floor keeps in use beyond its end, which is now known as `kept`.
`InstanceIsWhole` asked less of what is in a stored node, and now wants a source for each
token. `SetToSeqs`, `SetToSortSeq` and `Seq` of an enumerated set gave way to functions of
numbers, about which the provers know more.

**Only model-checked.** Liveness: `VacancyIsFilled`, `UnheldLeaseEnds`, `AtLeastOnce`,
`PendingIsSettled`, `EveryWebhookEnds`, `DueRowsAreHandled`, `CachesConverge`,
`HandlerGetsThrough`, `FailureStopsTheService`; liveness under fairness is out of the
prover's reach. Every invariant that a passing run checks is a theorem.

The induction theorems of the library, which take an operator, are out of reach as well.
Where a proof needs induction over numbers it takes the least of a set of numbers
(`Least`, from the well-foundedness of `<`): of the counterexamples, or, in
`ReplacedTokens`, of the places from which on a token stays.

## 6. Not modelled

Formatting, JSON and HTTP; the contents of payloads. In the queue: texts that do
not survive a round trip through `serde_json` (`LREM` would not find them), shared
worker ids, `clear_worker_queue` (never called). In the evaluation: the arm that
clears an old error (no writer leaves a row both enabled and with an error) and
the retry of a full channel (unreachable). In the delivery: the length of a
backoff. In the scheduler: `cleanup_stale_states` (never called). In the stores: lists
of many blueprints and counts, which bypass the caches.

In the API and the dashboard: pages that only show rows. In the evaluators: what JSON
logic, its custom operators and the sentiment model compute, and the positions of
facets in a text; services answer anything. In the prototypes: counters of uses, and
what no handler calls. In the sessions: the pages that set an app password, which keep
nothing. In the configuration: names that end up in texts only. The log of evaluation
results, metrics and error types decide nothing; migrations, charts, templates, tests
and benches are not part of the running program.

The parts of `services` are not composed with each other: the hand-over from the
processor to the evaluation queue is the submission of `BlueprintEvaluation`, the cached
rows the evaluation reads are arbitrary there, and the gate is composed once, in
`LeaderGate`.

## 7. Plan

1. `LeadershipElection`, `LeaderLease`, `LeaderGate` – done, proved.
2. `RedisWorkQueue`, `ReliableQueue`, `BlueprintEvaluation` – done, proved.
3. `WebhookDelivery`, `Scheduler` – done, proved.
4. `BlueprintStore`, `NodeStore` and `BlueprintApi` – done, proved.
5. `EventIntake`, `BlueprintProcessor`, `DenyList`, `Throttle` – done, proved.
6. `NodeValidation`, `NodeEvaluators`, `Prototypes`, `ServiceToken`, `Sessions`,
   `IdentityCache`, `Settings`, `Startup` – done, proved.
7. Left: a refinement of `EventIntake` and `BlueprintEvaluation` to one abstract pipeline
   from the event to the evaluated node, for which the two would have to be composed.
