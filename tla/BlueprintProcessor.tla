-------------------------- MODULE BlueprintProcessor --------------------------
(***************************************************************************)
(* src/processor.rs: which blueprints an event of the stream is submitted  *)
(* for.  The rows are read into a cache, grouped by the configuration of   *)
(* their entry nodes, when the processor starts and each time one of its   *)
(* workers does, and again when the API asks for it.  The API asks through *)
(* a bounded channel that one task of the binary serves, not more often    *)
(* than once in an interval.                                               *)
(***************************************************************************)
EXTENDS JetstreamEntry, SequencesExt

CONSTANTS Blueprint,       \* ATURIs, as a sequence: the order they are listed in
          EntryNode,       \* entry nodes a blueprint may have: see JetstreamEntry
          Commit,          \* the commits of the stream
          Worker,          \* the workers of the binary
          Instances,       \* total_instances
          InstanceId,      \* instance_id
          Strategy,        \* partition_strategy
          HashOf,          \* the hash of a string
          MaxCacheSize,    \* blueprint_cache_max_size
          ReloadCapacity,  \* capacity of the channel of reload requests
          MaxEdits         \* bound on the edits of the rows

\* An AT-URI is the key of its row, and there is at least one worker.
ASSUME ProcessorAssumption ==
    /\ Len(Blueprint) \in Nat /\ DOMAIN Blueprint = 1..Len(Blueprint)
    /\ \A i, j \in DOMAIN Blueprint : Blueprint[i] = Blueprint[j] => i = j
    /\ Worker # {} /\ Worker \cap {"reloader", "nobody"} = {}
    /\ MaxCacheSize \in Nat /\ ReloadCapacity \in Nat

\* Who loads the cache: the workers and the task that serves the requests.  The
\* binary's own load comes before any of them is spawned.
Reloader == "reloader"
Loader == Worker \cup {Reloader}

\* The nodes of a blueprint that is_valid() rejects, or whose first node is no
\* jetstream_entry; a blueprint that is not there.
NoEntry == [config |-> [did |-> NoFilter, collection |-> NoFilter],
            payload |-> [form |-> "none"]]

VARIABLES streaming,  \* whether the consumer of the stream is enabled
          enabled,    \* the blueprints with a row that is not disabled
          entry,      \* the first of its nodes
          loading,    \* what each loader has read so far
          cached,     \* the cache: a sequence of [aturi, entry]
          reloadAt,   \* whether the interval since the last reload has passed
          requests,   \* requests in the channel
          caller,     \* a handler of the API: "idle", or "edited" and to ask
          edits,      \* (bound)
          excused     \* (history) whether the cache may lag behind the rows

processorVars == <<streaming, enabled, entry, loading, cached, reloadAt, requests, caller,
                   edits, excused>>
rowVars == <<streaming, enabled, entry, edits>>

ATURI == ToSet(Blueprint)
\* What is left to read are places in the list.
NotLoading == [step |-> "none", todo |-> {}, got |-> <<>>, current |-> FALSE]

------------------------------------------------------------------------------
(* The partition.                                                           *)

\* PartitionConfig::should_process_event, by the key its strategy takes.
TargetOf(value) == HashOf[value] % Instances

PartitionKey(event) ==
    CASE Strategy = "did" -> event.did
      [] Strategy = "collection" -> event.collection
      [] Strategy = "round_robin" -> event.time
      [] OTHER -> event.custom

ShouldProcessEvent(event) ==
    Instances <= 1 \/ TargetOf(PartitionKey(event)) = InstanceId

\* (Mutant) what is not an array keeps nothing.
SomeArrayHere(f) == f.form = "array" /\ \E v \in f.values : TargetOf(v) = InstanceId

\* A filter that is not an array keeps its blueprint, and an array does if one
\* of its strings belongs to this instance.
SomeHere(f) ==
    f.form = "array" => \E v \in f.values : TargetOf(v) = InstanceId

CouldMatchPartition(config) ==
    \/ Instances <= 1
    \/ Strategy = "did" /\ SomeHere(config.did)
    \/ Strategy = "collection" /\ SomeHere(config.collection)
    \/ Strategy \notin {"did", "collection"}

------------------------------------------------------------------------------
(* load_blueprints_cache.                                                   *)

Loaded(b, node) == [aturi |-> b, entry |-> node]

AboutToLoad == [NotLoading EXCEPT !.step = "list"]

\* list_blueprints: who is disabled now is skipped, whatever happens later.
ListRows(l) ==
    /\ loading[l].step = "list"
    /\ loading' = [loading EXCEPT ![l] =
          [step |-> "nodes", got |-> <<>>, current |-> TRUE,
           todo |-> {k \in DOMAIN Blueprint : Blueprint[k] \in enabled}]]
    /\ UNCHANGED <<rowVars, cached, reloadAt, requests, caller, excused>>

\* A blueprint without two nodes, an entry and an action, has no entry here.
IsValid(b) == entry[b] # NoEntry

\* list_nodes of the next blueprint, and what the cache takes of it.
Wanted(b) == IsValid(b) /\ CouldMatchPartition(entry[b].config)

ListNodesOf(l) ==
    /\ loading[l].step = "nodes"
    /\ \E k \in loading[l].todo :
          /\ \A m \in loading[l].todo : k <= m
          /\ LET b == Blueprint[k]
             IN  loading' = [loading EXCEPT ![l] =
                     [step |-> "nodes", current |-> @.current, todo |-> @.todo \ {k},
                      got |-> IF Wanted(b) THEN Append(@.got, Loaded(b, entry[b])) ELSE @.got]]
    /\ UNCHANGED <<rowVars, cached, reloadAt, requests, caller, excused>>

\* A query fails: the load is given up, and the cache stays as it is.
LoadFails(l) ==
    /\ loading[l].step # "none"
    /\ loading' = [loading EXCEPT ![l] = NotLoading]
    /\ excused' = TRUE
    /\ UNCHANGED <<rowVars, cached, reloadAt, requests, caller>>

\* The caches are truncated and replaced, while no commit is being handled.
Replacement(got) == SubSeq(got, 1, IF Len(got) < MaxCacheSize THEN Len(got)
                                                             ELSE MaxCacheSize)

\* A reload is under way, asked for or about to be, not counting the load of l.
ReloadToCome(l) ==
    \/ \E k \in Loader \ {l} : loading[k].step # "none"
    \/ requests > 0 \/ caller = "edited"

\* A load may end after one that started later: the older rows win.
Install(l) ==
    /\ loading[l].step = "nodes" /\ loading[l].todo = {}
    /\ cached' = Replacement(loading[l].got)
    /\ loading' = [loading EXCEPT ![l] = NotLoading]
    /\ excused' = (~loading[l].current /\ (excused \/ ~ReloadToCome(l)))
    /\ UNCHANGED <<rowVars, reloadAt, requests, caller>>

Load(l) == ListRows(l) \/ ListNodesOf(l) \/ LoadFails(l) \/ Install(l)

------------------------------------------------------------------------------
(* trigger_cache_reload, and the task of the binary that calls it.          *)

\* (Mutant) the task ends when a load has failed, or was not made.
ServeUntilFailure ==
    /\ streaming /\ ~excused /\ requests > 0 /\ loading[Reloader].step = "none"
    /\ requests' = requests - 1
    /\ \/ /\ reloadAt
          /\ reloadAt' = FALSE
          /\ loading' = [loading EXCEPT ![Reloader] = AboutToLoad]
          /\ UNCHANGED excused
       \/ /\ ~reloadAt
          /\ excused' = TRUE
          /\ UNCHANGED <<reloadAt, loading>>
    /\ UNCHANGED <<rowVars, cached, caller>>

\* Only one request is served at a time, and none without a consumer: the channel
\* is there, and nobody reads it.  A request that comes within the
\* interval is dropped; the interval starts with the load, even if that fails.
ServeRequest ==
    /\ streaming /\ requests > 0 /\ loading[Reloader].step = "none"
    /\ requests' = requests - 1
    /\ \/ /\ reloadAt
          /\ reloadAt' = FALSE
          /\ loading' = [loading EXCEPT ![Reloader] = AboutToLoad]
          /\ UNCHANGED excused
       \/ /\ ~reloadAt
          /\ excused' = TRUE
          /\ UNCHANGED <<reloadAt, loading>>
    /\ UNCHANGED <<rowVars, cached, caller>>

IntervalPasses ==
    /\ ~reloadAt /\ reloadAt' = TRUE
    /\ UNCHANGED <<rowVars, loading, cached, requests, caller, excused>>

\* A handler of the API writes rows of a blueprint ...
Edit(b) ==
    /\ edits < MaxEdits /\ caller = "idle"
    /\ \/ /\ enabled' = IF b \in enabled THEN enabled \ {b} ELSE enabled \cup {b}
          /\ UNCHANGED entry
       \/ \E node \in (EntryNode \cup {NoEntry}) \ {entry[b]} :
             entry' = [entry EXCEPT ![b] = node] /\ UNCHANGED enabled
    /\ edits' = edits + 1 /\ UNCHANGED streaming
    /\ caller' = "edited"
    /\ loading' = [l \in Loader |-> [loading[l] EXCEPT !.current = FALSE]]
    /\ UNCHANGED <<cached, reloadAt, requests, excused>>

\* ... and then asks for a reload, waiting for room in the channel.
RequestReload ==
    /\ caller = "edited"
    /\ requests < ReloadCapacity
    /\ requests' = requests + 1
    /\ caller' = "idle"
    /\ UNCHANGED <<rowVars, loading, cached, reloadAt, excused>>

\* The server gives a request 30 seconds; the rows stay written.
RequestTimesOut ==
    /\ caller = "edited"
    /\ requests = ReloadCapacity
    /\ caller' = "idle"
    /\ excused' = TRUE
    /\ UNCHANGED <<rowVars, loading, cached, reloadAt, requests>>

------------------------------------------------------------------------------
(* handle_commit.                                                           *)

\* The configuration groups: blueprints whose entry nodes have the same
\* configuration, represented by the first of them.  (The payload of the node
\* is no part of the key.)
GroupsOf(cache) ==
    { { k \in DOMAIN cache : cache[k].entry.config = c } :
      c \in {cache[k].entry.config : k \in DOMAIN cache} }

First(group) == CHOOSE k \in group : \A m \in group : k <= m

\* (Mutant) only the representatives are submitted.
RepresentativesFor(commit) ==
    { cached[First(g)].aturi : g \in { h \in GroupsOf(cached) :
          EvaluateJetstreamEntry(cached[First(h)].entry, commit) = "pass" } }

\* The blueprints whose group's representative lets the commit pass.
MatchedBy(commit) ==
    { cached[k].aturi : k \in UNION { g \in GroupsOf(cached) :
          EvaluateJetstreamEntry(cached[First(g)].entry, commit) = "pass" } }

\* handle_commit reads the cache and leaves this state as it is.  What it hands to
\* the throttler and, unless that says no or cannot tell, to submit_blueprint:
HandleCommit(commit) ==
    IF streaming /\ ShouldProcessEvent(commit) THEN MatchedBy(commit) ELSE {}

------------------------------------------------------------------------------
\* The binary has loaded the cache and spawned the workers, each about to load, or
\* goes without them.
ProcessorInit ==
    /\ streaming \in BOOLEAN
    /\ enabled = ATURI
    /\ entry \in [ATURI -> EntryNode]
    /\ loading = [l \in Loader |->
          IF l \in Worker /\ streaming THEN AboutToLoad ELSE NotLoading]
    /\ cached = <<>>
    /\ reloadAt = TRUE
    /\ requests = 0
    /\ caller = "idle"
    /\ edits = 0
    /\ excused = FALSE

ProcessorNext ==
    \/ \E l \in Loader : Load(l)
    \/ ServeRequest \/ IntervalPasses \/ RequestReload \/ RequestTimesOut
    \/ \E b \in ATURI : Edit(b)

ProcessorFairness ==
    /\ WF_processorVars(ServeRequest)
    /\ WF_processorVars(RequestReload)
    /\ \A l \in Loader : WF_processorVars(Load(l))

ProcessorSpec == ProcessorInit /\ [][ProcessorNext]_processorVars /\ ProcessorFairness

------------------------------------------------------------------------------
\* The blueprints that are to react to some commit of this instance.
Interested(b) ==
    /\ b \in enabled /\ IsValid(b)
    /\ \E c \in Commit : ShouldProcessEvent(c)
                         /\ EvaluateJetstreamEntry(entry[b], c) = "pass"

InCache(b) == \E k \in DOMAIN cached : cached[k] = Loaded(b, entry[b])

NothingToCome == ~ReloadToCome("nobody")

\* Once every reload that was asked for is over, an enabled blueprint that reacts
\* to events of this instance is cached with the entry node it has, and nothing
\* else is cached - unless the cache is full, or a request came too soon after
\* another or never got into the channel, or a load failed, or an older load ended
\* last.  The partition's filter of blueprints never hides one from an event that
\* its filter of events lets through.
StaleHasAnExcuse ==
    streaming /\ NothingToCome /\ ~excused =>
        /\ Len(cached) < MaxCacheSize =>
              \A b \in ATURI : Interested(b) => InCache(b)
        /\ \A k \in DOMAIN cached :
              /\ cached[k].aturi \in enabled
              /\ cached[k].entry = entry[cached[k].aturi]

\* Another blueprint with the same configuration decides with another payload.
Represented(k) ==
    LET group == {m \in DOMAIN cached : cached[m].entry.config = cached[k].entry.config}
    IN  cached[First(group)].entry.payload # cached[k].entry.payload

\* A commit of this instance is submitted for exactly the cached blueprints whose
\* own entry node lets it pass - except those whose group another blueprint
\* represents, with the same configuration and another payload: they go with it.
EveryMatchIsSubmitted ==
    \A c \in Commit : streaming /\ ShouldProcessEvent(c) =>
        \A k \in DOMAIN cached : ~Represented(k) =>
            (cached[k].aturi \in HandleCommit(c)) <=>
                EvaluateJetstreamEntry(cached[k].entry, c) = "pass"

\* A handler that has written its rows gets through with its request: the channel
\* is emptied however many requests are dropped or fail - by a service that
\* consumes the stream.  In any other as many get through as the channel has room
\* for, and each later one waits for its timeout.
HandlerGetsThrough ==
    caller = "edited" /\ (streaming \/ requests < ReloadCapacity) ~> caller = "idle"
==============================================================================
