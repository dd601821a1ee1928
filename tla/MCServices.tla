------------------------------ MODULE MCServices ------------------------------
(***************************************************************************)
(* The parts of the service that share no state in these models, side by   *)
(* side: a behaviour is one of one part, chosen at the start, while the    *)
(* others rest in an initial state.                                        *)
(***************************************************************************)
EXTENDS BlueprintProcessor, EventIntake, DenyList, Throttle, NodeEvaluators,
        BlueprintApi, NodeStore, Prototypes, ServiceToken, Startup,
        Sessions, IdentityCache

VARIABLE part

Parts == {"processor", "intake", "deny", "throttle", "evaluators", "api", "nodes",
          "prototypes", "token", "startup", "sessions", "identity"}

serviceVars == <<part, processorVars, intakeVars, denyVars, throttleVars,
                 evaluatorVars, apiVars, nodeVars, prototypeVars, tokenVars,
                 startupVars, sessionVars, identityVars>>

------------------------------------------------------------------------------
(* Events: two instances, of which this is the first, and two workers.      *)

CONSTANTS blueprint1, blueprint2, worker1

TwoBlueprints == <<blueprint1, blueprint2>>
OneWorker == {worker1}

\* The repositories here and there hash to the two instances.
HashOfDid == [here |-> 0, there |-> 1]
CommitOf(n, did) ==
    [id |-> n, did |-> did, collection |-> "posts", time |-> "t", custom |-> ""]
TwoCommits == {CommitOf(1, "here"), CommitOf(2, "there")}

EntryFor(did, body) ==
    [config |-> [did |-> did, collection |-> NoFilter], payload |-> body]
Always == [form |-> "boolean", value |-> TRUE]
Logic(holds, fails) == [form |-> "object", holds |-> holds, fails |-> fails]

\* Filters of both forms, for this instance and for the other; and one filter with
\* payloads that disagree.
SomeEntries == {EntryFor(Filter("string", {"here"}), Always),
                EntryFor(Filter("array", {"there"}), Always),
                EntryFor(Filter("string", {"here"}), Logic({2}, {1}))}

EventOf(did, kind) ==
    [did |-> did, kind |-> kind, collection |-> "posts", mine |-> TRUE]
FourEvents == <<EventOf("alice", "commit"), EventOf("alice", "delete"),
                EventOf("bob", "commit"), EventOf("alice", "commit")>>
Bob == {"bob"}
Posts == {"posts"}

------------------------------------------------------------------------------
(* Limits: an authority has three in two minutes, its blueprint two in one. *)

SomeLimits == [authority |-> [limit |-> 3, window |-> 2],
               aturi |-> [limit |-> 2, window |-> 1]]

------------------------------------------------------------------------------
(* Nodes, sound and not.                                                    *)

\* A DID of a known method, one of another, and one that lacks its last part; a
\* collection, and three that are none.
SomeDids == [here |-> [parts |-> <<"did", "plc", "x">>, sound |-> TRUE],
             there |-> [parts |-> <<"did", "key", "x">>, sound |-> FALSE],
             short |-> [parts |-> <<"did", "key">>, sound |-> FALSE]]
Letters == <<"letter", "digit">>
SomeNsids == [posts |-> <<Letters, Letters>>, odd |-> <<Letters>>,
              digits |-> <<Letters, <<"digit">>>>,
              hyphens |-> <<Letters, <<"letter", "hyphen">>>>]

BaseConfig == [form |-> "object", did |-> NoFilter, collection |-> NoFilter,
               url |-> "none", headers |-> "none", recordKey |-> "none",
               cron |-> "none"]
Payloads == {[form |-> f] : f \in {"null", "number", "string"}}
    \cup {[form |-> "boolean", value |-> b] : b \in BOOLEAN}
    \cup {[form |-> "object", operator |-> b] : b \in BOOLEAN}
    \cup {[form |-> "array", elements |-> e] : e \in {"none", "objects", "mixed"}}

FiltersFor(values) == {NoFilter, Filter("string", values), Filter("array", {}),
                       Filter("other", {})}
ConfigsOf(type) ==
    {[form |-> "string"], BaseConfig} \cup
    CASE type = "jetstream_entry" ->
            {[BaseConfig EXCEPT !.did = d, !.collection = c] :
               d \in FiltersFor({"here"}) \cup FiltersFor({"there", "short"}),
               c \in {NoFilter} \cup {Filter("string", {n}) : n \in DOMAIN SomeNsids}}
      [] type = "publish_record" ->
            {[BaseConfig EXCEPT !.recordKey = k] : k \in {"string", "other"}}
      [] type = "publish_webhook" ->
            {[BaseConfig EXCEPT !.url = u, !.headers = h] :
               u \in {"none", "https", "other"}, h \in {"none", "strings", "mixed", "other"}}
      [] type = "periodic_entry" ->
            {[BaseConfig EXCEPT !.cron = k] : k \in {"fits", "other"}}
      [] OTHER -> {}
GoodConfig(type) ==
    CASE type = "publish_webhook" -> [BaseConfig EXCEPT !.url = "https"]
      [] type = "periodic_entry" -> [BaseConfig EXCEPT !.cron = "fits"]
      [] OTHER -> BaseConfig

ByPayload == {[type |-> t, config |-> GoodConfig(t), payload |-> p] :
                t \in NodeTypes \cup {"unknown"}, p \in Payloads}
ByConfig == UNION {{[type |-> t, config |-> c,
                     payload |-> [form |-> "object", operator |-> TRUE]] :
                      c \in ConfigsOf(t)} : t \in NodeTypes}
SomeNodes == ByPayload \cup ByConfig

SomeShapes == {<<"webhook_entry", "debug_action">>}

------------------------------------------------------------------------------
(* Prototypes of two placeholders, one required.                            *)

Holder(id, required, default) ==
    [id |-> id, required |-> required, default |-> default,
     wellNamed |-> TRUE, compiles |-> TRUE]
ValueText(tokens, fits) == [text |-> tokens, fits |-> fits]
FormOf(list, holders) == [nodes |-> list, isArray |-> TRUE, placeholders |-> holders,
                          owner |-> "nobody", shared |-> FALSE]
Typed(text) == [typed |-> TRUE, text |-> text]
BothIn == <<Typed({Reference("A"), Word("and"), Reference("B")}),
            Typed({Reference("B")})>>
RequiredA == Holder("A", TRUE, {ValueText({Word("default")}, TRUE)})
OptionalB == Holder("B", FALSE, {})
SoundForm == FormOf(BothIn, <<RequiredA, OptionalB>>)
SomeForms == {SoundForm, FormOf(BothIn, <<RequiredA>>),
              FormOf(BothIn, <<RequiredA, RequiredA, OptionalB>>),
              [SoundForm EXCEPT !.isArray = FALSE],
              [SoundForm EXCEPT !.nodes[2].typed = FALSE]}
OfA == {ValueText({Word("a")}, TRUE), ValueText({Reference("B")}, TRUE),
        ValueText({Word("odd")}, FALSE)}
OfB == {ValueText({Word("b")}, TRUE), ValueText({Reference("A")}, TRUE),
        ValueText({Word("odd")}, FALSE)}
SomeGiven == UNION {[ids -> OfA \cup OfB] : ids \in SUBSET {"A", "B"}}

------------------------------------------------------------------------------
(* Environments, each a few settings away from a plain one.                 *)

NoLimit == [limit |-> Absent, window |-> Absent]
Limited == [limit |-> Num(10), window |-> Num(1)]
NoScope == [enabled |-> FALSE, key |-> "absent", retry |-> Absent, ttl |-> Absent,
            id |-> "absent"]
Elected == [NoScope EXCEPT !.enabled = TRUE]
ScopeBy(key, id) == [Elected EXCEPT !.key = key, !.id = id]

PlainEnvironment ==
    [required |-> TRUE, issuer |-> "did", port |-> Absent, httpTimeout |-> Absent,
     identityCacheSize |-> Absent, identityCacheTtl |-> Absent, cacheReload |-> Absent,
     jetstream |-> FALSE, hostname |-> "absent", strategy |-> "absent",
     partition |-> [given |-> FALSE, parts |-> <<>>],
     instanceId |-> Absent, totalInstances |-> Absent, workers |-> Absent,
     redisUrl |-> "absent", cursorPath |-> FALSE,
     webhookQueue |-> FALSE, webhookQueueSize |-> Absent,
     queueAdapter |-> "absent", queueBuffer |-> Absent,
     healthCheck |-> FALSE, healthInterval |-> Absent, scheduler |-> FALSE,
     scopes |-> [s \in ScopeNames |-> NoScope], allScopes |-> NoScope,
     throttler |-> "absent", authority |-> NoLimit, aturi |-> NoLimit,
     authorityDefault |-> NoLimit, aturiDefault |-> NoLimit,
     results |-> "absent", resultsDirectory |-> FALSE, denylist |-> "absent",
     oauthScopes |-> {RepoScope("*")}, disabledTypes |-> {},
     publishCollections |-> {}]

Urls == {"absent", "sound", "malformed"}
BySetting ==
    {[PlainEnvironment EXCEPT !.required = FALSE],
     [PlainEnvironment EXCEPT !.issuer = "other"],
     [PlainEnvironment EXCEPT !.oauthScopes = {RepoScope("posts")},
                              !.publishCollections = {"likes"}],
     [PlainEnvironment EXCEPT !.results = "filesystem"],
     [PlainEnvironment EXCEPT !.results = "filesystem", !.resultsDirectory = TRUE],
     [PlainEnvironment EXCEPT !.denylist = "postgres"],
     [PlainEnvironment EXCEPT !.partition = [given |-> TRUE, parts |-> <<Num(1), Num(1)>>]],
     [PlainEnvironment EXCEPT !.webhookQueue = TRUE, !.webhookQueueSize = Num(0),
                              !.scheduler = TRUE],
     [PlainEnvironment EXCEPT !.queueBuffer = Num(0), !.jetstream = TRUE,
                              !.cursorPath = TRUE, !.healthCheck = TRUE]}
    \cup {[PlainEnvironment EXCEPT !.identityCacheSize = r] :
            r \in {Absent, Junk, Num(0), Num(1)}}
    \cup {[PlainEnvironment EXCEPT !.queueAdapter = a, !.redisUrl = u] :
            a \in {"mpsc", "redis", "other"}, u \in Urls}

ByThrottler ==
    {[PlainEnvironment EXCEPT !.throttler = k, !.redisUrl = u, !.authority = l,
                              !.authorityDefault = l, !.aturiDefault = Limited] :
       k \in {"noop", "redis", "redis-per-identity"}, u \in Urls,
       l \in {NoLimit, Limited, [Limited EXCEPT !.window = Absent],
              [Limited EXCEPT !.limit = Num(0)]}}

ByLeadership ==
    {[PlainEnvironment EXCEPT
        !.redisUrl = "sound",
        !.scopes = [s \in ScopeNames |-> CASE s = "webhook" -> w
                                           [] s = "scheduler" -> Elected
                                           [] OTHER -> NoScope],
        !.allScopes = [NoScope EXCEPT !.key = k, !.id = i, !.ttl = ttl]] :
       w \in {Elected, ScopeBy("mine", "absent"), ScopeBy("absent", "me"),
             ScopeBy("scheduler", "absent")},
       k \in {"absent", "all"}, i \in {"absent", "me"}, ttl \in {Absent, Num(30)}}

SomeEnvironments == {PlainEnvironment} \cup BySetting \cup ByThrottler \cup ByLeadership

------------------------------------------------------------------------------
ServicesInit ==
    /\ part \in Parts
    /\ ProcessorInit /\ entry[blueprint2] = EntryFor(Filter("string", {"here"}), Always)
    /\ (part # "processor" => ~streaming /\ entry[blueprint1] = entry[blueprint2])
    /\ IntakeInit /\ (part # "intake" => cursorStore = "redis")
    /\ DenyInit /\ (part # "deny" => table = {})
    /\ ThrottleInit
    /\ EvaluatorInit /\ (part # "evaluators" => datum = "null"
          /\ evaluated = CHOOSE n \in CheckedNode : n.type = "debug_action")
    /\ ApiInit /\ (part # "api" => row = NoRow)
    /\ NodeInit /\ (part # "nodes" => stored = NoNode)
    /\ PrototypeInit
    /\ TokenInit /\ (part # "token" => \A l \in Lifetimes : token.ends <= l)
    /\ StartupInit /\ (part # "startup" => environment = PlainEnvironment)
    /\ SessionInit /\ (part # "sessions" => party = "browser")
    /\ IdentityInit

RestOf(p) ==
    /\ part = p /\ UNCHANGED part
    /\ p = "processor" \/ UNCHANGED processorVars
    /\ p = "intake" \/ UNCHANGED intakeVars
    /\ p = "deny" \/ UNCHANGED denyVars
    /\ p = "throttle" \/ UNCHANGED throttleVars
    /\ p = "evaluators" \/ UNCHANGED evaluatorVars
    /\ p = "api" \/ UNCHANGED apiVars
    /\ p = "nodes" \/ UNCHANGED nodeVars
    /\ p = "prototypes" \/ UNCHANGED prototypeVars
    /\ p = "token" \/ UNCHANGED tokenVars
    /\ p = "startup" \/ UNCHANGED startupVars
    /\ p = "sessions" \/ UNCHANGED sessionVars
    /\ p = "identity" \/ UNCHANGED identityVars

ServicesNext ==
    \/ RestOf("processor") /\ ProcessorNext
    \/ RestOf("intake") /\ IntakeNext
    \/ RestOf("deny") /\ DenyNext
    \/ RestOf("throttle") /\ ThrottleNext
    \/ RestOf("evaluators") /\ EvaluatorNext
    \/ RestOf("api") /\ ApiNext
    \/ RestOf("nodes") /\ NodeNext
    \/ RestOf("prototypes") /\ PrototypeNext
    \/ RestOf("token") /\ TokenNext
    \/ RestOf("startup") /\ StartupNext
    \/ RestOf("sessions") /\ SessionNext
    \/ RestOf("identity") /\ IdentityNext

\* The fairness of the parts that have liveness properties, each while it runs.
ServicesFairness ==
    /\ WF_processorVars(part = "processor" /\ ServeRequest)
    /\ WF_processorVars(part = "processor" /\ RequestReload)
    /\ \A l \in Loader : WF_processorVars(part = "processor" /\ Load(l))
    /\ WF_startupVars(part = "startup" /\ MainOrTask)

ServicesSpec == ServicesInit /\ [][ServicesNext]_serviceVars /\ ServicesFairness

==============================================================================
