------------------------------- MODULE Settings -------------------------------
(***************************************************************************)
(* src/config.rs and the configuration of src/leadership.rs: which         *)
(* environments Config::new accepts, and what it makes of them.  A number  *)
(* in the environment is not there, does not parse, or is a number; a text *)
(* is one of the few words the code tells apart.                           *)
(***************************************************************************)
EXTENDS NodeValidation

Absent == [is |-> "absent", n |-> 0]
Junk == [is |-> "junk", n |-> 0]
Num(n) == [is |-> "number", n |-> n]

\* var(..).unwrap_or(default).parse().unwrap_or(default).max(least)
OrElse(raw, default, least) ==
    LET n == IF raw.is = "number" THEN raw.n ELSE default
    IN  IF n < least THEN least ELSE n

\* var(first).or_else(var(common)): a text that does not parse is still there.
FirstOf(first, common) == IF first.is = "absent" THEN common ELSE first

\* (Mutant) zero is a number like any other.
AnyNumber(raw) == raw.is # "junk"

\* The TryFrom of a size, a TTL or an interval.
Positive(raw) == raw.is = "absent" \/ (raw.is = "number" /\ raw.n > 0)

------------------------------------------------------------------------------
(* JetstreamConfig.                                                         *)

\* from_env: JETSTREAM_PARTITION, "id/total", or else the two variables.  What
\* is no number makes instance 0, or one instance.
PartitionOf(env) ==
    IF env.partition.given
    THEN IF Len(env.partition.parts) # 2 THEN [id |-> 0, total |-> 1]
         ELSE [id |-> OrElse(env.partition.parts[1], 0, 0),
               total |-> OrElse(env.partition.parts[2], 1, 1)]
    ELSE [id |-> OrElse(env.instanceId, 0, 0),
          total |-> OrElse(env.totalInstances, 1, 1)]

\* PartitionKeyStrategy::from_string.
Strategies == {"did", "collection", "round_robin", "custom"}

ValidJetstream(env) ==
    /\ PartitionOf(env).id < PartitionOf(env).total
    /\ env.strategy \in Strategies \cup {"absent"}
    /\ env.jetstream => env.hostname # "empty"

------------------------------------------------------------------------------
(* LeadershipConfig, of each scope.                                         *)

ScopeNames == {"blueprint", "webhook", "scheduler"}
DrawnId == [blueprint |-> "id 1", webhook |-> "id 2", scheduler |-> "id 3"]

\* (Mutant) the scopes forget to differ.
OneElectionKey(scope) == "leadership"

\* LeadershipScope::default_election_key.
DefaultElectionKey(scope) == scope

\* from_env_for_scope: a variable of the scope, or else the one all scopes share,
\* or else the default.  Without an id every scope draws one of its own.
LeadershipOf(env, scope) ==
    LET its == env.scopes[scope]
        common == env.allScopes
    IN  [enabled |-> its.enabled,
         key |-> IF its.key # "absent" THEN its.key
                 ELSE IF common.key # "absent" THEN common.key
                 ELSE DefaultElectionKey(scope),
         retry |-> OrElse(FirstOf(its.retry, common.retry), 30, 5),
         ttl |-> OrElse(FirstOf(its.ttl, common.ttl), 120, 30),
         id |-> IF its.id # "absent" THEN its.id
                ELSE IF common.id # "absent" THEN common.id
                ELSE DrawnId[scope]]

\* LeadershipConfig::validate, which Config::new asks of the disabled ones too.
ValidLeadership(l) ==
    /\ l.ttl > l.retry
    /\ l.key # "empty" /\ l.id # "empty"

------------------------------------------------------------------------------
(* The throttler.                                                           *)

IsGiven(raw) == raw.is # "absent"
AboveZero(raw) == raw.is = "number" /\ raw.n > 0

LimitAndWindow(pair) ==
    IF IsGiven(pair.limit) \/ IsGiven(pair.window)
    THEN AboveZero(pair.limit) /\ AboveZero(pair.window)
    ELSE TRUE

\* All limits are parsed, whichever throttler is chosen.
AllParse(env) ==
    \A pair \in {env.authority, env.aturi, env.authorityDefault, env.aturiDefault} :
        pair.limit.is # "junk" /\ pair.window.is # "junk"

ValidThrottler(env) ==
    /\ AllParse(env)
    /\ \/ env.throttler \in {"absent", "noop"}
       \/ /\ env.throttler = "redis"
          /\ (IsGiven(env.authority.limit) \/ IsGiven(env.aturi.limit))
          /\ LimitAndWindow(env.authority) /\ LimitAndWindow(env.aturi)
          /\ env.redisUrl # "absent"
       \/ /\ env.throttler = "redis-per-identity"
          /\ \A pair \in {env.authorityDefault, env.aturiDefault} :
                AboveZero(pair.limit) /\ AboveZero(pair.window)
          /\ env.redisUrl # "absent"

------------------------------------------------------------------------------
(* Config::new.                                                             *)

\* The variables that must be there, the DID of the service and the port.
ValidService(env) ==
    /\ env.required
    /\ env.issuer = "did"
    /\ env.port.is # "junk"
    /\ env.httpTimeout.is # "junk"

\* BlueprintQueueConfig, EvaluationStorageConfig and the denylist.
ValidBackends(env) ==
    /\ env.queueAdapter \in {"absent", "mpsc", "redis"}
    /\ env.results \in {"absent", "tracing", "noop", "filesystem"}
    /\ env.results = "filesystem" => env.resultsDirectory
    /\ env.denylist \in {"absent", "noop", "postgres"}

Accepted(env) ==
    /\ ValidService(env)
    /\ Positive(env.identityCacheSize) /\ Positive(env.identityCacheTtl)
    /\ Positive(env.cacheReload)
    /\ ValidJetstream(env)
    /\ ValidBackends(env)
    /\ \A scope \in ScopeNames : ValidLeadership(LeadershipOf(env, scope))
    /\ ValidThrottler(env)

Chosen(word, default) == IF word = "absent" THEN default ELSE word

\* What the binary is started with.
ConfigOf(env) ==
    [jetstream |-> env.jetstream,
     partition |-> PartitionOf(env),
     workers |-> OrElse(env.workers, 1, 1),
     identityCacheSize |-> OrElse(env.identityCacheSize, 1000, 0),
     redisUrl |-> env.redisUrl,
     webhookQueue |-> env.webhookQueue,
     webhookQueueSize |-> OrElse(env.webhookQueueSize, 500, 10),
     queueAdapter |-> Chosen(env.queueAdapter, "mpsc"),
     queueBuffer |-> OrElse(env.queueBuffer, 1000, 100),
     healthCheck |-> env.healthCheck,
     healthInterval |-> OrElse(env.healthInterval, 60, 10),
     scheduler |-> env.scheduler,
     leadership |-> [scope \in ScopeNames |-> LeadershipOf(env, scope)],
     throttler |-> Chosen(env.throttler, "noop"),
     defaults |-> <<env.authorityDefault, env.aturiDefault>>,
     results |-> Chosen(env.results, "tracing"),
     resultsDirectory |-> env.resultsDirectory,
     denylist |-> Chosen(env.denylist, "noop"),
     cursorPath |-> env.cursorPath,
     scopes |-> env.oauthScopes,
     disabledTypes |-> env.disabledTypes,
     publishCollections |-> env.publishCollections]
==============================================================================
