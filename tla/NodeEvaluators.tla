---------------------------- MODULE NodeEvaluators ----------------------------
(***************************************************************************)
(* The evaluators of src/engine/: what becomes of a JSON value that goes   *)
(* through the nodes of a blueprint.  A value is known by its form; what   *)
(* a field holds, what JSON logic computes and what a service answers is   *)
(* left open.  An evaluation of a node yields results [kind, out]:         *)
(*   "pass" with the value for the next node, "stop", or the reason of an  *)
(*   error: "form" if the node itself is not as the evaluator wants it,    *)
(*   "data" if the value is not, "external" if a service or the network    *)
(*   is to blame, and "panic" if the thread unwinds.                       *)
(***************************************************************************)
EXTENDS NodeValidation

CONSTANTS CheckedNode,  \* nodes: [type, config, payload]
          MaxChain      \* bound on the nodes a value goes through

VARIABLES datum,      \* the form of the value
          started,    \* (history) the form it had at first
          verdict,    \* of the last node
          evaluated,  \* (history) the last node
          chain       \* (bound) nodes so far

evaluatorVars == <<datum, started, verdict, evaluated, chain>>

JsonForm == {"null", "true", "false", "number", "string", "array", "object"}

Pass(form) == [kind |-> "pass", out |-> form]
Ends(kind) == [kind |-> kind, out |-> "null"]

------------------------------------------------------------------------------
(* engine/common.rs and engine/node_type_common.rs.                         *)

\* evaluate_json_logic compiles and evaluates; either may fail.
JsonLogic == JsonForm \cup {"error"}

\* evaluate_template: an object of one field named as an operator becomes what it
\* evaluates to, or, if that fails, an object like any other.
Template(payload) == IF payload.operator THEN JsonForm ELSE {"object"}

\* What input.get finds under the name a string payload gives.
FieldOf(form) == IF form = "object" THEN JsonForm \cup {"none"} ELSE {"none"}

\* extract_payload_data: "none" if the field is missing, "form" for a payload that
\* is neither string nor object.
PayloadData(payload, form) ==
    CASE payload.form = "string" -> FieldOf(form)
      [] payload.form = "object" -> Template(payload)
      [] OTHER -> {"form"}

\* The text the other nodes ask for, by name or by JSON logic.
TextOf(payload, form) ==
    CASE payload.form = "string" ->
            {IF f = "string" THEN "text" ELSE "data" : f \in FieldOf(form)}
      [] payload.form = "object" ->
            {IF f = "string" THEN "text" ELSE "data" : f \in JsonLogic}
      [] OTHER -> {"form"}

\* extract_headers_from_config: each of them is to be a string.
HeadersFit(config) == config.headers \in {"none", "strings"}

------------------------------------------------------------------------------
(* One operator per evaluator.                                              *)

\* The payload of entry and condition nodes is a Boolean or computes one.
ByBoolean(payload, form) ==
    CASE payload.form = "boolean" -> {IF payload.value THEN Pass(form) ELSE Ends("stop")}
      [] payload.form = "object" ->
            {Pass(form), Ends("stop"), Ends("data")}
      [] OTHER -> {Ends("form")}

\* The filters of JetstreamEntry come first; a value that is no event has neither
\* did nor collection, and what an event has is left open.
FilterBy(n, did, collection) ==
    IF n.config.form # "object" THEN "match"
    ELSE MatchesFilters(n.config, [did |-> did, collection |-> collection])

Seen(form) == IF form = "object" THEN {"none", "here", "posts"} ELSE {"none"}

EvaluateJetstream(n, form) ==
    UNION { CASE FilterBy(n, d, c) = "match" -> ByBoolean(n.payload, form)
              [] FilterBy(n, d, c) = "no" -> {Ends("stop")}
              [] OTHER -> {Ends("form")} : d \in Seen(form), c \in Seen(form) }

EvaluateWebhookEntry(n, form) == ByBoolean(n.payload, form)

EvaluateZapEntry(n, form) == ByBoolean(n.payload, form)

\* The expression is looked at, again, at each event.
EvaluatePeriodic(n, form) ==
    IF n.config.form = "object" /\ n.config.cron = "fits" THEN ByBoolean(n.payload, form)
    ELSE {Ends("form")}

EvaluateCondition(n, form) == ByBoolean(n.payload, form)

\* (Mutant) whatever the template yields goes on.
TransformToAny(n, form) ==
    CASE n.payload.form = "object" -> {Pass(f) : f \in Template(n.payload)}
      [] n.payload.form = "array" /\ n.payload.elements = "objects" ->
            {Pass("object"), Ends("data")}
      [] OTHER -> {Ends("form")}

\* Each object makes a new value, which is to be an object.
EvaluateTransform(n, form) ==
    CASE n.payload.form = "object" ->
            {IF f = "object" THEN Pass(f) ELSE Ends("data") : f \in Template(n.payload)}
      [] n.payload.form = "array" /\ n.payload.elements = "objects" ->
            {Pass("object"), Ends("data")}
      [] OTHER -> {Ends("form")}

\* output[destination] = ... of a serde_json::Value: null becomes an object, and
\* what is neither panics.
SetField(form) == IF form \in {"object", "null"} THEN Pass("object") ELSE Ends("panic")

\* What follows once the text is there.
WithText(n, form, results) ==
    UNION { IF text = "text" THEN results ELSE {Ends(text)} : text \in TextOf(n.payload, form) }

\* An AT-URI may be malformed or lack a collection.
EvaluateParseAturi(n, form) == WithText(n, form, {SetField(form), Ends("data")})

\* A mention that cannot be resolved is left out.
EvaluateFacetText(n, form) == WithText(n, form, {SetField(form)})

\* A service is asked, and the result put into the object, or beside a value that
\* is none.
EvaluateGetRecord(n, form) ==
    WithText(n, form, {Pass("object"), Ends("external"), Ends("data")})

EvaluateSentiment(n, form) == WithText(n, form, {Pass("object"), Ends("external")})

\* A record is to be an object, or a string of JSON that is one, with a $type; a
\* session and the repository are asked.
EvaluatePublishRecord(n, form) ==
    UNION { CASE data \in {"object", "string"} ->
                    {Pass(form), Ends("data"), Ends("external")}
              [] data = "form" -> {Ends("form")}
              [] OTHER -> {Ends("data")} : data \in PayloadData(n.payload, form) }

\* Configuration, payload, headers, in this order; then the request is sent, or
\* handed to the channel of WebhookDelivery.
EvaluatePublishWebhook(n, form) ==
    IF n.config.form # "object" \/ n.config.url # "https" \/ n.config.headers = "other"
    THEN {Ends("form")}
    ELSE UNION { CASE data = "form" -> {Ends("form")}
                   [] data = "none" -> {Ends("data")}
                   [] OTHER -> IF HeadersFit(n.config)
                               THEN {Pass(form), Ends("external")}
                               ELSE {Ends("form")} : data \in PayloadData(n.payload, form) }

\* NodeEvaluatorFactory::evaluate; a type that is not registered is an error.
EvaluateNodeOf(n, form) ==
    CASE n.type = "jetstream_entry" -> EvaluateJetstream(n, form)
      [] n.type = "webhook_entry" -> EvaluateWebhookEntry(n, form)
      [] n.type = "zap_entry" -> EvaluateZapEntry(n, form)
      [] n.type = "periodic_entry" -> EvaluatePeriodic(n, form)
      [] n.type = "condition" -> EvaluateCondition(n, form)
      [] n.type = "transform" -> EvaluateTransform(n, form)
      [] n.type = "parse_aturi" -> EvaluateParseAturi(n, form)
      [] n.type = "facet_text" -> EvaluateFacetText(n, form)
      [] n.type = "get_record" -> EvaluateGetRecord(n, form)
      [] n.type = "sentiment_analysis" -> EvaluateSentiment(n, form)
      [] n.type = "publish_record" -> EvaluatePublishRecord(n, form)
      [] n.type = "publish_webhook" -> EvaluatePublishWebhook(n, form)
      [] n.type = "debug_action" -> {Pass(form)}
      [] OTHER -> {Ends("form")}

------------------------------------------------------------------------------
\* An event, a webhook's body, or what a caller of the API sends.
EvaluatorInit ==
    /\ datum \in JsonForm
    /\ started = datum
    /\ verdict = "pass"
    /\ evaluated \in {n \in CheckedNode : n.type = "debug_action"}
    /\ chain = 0

\* The nodes of a blueprint, one after the other (BlueprintEvaluation).
EvaluateNext(n) ==
    /\ verdict = "pass" /\ chain < MaxChain
    /\ ValidNodePosition(n.type, chain)
    /\ \E result \in EvaluateNodeOf(n, datum) :
          /\ datum' = result.out
          /\ verdict' = result.kind
    /\ evaluated' = n
    /\ chain' = chain + 1
    /\ UNCHANGED started

\* handle_evaluate_node: one node, wherever it may stand, of a type that is
\* registered; only the configuration of a publish node is checked before.
EvaluateAlone(n) ==
    /\ verdict = "pass" /\ chain = 0
    /\ n.type \in NodeTypes
    /\ n.type \in {"publish_webhook", "publish_record"} => ValidNodeConfig(n.type, n.config)
    /\ \E result \in EvaluateNodeOf(n, datum) :
          /\ datum' = result.out
          /\ verdict' = result.kind
    /\ evaluated' = n
    /\ chain' = MaxChain
    /\ UNCHANGED started

EvaluatorNext == \E n \in CheckedNode : EvaluateNext(n) \/ EvaluateAlone(n)

EvaluatorSpec == EvaluatorInit /\ [][EvaluatorNext]_evaluatorVars

------------------------------------------------------------------------------
\* What the Validator accepts its evaluator can work with, wherever it stands in
\* a blueprint, with three exceptions that nobody checks before the node is
\* evaluated: the cron expression of periodic_entry, the payload of
\* sentiment_analysis, and that each header of publish_webhook is a string.
AcceptedNodesFit ==
    verdict = "form" /\ AcceptedNode(evaluated) =>
        \/ evaluated.type = "periodic_entry"
           /\ (evaluated.config.form # "object" \/ evaluated.config.cron # "fits")
        \/ evaluated.type = "sentiment_analysis" /\ evaluated.payload.form \notin {"string", "object"}
        \/ evaluated.type = "publish_webhook" /\ ~HeadersFit(evaluated.config)

\* A value that is an object when the evaluation starts stays one through any
\* nodes, so that none of them panics; a value that is not may make parse_aturi
\* and facet_text panic (node_type_parse_aturi.rs:217), unless it is null.
ObjectsNeverPanic ==
    /\ started = "object" /\ verdict = "pass" => datum = "object"
    /\ verdict = "panic" => started \notin {"object", "null"}
==============================================================================
