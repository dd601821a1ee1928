---------------------------- MODULE NodeValidation ----------------------------
(***************************************************************************)
(* src/validation.rs and src/constants.rs: what the handlers of the API    *)
(* demand of the nodes of a blueprint before they are stored or evaluated. *)
(* A JSON value is known by its form; of an array it matters what its      *)
(* elements are, of a configuration the fields that are looked at.         *)
(***************************************************************************)
EXTENDS JetstreamEntry

CONSTANTS DidSpelling,        \* the strings of a filter by did, spelled out
          CollectionSpelling  \* and those of a filter by collection

GoodDids == {d \in DOMAIN DidSpelling : ValidDid(DidSpelling[d])}
GoodCollections ==
    {c \in DOMAIN CollectionSpelling : ValidCollection(CollectionSpelling[c])}

\* is_entry_node_type, is_action_node_type, is_valid_node_type.
EntryTypes == {"jetstream_entry", "webhook_entry", "periodic_entry", "zap_entry"}
ActionTypes == {"publish_record", "publish_webhook", "debug_action"}
NodeTypes == EntryTypes \cup ActionTypes \cup
    {"condition", "transform", "facet_text", "parse_aturi", "get_record",
     "sentiment_analysis"}

\* validate_blueprint_nodes, of the types of the nodes in order.
ValidBlueprintNodes(types) ==
    /\ Len(types) >= 2
    /\ types[1] \in EntryTypes
    /\ \A k \in 2..Len(types) : types[k] \notin EntryTypes
    /\ types[Len(types)] \in ActionTypes

\* validate_node_position: positions count from 0.
ValidNodePosition(type, position) == (position = 0) = (type \in EntryTypes)

------------------------------------------------------------------------------
(* A configuration: [form, ...] with, if it is an object, the fields that    *)
(* nodes of some type look at; "none" is a field that is not there.          *)

ValidPublishRecordConfig(config) ==
    /\ config.form = "object"
    /\ config.recordKey \in {"none", "string"}

\* The URL is well-formed, which url::Url decides (external), and starts with
\* https://.  Of the headers it is enough that they are an object.
ValidPublishWebhookConfig(config) ==
    /\ config.form = "object"
    /\ config.url = "https"
    /\ config.headers \in {"none", "strings", "mixed"}

\* validate_node_config: the other types take any configuration.
ValidNodeConfig(type, config) ==
    CASE type = "jetstream_entry" ->
            config.form = "object" => ValidJetstreamConfig(config, GoodDids, GoodCollections)
      [] type = "publish_record" -> ValidPublishRecordConfig(config)
      [] type = "publish_webhook" -> ValidPublishWebhookConfig(config)
      [] type = "transform" -> config.form = "object"
      [] OTHER -> TRUE

\* (Mutant) parse_aturi is forgotten.
AnyPayloadToParse(type, payload) ==
    CASE type \in EntryTypes \cup {"condition"} ->
            payload.form \in {"boolean", "object"}
      [] type = "transform" ->
            \/ payload.form = "object"
            \/ payload.form = "array" /\ payload.elements = "objects"
      [] type \in {"publish_record", "publish_webhook", "facet_text",
                   "get_record"} -> payload.form \in {"string", "object"}
      [] OTHER -> TRUE

\* validate_node_payload.  (The elements of an array: "none", "objects" or
\* "mixed".)
ValidNodePayload(type, payload) ==
    CASE type \in EntryTypes \cup {"condition"} ->
            payload.form \in {"boolean", "object"}
      [] type = "transform" ->
            \/ payload.form = "object"
            \/ payload.form = "array" /\ payload.elements = "objects"
      [] type \in {"publish_record", "publish_webhook", "facet_text", "parse_aturi",
                   "get_record"} -> payload.form \in {"string", "object"}
      [] OTHER -> TRUE

\* All that the Validator has to say of one node.  (Only the dashboard's
\* handle_validate_blueprint asks it for all; the others leave out the payload,
\* and create and update of the API the type.)
AcceptedNode(node) ==
    /\ node.type \in NodeTypes
    /\ ValidNodeConfig(node.type, node.config)
    /\ ValidNodePayload(node.type, node.payload)

------------------------------------------------------------------------------
\* validate_oauth_scopes_for_collections, which the configuration is checked with.
BlanketScopes == {<<"repo", "*">>, <<"transition", "generic">>}
RepoScope(collection) == <<"repo", collection>>

ValidScopes(scopes, disabledTypes, collections) ==
    \/ "publish_record" \in disabledTypes
    \/ scopes \cap BlanketScopes # {}
    \/ /\ \E s \in scopes : s \notin BlanketScopes /\ s[1] = "repo"
       /\ \A c \in collections : RepoScope(c) \in scopes
==============================================================================
