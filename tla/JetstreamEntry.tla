---------------------------- MODULE JetstreamEntry ----------------------------
(***************************************************************************)
(* The entry node of blueprints that react to events:                      *)
(* src/engine/node_type_jetstream_entry.rs.  A configuration filters by    *)
(* the repository (did) and the collection of an event, each given as a    *)
(* string or as an array; the payload then decides.  A string is a member  *)
(* of a small set; where its spelling matters it is a sequence of          *)
(* segments, and a segment a sequence of classes of characters.            *)
(***************************************************************************)
EXTENDS Naturals, Sequences, FiniteSets

\* A filter of a configuration: not there, a string, an array, or neither.
Filter(form, values) == [form |-> form, values |-> values]
NoFilter == Filter("absent", {})

------------------------------------------------------------------------------
(* Validation.                                                              *)

\* A DID: the parts between its colons.  What the method's own grammar says of
\* it is external (sound).
ValidDid(did) ==
    /\ did.parts # <<>> /\ did.parts[1] = "did"
    /\ IF Len(did.parts) >= 2 /\ did.parts[2] \in {"plc", "web", "webvh"}
       THEN did.sound
       ELSE /\ Len(did.parts) >= 3
            /\ did.parts[2] # "" /\ did.parts[3] # ""

\* A segment of an NSID, as a sequence of "letter", "digit", "hyphen", "other".
ValidSegment(s) ==
    /\ s # <<>>
    /\ s[1] = "letter"
    /\ s[Len(s)] # "hyphen"

ValidCollection(nsid) ==
    /\ \A k \in DOMAIN nsid : \A c \in DOMAIN nsid[k] : nsid[k][c] # "other"
    /\ Len(nsid) >= 2
    /\ \A k \in DOMAIN nsid : ValidSegment(nsid[k])

\* A filter is rejected for its form, for being empty, or for a value.
ValidFilter(f, valid) ==
    \/ f.form = "absent"
    \/ f.form \in {"string", "array"} /\ f.values # {} /\ f.values \subseteq valid

\* validate_jetstream_entry_config: goodDids and goodCollections are the strings
\* that ValidDid and ValidCollection accept.
ValidJetstreamConfig(config, goodDids, goodCollections) ==
    /\ ValidFilter(config.did, goodDids)
    /\ ValidFilter(config.collection, goodCollections)

------------------------------------------------------------------------------
(* Evaluation.                                                              *)

\* One filter against the event's value, or against "none" if it has none.
FilterResult(f, value) ==
    IF f.form = "absent" THEN "match"
    ELSE IF f.form = "other" THEN "error"
    ELSE IF value \in f.values THEN "match" ELSE "no"

\* matches_filters: the collection is only looked at if the did matches.
MatchesFilters(config, event) ==
    LET byDid == FilterResult(config.did, event.did)
    IN  IF byDid = "match" THEN FilterResult(config.collection, event.collection)
        ELSE byDid

\* A payload is a Boolean, or a JSON logic object of which holds and fails say
\* for which events it is true and for which it is not a Boolean, or another
\* value.
PayloadResult(payload, event) ==
    CASE payload.form = "boolean" -> IF payload.value THEN "pass" ELSE "stop"
      [] payload.form = "object" ->
            IF event.id \in payload.fails THEN "error"
            ELSE IF event.id \in payload.holds THEN "pass" ELSE "stop"
      [] OTHER -> "error"

\* JetstreamEntryEvaluator::evaluate: the input goes on, or the evaluation ends.
EvaluateJetstreamEntry(node, event) ==
    LET filters == MatchesFilters(node.config, event)
    IN  IF filters = "match" THEN PayloadResult(node.payload, event)
        ELSE IF filters = "no" THEN "stop" ELSE "error"
==============================================================================
