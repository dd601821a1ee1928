------------------------------ MODULE Prototypes ------------------------------
(***************************************************************************)
(* Blueprints made from a prototype: src/storage/prototype.rs,             *)
(* src/prototype_service.rs and the handlers over them.  A prototype is a  *)
(* list of nodes with references to placeholders in their texts.  A        *)
(* request brings values for some of them; the references are replaced and *)
(* the blueprint is stored, command by command.                            *)
(*                                                                         *)
(* A text is known by the tokens in it, each a word or a reference; where  *)
(* they stand does not matter.  (A value that only together with what      *)
(* surrounds it reads like a reference is left out.)  Nobody edits the     *)
(* nodes of a prototype, or deletes one: no handler calls update_prototype *)
(* for that, or delete_prototype.                                          *)
(***************************************************************************)
EXTENDS Naturals, Sequences, FiniteSets

CONSTANTS Author,     \* users
          Form,       \* prototypes a user may bring, sound or not
          Given,      \* the values a request may bring: functions of some ids
          Requester   \* requests for a blueprint

Word(w) == [kind |-> "word", name |-> w]
Reference(id) == [kind |-> "reference", name |-> id]

NoPrototype == [nodes |-> <<>>, isArray |-> FALSE, placeholders |-> <<>>,
                owner |-> "nobody", shared |-> FALSE]
NotAsked == [step |-> "idle", did |-> "nobody", given |-> <<>>, made |-> <<>>]
NoCopy == [exists |-> FALSE, order |-> <<>>, nodes |-> <<>>]

IsList(list) == list \in Seq({list[k] : k \in DOMAIN list})

\* Users have DIDs; a prototype is a row like any other.
ASSUME PrototypeAssumption ==
    /\ "nobody" \notin Author
    /\ \A form \in Form : /\ DOMAIN form = DOMAIN NoPrototype
                          /\ IsList(form.nodes) /\ IsList(form.placeholders)

VARIABLES prototype,  \* its row
          asking,     \* the request: its step, what it brought, the new nodes
          copy        \* the rows of the blueprint it makes

prototypeVars == <<prototype, asking, copy>>

------------------------------------------------------------------------------
(* Prototype::validate and Prototype::instantiate.                          *)

PlaceholdersOf(p) == {p.placeholders[k] : k \in DOMAIN p.placeholders}

\* extract_placeholder_refs.
ReferencesIn(text) == {t \in text : t.kind = "reference"}

\* Neither that the nodes are an array, nor their types, is looked at.
ValidPrototype(p) ==
    /\ \A d \in PlaceholdersOf(p) : d.wellNamed /\ d.compiles
    /\ Cardinality({d.id : d \in PlaceholdersOf(p)}) = Len(p.placeholders)
    /\ \A k \in DOMAIN p.nodes :
          ReferencesIn(p.nodes[k].text) \subseteq {Reference(d.id) : d \in PlaceholdersOf(p)}

\* The value of a placeholder, given or by default.
HasValue(d, given) == d.id \in DOMAIN given \/ d.default # {}
ValueOf(d, given) == IF d.id \in DOMAIN given THEN given[d.id]
                     ELSE CHOOSE v \in d.default : TRUE

\* Only a required placeholder needs a value, and only its value is checked.
RequiredFit(p, given) ==
    \A d \in PlaceholdersOf(p) :
        d.required => HasValue(d, given) /\ ValueOf(d, given).fits

\* (Mutant) the defaults are only checked.
ValuesGiven(p, given) == {d \in PlaceholdersOf(p) : d.id \in DOMAIN given}

\* The placeholders that are replaced.
Replaceable(p, given) == {d \in PlaceholdersOf(p) : HasValue(d, given)}

\* The orders in which a HashMap may yield them.
Orders(S) == {order \in [1..Cardinality(S) -> S] :
                  \A d \in S : \E k \in DOMAIN order : order[k] = d}

\* replace_placeholders_in_value, one placeholder after the other: what one value
\* brings in, the next may replace.
ReplaceIn(text, d, given) ==
    IF Reference(d.id) \in text
    THEN (text \ {Reference(d.id)}) \cup ValueOf(d, given).text
    ELSE text

Replaced(text, order, given) ==
    LET after[k \in 0..Len(order)] ==
            IF k = 0 THEN text ELSE ReplaceIn(after[k - 1], order[k], given)
    IN  after[Len(order)]

Instantiate(p, order, given) ==
    [k \in DOMAIN p.nodes |->
        [typed |-> p.nodes[k].typed, text |-> Replaced(p.nodes[k].text, order, given)]]

------------------------------------------------------------------------------
(* The handlers of prototypes.                                              *)

CreatePrototype(did, form) ==
    /\ prototype = NoPrototype
    /\ ValidPrototype(form)
    /\ prototype' = [form EXCEPT !.owner = did]
    /\ UNCHANGED <<asking, copy>>

\* Reading and writing back may be taken as one: nothing else of the row changes.
ToggleShared(did) ==
    /\ prototype # NoPrototype /\ prototype.owner = did
    /\ prototype' = [prototype EXCEPT !.shared = ~@]
    /\ UNCHANGED <<asking, copy>>

------------------------------------------------------------------------------
(* instantiate_blueprint.                                                   *)

Goes(r, where) == asking' = [asking EXCEPT ![r].step = where]

Ask(r, did, given, where) ==
    /\ asking[r].step = "idle"
    /\ asking' = [asking EXCEPT ![r] =
          [step |-> where, did |-> did, given |-> given, made |-> <<>>]]
    /\ UNCHANGED <<prototype, copy>>

\* The directory's handler reads the row and looks at who may use it; the
\* dashboard's does not.  The service then reads the row, once more.
CheckAccess(r) ==
    /\ asking[r].step = "check"
    /\ Goes(r, IF prototype # NoPrototype
                  /\ (prototype.shared \/ prototype.owner = asking[r].did)
               THEN "load" ELSE "failed")
    /\ UNCHANGED <<prototype, copy>>

LoadPrototype(r) ==
    /\ asking[r].step = "load"
    /\ LET given == asking[r].given
       IN  \/ /\ prototype # NoPrototype /\ RequiredFit(prototype, given)
              /\ \E order \in Orders(Replaceable(prototype, given)) :
                    asking' = [asking EXCEPT ![r].step = "row",
                                  ![r].made = Instantiate(prototype, order, given)]
           \/ /\ prototype = NoPrototype \/ ~RequiredFit(prototype, given)
              /\ Goes(r, "failed")
    /\ UNCHANGED <<prototype, copy>>

\* The row is enabled, and has no order yet.
PutBlueprint(r) ==
    /\ asking[r].step = "row"
    /\ copy' = [copy EXCEPT ![r].exists = TRUE]
    /\ Goes(r, "nodes")
    /\ UNCHANGED prototype

\* convert_nodes_from_json stores each node as soon as it is converted.
Missing(r) == Len(copy[r].nodes) < Len(asking[r].made)
NextMade(r) == asking[r].made[Len(copy[r].nodes) + 1]

PutNextNode(r) ==
    /\ asking[r].step = "nodes" /\ prototype.isArray /\ Missing(r)
    /\ NextMade(r).typed
    /\ copy' = [copy EXCEPT ![r].nodes = Append(@, NextMade(r))]
    /\ UNCHANGED <<prototype, asking>>

\* What is no array, no object or has no type ends the request half-way.
ConversionFails(r) ==
    /\ asking[r].step = "nodes"
    /\ ~prototype.isArray \/ (Missing(r) /\ ~NextMade(r).typed)
    /\ Goes(r, "failed")
    /\ UNCHANGED <<prototype, copy>>

PutNodeOrder(r) ==
    /\ asking[r].step = "nodes" /\ prototype.isArray /\ ~Missing(r)
    /\ copy' = [copy EXCEPT ![r].order = [k \in DOMAIN copy[r].nodes |-> k]]
    /\ Goes(r, "done")
    /\ UNCHANGED prototype

\* A command of the storage fails: nothing is undone.
AskFails(r) ==
    /\ asking[r].step \in {"check", "load", "row", "nodes"}
    /\ Goes(r, "failed")
    /\ UNCHANGED <<prototype, copy>>

PrototypeInit ==
    /\ prototype = NoPrototype
    /\ asking = [r \in Requester |-> NotAsked]
    /\ copy = [r \in Requester |-> NoCopy]

PrototypeNext ==
    \/ \E did \in Author :
          \/ ToggleShared(did)
          \/ \E form \in Form : CreatePrototype(did, form)
          \/ \E r \in Requester, given \in Given, where \in {"check", "load"} :
                Ask(r, did, given, where)
    \/ \E r \in Requester :
          \/ CheckAccess(r) \/ LoadPrototype(r) \/ PutBlueprint(r) \/ PutNextNode(r)
          \/ ConversionFails(r) \/ PutNodeOrder(r) \/ AskFails(r)

PrototypeSpec == PrototypeInit /\ [][PrototypeNext]_prototypeVars

------------------------------------------------------------------------------
\* A reference that is left in a stored node has an excuse: its placeholder is
\* optional and has no value, or a value brought it in.
BroughtIn(t, d, given) == HasValue(d, given) /\ t \in ValueOf(d, given).text

LeftWithExcuse(t, given) ==
    \E d \in PlaceholdersOf(prototype) :
        \/ BroughtIn(t, d, given)
        \/ t = Reference(d.id) /\ ~d.required /\ ~HasValue(d, given)

\* What is in a node was there in the prototype, or is of a value; and a value that
\* its type does not accept got there by an optional placeholder, whose values
\* nobody checks (prototype.rs:285).
HasSource(t, k, given) ==
    \/ t \in prototype.nodes[k].text
    \/ \E d \in PlaceholdersOf(prototype) :
          BroughtIn(t, d, given) /\ (d.required => ValueOf(d, given).fits)

\* A blueprint that names an order has all the nodes of its prototype, in that
\* order, whichever order the placeholders were replaced in, and no reference is
\* left in any of them without an excuse, nor anything else that has no source.  A
\* row without an order is one whose request goes on, or has failed and left it
\* behind, enabled.
InstanceIsWhole ==
    \A r \in Requester :
        LET given == asking[r].given
        IN  /\ copy[r].order # <<>> =>
                  /\ Len(copy[r].order) = Len(prototype.nodes)
                  /\ Len(copy[r].nodes) = Len(prototype.nodes)
            /\ \A k \in DOMAIN copy[r].nodes : \A t \in copy[r].nodes[k].text :
                  /\ t.kind = "reference" => LeftWithExcuse(t, given)
                  /\ HasSource(t, k, given)
            /\ copy[r].exists /\ asking[r].step = "done" /\ prototype.nodes # <<>> =>
                  copy[r].order # <<>>
==============================================================================
