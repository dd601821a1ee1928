----------------------------- MODULE BlueprintApi -----------------------------
(***************************************************************************)
(* The handlers that write a blueprint and its nodes: src/http/            *)
(* handle_xrpc.rs, handle_blueprints.rs and handle_dashboard.rs, and those *)
(* that submit it for evaluation.  A handler checks its request against    *)
(* what it reads, and then sends its commands to the storage one by one,   *)
(* outside of any transaction, while other handlers go on.                 *)
(*                                                                         *)
(* One blueprint of one user.  Its row names its nodes in the order they   *)
(* are to run in (node_order); the nodes are rows of their own, and listed *)
(* by the time of their creation (created_at).  How late the caches in     *)
(* front of the rows may be is left to BlueprintStore and NodeStore.       *)
(***************************************************************************)
EXTENDS NodeValidation, SequencesExt

CONSTANTS Handler,      \* requests that may be under way at once
          Shape,        \* the types of the nodes a request may list
          MaxBirths,    \* bound on the nodes created
          MaxRequests   \* bound on the requests

ASSUME ApiAssumption == Shape \subseteq Seq(STRING)

VARIABLES row,        \* its node_order, or NoRow
          nodes,      \* the rows of nodes: [id, type, born]
          clock,      \* the next created_at, and the next Ulid
          doing,      \* what each handler has left to do
          asked,      \* (bound)
          disturbed,  \* (history) why node_order may differ from the list
          misled      \* (history) an evaluation was misled without an excuse

apiVars == <<row, nodes, clock, doing, asked, disturbed, misled>>

NoRow == <<0>>
Idle == [op |-> "idle", todo |-> <<>>, alone |-> TRUE]
Busy(h) == doing[h].op # "idle"

\* The numbers of S in increasing order.
InOrder(S) ==
    [k \in 1..Cardinality(S) |->
        CHOOSE x \in S : Cardinality({y \in S : y < x}) = k - 1]

\* list_nodes: ORDER BY created_at; here no two nodes are created at one time.
ListNodes ==
    LET times == InOrder({n.born : n \in nodes})
    IN  [k \in DOMAIN times |-> CHOOSE n \in nodes : n.born = times[k]]

IdsOf(list) == [k \in DOMAIN list |-> list[k].id]
TypesOf(list) == [k \in DOMAIN list |-> list[k].type]
HasNode(id) == \E n \in nodes : n.id = id

\* What node_order.retain leaves of an order without id.
Without(order, id) ==
    LET kept == InOrder({k \in DOMAIN order : order[k] # id})
    IN  [k \in DOMAIN kept |-> order[kept[k]]]

------------------------------------------------------------------------------
(* Commands to the storage: what they do, and what a failure leads to.       *)

Command(cmd, arg) == [cmd |-> cmd, arg |-> arg, onFailure |-> "stop"]
Ignoring(command) == [command EXCEPT !.onFailure = "go on"]
CleaningUp(command) == [command EXCEPT !.onFailure = "drop row"]

PutRow(order) == Command("put row", order)
PutOrder(order) == Command("put order", order)
DropRow == Command("drop row", <<>>)
PutNode(n) == Command("put node", n)
DropNode(id) == Command("drop node", id)
ClearNodes == Command("clear nodes", <<>>)
Reload == Command("reload", <<>>)

\* upsert_node: a node that exists keeps its created_at.
UpsertNode(n) ==
    {m \in nodes : m.id # n.id} \cup
    {IF HasNode(n.id) THEN [n EXCEPT !.born = (CHOOSE m \in nodes : m.id = n.id).born]
                     ELSE n}

Execute(command) ==
    /\ row' = CASE command.cmd = "put row" -> command.arg
                [] command.cmd = "put order" /\ row # NoRow -> command.arg
                [] command.cmd = "drop row" -> NoRow
                [] OTHER -> row
    /\ nodes' = CASE command.cmd = "put node" -> UpsertNode(command.arg)
                  [] command.cmd = "drop node" -> {n \in nodes : n.id # command.arg}
                  [] command.cmd = "clear nodes" -> {}
                  [] OTHER -> nodes

\* A handler sets out with its commands.  Others under way are an excuse.
SetOut(h, op, todo, why) ==
    LET others == \E k \in Handler \ {h} : Busy(k)
    IN  /\ ~Busy(h) /\ asked < MaxRequests
        /\ asked' = asked + 1
        /\ doing' = [k \in Handler |->
              IF k = h THEN [op |-> op, todo |-> todo, alone |-> ~others]
              ELSE [doing[k] EXCEPT !.alone = FALSE]]
        /\ disturbed' = disturbed \cup why \cup (IF others THEN {"overlap"} ELSE {})
        /\ UNCHANGED <<row, nodes, misled>>

------------------------------------------------------------------------------
(* Requests.  New nodes are constructed in the order of the request, each with *)
(* the current time.                                                          *)

NodesOf(ids, types) ==
    [k \in DOMAIN types |-> [id |-> ids[k], type |-> types[k], born |-> clock + k - 1]]
FreshIds(types) == [k \in DOMAIN types |-> clock + k - 1]
PutAll(list) == [k \in DOMAIN list |-> PutNode(list[k])]
Born(many) == clock + many <= MaxBirths + 1 /\ clock' = clock + many

\* handle_update_blueprint of the API: a blueprint that is not there is created.
\* The client names the nodes and their order, the one independently of the other.
UpdateBlueprint(h) ==
    \E types \in Shape :
        /\ ValidBlueprintNodes(types)
        /\ \E ids \in {FreshIds(types)} \cup (IF Len(row) = Len(types) /\ row # NoRow
                                              THEN {row, Reverse(row)} ELSE {}) :
              \E order \in {ids, Reverse(ids)} :
                 SetOut(h, IF order = ids THEN "update" ELSE "other order",
                        <<PutRow(order), ClearNodes>> \o PutAll(NodesOf(ids, types))
                        \o <<Reload>>,
                        IF order = ids THEN {} ELSE {"order"})
        /\ Born(Len(types))

\* handle_create_blueprint of the API: a new AT-URI, so nobody else knows it.
CreateBlueprint(h) ==
    /\ row = NoRow /\ nodes = {} /\ \A k \in Handler : ~Busy(k)
    /\ \E types \in Shape :
          /\ ValidBlueprintNodes(types)
          /\ LET list == NodesOf(FreshIds(types), types)
             IN  SetOut(h, "create",
                     <<PutRow(IdsOf(list))>>
                     \o [k \in DOMAIN list |-> CleaningUp(PutNode(list[k]))]
                     \o <<Reload>>, {})
          /\ Born(Len(types))

\* handle_create_blueprint of the dashboard checks nothing and asks for no reload.
DashboardCreate(h) ==
    /\ row = NoRow /\ nodes = {} /\ \A k \in Handler : ~Busy(k)
    /\ \E types \in Shape :
          /\ LET list == NodesOf(FreshIds(types), types)
             IN  SetOut(h, "create", <<PutRow(IdsOf(list))>> \o PutAll(list), {})
          /\ Born(Len(types))

\* handle_delete_blueprint of the API leaves the nodes.
DeleteBlueprint(h) ==
    SetOut(h, "delete", <<DropRow, Reload>>, {}) /\ UNCHANGED clock

\* handle_delete_blueprint of the dashboard: the nodes as they are listed now.
DashboardDelete(h) ==
    /\ row # NoRow
    /\ SetOut(h, "delete",
              [k \in DOMAIN ListNodes |-> DropNode(ListNodes[k].id)] \o <<DropRow, Reload>>, {})
    /\ UNCHANGED clock

\* handle_set_node: a node is stored under the name the client gives it, but not
\* added to node_order, and no reload is asked for.  Without a row, or if it cannot
\* be read, it is taken for the first.
SetNode(h) ==
    \E type \in {"webhook_entry", "condition", "debug_action"} :
        \E position \in {0, IF row = NoRow THEN 0 ELSE Len(row)} :
            /\ ValidNodePosition(type, position)
            /\ \E id \in {clock} \cup {n.id : n \in nodes} :
                  SetOut(h, "set node",
                         <<PutNode([id |-> id, type |-> type, born |-> clock])>>,
                         IF HasNode(id) THEN {} ELSE {"set node"})
            /\ Born(1)

\* (Mutant) the order that is written back still names the node.
DeleteNodeButNotName(h) ==
    \E id \in {n.id : n \in nodes} :
        /\ SetOut(h, "delete node",
                  (IF row # NoRow THEN <<Ignoring(PutOrder(row))>> ELSE <<>>)
                  \o <<DropNode(id)>>, {})
        /\ UNCHANGED clock

\* handle_delete_node of the API: the order it has read is written back without
\* the node; an error of that is ignored, as is one of reading the node or the row.
DeleteNode(h) ==
    \E id \in {n.id : n \in nodes}, readable \in BOOLEAN :
        /\ SetOut(h, "delete node",
                  (IF row # NoRow /\ readable THEN <<Ignoring(PutOrder(Without(row, id)))>> ELSE <<>>)
                  \o <<DropNode(id)>>,
                  IF readable THEN {} ELSE {"failed"})
        /\ UNCHANGED clock

\* handle_add_node of the dashboard: node first, then the order that was read.
DashboardAdd(h) ==
    \E type \in {"webhook_entry", "condition", "debug_action"} :
        /\ row # NoRow /\ ValidNodePosition(type, Len(row))
        /\ SetOut(h, "add node",
                  <<PutNode([id |-> clock, type |-> type, born |-> clock]),
                    PutOrder(Append(row, clock)), Reload>>, {})
        /\ Born(1)

\* handle_delete_node of the dashboard.
DashboardDeleteNode(h) ==
    \E id \in {n.id : n \in nodes} :
        /\ row # NoRow
        /\ SetOut(h, "delete node", <<DropNode(id), PutOrder(Without(row, id)), Reload>>, {})
        /\ UNCHANGED clock

\* handle_update_node of the dashboard: the position only matters for the node that
\* is first in node_order.
DashboardUpdateNode(h) ==
    \E n \in nodes, type \in {"webhook_entry", "condition", "debug_action"} :
        /\ row # NoRow
        /\ row # <<>> /\ Head(row) = n.id => ValidNodePosition(type, 0)
        /\ SetOut(h, "update node", <<PutNode([n EXCEPT !.type = type]), Reload>>, {})
        /\ UNCHANGED clock

\* handle_evaluate_blueprint, and handle_webhook: the row is read ...
EvaluateBlueprint(h) ==
    /\ row # NoRow
    /\ SetOut(h, "evaluate", <<Command("submit", row)>>, {})
    /\ UNCHANGED clock

\* ... then the nodes are listed and checked, and the blueprint is submitted with
\* the first of them as the one to start with.
Submit(order) ==
    misled' = (misled \/ ( /\ ValidBlueprintNodes(TypesOf(ListNodes))
                           /\ IdsOf(ListNodes) # order
                           /\ disturbed = {} ))

------------------------------------------------------------------------------
(* Steps.                                                                   *)

\* An update that had the rows for itself has put everything in order.
After(h) == IF doing[h].op = "update" /\ doing[h].alone THEN {} ELSE disturbed

Proceed(h) ==
    /\ Busy(h) /\ doing[h].todo # <<>>
    /\ LET command == Head(doing[h].todo)
       IN  /\ Execute(command)
           /\ IF command.cmd = "submit" THEN Submit(command.arg) ELSE UNCHANGED misled
    /\ doing' = [doing EXCEPT ![h].todo = Tail(@)]
    /\ UNCHANGED <<clock, asked, disturbed>>

\* The response.
Respond(h) ==
    /\ Busy(h) /\ doing[h].todo = <<>>
    /\ doing' = [doing EXCEPT ![h] = Idle]
    /\ disturbed' = After(h)
    /\ UNCHANGED <<row, nodes, clock, asked, misled>>

\* A command fails.
CommandFails(h) ==
    /\ Busy(h) /\ doing[h].todo # <<>> /\ Head(doing[h].todo).cmd # "reload"
    /\ LET failed == Head(doing[h].todo)
           left == CASE failed.onFailure = "go on" -> Tail(doing[h].todo)
                     [] failed.onFailure = "drop row" -> <<Ignoring(DropRow)>>
                     [] OTHER -> <<>>
       IN  doing' = [doing EXCEPT ![h].todo = left, ![h].op = "failed"]
    /\ disturbed' = disturbed \cup {"failed"}
    /\ UNCHANGED <<row, nodes, clock, asked, misled>>

\* There is no blueprint yet, or one as create leaves it.
ApiInit ==
    /\ \/ row = NoRow /\ nodes = {} /\ clock = 1
       \/ /\ row = <<1, 2>> /\ clock = 3
          /\ nodes = {[id |-> 1, type |-> "webhook_entry", born |-> 1],
                      [id |-> 2, type |-> "debug_action", born |-> 2]}
    /\ doing = [h \in Handler |-> Idle]
    /\ asked = 0
    /\ disturbed = {}
    /\ misled = FALSE

ApiNext ==
    \E h \in Handler :
        \/ UpdateBlueprint(h) \/ CreateBlueprint(h) \/ DashboardCreate(h)
        \/ DeleteBlueprint(h) \/ DashboardDelete(h)
        \/ SetNode(h) \/ DeleteNode(h)
        \/ DashboardAdd(h) \/ DashboardDeleteNode(h) \/ DashboardUpdateNode(h)
        \/ EvaluateBlueprint(h)
        \/ Proceed(h) \/ Respond(h) \/ CommandFails(h)

ApiSpec == ApiInit /\ [][ApiNext]_apiVars

------------------------------------------------------------------------------
\* Evaluation starts with the first node that is listed and goes on by node_order:
\* two orders that no transaction keeps together.  When no handler is under way
\* they agree and no node is missing from either, and no evaluation is submitted
\* that sees them differ - unless handlers have overlapped, or a command failed, or
\* a client gave an order of its own or set a node outside of it; and an update
\* that is not disturbed mends all that.
OrderIsCreationOrder ==
    /\ (\A h \in Handler : ~Busy(h)) /\ disturbed = {} /\ row # NoRow =>
          row = IdsOf(ListNodes)
    /\ ~misled
==============================================================================
