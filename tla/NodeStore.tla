------------------------------- MODULE NodeStore -------------------------------
(***************************************************************************)
(* src/storage/cached_node_storage.rs: the nodes of a blueprint in         *)
(* Postgres, and in front of them a cache, in Redis or in memory, of the   *)
(* single nodes and of the list of each blueprint.  Processes are the      *)
(* handlers and tasks that read and write; between two commands of one of  *)
(* them the others go on.                                                  *)
(*                                                                         *)
(* One blueprint of one node.  Time passes by PassTime; a process takes at *)
(* most MaxDelay from one command to the next.                             *)
(***************************************************************************)
EXTENDS Integers

CONSTANTS Client,     \* the processes
          Version,    \* what a node may hold
          NodeTTL,    \* time to live of an entry: 60 s
          MaxDelay

\* No row, no entry; the list is then empty, and an empty list is not cached.
NoNode == "no node"
Stored == Version \cup {NoNode}
Slot == {"node", "list"}
NoSlotEntry == [content |-> NoNode, ttl |-> 0]

ASSUME NodeAssumption ==
    NodeTTL \in Nat \ {0} /\ MaxDelay \in Nat /\ NoNode \notin Version

VARIABLES stored,   \* the row
          slot,     \* the cache: the entry of the node and that of the list
          due,      \* what each process does next
          carried,  \* what it has read
          idleTime, \* time since its last command
          since     \* (history) time since the row held a version, up to Late

nodeVars == <<stored, slot, due, carried, idleTime, since>>

\* How long after the row has changed a cache may tell what it was.
CacheLag == NodeTTL + MaxDelay
Late == CacheLag + 1

Then(p, what, version) ==
    /\ due' = [due EXCEPT ![p] = what]
    /\ carried' = [carried EXCEPT ![p] = version]
    /\ idleTime' = [idleTime EXCEPT ![p] = 0]

Fetching == [node |-> "fetch node", list |-> "fetch list"]
Filling == [node |-> "fill node", list |-> "fill list"]

At(p, what) == due[p] = what

\* cache.set, which drops the list the node belongs to, and set_by_blueprint,
\* which sets the nodes of the list as well; errors are ignored, half-way too.
SetSlots(which, version) ==
    LET new == [content |-> version, ttl |-> NodeTTL]
    IN  \/ which = "node" /\ slot' = [node |-> new, list |-> NoSlotEntry]
        \/ which = "node" /\ slot' = [slot EXCEPT !.list = NoSlotEntry]
        \/ which = "list" /\ slot' = [node |-> new, list |-> new]
        \/ which = "list" /\ slot' = [slot EXCEPT !.list = new]
        \/ UNCHANGED slot

\* cache.invalidate forgets the list as well if the node is cached;
\* invalidate_by_blueprint of Redis the nodes of the list it finds, that of the
\* memory none.
Invalidate(which) ==
    LET other == IF which = "node" THEN "list" ELSE "node"
    IN  \/ slot[which] # NoSlotEntry /\ slot' = [s \in Slot |-> NoSlotEntry]
        \/ slot[which] # NoSlotEntry /\ which = "node"
           /\ slot' = [slot EXCEPT ![other] = NoSlotEntry]
        \/ (which = "list" \/ slot[which] = NoSlotEntry)
           /\ slot' = [slot EXCEPT ![which] = NoSlotEntry]
        \/ UNCHANGED slot

Save(version) ==
    /\ stored' = version
    /\ since' = [since EXCEPT ![version] = 0]

------------------------------------------------------------------------------
(* get_node and list_nodes.  A hit changes nothing.                          *)

\* No entry, or an error of the cache.
MissSlot(p, which) ==
    /\ At(p, "idle")
    /\ Then(p, Fetching[which], NoNode)
    /\ UNCHANGED <<stored, slot, since>>

FetchRow(p, which) ==
    /\ At(p, Fetching[which])
    /\ IF stored = NoNode THEN Then(p, "idle", NoNode)
                          ELSE Then(p, Filling[which], stored)
    /\ UNCHANGED <<stored, slot, since>>

FillSlot(p, which) ==
    /\ At(p, Filling[which])
    /\ SetSlots(which, carried[p])
    /\ Then(p, "idle", NoNode)
    /\ UNCHANGED <<stored, since>>

------------------------------------------------------------------------------
(* Writers.                                                                 *)

\* upsert_node.
UpsertRow(p, version) ==
    /\ At(p, "idle") /\ version # stored
    /\ Save(version)
    /\ Then(p, "forget node", version)
    /\ UNCHANGED slot

\* delete_node reads the row, for the blueprint whose list is to be forgotten; the
\* list is left alone if there was no row.
FindRow(p) ==
    /\ At(p, "idle")
    /\ Then(p, IF stored = NoNode THEN "delete unlisted" ELSE "delete listed", NoNode)
    /\ UNCHANGED <<stored, slot, since>>

DeleteRowOf(p) ==
    /\ due[p] \in {"delete listed", "delete unlisted"}
    /\ Save(NoNode)
    /\ Then(p, IF At(p, "delete listed") THEN "forget node"
                                         ELSE "forget only node", NoNode)
    /\ UNCHANGED slot

\* delete_nodes_for_blueprint forgets the list and leaves the nodes.
DeleteRows(p) ==
    /\ At(p, "idle") /\ stored # NoNode
    /\ Save(NoNode)
    /\ Then(p, "forget list", NoNode)
    /\ UNCHANGED slot

ForgetNode(p) ==
    /\ due[p] \in {"forget node", "forget only node"}
    /\ Invalidate("node")
    /\ Then(p, IF At(p, "forget node") THEN "forget list" ELSE "idle", NoNode)
    /\ UNCHANGED <<stored, since>>

ForgetList(p) ==
    /\ At(p, "forget list")
    /\ Invalidate("list")
    /\ Then(p, "idle", NoNode)
    /\ UNCHANGED <<stored, since>>

\* A command of Postgres fails, the request is dropped, or the process dies.
GiveUp(p) ==
    /\ ~At(p, "idle")
    /\ Then(p, "idle", NoNode)
    /\ UNCHANGED <<stored, slot, since>>

\* (Mutant) an entry does not grow old while it is alone.
PassTimeForBoth ==
    /\ \A p \in Client : ~At(p, "idle") => idleTime[p] < MaxDelay
    /\ idleTime' = [p \in Client |-> IF At(p, "idle") THEN 0 ELSE idleTime[p] + 1]
    /\ slot' = [s \in Slot |-> IF slot["list"] = NoSlotEntry THEN slot[s]
                ELSE IF slot[s].ttl <= 1 THEN NoSlotEntry ELSE [slot[s] EXCEPT !.ttl = @ - 1]]
    /\ since' = [x \in Stored |-> IF x = stored THEN 0
                                  ELSE IF since[x] < Late THEN since[x] + 1 ELSE Late]
    /\ UNCHANGED <<stored, due, carried>>

PassTime ==
    /\ \A p \in Client : ~At(p, "idle") => idleTime[p] < MaxDelay
    /\ idleTime' = [p \in Client |-> IF At(p, "idle") THEN 0 ELSE idleTime[p] + 1]
    /\ slot' = [s \in Slot |-> IF slot[s].ttl <= 1 THEN NoSlotEntry
                               ELSE [slot[s] EXCEPT !.ttl = @ - 1]]
    /\ since' = [x \in Stored |-> IF x = stored THEN 0
                                  ELSE IF since[x] < Late THEN since[x] + 1 ELSE Late]
    /\ UNCHANGED <<stored, due, carried>>

NodeInit ==
    /\ stored \in Stored
    /\ slot = [s \in Slot |-> NoSlotEntry]
    /\ due = [p \in Client |-> "idle"]
    /\ carried = [p \in Client |-> NoNode]
    /\ idleTime = [p \in Client |-> 0]
    /\ since = [x \in Stored |-> IF x = stored THEN 0 ELSE Late]

NodeNext ==
    \/ PassTime
    \/ \E p \in Client :
          \/ FindRow(p) \/ DeleteRowOf(p) \/ DeleteRows(p)
          \/ ForgetNode(p) \/ ForgetList(p) \/ GiveUp(p)
          \/ \E which \in Slot : MissSlot(p, which) \/ FetchRow(p, which) \/ FillSlot(p, which)
          \/ \E version \in Version : UpsertRow(p, version)

NodeSpec == NodeInit /\ [][NodeNext]_nodeVars

------------------------------------------------------------------------------
\* A node or a list that the cache answers with was in the table not longer ago
\* than its time to live and the delay of one command, although
\* delete_nodes_for_blueprint leaves the nodes in the cache, and a reader may fill it
\* after the writer has invalidated it: so a handler that edits a node that was
\* deleted, and thereby stores it again, does so within that time.
NodesAreRecent ==
    \A s \in Slot : slot[s] # NoSlotEntry =>
        since[slot[s].content] <= CacheLag - slot[s].ttl
==============================================================================
