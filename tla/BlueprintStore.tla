---------------------------- MODULE BlueprintStore ----------------------------
(***************************************************************************)
(* The row of a blueprint and the caches in front of it:                   *)
(* CachedBlueprintStorage (src/storage/cached_blueprint_storage.rs) over   *)
(* Postgres, with one cache in Redis for all instances or one in the       *)
(* memory of each.  Processes are requests and the background tasks; each  *)
(* of their operations is a sequence of commands, one step each, between   *)
(* which other processes go on.                                            *)
(*                                                                         *)
(* Time passes by Tick; a process that is in the middle of an operation    *)
(* takes at most MaxLatency from one step to the next.                     *)
(***************************************************************************)
EXTENDS Integers

CONSTANTS Process,
          Cache,
          CacheOf,     \* the cache a process uses
          Revision,    \* what owners write to the row: did, node_order
          TTL,         \* time to live of a cache entry
          MaxLatency,
          Absent       \* no row, no entry

ASSUME StoreAssumption ==
    /\ CacheOf \in [Process -> Cache]
    /\ TTL \in Nat \ {0}
    /\ MaxLatency \in Nat
    /\ Absent \notin [revision : Revision, enabled : BOOLEAN]

\* A blueprint as it is stored and cached.
Blueprint == [revision : Revision, enabled : BOOLEAN]

Content == Blueprint \cup {Absent}

VARIABLES row,    \* the row in Postgres
          entry,  \* the entry of each cache, its ttl being the time it has left
          pc,     \* what a process does next
          held,   \* the blueprint it has read or written
          wait,   \* the time since its last step
          age     \* (history) the time since the row had a content, up to Old

vars == <<row, entry, pc, held, wait, age>>

\* How far what a cache holds may lag behind the row.
Lag == TTL + 2 * MaxLatency

\* The age from which on no handler can write back what it has read.
Old == Lag + MaxLatency

Entry == [content : Blueprint, ttl : 1..TTL]
NoEntry == [content |-> Absent, ttl |-> 0]

TypeOK ==
    /\ row \in Content
    /\ entry \in [Cache -> Entry \cup {NoEntry}]
    /\ pc \in [Process -> {"idle", "fetch", "fill", "edit", "drop", "put", "forget"}]
    /\ held \in [Process -> Content]
    /\ \A p \in Process :
          held[p] # Absent <=> pc[p] \in {"fill", "edit", "drop", "put"}
    /\ wait \in [Process -> 0..MaxLatency]
    /\ age \in [Content -> 0..Old]

Init ==
    /\ row \in Content
    /\ entry = [c \in Cache |-> NoEntry]
    /\ pc = [p \in Process |-> "idle"]
    /\ held = [p \in Process |-> Absent]
    /\ wait = [p \in Process |-> 0]
    /\ age = [x \in Content |-> IF x = row THEN 0 ELSE Old]

------------------------------------------------------------------------------
(* Steps.                                                                   *)

Goto(p, what, x) ==
    /\ pc' = [pc EXCEPT ![p] = what]
    /\ held' = [held EXCEPT ![p] = x]
    /\ wait' = [wait EXCEPT ![p] = 0]

Own(p) == entry[CacheOf[p]]

\* cache.set and cache.invalidate; an error of either is ignored.
SetOwn(p, x) ==
    \/ entry' = [entry EXCEPT ![CacheOf[p]] = [content |-> x, ttl |-> TTL]]
    \/ UNCHANGED entry

DropOwn(p) ==
    \/ entry' = [entry EXCEPT ![CacheOf[p]] = NoEntry]
    \/ UNCHANGED entry

\* The row is written; what it had before is current no more from now on.
Store(x) ==
    /\ row' = x
    /\ age' = [age EXCEPT ![x] = 0]

\* UPDATE of a row that does not exist changes nothing, and succeeds.
StoreIfPresent(x) == IF row = Absent THEN UNCHANGED <<row, age>> ELSE Store(x)

------------------------------------------------------------------------------
(* get_blueprint.  A process that only reads is through when it has read; an *)
(* edit goes on with what was read.                                          *)

ReadThrough(p, x) ==
    \/ Goto(p, "idle", Absent)
    \/ x # Absent /\ Goto(p, "edit", x)

\* (Mutant) an entry that is read starts a new time to live.
HitRenews(p) ==
    /\ pc[p] = "idle" /\ Own(p) # NoEntry
    /\ ReadThrough(p, Own(p).content)
    /\ entry' = [entry EXCEPT ![CacheOf[p]].ttl = TTL]
    /\ UNCHANGED <<row, age>>

Hit(p) ==
    /\ pc[p] = "idle" /\ Own(p) # NoEntry
    /\ ReadThrough(p, Own(p).content)
    /\ UNCHANGED <<row, entry, age>>

\* No entry, or an error of the cache.
Miss(p) ==
    /\ pc[p] = "idle"
    /\ Goto(p, "fetch", Absent)
    /\ UNCHANGED <<row, entry, age>>

\* The row is read; one that does not exist is not cached.
Fetch(p) ==
    /\ pc[p] = "fetch"
    /\ \/ row # Absent /\ Goto(p, "fill", row)
       \/ row = Absent /\ Goto(p, "idle", Absent)
    /\ UNCHANGED <<row, entry, age>>

Fill(p) ==
    /\ pc[p] = "fill"
    /\ SetOwn(p, held[p])
    /\ ReadThrough(p, held[p])
    /\ UNCHANGED <<row, age>>

------------------------------------------------------------------------------
(* Writers.                                                                 *)

\* create_blueprint, as an owner creates or updates a blueprint over XRPC: an
\* upsert of the row, then the cache.
Create(p, x) ==
    /\ pc[p] = "idle" /\ x \in Blueprint
    /\ Store(x)
    /\ Goto(p, "put", x)
    /\ UNCHANGED entry

\* (Mutant) the enabled flag is left to the default.
UpdateEnables(p, r) ==
    /\ pc[p] = "edit"
    /\ LET new == [revision |-> r, enabled |-> TRUE]
       IN  StoreIfPresent(new) /\ Goto(p, "drop", new)
    /\ UNCHANGED entry

\* (Mutant) a failure of the UPDATE is ignored as those of the cache are.
UpdateMayFail(p, r) ==
    /\ pc[p] = "edit"
    /\ LET new == [held[p] EXCEPT !.revision = r]
       IN  /\ StoreIfPresent(new) \/ UNCHANGED <<row, age>>
           /\ Goto(p, "drop", new)
    /\ UNCHANGED entry

\* update_blueprint by a handler that adds or removes a node: the row as it was
\* read, with another node_order, is written back.
Update(p, r) ==
    /\ pc[p] = "edit"
    /\ LET new == [held[p] EXCEPT !.revision = r]
       IN  StoreIfPresent(new) /\ Goto(p, "drop", new)
    /\ UNCHANGED entry

\* update_blueprint then invalidates the entry ...
Drop(p) ==
    /\ pc[p] = "drop"
    /\ DropOwn(p)
    /\ Goto(p, "put", held[p])
    /\ UNCHANGED <<row, age>>

\* ... and caches what was written, as create_blueprint does.
Put(p) ==
    /\ pc[p] = "put"
    /\ SetOwn(p, held[p])
    /\ Goto(p, "idle", Absent)
    /\ UNCHANGED <<row, age>>

\* update_blueprint_error: the evaluation disables the blueprint.
Disable(p) ==
    /\ pc[p] = "idle"
    /\ IF row = Absent THEN UNCHANGED <<row, age>>
       ELSE Store([row EXCEPT !.enabled = FALSE])
    /\ Goto(p, "forget", Absent)
    /\ UNCHANGED entry

\* delete_blueprint.
Delete(p) ==
    /\ pc[p] = "idle"
    /\ Store(Absent)
    /\ Goto(p, "forget", Absent)
    /\ UNCHANGED entry

\* Both then invalidate the entry.
Forget(p) ==
    /\ pc[p] = "forget"
    /\ DropOwn(p)
    /\ Goto(p, "idle", Absent)
    /\ UNCHANGED <<row, age>>

\* A command of Postgres fails, before or after it was executed; the client goes
\* away and its request is dropped; the process dies.
Abort(p) ==
    /\ pc[p] # "idle"
    /\ Goto(p, "idle", Absent)
    /\ UNCHANGED <<row, entry, age>>

------------------------------------------------------------------------------
(* The environment.                                                         *)

Min(m, n) == IF m < n THEN m ELSE n

\* A cache that is full may drop any entry.
Evict(c) ==
    /\ entry[c] # NoEntry
    /\ entry' = [entry EXCEPT ![c] = NoEntry]
    /\ UNCHANGED <<row, pc, held, wait, age>>

Waiting(p) == pc[p] # "idle"

Tick ==
    /\ \A p \in Process : Waiting(p) => wait[p] < MaxLatency
    /\ wait' = [p \in Process |-> IF Waiting(p) THEN wait[p] + 1 ELSE 0]
    /\ entry' = [c \in Cache |-> IF entry[c].ttl <= 1 THEN NoEntry
                                 ELSE [entry[c] EXCEPT !.ttl = @ - 1]]
    /\ age' = [x \in Content |-> IF x = row THEN 0 ELSE Min(age[x] + 1, Old)]
    /\ UNCHANGED <<row, pc, held>>

Read(p) == Hit(p) \/ Miss(p) \/ Fetch(p) \/ Fill(p)

Write(p) ==
    \/ \E x \in Blueprint : Create(p, x)
    \/ \E r \in Revision : Update(p, r)
    \/ Drop(p) \/ Put(p) \/ Disable(p) \/ Delete(p) \/ Forget(p)

Next ==
    \/ \E p \in Process : Read(p) \/ Write(p) \/ Abort(p)
    \/ \E c \in Cache : Evict(c)
    \/ Tick

Spec == Init /\ [][Next]_vars

\* What a process has begun it goes on with, and time passes.
Fairness ==
    /\ \A p \in Process : WF_vars(pc[p] # "idle" /\ (Read(p) \/ Write(p)))
    /\ WF_vars(Tick)

FairSpec == Spec /\ Fairness

------------------------------------------------------------------------------
(* Properties                                                               *)

\* The content x of the row was current at most t ago; or the row did not exist
\* then, and update_blueprint, which does not notice, has cached x.
Recent(x, t) == age[x] <= t \/ age[Absent] <= t

\* A cached blueprint is one that was in the row not longer ago than the time it
\* has been cached and the two commands of a writer between the row and the cache,
\* although it may be cached after the row has changed and the entry was
\* invalidated (cached_blueprint_storage.rs).
BoundedStaleness ==
    \A c \in Cache :
        entry[c] # NoEntry => Recent(entry[c].content, Lag - entry[c].ttl)

\* A row that is enabled was enabled by its owner, or by a handler that adds or
\* removes a node and writes back a copy it has read a little while ago.
EnabledByOwner ==
    row # Absent /\ row' # Absent /\ ~row.enabled /\ row'.enabled =>
       \E p \in Process :
          \/ pc[p] = "idle"
          \/ pc[p] = "edit" /\ held[p].enabled /\ Recent(held[p], Old - 1)

\* A blueprint the evaluation has disabled (update_blueprint_error) stays disabled
\* until then: the system itself does not enable it, however old what it caches.
DisableStands == [][EnabledByOwner]_vars

\* When the content of the row stays, all caches come to agree with it, whatever
\* is read and cached meanwhile.
CachesConverge ==
    \A x \in Blueprint :
        <>[](row = x) => <>[](\A c \in Cache : entry[c].content \in {x, Absent})
==============================================================================
