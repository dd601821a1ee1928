---------------------------- MODULE Caches_proofs ----------------------------
(*****************************************************************************)
(* Proofs about what is cached: the blueprints (BlueprintStore), their nodes *)
(* (NodeStore) and identities (IdentityCache), for all processes, caches,    *)
(* revisions, times to live and latencies.                                   *)
(*****************************************************************************)
EXTENDS BlueprintStore, NodeStore, IdentityCache, TLAPS

------------------------------------------------------------------------------
(* Blueprints.                                                              *)

\* How recent a blueprint that a process holds is, by what it does next with it.
HeldIsRecent(p) ==
    /\ pc[p] \in {"fill", "drop"} => Recent(held[p], wait[p])
    /\ pc[p] = "put" => Recent(held[p], MaxLatency + wait[p])
    /\ pc[p] = "edit" => Recent(held[p], Lag - 1 + wait[p])

\* BoundedStaleness is not inductive: a process that is about to fill a cache must
\* not hold a blueprint that is too old.
StoreInv ==
    /\ TypeOK
    /\ BoundedStaleness
    /\ \A p \in Process : HeldIsRecent(p)
    /\ age[row] = 0

\* The age of no content grows, as in every step but Tick.
NoOlder ==
    /\ age' \in [Content -> 0..Old]
    /\ \A x \in Content : age'[x] <= age[x]

\* x is recent after a step.
RecentAfter(x, t) == age'[x] <= t \/ age'[Absent] <= t

Doing == {"idle", "fetch", "fill", "edit", "drop", "put", "forget"}
HoldingSteps == {"fill", "edit", "drop", "put"}

LEMMA Numbers ==
    /\ TTL \in Nat /\ TTL >= 1 /\ MaxLatency \in Nat
    /\ Lag \in Nat /\ Lag = TTL + 2 * MaxLatency
    /\ Old \in Nat /\ Old = Lag + MaxLatency
    /\ Absent \in Content /\ Blueprint \subseteq Content /\ Absent \notin Blueprint
  BY StoreAssumption DEF Lag, Old, Content, Blueprint

\* The row stays as it is, or is written.
LEMMA RowSteps ==
    ASSUME StoreInv, UNCHANGED <<row, age>> \/ \E x \in Content : Store(x)
    PROVE  row' \in Content /\ age'[row'] = 0 /\ NoOlder
  <1>1. CASE UNCHANGED <<row, age>>
    BY <1>1, Numbers DEF StoreInv, TypeOK, NoOlder
  <1>2. ASSUME NEW x \in Content, Store(x)
        PROVE  row' \in Content /\ age'[row'] = 0 /\ NoOlder
    BY <1>2, Numbers DEF StoreInv, TypeOK, NoOlder, Store
  <1> QED BY <1>1, <1>2

\* A process goes on to its next command.
LEMMA ProcessSteps ==
    ASSUME StoreInv, NoOlder, NEW p \in Process, NEW what \in Doing, NEW x \in Content,
           Goto(p, what, x),
           x # Absent <=> what \in HoldingSteps,
           what \in {"fill", "drop"} => RecentAfter(x, 0),
           what = "put" => RecentAfter(x, MaxLatency),
           what = "edit" => RecentAfter(x, Lag - 1)
    PROVE  /\ pc' \in [Process -> Doing]
           /\ held' \in [Process -> Content]
           /\ \A q \in Process : held'[q] # Absent <=> pc'[q] \in HoldingSteps
           /\ wait' \in [Process -> 0..MaxLatency]
           /\ \A q \in Process : HeldIsRecent(q)'
  <1> USE Numbers DEF StoreInv, TypeOK, Doing, HoldingSteps, Goto
  <1>1. /\ pc' \in [Process -> Doing]
        /\ held' \in [Process -> Content]
        /\ wait' \in [Process -> 0..MaxLatency]
    OBVIOUS
  <1>2. pc'[p] = what /\ held'[p] = x /\ wait'[p] = 0
    OBVIOUS
  <1>3. ASSUME NEW q \in Process, q # p
        PROVE  pc'[q] = pc[q] /\ held'[q] = held[q] /\ wait'[q] = wait[q]
    BY <1>3
  <1>4. ASSUME NEW q \in Process
        PROVE  held'[q] # Absent <=> pc'[q] \in HoldingSteps
    BY <1>2, <1>3
  <1>5. HeldIsRecent(p)'
    BY <1>2 DEF HeldIsRecent, Recent, RecentAfter
  <1>6. ASSUME NEW q \in Process, q # p
        PROVE  HeldIsRecent(q)'
    <2>1. HeldIsRecent(q) /\ held[q] \in Content
      OBVIOUS
    <2>2. age'[held[q]] <= age[held[q]] /\ age'[Absent] <= age[Absent]
      BY <2>1 DEF NoOlder
    <2>3. /\ age[held[q]] \in Int /\ age'[held[q]] \in Int
          /\ age[Absent] \in Int /\ age'[Absent] \in Int /\ wait[q] \in Int
      BY <2>1 DEF NoOlder
    <2> QED BY <1>3, <1>6, <2>1, <2>2, <2>3 DEF HeldIsRecent, Recent, RecentAfter
  <1> QED BY <1>1, <1>4, <1>5, <1>6

\* The caches stay as they are, or one loses its entry, or gets a new one.
LEMMA CacheSteps ==
    ASSUME StoreInv, NoOlder,
           \/ UNCHANGED entry
           \/ \E c \in Cache : entry' = [entry EXCEPT ![c] = NoEntry]
           \/ \E c \in Cache, x \in Blueprint :
                 /\ entry' = [entry EXCEPT ![c] = [content |-> x, ttl |-> TTL]]
                 /\ RecentAfter(x, 2 * MaxLatency)
    PROVE  entry' \in [Cache -> Entry \cup {NoEntry}] /\ BoundedStaleness'
  <1> USE Numbers DEF StoreInv, TypeOK
  <1>1. ASSUME NEW c \in Cache, entry[c] # NoEntry, entry'[c] = entry[c]
        PROVE  RecentAfter(entry[c].content, Lag - entry[c].ttl)
    <2>1. entry[c].content \in Content /\ entry[c].ttl \in 1..TTL
      BY <1>1 DEF Entry
    <2>2. Recent(entry[c].content, Lag - entry[c].ttl)
      BY <1>1 DEF BoundedStaleness
    <2> QED BY <1>1, <2>1, <2>2 DEF Recent, RecentAfter, NoOlder
  <1>2. CASE UNCHANGED entry
    BY <1>1, <1>2 DEF BoundedStaleness, Recent, RecentAfter
  <1>3. ASSUME NEW c \in Cache, entry' = [entry EXCEPT ![c] = NoEntry]
        PROVE  entry' \in [Cache -> Entry \cup {NoEntry}] /\ BoundedStaleness'
    BY <1>1, <1>3 DEF BoundedStaleness, Recent, RecentAfter
  <1>4. ASSUME NEW c \in Cache, NEW x \in Blueprint, RecentAfter(x, 2 * MaxLatency),
               entry' = [entry EXCEPT ![c] = [content |-> x, ttl |-> TTL]]
        PROVE  entry' \in [Cache -> Entry \cup {NoEntry}] /\ BoundedStaleness'
    <2>1. [content |-> x, ttl |-> TTL] \in Entry
      BY DEF Entry
    <2>2. entry' \in [Cache -> Entry \cup {NoEntry}]
      BY <1>4, <2>1
    <2>3. ASSUME NEW d \in Cache, entry'[d] # NoEntry
          PROVE  RecentAfter(entry'[d].content, Lag - entry'[d].ttl)
      <3>1. CASE d # c
        BY <1>1, <1>4, <2>3, <3>1
      <3>2. CASE d = c
        BY <1>4, <3>2 DEF RecentAfter
      <3> QED BY <3>1, <3>2
    <2> QED BY <2>2, <2>3 DEF BoundedStaleness, Recent, RecentAfter
  <1> QED BY <1>2, <1>3, <1>4

\* The row may have any content, and the caches are empty, to begin with.
LEMMA StoreInitial == Init => StoreInv
  <1> SUFFICES ASSUME Init PROVE StoreInv
    OBVIOUS
  <1>1. TypeOK
    BY Numbers DEF Init, TypeOK
  <1> QED BY <1>1 DEF Init, StoreInv, BoundedStaleness, HeldIsRecent

------------------------------------------------------------------------------

\* The three lemmas together: a step of a process.
LEMMA Steps ==
    ASSUME StoreInv, NEW p \in Process, NEW what \in Doing, NEW x \in Content,
           Goto(p, what, x),
           UNCHANGED <<row, age>> \/ \E y \in Content : Store(y),
           \/ UNCHANGED entry
           \/ DropOwn(p)
           \/ \E y \in Blueprint : SetOwn(p, y) /\ RecentAfter(y, 2 * MaxLatency),
           x # Absent <=> what \in HoldingSteps,
           what \in {"fill", "drop"} => RecentAfter(x, 0),
           what = "put" => RecentAfter(x, MaxLatency),
           what = "edit" => RecentAfter(x, Lag - 1)
    PROVE  StoreInv'
  <1>1. row' \in Content /\ age'[row'] = 0 /\ NoOlder
    BY RowSteps
  <1>2. CacheOf[p] \in Cache
    BY StoreAssumption
  <1>3. entry' \in [Cache -> Entry \cup {NoEntry}] /\ BoundedStaleness'
    BY <1>1, <1>2, CacheSteps DEF DropOwn, SetOwn
  <1>4. /\ pc' \in [Process -> Doing]
        /\ held' \in [Process -> Content]
        /\ \A q \in Process : held'[q] # Absent <=> pc'[q] \in HoldingSteps
        /\ wait' \in [Process -> 0..MaxLatency]
        /\ \A q \in Process : HeldIsRecent(q)'
    BY <1>1, ProcessSteps
  <1> QED BY <1>1, <1>3, <1>4 DEF StoreInv, TypeOK, NoOlder, Doing, HoldingSteps

\* What a process reads from its cache, or reads from the row and caches.
LEMMA ReadSteps ==
    ASSUME StoreInv, NEW p \in Process, Read(p)
    PROVE  StoreInv'
  <1> USE Numbers DEF Doing, HoldingSteps
  <1>1. /\ pc[p] \in Doing /\ held[p] \in Content /\ row \in Content
        /\ held[p] # Absent <=> pc[p] \in HoldingSteps
        /\ wait[p] \in 0..MaxLatency /\ age \in [Content -> 0..Old]
        /\ HeldIsRecent(p)
    BY DEF StoreInv, TypeOK
  <1>2. CASE Hit(p)
    <2>1. PICK c \in Cache : Own(p) = entry[c] /\ entry[c] \in Entry
      BY <1>2, StoreAssumption DEF Hit, Own, StoreInv, TypeOK
    <2> DEFINE x == Own(p).content
    <2>2. x \in Blueprint /\ Own(p).ttl \in 1..TTL /\ Recent(x, Lag - Own(p).ttl)
      BY <1>2, <2>1 DEF Hit, StoreInv, BoundedStaleness, Entry
    <2>3. UNCHANGED <<row, entry, age>> /\ ReadThrough(p, x)
      BY <1>2 DEF Hit
    <2>4. RecentAfter(x, Lag - 1)
      BY <1>1, <2>2, <2>3 DEF Recent, RecentAfter
    <2>5. CASE Goto(p, "idle", Absent)
      BY <2>3, <2>5, Steps
    <2>6. CASE Goto(p, "edit", x)
      <3> HIDE DEF x
      <3> QED BY <2>2, <2>3, <2>4, <2>6, Steps
    <2> QED BY <2>3, <2>5, <2>6 DEF ReadThrough
  <1>3. CASE Miss(p)
    BY <1>3, Steps DEF Miss
  <1>4. CASE Fetch(p)
    <2>1. CASE row # Absent /\ Goto(p, "fill", row)
      <3>1. age[row] = 0
        BY DEF StoreInv
      <3> QED BY <1>1, <1>4, <2>1, <3>1, Steps DEF Fetch, RecentAfter
    <2>2. CASE row = Absent /\ Goto(p, "idle", Absent)
      BY <1>4, <2>2, Steps DEF Fetch
    <2> QED BY <1>4, <2>1, <2>2 DEF Fetch
  <1>5. CASE Fill(p)
    <2> DEFINE x == held[p]
    <2>1. /\ x \in Blueprint /\ RecentAfter(x, MaxLatency)
          /\ UNCHANGED <<row, age>> /\ SetOwn(p, x) /\ ReadThrough(p, x)
      BY <1>1, <1>5 DEF Fill, HeldIsRecent, Recent, RecentAfter, Content
    <2>2. RecentAfter(x, 2 * MaxLatency) /\ RecentAfter(x, Lag - 1)
      BY <1>1, <2>1 DEF RecentAfter
    <2> HIDE DEF x
    <2>3. CASE Goto(p, "idle", Absent)
      BY <2>1, <2>2, <2>3, Steps
    <2>4. CASE Goto(p, "edit", x)
      BY <2>1, <2>2, <2>4, Steps
    <2> QED BY <2>1, <2>3, <2>4 DEF ReadThrough
  <1> QED BY <1>2, <1>3, <1>4, <1>5 DEF Read

\* What a process writes into the row and then into its cache.
LEMMA WriteSteps ==
    ASSUME StoreInv, NEW p \in Process, Write(p)
    PROVE  StoreInv'
  <1> USE Numbers DEF Doing, HoldingSteps
  <1>1. /\ pc[p] \in Doing /\ held[p] \in Content /\ row \in Content
        /\ held[p] # Absent <=> pc[p] \in HoldingSteps
        /\ wait[p] \in 0..MaxLatency /\ age \in [Content -> 0..Old]
        /\ age[row] = 0 /\ HeldIsRecent(p)
    BY DEF StoreInv, TypeOK
  <1>2. ASSUME NEW x \in Blueprint, Create(p, x)
        PROVE  StoreInv'
    <2>1. Store(x) /\ RecentAfter(x, MaxLatency)
      BY <1>1, <1>2 DEF Create, Store, RecentAfter
    <2> QED BY <1>2, <2>1, Steps DEF Create
  <1>3. ASSUME NEW r \in Revision, Update(p, r)
        PROVE  StoreInv'
    <2> DEFINE x == [held[p] EXCEPT !.revision = r]
    <2>1. held[p] \in Blueprint
      BY <1>1, <1>3 DEF Update, Content
    <2>2. /\ x \in Blueprint /\ StoreIfPresent(x) /\ Goto(p, "drop", x)
          /\ UNCHANGED entry
      BY <1>3, <2>1 DEF Update, Blueprint
    <2> HIDE DEF x
    <2>3. CASE row = Absent
      <3>1. UNCHANGED <<row, age>> /\ RecentAfter(x, 0)
        BY <1>1, <2>2, <2>3 DEF StoreIfPresent, RecentAfter
      <3> QED BY <2>2, <3>1, Steps
    <2>4. CASE row # Absent
      <3>1. Store(x) /\ RecentAfter(x, 0)
        BY <1>1, <2>2, <2>4 DEF StoreIfPresent, Store, RecentAfter
      <3> QED BY <2>2, <3>1, Steps
    <2> QED BY <2>3, <2>4
  <1>4. CASE Drop(p)
    <2> DEFINE x == held[p]
    <2>1. /\ x \in Content /\ x # Absent /\ RecentAfter(x, MaxLatency)
          /\ UNCHANGED <<row, age>> /\ DropOwn(p) /\ Goto(p, "put", x)
      BY <1>1, <1>4 DEF Drop, HeldIsRecent, Recent, RecentAfter
    <2> HIDE DEF x
    <2> QED BY <2>1, Steps
  <1>5. CASE Put(p)
    <2> DEFINE x == held[p]
    <2>1. /\ x \in Blueprint /\ RecentAfter(x, 2 * MaxLatency)
          /\ UNCHANGED <<row, age>> /\ SetOwn(p, x) /\ Goto(p, "idle", Absent)
      BY <1>1, <1>5 DEF Put, HeldIsRecent, Recent, RecentAfter, Content
    <2> HIDE DEF x
    <2> QED BY <2>1, Steps
  <1>6. CASE Disable(p)
    <2>1. CASE row = Absent
      BY <1>6, <2>1, Steps DEF Disable
    <2>2. CASE row # Absent
      <3> DEFINE x == [row EXCEPT !.enabled = FALSE]
      <3>1. x \in Content
        BY <1>1, <2>2 DEF Content, Blueprint
      <3>2. Store(x) /\ Goto(p, "forget", Absent) /\ UNCHANGED entry
        BY <1>6, <2>2 DEF Disable
      <3> HIDE DEF x
      <3> QED BY <3>1, <3>2, Steps
    <2> QED BY <2>1, <2>2
  <1>7. CASE Delete(p)
    BY <1>7, Steps DEF Delete
  <1>8. CASE Forget(p)
    BY <1>8, Steps DEF Forget
  <1> QED BY <1>2, <1>3, <1>4, <1>5, <1>6, <1>7, <1>8 DEF Write

\* Time passes: what is cached has less time left, and what is held waits longer,
\* by as much as contents grow older.
LEMMA TickStep ==
    ASSUME StoreInv, Tick
    PROVE  StoreInv'
  <1> USE Numbers
  <1>1. /\ age' \in [Content -> 0..Old] /\ age'[row'] = 0
        /\ \A x \in Content : age'[x] <= age[x] + 1
    BY DEF Tick, StoreInv, TypeOK, Min
  <1>2. wait' \in [Process -> 0..MaxLatency]
    BY DEF Tick, StoreInv, TypeOK, Waiting
  <1>3. ASSUME NEW c \in Cache
        PROVE  \/ entry'[c] = NoEntry
               \/ /\ entry[c] \in Entry /\ entry'[c] \in Entry
                  /\ entry'[c].content = entry[c].content
                  /\ entry'[c].ttl = entry[c].ttl - 1
    <2>1. CASE entry[c].ttl <= 1
      BY <2>1 DEF Tick
    <2>2. CASE ~(entry[c].ttl <= 1)
      <3>1. entry[c] \in Entry
        BY <2>2 DEF StoreInv, TypeOK, NoEntry
      <3>2. entry'[c] = [entry[c] EXCEPT !.ttl = entry[c].ttl - 1]
        BY <2>2 DEF Tick
      <3> QED BY <2>2, <3>1, <3>2 DEF Entry
    <2> QED BY <2>1, <2>2
  <1>4. entry' \in [Cache -> Entry \cup {NoEntry}]
    <2>1. \A c \in Cache : entry'[c] \in Entry \cup {NoEntry}
      BY <1>3
    <2> QED BY <2>1 DEF Tick
  <1>5. TypeOK'
    BY <1>1, <1>2, <1>4 DEF Tick, StoreInv, TypeOK
  <1>6. BoundedStaleness'
    <2> SUFFICES ASSUME NEW c \in Cache, entry'[c] # NoEntry
                 PROVE  RecentAfter(entry'[c].content, Lag - entry'[c].ttl)
      BY DEF BoundedStaleness, Recent, RecentAfter
    <2> DEFINE x == entry[c].content
               t == entry[c].ttl
    <2>1. /\ x \in Content /\ t \in 1..TTL /\ entry[c] # NoEntry
          /\ entry'[c].content = x /\ entry'[c].ttl = t - 1
      BY <1>3 DEF Entry, NoEntry
    <2>2. Recent(x, Lag - t)
      BY <2>1 DEF StoreInv, BoundedStaleness
    <2> HIDE DEF x, t
    <2>3. age[x] \in Int /\ age[Absent] \in Int /\ age'[x] \in Int /\ age'[Absent] \in Int
      BY <1>1, <2>1 DEF StoreInv, TypeOK
    <2> QED BY <1>1, <2>1, <2>2, <2>3 DEF Recent, RecentAfter
  <1>7. ASSUME NEW p \in Process
        PROVE  HeldIsRecent(p)'
    <2>1. /\ pc'[p] = pc[p] /\ held'[p] = held[p] /\ held[p] \in Content
          /\ pc[p] # "idle" => wait'[p] = wait[p] + 1
          /\ wait[p] \in Int /\ HeldIsRecent(p)
      BY DEF Tick, StoreInv, TypeOK, Waiting
    <2>2. /\ age'[held[p]] <= age[held[p]] + 1 /\ age'[Absent] <= age[Absent] + 1
          /\ age[held[p]] \in Int /\ age'[held[p]] \in Int
          /\ age[Absent] \in Int /\ age'[Absent] \in Int
      BY <1>1, <2>1 DEF StoreInv, TypeOK
    <2> QED BY <2>1, <2>2 DEF HeldIsRecent, Recent
  <1> QED BY <1>1, <1>5, <1>6, <1>7 DEF StoreInv

\* The invariant of the store.
THEOREM StoreCorrect == Spec => []StoreInv
  <1>1. ASSUME StoreInv, [Next]_vars
        PROVE  StoreInv'
    <2>1. ASSUME NEW p \in Process, Read(p)
          PROVE  StoreInv'
      BY <1>1, <2>1, ReadSteps
    <2>2. ASSUME NEW p \in Process, Write(p)
          PROVE  StoreInv'
      BY <1>1, <2>2, WriteSteps
    <2>3. ASSUME NEW p \in Process, Abort(p)
          PROVE  StoreInv'
      BY <1>1, <2>3, Steps, Numbers DEF Abort, Doing, HoldingSteps
    <2>4. ASSUME NEW c \in Cache, Evict(c)
          PROVE  StoreInv'
      <3>1. NoOlder
        BY <1>1, <2>4, RowSteps DEF Evict
      <3>2. entry' \in [Cache -> Entry \cup {NoEntry}] /\ BoundedStaleness'
        BY <1>1, <2>4, <3>1, CacheSteps DEF Evict
      <3> QED BY <1>1, <2>4, <3>2
              DEF Evict, StoreInv, TypeOK, HeldIsRecent, Recent
    <2>5. CASE Tick
      BY <1>1, <2>5, TickStep
    <2>6. CASE UNCHANGED vars
      BY <1>1, <2>6
         DEF vars, StoreInv, TypeOK, BoundedStaleness, HeldIsRecent, Recent
    <2> QED BY <1>1, <2>1, <2>2, <2>3, <2>4, <2>5, <2>6 DEF Next
  <1> QED BY <1>1, StoreInitial, PTL DEF Spec

\* BoundedStaleness: what a cache answers was in the row a little while ago, for
\* any number of processes and caches, shared or not.
THEOREM CachesAreRecent == Spec => []BoundedStaleness
  <1>1. StoreInv => BoundedStaleness
    BY DEF StoreInv
  <1> QED BY <1>1, StoreCorrect, PTL

\* DisableStands: nothing but the owner, or a handler that writes back what it has
\* just read, enables a blueprint that the evaluation has disabled.
THEOREM DisabledStaysDisabled == Spec => DisableStands
  <1>1. ASSUME StoreInv, [Next]_vars
        PROVE  EnabledByOwner
    <2> SUFFICES ASSUME row # Absent, row' # Absent, ~row.enabled, row'.enabled
                 PROVE  \E p \in Process :
                           \/ pc[p] = "idle"
                           \/ /\ pc[p] = "edit" /\ held[p].enabled
                              /\ Recent(held[p], Old - 1)
      BY DEF EnabledByOwner
    <2>1. row' # row
      OBVIOUS
    <2>2. PICK p \in Process : Read(p) \/ Write(p) \/ Abort(p)
      BY <1>1, <2>1 DEF Next, Evict, Tick, vars
    <2>3. CASE pc[p] = "idle"
      BY <2>3
    <2>4. CASE pc[p] # "idle"
      <3>1. PICK r \in Revision : Update(p, r)
        BY <2>1, <2>2, <2>4
           DEF Read, Hit, Miss, Fetch, Fill, Write, Create, Drop, Put, Disable,
               Delete, Forget, Abort
      <3>2. row' = [held[p] EXCEPT !.revision = r] /\ pc[p] = "edit"
        BY <2>1, <3>1 DEF Update, StoreIfPresent, Store
      <3>3. held[p] \in Blueprint /\ HeldIsRecent(p) /\ wait[p] \in 0..MaxLatency
        BY <1>1, <3>2 DEF StoreInv, TypeOK, Content
      <3>4. held[p].enabled
        BY <3>2, <3>3 DEF Blueprint
      <3>5. Recent(held[p], Old - 1)
        <4>1. age[held[p]] \in Int /\ age[Absent] \in Int
          BY <1>1, <3>3, Numbers DEF StoreInv, TypeOK
        <4> QED BY <3>2, <3>3, <4>1, Numbers DEF HeldIsRecent, Recent
      <3> QED BY <3>2, <3>4, <3>5
    <2> QED BY <2>3, <2>4
  <1> QED BY <1>1, StoreCorrect, PTL DEF Spec, DisableStands

------------------------------------------------------------------------------
(* Nodes.                                                                   *)

SlotEntry == [content : Version, ttl : 1..NodeTTL]

\* What a process may do next; all but the last two say nothing of what it carries.
Fills == {"fill node", "fill list"}
NodeDoing == Fills \cup
    {"idle", "fetch node", "fetch list", "delete listed", "delete unlisted",
     "forget node", "forget only node", "forget list"}

NodeTypeOK ==
    /\ stored \in Stored
    /\ slot \in [Slot -> SlotEntry \cup {NoSlotEntry}]
    /\ due \in [Client -> NodeDoing]
    /\ carried \in [Client -> Stored]
    /\ idleTime \in [Client -> 0..MaxDelay]
    /\ since \in [Stored -> 0..Late]

\* What a reader is about to cache was in the table when it fetched it.
CarriesRecent(p) ==
    due[p] \in Fills => carried[p] \in Version /\ since[carried[p]] <= idleTime[p]

\* NodesAreRecent is not inductive: a reader may be about to fill the cache with
\* what it fetched long ago.
NodeInv ==
    /\ NodeTypeOK
    /\ NodesAreRecent
    /\ since[stored] = 0
    /\ \A p \in Client : CarriesRecent(p)

\* Nothing was in the table longer ago than before, as in all steps but PassTime.
NoLonger ==
    /\ since' \in [Stored -> 0..Late]
    /\ \A x \in Stored : since'[x] <= since[x]

\* What may become of the cache in such a step: an entry stays, goes, or is made of
\* what was in the table a moment ago.
SlotsFrom ==
    \A s \in Slot :
        \/ slot'[s] \in {slot[s], NoSlotEntry}
        \/ \E v \in Version : /\ slot'[s] = [content |-> v, ttl |-> NodeTTL]
                              /\ since'[v] <= MaxDelay

LEMMA NodeNumbers ==
    /\ NodeTTL \in Nat /\ NodeTTL >= 1 /\ MaxDelay \in Nat
    /\ CacheLag \in Nat /\ CacheLag = NodeTTL + MaxDelay
    /\ Late \in Nat /\ Late = CacheLag + 1
    /\ Version \subseteq Stored /\ NoNode \in Stored /\ NoNode \notin Version
    /\ NoSlotEntry \notin SlotEntry
  BY NodeAssumption DEF CacheLag, Late, Stored, SlotEntry, NoSlotEntry

LEMMA NodeInitial == NodeInit => NodeInv
  <1> SUFFICES ASSUME NodeInit PROVE NodeInv
    OBVIOUS
  <1>1. NodeTypeOK
    BY NodeNumbers DEF NodeInit, NodeTypeOK, NodeDoing
  <1>2. \A p \in Client : CarriesRecent(p)
    BY DEF NodeInit, CarriesRecent, Fills
  <1> QED BY <1>1, <1>2 DEF NodeInit, NodeInv, NodesAreRecent, Stored

\* The row stays, or is written.
LEMMA NodeRowSteps ==
    ASSUME NodeInv, UNCHANGED <<stored, since>> \/ \E v \in Stored : Save(v)
    PROVE  stored' \in Stored /\ since'[stored'] = 0 /\ NoLonger
  <1>1. stored \in Stored /\ since \in [Stored -> 0..Late] /\ since[stored] = 0
    BY DEF NodeInv, NodeTypeOK
  <1>2. CASE UNCHANGED <<stored, since>>
    BY <1>1, <1>2, NodeNumbers DEF NoLonger
  <1>3. ASSUME NEW v \in Stored, Save(v)
        PROVE  stored' \in Stored /\ since'[stored'] = 0 /\ NoLonger
    BY <1>1, <1>3, NodeNumbers DEF NoLonger, Save
  <1> QED BY <1>2, <1>3

\* The cache follows its rules.
LEMMA SlotSteps ==
    ASSUME NodeInv, NoLonger, slot' \in [Slot -> SlotEntry \cup {NoSlotEntry}], SlotsFrom
    PROVE  NodesAreRecent'
  <1> SUFFICES ASSUME NEW s \in Slot, slot'[s] # NoSlotEntry
               PROVE  since'[slot'[s].content] <= CacheLag - slot'[s].ttl
    BY DEF NodesAreRecent, CacheLag
  <1>1. CASE slot'[s] = slot[s]
    <2>1. PICK v \in Version, n \in 1..NodeTTL : slot[s] = [content |-> v, ttl |-> n]
      BY <1>1 DEF NodeInv, NodeTypeOK, SlotEntry
    <2>2. since[v] <= CacheLag - n
      BY <1>1, <2>1 DEF NodeInv, NodesAreRecent
    <2>3. since[v] \in Int /\ since'[v] \in Int /\ since'[v] <= since[v]
      BY NodeNumbers DEF NodeInv, NodeTypeOK, NoLonger
    <2>4. since'[v] <= CacheLag - n
      BY <2>2, <2>3, NodeNumbers
    <2> QED BY <1>1, <2>1, <2>4
  <1>2. ASSUME NEW v \in Version, slot'[s] = [content |-> v, ttl |-> NodeTTL],
               since'[v] <= MaxDelay
        PROVE  since'[slot'[s].content] <= CacheLag - slot'[s].ttl
    BY <1>2, NodeNumbers
  <1> QED BY <1>1, <1>2 DEF SlotsFrom

\* A process goes on to its next command.
LEMMA ClientSteps ==
    ASSUME NodeInv, NoLonger, NEW p \in Client, NEW what \in NodeDoing, NEW v \in Stored,
           Then(p, what, v),
           what \in Fills => v \in Version /\ since'[v] = 0
    PROVE  /\ due' \in [Client -> NodeDoing]
           /\ carried' \in [Client -> Stored]
           /\ idleTime' \in [Client -> 0..MaxDelay]
           /\ \A q \in Client : CarriesRecent(q)'
  <1>1. /\ due \in [Client -> NodeDoing] /\ carried \in [Client -> Stored]
        /\ idleTime \in [Client -> 0..MaxDelay] /\ since \in [Stored -> 0..Late]
    BY DEF NodeInv, NodeTypeOK
  <1>2. /\ due' \in [Client -> NodeDoing]
        /\ carried' \in [Client -> Stored]
        /\ idleTime' \in [Client -> 0..MaxDelay]
    BY <1>1, NodeNumbers DEF Then
  <1>3. CarriesRecent(p)'
    <2>1. due'[p] = what /\ carried'[p] = v /\ idleTime'[p] = 0
      BY <1>1 DEF Then
    <2> QED BY <2>1 DEF CarriesRecent
  <1>4. ASSUME NEW q \in Client, q # p
        PROVE  CarriesRecent(q)'
    <2>1. due'[q] = due[q] /\ carried'[q] = carried[q] /\ idleTime'[q] = idleTime[q]
      BY <1>1, <1>4 DEF Then
    <2>2. since'[carried[q]] <= since[carried[q]] /\ idleTime[q] \in Int
      BY <1>1, NodeNumbers DEF NoLonger
    <2>3. since'[carried[q]] \in Int /\ since[carried[q]] \in Int
      BY <1>1, NodeNumbers DEF NoLonger
    <2> QED BY <2>1, <2>2, <2>3 DEF NodeInv, CarriesRecent
  <1> QED BY <1>2, <1>3, <1>4

\* The three lemmas together: a step of a process.
LEMMA NodeSteps ==
    ASSUME NodeInv, NEW p \in Client, NEW what \in NodeDoing, NEW v \in Stored,
           Then(p, what, v),
           what \in Fills => v \in Version /\ since[v] = 0 /\ since' = since,
           UNCHANGED <<stored, since>> \/ \E x \in Stored : Save(x),
           slot' \in [Slot -> SlotEntry \cup {NoSlotEntry}], SlotsFrom
    PROVE  NodeInv'
  <1>1. stored' \in Stored /\ since'[stored'] = 0 /\ NoLonger
    BY NodeRowSteps
  <1>2. NodesAreRecent'
    BY <1>1, SlotSteps
  <1>3. /\ due' \in [Client -> NodeDoing]
        /\ carried' \in [Client -> Stored]
        /\ idleTime' \in [Client -> 0..MaxDelay]
        /\ \A q \in Client : CarriesRecent(q)'
    BY <1>1, ClientSteps
  <1> QED BY <1>1, <1>2, <1>3 DEF NodeInv, NodeTypeOK, NoLonger

\* The cache as it is, or after an invalidation.
LEMMA SlotsKept ==
    ASSUME NodeInv, UNCHANGED slot \/ \E which \in Slot : Invalidate(which)
    PROVE  slot' \in [Slot -> SlotEntry \cup {NoSlotEntry}] /\ SlotsFrom
  <1>1. slot \in [Slot -> SlotEntry \cup {NoSlotEntry}]
    BY DEF NodeInv, NodeTypeOK
  <1>2. CASE UNCHANGED slot
    BY <1>1, <1>2 DEF SlotsFrom
  <1>3. ASSUME NEW which \in Slot, Invalidate(which)
        PROVE  slot' \in [Slot -> SlotEntry \cup {NoSlotEntry}] /\ SlotsFrom
    BY <1>1, <1>3 DEF Invalidate, SlotsFrom, Slot
  <1> QED BY <1>2, <1>3

------------------------------------------------------------------------------

\* get_node and list_nodes.
LEMMA NodeReadSteps ==
    ASSUME NodeInv, NEW p \in Client, NEW which \in Slot,
           MissSlot(p, which) \/ FetchRow(p, which) \/ FillSlot(p, which)
    PROVE  NodeInv'
  <1> USE DEF NodeDoing, Fills
  <1>0. /\ Fetching["node"] = "fetch node" /\ Fetching["list"] = "fetch list"
        /\ Filling["node"] = "fill node" /\ Filling["list"] = "fill list"
    BY DEF Fetching, Filling
  <1>1. /\ stored \in Stored /\ since[stored] = 0 /\ NoNode \in Stored
        /\ Fetching[which] \in NodeDoing \ Fills /\ Filling[which] \in Fills
    BY <1>0, NodeNumbers DEF NodeInv, NodeTypeOK, Slot
  <1>2. CASE MissSlot(p, which)
    <2>1. Then(p, Fetching[which], NoNode) /\ UNCHANGED <<stored, slot, since>>
      BY <1>2 DEF MissSlot
    <2> QED BY <1>1, <2>1, NodeSteps, SlotsKept
  <1>3. CASE FetchRow(p, which)
    <2>1. UNCHANGED <<stored, slot, since>>
      BY <1>3 DEF FetchRow
    <2>2. CASE stored = NoNode /\ Then(p, "idle", NoNode)
      BY <1>1, <2>1, <2>2, NodeSteps, SlotsKept
    <2>3. CASE stored # NoNode /\ Then(p, Filling[which], stored)
      <3>1. stored \in Version
        BY <1>1, <2>3 DEF Stored
      <3> QED BY <1>1, <2>1, <2>3, <3>1, NodeSteps, SlotsKept
    <2> QED BY <1>3, <2>2, <2>3 DEF FetchRow
  <1>4. CASE FillSlot(p, which)
    <2>1. PICK v \in Version : v = carried[p] /\ since[v] <= idleTime[p]
      <3>1. due[p] \in Fills
        BY <1>1, <1>4 DEF FillSlot, At
      <3> QED BY <3>1 DEF NodeInv, CarriesRecent
    <2>2. /\ UNCHANGED <<stored, since>> /\ Then(p, "idle", NoNode)
          /\ SetSlots(which, v)
      BY <1>4, <2>1 DEF FillSlot
    <2>3. since'[v] <= MaxDelay
      <3>0. v \in Stored
        BY NodeNumbers
      <3>1. idleTime[p] \in 0..MaxDelay /\ since[v] \in 0..Late
        BY <3>0 DEF NodeInv, NodeTypeOK
      <3> QED BY <2>1, <2>2, <3>1, NodeNumbers
    <2> DEFINE new == [content |-> v, ttl |-> NodeTTL]
    <2>4. new \in SlotEntry
      BY NodeNumbers DEF SlotEntry
    <2>5. /\ slot \in [Slot -> SlotEntry \cup {NoSlotEntry}]
          /\ \/ slot' = [node |-> new, list |-> NoSlotEntry]
             \/ slot' = [slot EXCEPT !.list = NoSlotEntry]
             \/ slot' = [node |-> new, list |-> new]
             \/ slot' = [slot EXCEPT !.list = new]
             \/ slot' = slot
      BY <2>2 DEF SetSlots, NodeInv, NodeTypeOK
    <2>6. \A s \in Slot : slot'[s] \in {slot[s], NoSlotEntry, new}
      <3> HIDE DEF new
      <3> QED BY <2>5 DEF Slot
    <2>7. slot' \in [Slot -> SlotEntry \cup {NoSlotEntry}]
      <3> HIDE DEF new
      <3> QED BY <2>4, <2>5 DEF Slot
    <2>8. SlotsFrom
      BY <2>3, <2>6 DEF SlotsFrom
    <2> QED BY <1>1, <2>2, <2>7, <2>8, NodeSteps
  <1> QED BY <1>2, <1>3, <1>4

\* upsert_node, delete_node, delete_nodes_for_blueprint.
LEMMA NodeWriteSteps ==
    ASSUME NodeInv, NEW p \in Client,
           \/ \E v \in Version : UpsertRow(p, v)
           \/ FindRow(p) \/ DeleteRowOf(p) \/ DeleteRows(p)
           \/ ForgetNode(p) \/ ForgetList(p) \/ GiveUp(p)
    PROVE  NodeInv'
  <1> USE DEF NodeDoing, Fills
  <1>1. NoNode \in Stored
    BY NodeNumbers
  <1>2. ASSUME NEW v \in Version, UpsertRow(p, v)
        PROVE  NodeInv'
    <2>1. v \in Stored /\ Save(v) /\ Then(p, "forget node", v) /\ UNCHANGED slot
      BY <1>2, NodeNumbers DEF UpsertRow
    <2> QED BY <2>1, NodeSteps, SlotsKept
  <1>3. CASE FindRow(p)
    <2>1. PICK what \in {"delete listed", "delete unlisted"} : Then(p, what, NoNode)
      BY <1>3 DEF FindRow
    <2> QED BY <1>1, <1>3, <2>1, NodeSteps, SlotsKept DEF FindRow
  <1>4. CASE DeleteRowOf(p)
    <2>1. PICK what \in {"forget node", "forget only node"} : Then(p, what, NoNode)
      BY <1>4 DEF DeleteRowOf
    <2> QED BY <1>1, <1>4, <2>1, NodeSteps, SlotsKept DEF DeleteRowOf
  <1>5. CASE DeleteRows(p)
    BY <1>1, <1>5, NodeSteps, SlotsKept DEF DeleteRows
  <1>6. CASE ForgetNode(p)
    <2>1. PICK what \in {"forget list", "idle"} : Then(p, what, NoNode)
      BY <1>6 DEF ForgetNode
    <2> QED BY <1>1, <1>6, <2>1, NodeSteps, SlotsKept DEF ForgetNode, Slot
  <1>7. CASE ForgetList(p)
    BY <1>1, <1>7, NodeSteps, SlotsKept DEF ForgetList, Slot
  <1>8. CASE GiveUp(p)
    BY <1>1, <1>8, NodeSteps, SlotsKept DEF GiveUp
  <1> QED BY <1>2, <1>3, <1>4, <1>5, <1>6, <1>7, <1>8

\* Time passes: entries have less left and readers wait longer, by as much as
\* versions are longer gone.
LEMMA PassTimeStep ==
    ASSUME NodeInv, PassTime
    PROVE  NodeInv'
  <1>1. /\ stored' = stored /\ stored \in Stored /\ due' = due /\ carried' = carried
        /\ due \in [Client -> NodeDoing] /\ carried \in [Client -> Stored]
        /\ since \in [Stored -> 0..Late] /\ idleTime \in [Client -> 0..MaxDelay]
        /\ slot \in [Slot -> SlotEntry \cup {NoSlotEntry}]
    BY DEF PassTime, NodeInv, NodeTypeOK
  <1>2. /\ since' \in [Stored -> 0..Late] /\ since'[stored] = 0
        /\ \A x \in Stored : since'[x] <= since[x] + 1
    BY <1>1, NodeNumbers DEF PassTime
  <1>3. idleTime' \in [Client -> 0..MaxDelay]
    BY <1>1, NodeNumbers DEF PassTime
  <1>4. ASSUME NEW s \in Slot
        PROVE  \/ slot'[s] = NoSlotEntry
               \/ \E v \in Version, n \in 1..NodeTTL :
                     /\ slot[s] = [content |-> v, ttl |-> n] /\ n > 1
                     /\ slot'[s] = [content |-> v, ttl |-> n - 1]
    <2>1. CASE slot[s].ttl <= 1
      BY <2>1 DEF PassTime
    <2>2. CASE ~(slot[s].ttl <= 1)
      <3>1. slot[s] \in SlotEntry
        BY <1>1, <2>2 DEF NoSlotEntry
      <3>2. PICK v \in Version, n \in 1..NodeTTL : slot[s] = [content |-> v, ttl |-> n]
        BY <3>1 DEF SlotEntry
      <3>3. n > 1
        BY <2>2, <3>2
      <3>4. slot'[s] = [content |-> v, ttl |-> n - 1]
        BY <2>2, <3>2 DEF PassTime
      <3> QED BY <3>2, <3>3, <3>4
    <2> QED BY <2>1, <2>2
  <1>5. slot' \in [Slot -> SlotEntry \cup {NoSlotEntry}]
    <2>1. ASSUME NEW v \in Version, NEW n \in 1..NodeTTL, n > 1
          PROVE  [content |-> v, ttl |-> n - 1] \in SlotEntry
      BY <2>1, NodeNumbers DEF SlotEntry
    <2>2. \A s \in Slot : slot'[s] \in SlotEntry \cup {NoSlotEntry}
      BY <1>4, <2>1
    <2> QED BY <2>2 DEF PassTime
  <1>6. NodesAreRecent'
    <2> SUFFICES ASSUME NEW s \in Slot, slot'[s] # NoSlotEntry
                 PROVE  since'[slot'[s].content] <= CacheLag - slot'[s].ttl
      BY DEF NodesAreRecent, CacheLag
    <2>1. PICK v \in Version, n \in 1..NodeTTL :
              /\ slot[s] = [content |-> v, ttl |-> n]
              /\ slot'[s] = [content |-> v, ttl |-> n - 1]
      BY <1>4
    <2>2. slot[s] # NoSlotEntry
      BY <2>1, NodeNumbers DEF SlotEntry
    <2>3. since[v] <= CacheLag - n
      BY <2>1, <2>2 DEF NodeInv, NodesAreRecent
    <2>4. v \in Stored /\ since[v] \in Int /\ since'[v] \in Int /\ n \in Int
      BY <1>1, <1>2, NodeNumbers
    <2>5. since'[v] <= CacheLag - (n - 1)
      BY <1>2, <2>3, <2>4, NodeNumbers
    <2> QED BY <2>1, <2>5
  <1>7. ASSUME NEW p \in Client
        PROVE  CarriesRecent(p)'
    <2> SUFFICES ASSUME due[p] \in Fills
                 PROVE  carried[p] \in Version /\ since'[carried[p]] <= idleTime'[p]
      BY <1>1 DEF CarriesRecent
    <2>1. carried[p] \in Version /\ since[carried[p]] <= idleTime[p]
      BY DEF NodeInv, CarriesRecent
    <2>2. idleTime'[p] = idleTime[p] + 1
      BY DEF PassTime, At, Fills
    <2>3. /\ since[carried[p]] \in Int /\ since'[carried[p]] \in Int
          /\ idleTime[p] \in Int /\ since'[carried[p]] <= since[carried[p]] + 1
      BY <1>1, <1>2, NodeNumbers
    <2> QED BY <2>1, <2>2, <2>3
  <1> QED BY <1>1, <1>2, <1>3, <1>5, <1>6, <1>7 DEF NodeInv, NodeTypeOK

\* The invariant of the node storage and its cache.
THEOREM NodeStoreCorrect == NodeSpec => []NodeInv
  <1>1. ASSUME NodeInv, [NodeNext]_nodeVars
        PROVE  NodeInv'
    <2>1. CASE UNCHANGED nodeVars
      BY <1>1, <2>1 DEF nodeVars, NodeInv, NodeTypeOK, NodesAreRecent, CarriesRecent
    <2> QED BY <1>1, <2>1, NodeReadSteps, NodeWriteSteps, PassTimeStep DEF NodeNext
  <1> QED BY <1>1, NodeInitial, PTL DEF NodeSpec

\* NodesAreRecent: what the cache of nodes answers was in the table at most its time
\* to live and the delay of one command ago (src/storage/cached_node_storage.rs), for
\* any number of processes and versions.
THEOREM CachedNodesAreRecent == NodeSpec => []NodesAreRecent
  <1>1. NodeInv => NodesAreRecent
    BY DEF NodeInv
  <1> QED BY <1>1, NodeStoreCorrect, PTL

------------------------------------------------------------------------------
(* Identities.                                                              *)

Resolution ==
    [step : {"idle", "storage", "directory", "cache", "cache and store"},
     subject : Subject, doc : Hour \cup {NoDoc}]

IdentityTypeOK ==
    /\ hour \in Hour
    /\ memory \in [Subject -> [doc : Hour, at : Hour] \cup {None}]
    /\ kept \in Hour \cup {NoDoc}
    /\ resolving \in [Resolver -> Resolution]
    /\ answer \in [subject : Subject, doc : Hour] \cup {NoAnswer}
    /\ lastHeld \in [Hour -> Int]

\* A document that was cached while the directory had just given it, or, for a DID,
\* while the storage held it - as long as anybody would be answered with it.
Founded(subject) ==
    LET cached == memory[subject]
    IN  cached # None /\ ~Expired(cached) =>
           \/ cached.doc = cached.at
           \/ subject = "did" /\ lastHeld[cached.doc] >= cached.at

\* What a resolution has found is as of now: nothing takes longer than an hour.
FoundNow(r) ==
    /\ resolving[r].step = "cache" =>
          /\ resolving[r].subject = "did"
          /\ resolving[r].doc \in Hour /\ lastHeld[resolving[r].doc] = hour
    /\ resolving[r].step = "cache and store" => resolving[r].doc = hour

\* DocumentsAreBounded says nothing of what will be answered: it takes what the
\* memory holds and what is about to be cached.
IdentityInv ==
    /\ IdentityTypeOK
    /\ DocumentsAreBounded
    /\ kept # NoDoc => lastHeld[kept] = hour
    /\ \A d \in Hour : lastHeld[d] <= hour
    /\ \A s \in Subject : Founded(s)
    /\ \A r \in Resolver : FoundNow(r)

\* Documents and hours are numbers; what stands for none of them is not.
LEMMA Sentinels ==
    /\ MemoryTTL \in Nat /\ MaxHour \in Nat /\ Hour \subseteq Nat
    /\ NoDoc \in Int /\ NoDoc \notin Hour
    /\ Forgotten \in Int /\ Forgotten < 0 - MemoryTTL
    /\ None \notin [doc : Hour, at : Hour]
    /\ \A x \in [subject : Subject, doc : Hour] : x # NoAnswer
  BY IdentityAssumption DEF Hour, NoDoc, Forgotten, None, NoAnswer

LEMMA IdentityInitial == IdentityInit => IdentityInv
  <1> SUFFICES ASSUME IdentityInit PROVE IdentityInv
    OBVIOUS
  <1>1. IdentityTypeOK
    <2>1. 0 \in Hour /\ NotResolving \in Resolution
      BY Sentinels, IdentityAssumption DEF Hour, NotResolving, Resolution, Subject
    <2> QED BY <2>1, Sentinels DEF IdentityInit, IdentityTypeOK
  <1>2. \A r \in Resolver : FoundNow(r)
    BY DEF IdentityInit, FoundNow, NotResolving
  <1>3. \A d \in Hour : lastHeld[d] <= hour
    BY Sentinels, IdentityAssumption DEF IdentityInit
  <1> QED BY <1>1, <1>2, <1>3 DEF IdentityInit, IdentityInv, DocumentsAreBounded, Founded

\* How what the storage has held changes: a document is held later than before, or
\* it was so long ago that nobody is answered with it.
HoldsOn ==
    \A d \in Hour : lastHeld'[d] <= hour' /\
        \/ lastHeld'[d] >= lastHeld[d]
        \/ hour' - lastHeld[d] > MemoryTTL

LEMMA HoldingOn ==
    ASSUME IdentityInv, IdentityTypeOK, hour' \in Hour, hour <= hour',
           NEW doc \in Hour \cup {NoDoc}, lastHeld' = Holding(doc, hour')
    PROVE  /\ lastHeld' \in [Hour -> Int]
           /\ HoldsOn
           /\ doc # NoDoc => lastHeld'[doc] = hour'
  <1>1. /\ hour \in Hour /\ lastHeld \in [Hour -> Int]
        /\ \A d \in Hour : lastHeld[d] <= hour
    BY DEF IdentityInv, IdentityTypeOK
  <1>2. lastHeld' = [d \in Hour |-> IF d = doc THEN hour' ELSE
                    IF hour' - lastHeld[d] <= MemoryTTL THEN lastHeld[d] ELSE Forgotten]
    BY DEF Holding, Current
  <1> QED BY <1>1, <1>2, Sentinels DEF HoldsOn

\* What is not too old now was not before; what was held later than it is not older.
LEMMA Ages ==
    \A at, h1, h2, old, new, ttl \in Int : ~(h2 - at > ttl) =>
        /\ h1 <= h2 => ~(h1 - at > ttl)
        /\ (new >= old \/ h2 - old > ttl) /\ old >= at => new >= at
  OBVIOUS

\* What is cached stays as well founded as it was.
LEMMA FoundedOn ==
    ASSUME IdentityInv, hour' \in Hour, hour <= hour', lastHeld' \in [Hour -> Int], HoldsOn,
           NEW s \in Subject, memory'[s] \in {memory[s], None}
    PROVE  Founded(s)'
  <1> SUFFICES ASSUME memory'[s] = memory[s], memory[s] # None, ~Expired(memory[s])'
               PROVE  \/ memory[s].doc = memory[s].at
                      \/ s = "did" /\ lastHeld'[memory[s].doc] >= memory[s].at
    BY DEF Founded
  <1>1. PICK doc \in Hour, at \in Hour : memory[s] = [doc |-> doc, at |-> at]
    BY DEF IdentityInv, IdentityTypeOK
  <1>2. at \in Int /\ hour \in Int /\ hour' \in Int /\ MemoryTTL \in Int
    BY Sentinels DEF IdentityInv, IdentityTypeOK
  <1>3. lastHeld[doc] \in Int /\ lastHeld'[doc] \in Int
    BY DEF IdentityInv, IdentityTypeOK
  <1>4. ~(hour' - at > MemoryTTL)
    BY <1>1 DEF Expired
  <1>5. ~(hour - at > MemoryTTL)
    BY <1>2, <1>4, Ages
  <1>6. doc = at \/ (s = "did" /\ lastHeld[doc] >= at)
    BY <1>1, <1>5 DEF IdentityInv, Founded, Expired
  <1>7. lastHeld'[doc] >= lastHeld[doc] \/ hour' - lastHeld[doc] > MemoryTTL
    BY DEF HoldsOn
  <1>8. lastHeld[doc] >= at => lastHeld'[doc] >= at
    BY <1>2, <1>3, <1>4, <1>7, Ages
  <1> QED BY <1>1, <1>6, <1>8

\* And what a resolution has found stays so while the hour lasts.
LEMMA FoundOn ==
    ASSUME IdentityInv, hour' = hour, lastHeld' \in [Hour -> Int], HoldsOn,
           NEW r \in Resolver, resolving'[r] = resolving[r]
    PROVE  FoundNow(r)'
  <1>1. CASE resolving[r].step # "cache"
    BY <1>1 DEF IdentityInv, FoundNow
  <1>2. CASE resolving[r].step = "cache"
    <2> DEFINE doc == resolving[r].doc
    <2>1. resolving[r].subject = "did" /\ doc \in Hour /\ lastHeld[doc] = hour
      BY <1>2 DEF IdentityInv, FoundNow
    <2>2. hour \in Nat /\ lastHeld'[doc] \in Int
      <3>1. hour \in Hour
        BY DEF IdentityInv, IdentityTypeOK
      <3> QED BY <2>1, <3>1, Sentinels
    <2>3. lastHeld'[doc] <= hour /\ (lastHeld'[doc] >= hour \/ hour - hour > MemoryTTL)
      BY <2>1 DEF HoldsOn
    <2>4. lastHeld'[doc] = hour
      BY <2>2, <2>3, Sentinels
    <2> QED BY <1>2, <2>1, <2>4 DEF FoundNow
  <1> QED BY <1>1, <1>2

------------------------------------------------------------------------------

\* Steps that change neither the hour nor what the storage has held.
LEMMA StillHolds ==
    ASSUME IdentityInv, hour' = hour, lastHeld' = lastHeld
    PROVE  /\ hour' \in Hour /\ hour <= hour' /\ lastHeld' \in [Hour -> Int] /\ HoldsOn
           /\ \A d \in Hour : lastHeld'[d] <= hour'
  <1>1. /\ hour \in Hour /\ lastHeld \in [Hour -> Int] /\ \A d \in Hour : lastHeld[d] <= hour
    BY DEF IdentityInv, IdentityTypeOK
  <1> QED BY <1>1, Sentinels DEF HoldsOn

\* A subject is resolved from what the memory holds, or goes on to the storage.
LEMMA ResolveStep ==
    ASSUME IdentityInv, NEW r \in Resolver, NEW s \in Subject, Resolve(r, s)
    PROVE  IdentityInv'
  <1> DEFINE cached == memory[s]
  <1>1. UNCHANGED <<hour, kept, lastHeld>>
    BY DEF Resolve
  <1>2. \A t \in Subject : memory'[t] \in {memory[t], None}
    BY DEF Resolve, IdentityInv, IdentityTypeOK
  <1>3. \A t \in Subject : Founded(t)'
    BY <1>1, <1>2, StillHolds, FoundedOn
  <1>4. resolving'[r].step \in {"idle", "storage"} /\ resolving' \in [Resolver -> Resolution]
    <2>1. NotResolving \in Resolution /\
          [step |-> "storage", subject |-> s, doc |-> NoDoc] \in Resolution
      BY DEF NotResolving, Resolution, Subject
    <2> QED BY <2>1 DEF Resolve, Answers, IdentityInv, IdentityTypeOK, NotResolving
  <1>5. \A q \in Resolver : FoundNow(q)'
    <2>1. \A q \in Resolver \ {r} : resolving'[q] = resolving[q]
      BY DEF Resolve, Answers, IdentityInv, IdentityTypeOK
    <2>2. FoundNow(r)'
      BY <1>4 DEF FoundNow
    <2> QED BY <1>1, <2>1, <2>2, StillHolds, FoundOn
  <1>6. memory' \in [Subject -> [doc : Hour, at : Hour] \cup {None}]
    BY DEF Resolve, IdentityInv, IdentityTypeOK
  <1>7. CASE answer' = NoAnswer
    BY <1>1, <1>3, <1>4, <1>5, <1>6, <1>7
       DEF IdentityInv, IdentityTypeOK, DocumentsAreBounded
  <1>8. CASE /\ cached # None /\ ~Expired(cached)
             /\ answer' = [subject |-> s, doc |-> cached.doc]
    <2>1. cached \in [doc : Hour, at : Hour]
      BY <1>8 DEF IdentityInv, IdentityTypeOK
    <2>2. cached.doc = cached.at \/ (s = "did" /\ lastHeld[cached.doc] >= cached.at)
      BY <1>8 DEF IdentityInv, Founded
    <2>3. /\ hour \in Nat /\ cached.doc \in Hour /\ cached.at \in Nat
          /\ lastHeld[cached.doc] \in Int
      BY <2>1, Sentinels DEF IdentityInv, IdentityTypeOK
    <2>4. hour - cached.at <= MemoryTTL
      BY <1>8, <2>3, Sentinels DEF Expired
    <2>5. Current(cached.doc, hour) \/ (s = "did" /\ Current(lastHeld[cached.doc], hour))
      BY <2>2, <2>3, <2>4, Sentinels DEF Current
    <2>6. answer' \in [subject : Subject, doc : Hour] /\ DocumentsAreBounded'
      BY <1>1, <1>8, <2>3, <2>5 DEF DocumentsAreBounded, Current
    <2> QED BY <1>1, <1>3, <1>4, <1>5, <1>6, <2>6 DEF IdentityInv, IdentityTypeOK
  <1> QED BY <1>7, <1>8 DEF Resolve, Answers

\* A resolution asks the storage or the directory.
LEMMA AskSteps ==
    ASSUME IdentityInv, NEW r \in Resolver, AskStorage(r) \/ AskDirectory(r)
    PROVE  IdentityInv'
  <1>1. UNCHANGED <<hour, memory, kept, lastHeld>> /\ answer' = NoAnswer
    BY DEF AskStorage, AskDirectory
  <1>2. /\ resolving[r] \in Resolution /\ hour \in Hour /\ kept \in Hour \cup {NoDoc}
        /\ resolving \in [Resolver -> Resolution]
    BY DEF IdentityInv, IdentityTypeOK
  <1>3. resolving'[r] \in Resolution /\ FoundNow(r)'
    <2>1. CASE resolving' = [resolving EXCEPT ![r].step = "cache", ![r].doc = kept]
               /\ resolving[r].subject = "did" /\ kept # NoDoc
      <3>1. resolving'[r] = [step |-> "cache", subject |-> "did", doc |-> kept]
        BY <1>2, <2>1 DEF Resolution
      <3>2. kept \in Hour /\ lastHeld[kept] = hour
        BY <1>2, <2>1 DEF IdentityInv
      <3> QED BY <1>1, <3>1, <3>2 DEF FoundNow, Resolution, Subject
    <2>2. CASE resolving' = [resolving EXCEPT ![r].step = "directory"]
      BY <1>2, <2>2 DEF FoundNow, Resolution
    <2>3. CASE resolving' = [resolving EXCEPT ![r].step = "cache and store", ![r].doc = hour]
      BY <1>1, <1>2, <2>3 DEF FoundNow, Resolution
    <2>4. CASE resolving' = [resolving EXCEPT ![r] = NotResolving]
      BY <1>2, <2>4 DEF FoundNow, Resolution, NotResolving, Subject
    <2> QED BY <2>1, <2>2, <2>3, <2>4 DEF AskStorage, AskDirectory
  <1>4. /\ resolving' \in [Resolver -> Resolution]
        /\ \A q \in Resolver \ {r} : resolving'[q] = resolving[q]
    BY <1>2, <1>3 DEF AskStorage, AskDirectory
  <1>5. \A q \in Resolver : FoundNow(q)'
    BY <1>1, <1>3, <1>4, StillHolds, FoundOn
  <1>6. \A s \in Subject : Founded(s)'
    BY <1>1, StillHolds, FoundedOn
  <1> QED BY <1>1, <1>4, <1>5, <1>6 DEF IdentityInv, IdentityTypeOK, DocumentsAreBounded

\* What a resolution has found is cached and answered.
LEMMA DocumentCached ==
    ASSUME IdentityInv, NEW r \in Resolver, CacheStored(r) \/ CacheFresh(r)
    PROVE  IdentityInv'
  <1>0. PICK s \in Subject, doc \in Hour :
           /\ s = resolving[r].subject /\ doc = resolving[r].doc
           /\ doc = hour \/ (s = "did" /\ lastHeld[doc] = hour)
    BY DEF CacheStored, CacheFresh, IdentityInv, IdentityTypeOK, FoundNow, Resolution
  <1>1. hour' = hour /\ hour \in Hour /\ kept \in Hour \cup {NoDoc}
    BY DEF CacheStored, CacheFresh, IdentityInv, IdentityTypeOK, FoundNow, Resolution
  <1>2. /\ memory' = [memory EXCEPT ![s] = [doc |-> doc, at |-> hour]]
        /\ answer' = [subject |-> s, doc |-> doc]
        /\ resolving' = [resolving EXCEPT ![r] = NotResolving]
        /\ kept' \in {kept, doc}
        /\ UNCHANGED <<kept, lastHeld>> \/ lastHeld' = Holding(kept', hour')
    BY <1>0 DEF CacheStored, CacheFresh, Answers
  <1>3. /\ lastHeld' \in [Hour -> Int] /\ HoldsOn
        /\ kept' # NoDoc => lastHeld'[kept'] = hour'
        /\ \A d \in Hour : lastHeld'[d] <= hour'
    <2>1. CASE UNCHANGED <<kept, lastHeld>>
      BY <1>1, <2>1, StillHolds DEF IdentityInv
    <2>2. CASE lastHeld' = Holding(kept', hour')
      <3>1. kept' \in Hour \cup {NoDoc} /\ hour <= hour' /\ IdentityTypeOK
        BY <1>1, <1>2, Sentinels DEF IdentityInv
      <3> QED BY <1>1, <2>2, <3>1, HoldingOn DEF HoldsOn
    <2> QED BY <1>2, <2>1, <2>2
  <1>4. hour <= hour' /\ hour \in Nat
    BY <1>1, Sentinels
  <1>5. doc = hour \/ (s = "did" /\ lastHeld'[doc] = hour)
    <2>1. CASE lastHeld[doc] = hour
      <3>1. lastHeld'[doc] <= hour /\ (lastHeld'[doc] >= hour \/ hour - hour > MemoryTTL)
        BY <1>0, <1>1, <1>3, <2>1 DEF HoldsOn
      <3>2. lastHeld'[doc] = hour
        BY <1>1, <1>3, <1>4, <3>1, Sentinels
      <3> QED BY <1>0, <3>2
    <2> QED BY <1>0, <2>1
  <1>6. \A t \in Subject : Founded(t)'
    <2>1. ASSUME NEW t \in Subject, t # s
          PROVE  Founded(t)'
      <3>1. memory'[t] = memory[t]
        BY <1>2, <2>1 DEF IdentityInv, IdentityTypeOK
      <3> QED BY <1>1, <1>3, <1>4, <3>1, FoundedOn
    <2>2. Founded(s)'
      <3>1. memory'[s] = [doc |-> doc, at |-> hour]
        BY <1>1, <1>2 DEF IdentityInv, IdentityTypeOK
      <3>2. hour >= hour
        BY <1>4
      <3> QED BY <1>5, <3>1, <3>2 DEF Founded
    <2> QED BY <2>1, <2>2
  <1>7. /\ resolving' \in [Resolver -> Resolution]
        /\ \A q \in Resolver : FoundNow(q)'
    <2>1. NotResolving \in Resolution
      BY DEF NotResolving, Resolution, Subject
    <2>2. /\ resolving' \in [Resolver -> Resolution] /\ resolving'[r] = NotResolving
          /\ \A q \in Resolver \ {r} : resolving'[q] = resolving[q]
      BY <1>2, <2>1 DEF IdentityInv, IdentityTypeOK
    <2>3. FoundNow(r)'
      BY <2>2 DEF FoundNow, NotResolving
    <2> QED BY <1>1, <1>3, <2>2, <2>3, FoundOn
  <1>8. memory' \in [Subject -> [doc : Hour, at : Hour] \cup {None}]
        /\ answer' \in [subject : Subject, doc : Hour]
    BY <1>1, <1>2 DEF IdentityInv, IdentityTypeOK
  <1>9. DocumentsAreBounded'
    <2>1. hour - hour <= MemoryTTL
      BY <1>4, Sentinels
    <2> QED BY <1>1, <1>2, <1>5, <2>1 DEF DocumentsAreBounded, Current
  <1> QED BY <1>1, <1>2, <1>3, <1>6, <1>7, <1>8, <1>9 DEF IdentityInv, IdentityTypeOK

\* A cache drops what it has, or an hour passes.
LEMMA OtherSteps ==
    ASSUME IdentityInv, EvictDocument \/ PassHour
    PROVE  IdentityInv'
  <1>1. CASE EvictDocument
    <2>1. UNCHANGED <<hour, resolving, lastHeld>> /\ answer' = NoAnswer /\ kept' \in {kept, NoDoc}
      BY <1>1 DEF EvictDocument
    <2>2. /\ memory' \in [Subject -> [doc : Hour, at : Hour] \cup {None}]
          /\ \A s \in Subject : memory'[s] \in {memory[s], None}
      BY <1>1 DEF EvictDocument, IdentityInv, IdentityTypeOK
    <2>3. \A s \in Subject : Founded(s)'
      BY <2>1, <2>2, StillHolds, FoundedOn
    <2>4. \A q \in Resolver : FoundNow(q)'
      BY <2>1, StillHolds, FoundOn
    <2> QED BY <2>1, <2>2, <2>3, <2>4 DEF IdentityInv, IdentityTypeOK, DocumentsAreBounded
  <1>2. CASE PassHour
    <2>1. /\ hour' \in Hour /\ hour <= hour' /\ answer' = NoAnswer
          /\ UNCHANGED <<memory, kept, resolving>> /\ lastHeld' = Holding(kept, hour')
          /\ kept \in Hour \cup {NoDoc} /\ IdentityTypeOK
          /\ \A r \in Resolver : resolving[r].step = "idle"
      BY <1>2, IdentityAssumption DEF PassHour, IdentityInv, IdentityTypeOK, Hour
    <2>2. /\ lastHeld' \in [Hour -> Int] /\ HoldsOn
          /\ kept # NoDoc => lastHeld'[kept] = hour'
      BY <2>1, HoldingOn
    <2>3. \A s \in Subject : Founded(s)'
      BY <2>1, <2>2, FoundedOn
    <2>4. \A r \in Resolver : FoundNow(r)'
      BY <2>1 DEF FoundNow
    <2> QED BY <2>1, <2>2, <2>3, <2>4
            DEF IdentityInv, IdentityTypeOK, DocumentsAreBounded, HoldsOn
  <1> QED BY <1>1, <1>2

\* The invariant of the resolver and its caches.
THEOREM ResolverCorrect == IdentitySpec => []IdentityInv
  <1>1. ASSUME IdentityInv, [IdentityNext]_identityVars
        PROVE  IdentityInv'
    <2>1. CASE UNCHANGED identityVars
      BY <1>1, <2>1
         DEF identityVars, IdentityInv, IdentityTypeOK, DocumentsAreBounded, Current,
             Founded, Expired, FoundNow
    <2> QED BY <1>1, <2>1, ResolveStep, AskSteps, DocumentCached, OtherSteps DEF IdentityNext
  <1> QED BY <1>1, IdentityInitial, PTL DEF IdentitySpec

\* DocumentsAreBounded: an answer is a document the directory gave, or for a DID
\* one the storage held, at most a time to live ago (src/identity_cache.rs), for any
\* number of concurrent resolutions and any time to live.
THEOREM AnswersAreBounded == IdentitySpec => []DocumentsAreBounded
  <1>1. IdentityInv => DocumentsAreBounded
    BY DEF IdentityInv
  <1> QED BY <1>1, ResolverCorrect, PTL
==============================================================================
