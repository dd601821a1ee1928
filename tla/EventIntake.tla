------------------------------ MODULE EventIntake ------------------------------
(***************************************************************************)
(* src/consumer.rs and the part of the binary that runs it.  The Jetstream *)
(* consumer hands each event of the stream to two handlers: one filters it *)
(* and passes it to the channel of a worker, in turn; the other remembers  *)
(* its time and persists it now and then, in Redis or in a file (with      *)
(* neither it is as if Redis never answered).  After a disconnect, or a    *)
(* crash, the stream is resumed from the time that was persisted, which    *)
(* says nothing of what the workers have done.                             *)
(*                                                                         *)
(* The stream is a sequence; the time of an event is its place in it.      *)
(***************************************************************************)
EXTENDS Integers, Sequences, FiniteSets, SequencesExt

CONSTANTS Stream,     \* events: records with did, kind, collection, mine
          Workers,    \* worker_threads
          Buffer,     \* capacity of a worker's channel: 500
          Collections,\* collection filters; the empty set takes all
          Deniable,   \* the repositories that may come onto the denylist
          Unreliable, \* whether the denylist and the cursor store may fail
          MaxBreaks   \* bound on the disconnects and crashes

ASSUME IntakeAssumption ==
    /\ Len(Stream) \in Nat
    /\ Workers \in Nat \ {0} /\ Buffer \in Nat \ {0}
    /\ MaxBreaks \in Nat

VARIABLES cursorStore,\* where the cursor is kept: "redis" or "file"
          produced,   \* how much of the stream there is
          link,       \* the consumer: "down" or "up"
          next,       \* the event it receives next
          handing,    \* the handlers that have yet to return for that event
          persisted,  \* the cursor in Redis or in the file, 0 if there is none or
                      \* the file is empty
          known,      \* last_known_cursor of the reconnection loop
          turn,       \* next_consumer
          channel,    \* the channel of each worker
          working,    \* the event each worker handles, or 0
          denied,     \* the repositories on the denylist
          breaks,     \* (bound) disconnects and crashes so far
          crashes,    \* (history) crashes so far
          routed,     \* (history) the events handled by a worker
          lost,       \* (history) events a crash took that will not come again
          skipped,    \* (history) events passed over for lack of any cursor
          overtakers  \* (history) for an event in a channel or in work: the
                      \* later events handled since

intakeVars == <<cursorStore, produced, link, next, handing, persisted, known, turn,
                channel, working, denied, breaks, crashes, routed, lost, skipped,
                overtakers>>

Time == 1..Len(Stream)
WorkerId == 0..(Workers - 1)
histVars == <<lost, skipped>>

cursorVars == <<cursorStore, persisted, known>>
workVars == <<turn, channel, working, routed, overtakers>>

------------------------------------------------------------------------------
(* The stream and the connection.                                           *)

Produce ==
    /\ produced < Len(Stream)
    /\ produced' = produced + 1
    /\ UNCHANGED <<link, next, handing, cursorVars, workVars, denied, breaks,
                   crashes, histVars>>

\* The loop reads the persisted cursor, or keeps the one it knows if there is
\* none or the read fails; without any it starts from the live stream.
Connect ==
    /\ link = "down"
    /\ \E cursor \in (IF persisted = 0 THEN {} ELSE {persisted})
                     \cup (IF persisted = 0 \/ Unreliable THEN {known} ELSE {}) :
          /\ known' = cursor
          /\ next' = IF cursor = 0 THEN produced + 1 ELSE cursor + 1
    /\ skipped' = skipped \cup (IF known' = 0 THEN 1..produced ELSE {})
    /\ link' = "up"
    /\ handing' = {}
    /\ UNCHANGED <<cursorStore, produced, persisted, workVars, denied, breaks,
                   crashes, lost>>

\* The connection ends; the loop sleeps and connects again.
Disconnect ==
    /\ link = "up" /\ handing = {} /\ breaks < MaxBreaks
    /\ link' = "down"
    /\ breaks' = breaks + 1
    /\ UNCHANGED <<produced, next, handing, cursorVars, workVars, denied,
                   crashes, histVars>>

\* The consumer receives an event and calls its handlers one after the other,
\* in an order of its own (external).
Receive ==
    /\ link = "up" /\ handing = {} /\ next <= produced
    /\ handing' = {"blueprint", "cursor"}
    /\ UNCHANGED <<produced, link, next, cursorVars, workVars, denied, breaks,
                   crashes, histVars>>

\* A handler returns; after both, the next event is due.
Return(which) ==
    /\ handing' = handing \ {which}
    /\ next' = IF handing = {which} THEN next + 1 ELSE next

------------------------------------------------------------------------------
(* The cursor handler.                                                      *)

\* last_time_us, which nothing else reads, is the time of this event.  If the
\* interval has passed it is persisted: in Redis at once, if Redis answers; for
\* the file, which is emptied first, there is more to do.
HandleCursor ==
    /\ "cursor" \in handing
    /\ \/ /\ persisted' = persisted \/ (cursorStore = "redis" /\ persisted' = next)
          /\ Return("cursor")
       \/ /\ cursorStore = "file"
          /\ persisted' = 0
          /\ handing' = (handing \ {"cursor"}) \cup {"file"}
          /\ UNCHANGED next
    /\ UNCHANGED <<cursorStore, produced, link, known, workVars, denied, breaks, crashes,
                   histVars>>

\* The emptied file is written, or that fails and is logged.
WriteCursorFile ==
    /\ "file" \in handing
    /\ persisted' \in {0, next}
    /\ Return("file")
    /\ UNCHANGED <<cursorStore, produced, link, known, workVars, denied, breaks,
                   crashes, histVars>>

------------------------------------------------------------------------------
(* The event handler: handle_event.                                         *)

\* The denylist is asked twice.  An error of the first answer lets the event
\* proceed, and so does one of the second.
MayBeDenied(did) == did \in denied
MayProceed(did) == did \notin denied \/ Unreliable

InCollections(event) == Collections = {} \/ event.collection \in Collections

\* Identity and account events are of no use to blueprints.
Useful(event) == event.kind \in {"commit", "delete"} /\ InCollections(event)

\* The event is dropped: another instance's, denied, filtered, or of no use.
DropEvent ==
    /\ "blueprint" \in handing
    /\ LET event == Stream[next]
       IN  ~event.mine \/ MayBeDenied(event.did) \/ ~Useful(event)
    /\ Return("blueprint")
    /\ UNCHANGED <<produced, link, cursorVars, workVars, denied, breaks, crashes, histVars>>

\* (Mutants) whichever worker has room; a full channel loses the event.
SendToAny ==
    /\ "blueprint" \in handing
    /\ LET event == Stream[next]
       IN  event.mine /\ MayProceed(event.did) /\ Useful(event)
    /\ \E w \in WorkerId :
          /\ Len(channel[w]) < Buffer
          /\ channel' = [channel EXCEPT ![w] = Append(@, next)]
    /\ Return("blueprint")
    /\ UNCHANGED <<produced, link, cursorVars, turn, working, routed, overtakers,
                   denied, breaks, crashes, histVars>>
SendOrLose ==
    /\ "blueprint" \in handing
    /\ LET event == Stream[next]
       IN  event.mine /\ MayProceed(event.did) /\ Useful(event)
    /\ turn' = (turn + 1) % Workers
    /\ channel' = [channel EXCEPT ![turn] = IF Len(@) < Buffer THEN Append(@, next) ELSE @]
    /\ Return("blueprint")
    /\ UNCHANGED <<produced, link, cursorVars, working, routed, overtakers,
                   denied, breaks, crashes, histVars>>

\* The event goes to the next worker in turn, waiting for room in its channel.
SendEvent ==
    /\ "blueprint" \in handing
    /\ LET event == Stream[next]
       IN  event.mine /\ MayProceed(event.did) /\ Useful(event)
    /\ Len(channel[turn]) < Buffer
    /\ channel' = [channel EXCEPT ![turn] = Append(@, next)]
    /\ turn' = (turn + 1) % Workers
    /\ Return("blueprint")
    /\ UNCHANGED <<produced, link, cursorVars, working, routed, overtakers,
                   denied, breaks, crashes, histVars>>

------------------------------------------------------------------------------
(* The workers: start_processing.                                           *)

\* The events that are in the channel or in the hands of a worker.
InHand == { t \in Time : \E w \in WorkerId :
                t \in ToSet(channel[w]) \/ working[w] = t }

TakeEvent(w) ==
    /\ working[w] = 0 /\ channel[w] # <<>>
    /\ working' = [working EXCEPT ![w] = Head(channel[w])]
    /\ channel' = [channel EXCEPT ![w] = Tail(@)]
    /\ UNCHANGED <<produced, link, next, handing, cursorVars, turn, denied, breaks,
                   crashes, routed, histVars, overtakers>>

\* handle_commit has submitted its blueprints (BlueprintProcessor); a delete is
\* taken note of and nothing else.
FinishEvent(w) ==
    /\ working[w] # 0
    /\ routed' = routed \cup {working[w]}
    /\ overtakers' = [t \in Time |->
          IF t = working[w] \/ t \notin InHand THEN {}
          ELSE IF t < working[w] THEN overtakers[t] \cup {working[w]}
          ELSE overtakers[t]]
    /\ working' = [working EXCEPT ![w] = 0]
    /\ UNCHANGED <<produced, link, next, handing, cursorVars, turn, channel, denied,
                   breaks, crashes, histVars>>

------------------------------------------------------------------------------
(* The environment.                                                         *)

\* The denylist is edited.
EditDenylist(did) ==
    /\ denied' \in {denied \cup {did}, denied \ {did}} \ {denied}
    /\ UNCHANGED <<produced, link, next, handing, cursorVars, workVars, breaks,
                   crashes, histVars>>

\* The process dies and starts again: what it had in memory is gone, and what
\* the persisted cursor has passed does not come again.  Meanwhile the key in
\* Redis, which has a time to live, may expire.
Crash ==
    /\ breaks < MaxBreaks
    /\ breaks' = breaks + 1 /\ crashes' = crashes + 1
    /\ persisted' = persisted \/ (cursorStore = "redis" /\ persisted' = 0)
    /\ lost' = lost \cup { t \in (InHand \ routed)
                                 \cup (IF "blueprint" \in handing THEN {next} ELSE {}) :
                           persisted' >= t }
    /\ link' = "down" /\ handing' = {}
    /\ known' = persisted' /\ turn' = 0
    /\ channel' = [w \in WorkerId |-> <<>>]
    /\ working' = [w \in WorkerId |-> 0]
    /\ overtakers' = [t \in Time |-> {}]
    /\ UNCHANGED <<cursorStore, produced, next, denied, routed, skipped>>

IntakeInit ==
    /\ cursorStore \in {"redis", "file"}
    /\ produced = 0 /\ link = "down" /\ next = 1 /\ handing = {}
    /\ persisted = 0 /\ known = 0
    /\ turn = 0
    /\ channel = [w \in WorkerId |-> <<>>]
    /\ working = [w \in WorkerId |-> 0]
    /\ denied = {}
    /\ breaks = 0 /\ crashes = 0
    /\ routed = {} /\ lost = {} /\ skipped = {}
    /\ overtakers = [t \in Time |-> {}]

IntakeNext ==
    \/ Produce \/ Connect \/ Disconnect \/ Receive \/ HandleCursor \/ WriteCursorFile
    \/ DropEvent \/ SendEvent \/ Crash
    \/ \E w \in WorkerId : TakeEvent(w) \/ FinishEvent(w)
    \/ \E did \in Deniable : EditDenylist(did)

IntakeSpec == IntakeInit /\ [][IntakeNext]_intakeVars

------------------------------------------------------------------------------
\* An event for a worker of this instance, whatever is on the denylist.
Expected(t) == LET event == Stream[t]
               IN  event.mine /\ Useful(event) /\ event.did \notin Deniable

\* What the persisted cursor has passed does not come again.  Of the events
\* before it that are for this instance, none is unaccounted for: a worker has
\* handled it or is about to; or the consumer started without any cursor after
\* it; or a crash took it, and a crash takes at most what the channels hold, what
\* the workers have in hand and the one event that is being handed over, since
\* the handler that waits for room in a channel holds the cursor back.
EventsAccountedFor ==
    /\ \A t \in 1..persisted : Expected(t) =>
          \/ t \in routed \cup InHand \cup skipped \cup lost
          \/ t = next /\ "blueprint" \in handing
    /\ Cardinality(lost) <= crashes * (Workers * (Buffer + 1) + 1)

\* Workers overtake each other, but the turns they take bound by how much: while
\* an event waits, the others finish at most as many later events as their
\* channels and hands hold.  Once a disconnect has brought events back while later
\* ones are still in the channels, these may be finished before it too.
OvertakingIsBounded ==
    \A t \in Time : Cardinality(overtakers[t]) <=
        IF breaks = crashes THEN (Workers - 1) * (Buffer + 1)
        ELSE (2 * Workers - 1) * (Buffer + 1) - 1
==============================================================================
