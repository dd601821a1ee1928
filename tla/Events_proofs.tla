---------------------------- MODULE Events_proofs ----------------------------
(*****************************************************************************)
(* Proofs about the way of an event to an evaluation.  EventIntake: whatever *)
(* the stream, the workers and their channels, and however often the         *)
(* connection breaks or the process dies, the events before the persisted    *)
(* cursor are accounted for, and workers overtake each other by a bounded    *)
(* number of events.  BlueprintProcessor: however many blueprints there are  *)
(* and whenever they are edited, a cache that lags behind them has an excuse,*)
(* and every match is submitted.  DenyList: for tables and pages of any size,*)
(* what the filter of an instance knows.                                     *)
(*****************************************************************************)
EXTENDS EventIntake, BlueprintProcessor, DenyList, FiniteSetTheorems, SequenceTheorems,
        WellFoundedInduction, TLAPS

------------------------------------------------------------------------------
(* Sets and places.                                                         *)

\* What a function takes from a finite set is no larger than it.
LEMMA ImageBound ==
    ASSUME NEW P, IsFiniteSet(P), NEW f, NEW S, S \subseteq {f[p] : p \in P}
    PROVE  IsFiniteSet(S) /\ Cardinality(S) <= Cardinality(P)
<1> DEFINE T == {f[p] : p \in P}
<1> DEFINE g == [p \in P |-> f[p]]
<1>1. g \in Surjection(P, T)
  BY DEF Surjection
<1>2. IsFiniteSet(T) /\ Cardinality(T) <= Cardinality(P)
  BY <1>1, FS_Surjection
<1>3. IsFiniteSet(S) /\ Cardinality(S) <= Cardinality(T)
  BY <1>2, FS_Subset
<1>4. Cardinality(S) \in Nat /\ Cardinality(T) \in Nat /\ Cardinality(P) \in Nat
  BY <1>2, <1>3, FS_CardinalityType
<1> HIDE DEF T
<1> QED BY <1>2, <1>3, <1>4

\* A set of numbers that is not empty has a least one.
LEMMA Least ==
    ASSUME NEW S \in SUBSET Nat, S # {}
    PROVE  \E x \in S : \A y \in S : x <= y
<1> DEFINE R == {p \in Nat \X Nat : p[1] < p[2]}
<1>1. IsWellFoundedOn(R, Nat)
  BY NatLessThanWellFounded DEF OpToRel
<1>2. \A x, y \in Nat : <<y, x>> \in R <=> y < x
  OBVIOUS
<1> HIDE DEF R
<1>3. PICK x \in S : \A y \in S : ~(<<y, x>> \in R)
  BY <1>1, WFMin
<1>4. \A y \in S : x <= y
  <2> SUFFICES ASSUME NEW y \in S PROVE x <= y
    OBVIOUS
  <2>1. ~(<<y, x>> \in R) /\ x \in Nat /\ y \in Nat
    BY <1>3
  <2>2. ~(y < x)
    BY <1>2, <2>1
  <2> QED BY <2>1, <2>2
<1> QED BY <1>3, <1>4

------------------------------------------------------------------------------
(* The stream and the workers.                                                *)

\* The places of a worker's events: 0 for the one in its hands, then its channel.
At(w, i) == IF i = 0 THEN working[w] ELSE channel[w][i]
PlacesOf(w) == 0..Len(channel[w])

IntakeTyped ==
    /\ link \in {"down", "up"}
    /\ produced \in 0..Len(Stream)
    /\ next \in 1..(Len(Stream) + 1)
    /\ handing \in SUBSET {"blueprint", "cursor", "file"}
    /\ handing # {} => link = "up" /\ next <= produced
    /\ persisted \in 0..Len(Stream) /\ known \in 0..Len(Stream)
    /\ turn \in WorkerId
    /\ channel \in [WorkerId -> Seq(Time)]
    /\ \A w \in WorkerId : Len(channel[w]) <= Buffer
    /\ working \in [WorkerId -> 0..Len(Stream)]
    /\ denied \subseteq Deniable
    /\ breaks \in Nat /\ crashes \in Nat /\ crashes <= breaks
    /\ skipped \subseteq Time /\ lost \subseteq Time /\ routed \subseteq Time
    /\ overtakers \in [Time -> SUBSET Time]

LEMMA HeadAndTail ==
    ASSUME NEW S, NEW s \in Seq(S), s # <<>>
    PROVE  /\ Tail(s) \in Seq(S) /\ Len(Tail(s)) = Len(s) - 1 /\ Len(s) \in Nat \ {0}
           /\ Head(s) = s[1] /\ Head(s) \in S
           /\ \A i \in 1..(Len(s) - 1) : Tail(s)[i] = s[i + 1]
OBVIOUS

LEMMA Appended ==
    ASSUME NEW S, NEW s \in Seq(S), NEW x \in S
    PROVE  /\ Append(s, x) \in Seq(S) /\ Len(Append(s, x)) = Len(s) + 1 /\ Len(s) \in Nat
           /\ Append(s, x)[Len(s) + 1] = x
           /\ \A i \in 1..Len(s) : Append(s, x)[i] = s[i]
OBVIOUS

LEMMA Places ==
    ASSUME IntakeTyped, NEW w \in WorkerId
    PROVE  /\ Len(channel[w]) \in Nat /\ Len(channel[w]) <= Buffer
           /\ channel[w] \in Seq(Time)
           /\ \A i \in 1..Len(channel[w]) : channel[w][i] \in Time
           /\ \A i \in PlacesOf(w) : At(w, i) \in 0..Len(Stream)
<1>1. channel[w] \in Seq(Time) /\ working[w] \in 0..Len(Stream)
  BY DEF IntakeTyped
<1>2. Len(channel[w]) \in Nat /\ \A i \in 1..Len(channel[w]) : channel[w][i] \in Time
  BY <1>1
<1>3. Len(Stream) \in Nat
  BY IntakeAssumption
<1>4. ASSUME NEW i \in PlacesOf(w) PROVE At(w, i) \in 0..Len(Stream)
  <2>1. i = 0 \/ i \in 1..Len(channel[w])
    BY <1>2 DEF PlacesOf
  <2> QED BY <1>1, <1>2, <1>3, <2>1 DEF At, Time
<1> QED BY <1>1, <1>2, <1>4 DEF IntakeTyped

\* An event is in hand if it is at some place.
LEMMA InHandAt ==
    ASSUME IntakeTyped, NEW t
    PROVE  t \in InHand <=>
               t \in Time /\ \E w \in WorkerId : \E i \in PlacesOf(w) : At(w, i) = t
<1>1. ASSUME NEW w \in WorkerId, t \in Time
      PROVE  (t \in ToSet(channel[w]) \/ working[w] = t)
                 <=> \E i \in PlacesOf(w) : At(w, i) = t
  <2>1. Len(channel[w]) \in Nat /\ DOMAIN channel[w] = 1..Len(channel[w])
    BY Places
  <2>2. PlacesOf(w) = {0} \cup DOMAIN channel[w] /\ 0 \notin DOMAIN channel[w]
    BY <2>1 DEF PlacesOf
  <2> QED BY <2>2 DEF At, ToSet
<1> QED BY <1>1 DEF InHand

\* The hands and channels hold as many events as there are places.
AllPlaces == WorkerId \X (0..Buffer)

LEMMA PlacesCount ==
    IsFiniteSet(AllPlaces) /\ Cardinality(AllPlaces) = Workers * (Buffer + 1)
<1>1. IsFiniteSet(WorkerId) /\ Cardinality(WorkerId) = Workers
  BY FS_Interval, IntakeAssumption DEF WorkerId
<1>2. IsFiniteSet(0..Buffer) /\ Cardinality(0..Buffer) = Buffer + 1
  BY FS_Interval, IntakeAssumption
<1> QED BY <1>1, <1>2, FS_Product DEF AllPlaces

LEMMA InHandCount ==
    ASSUME IntakeTyped
    PROVE  IsFiniteSet(InHand) /\ Cardinality(InHand) <= Workers * (Buffer + 1)
<1> DEFINE f == [p \in AllPlaces |-> At(p[1], p[2])]
<1>1. ASSUME NEW t \in InHand PROVE \E p \in AllPlaces : f[p] = t
  <2>0. PICK w \in WorkerId : \E i \in PlacesOf(w) : At(w, i) = t
    BY InHandAt
  <2>1. PICK i \in PlacesOf(w) : At(w, i) = t
    BY <2>0
  <2>2. i \in 0..Buffer
    BY Places, IntakeAssumption DEF PlacesOf
  <2>3. <<w, i>> \in AllPlaces
    BY <2>2 DEF AllPlaces
  <2> QED BY <2>1, <2>3
<1>2. InHand \subseteq {f[p] : p \in AllPlaces}
  BY <1>1
<1> HIDE DEF f
<1> QED BY <1>2, PlacesCount, ImageBound
------------------------------------------------------------------------------
(* What is in hand, step by step.                                           *)

LEMMA ToSetTail ==
    ASSUME NEW S, NEW s \in Seq(S), s # <<>>
    PROVE  ToSet(s) = {Head(s)} \cup ToSet(Tail(s))
<1>1. Len(s) \in Nat \ {0} /\ DOMAIN s = 1..Len(s)
  BY HeadAndTail
<1>2. DOMAIN Tail(s) = 1..(Len(s) - 1)
  BY HeadAndTail
<1>3. ASSUME NEW x \in ToSet(s) PROVE x = Head(s) \/ x \in ToSet(Tail(s))
  <2>1. PICK i \in 1..Len(s) : x = s[i]
    BY <1>1, <1>3 DEF ToSet
  <2>2. CASE i = 1
    BY <2>1, <2>2, HeadAndTail
  <2>3. CASE i # 1
    <3>1. i - 1 \in 1..(Len(s) - 1) /\ (i - 1) + 1 = i
      BY <1>1, <2>1, <2>3
    <3>2. Tail(s)[i - 1] = x
      BY <3>1, <2>1, HeadAndTail
    <3> QED BY <3>1, <3>2, <1>2 DEF ToSet
  <2> QED BY <2>2, <2>3
<1>4. Head(s) \in ToSet(s)
  BY <1>1, HeadAndTail DEF ToSet
<1>5. ASSUME NEW x \in ToSet(Tail(s)) PROVE x \in ToSet(s)
  <2>1. PICK i \in 1..(Len(s) - 1) : x = Tail(s)[i]
    BY <1>2, <1>5 DEF ToSet
  <2>2. i + 1 \in 1..Len(s) /\ x = s[i + 1]
    BY <1>1, <2>1, HeadAndTail
  <2> QED BY <1>1, <2>2 DEF ToSet
<1> QED BY <1>3, <1>4, <1>5

LEMMA ToSetAppend ==
    ASSUME NEW S, NEW s \in Seq(S), NEW x \in S
    PROVE  ToSet(Append(s, x)) = ToSet(s) \cup {x}
<1>1. Len(s) \in Nat /\ DOMAIN s = 1..Len(s) /\ DOMAIN Append(s, x) = 1..(Len(s) + 1)
  BY Appended
<1>2. ASSUME NEW y \in ToSet(Append(s, x)) PROVE y \in ToSet(s) \cup {x}
  <2>1. PICK i \in 1..(Len(s) + 1) : y = Append(s, x)[i]
    BY <1>1, <1>2 DEF ToSet
  <2>2. CASE i \in 1..Len(s)
    BY <2>1, <2>2, <1>1, Appended DEF ToSet
  <2>3. CASE i = Len(s) + 1
    BY <2>1, <2>3, Appended
  <2> QED BY <1>1, <2>1, <2>2, <2>3
<1>3. ASSUME NEW y \in ToSet(s) PROVE y \in ToSet(Append(s, x))
  <2>1. PICK i \in 1..Len(s) : y = s[i]
    BY <1>1, <1>3 DEF ToSet
  <2>2. i \in 1..(Len(s) + 1) /\ y = Append(s, x)[i]
    BY <1>1, <2>1, Appended
  <2> QED BY <1>1, <2>2 DEF ToSet
<1>4. x \in ToSet(Append(s, x))
  <2>1. Len(s) + 1 \in 1..(Len(s) + 1)
    BY <1>1
  <2> QED BY <1>1, <2>1, Appended DEF ToSet
<1> QED BY <1>2, <1>3, <1>4

LEMMA TakenStaysInHand ==
    ASSUME IntakeTyped, NEW w \in WorkerId, TakeEvent(w)
    PROVE  InHand' = InHand
<1>1. /\ working[w] = 0 /\ channel[w] # <<>> /\ channel[w] \in Seq(Time)
      /\ \A v \in WorkerId : /\ channel'[v] = IF v = w THEN Tail(channel[w]) ELSE channel[v]
                             /\ working'[v] = IF v = w THEN Head(channel[w]) ELSE working[v]
  BY DEF TakeEvent, IntakeTyped
<1>2. ToSet(channel[w]) = {Head(channel[w])} \cup ToSet(Tail(channel[w]))
  BY <1>1, ToSetTail
<1>3. 0 \notin Time
  BY IntakeAssumption DEF Time
<1>4. ASSUME NEW t \in Time, NEW v \in WorkerId
      PROVE  (t \in ToSet(channel'[v]) \/ working'[v] = t)
                 <=> (t \in ToSet(channel[v]) \/ working[v] = t)
  BY <1>1, <1>2, <1>3
<1> QED BY <1>4 DEF InHand

LEMMA FinishedLeavesHand ==
    ASSUME IntakeTyped, NEW w \in WorkerId, FinishEvent(w)
    PROVE  InHand' \subseteq InHand /\ InHand \subseteq InHand' \cup {working[w]}
<1>1. /\ channel' = channel
      /\ \A v \in WorkerId : working'[v] = IF v = w THEN 0 ELSE working[v]
  BY DEF FinishEvent, IntakeTyped
<1>2. 0 \notin Time
  BY IntakeAssumption DEF Time
<1> QED BY <1>1, <1>2 DEF InHand

LEMMA SentIsInHand ==
    ASSUME IntakeTyped, SendEvent
    PROVE  next \in Time /\ InHand' = InHand \cup {next}
<1>1. next \in Time
  BY IntakeAssumption DEF SendEvent, IntakeTyped, Time
<1>2. /\ working' = working
      /\ turn \in WorkerId /\ channel[turn] \in Seq(Time)
      /\ \A v \in WorkerId : channel'[v] = IF v = turn THEN Append(channel[turn], next)
                                           ELSE channel[v]
  BY DEF SendEvent, IntakeTyped
<1>3. ToSet(Append(channel[turn], next)) = ToSet(channel[turn]) \cup {next}
  BY <1>1, <1>2, ToSetAppend
<1> QED BY <1>1, <1>2, <1>3 DEF InHand

LEMMA CrashEmptiesHands ==
    ASSUME Crash
    PROVE  InHand' = {}
<1>1. \A v \in WorkerId : channel'[v] = <<>> /\ working'[v] = 0
  BY DEF Crash
<1>2. 0 \notin Time
  BY IntakeAssumption DEF Time
<1>3. ToSet(<<>>) = {}
  BY DEF ToSet
<1> QED BY <1>1, <1>2, <1>3 DEF InHand
------------------------------------------------------------------------------
(* Types.                                                                   *)

LEMMA NextTurn ==
    ASSUME NEW t \in WorkerId
    PROVE  /\ (t + 1) % Workers = IF t = Workers - 1 THEN 0 ELSE t + 1
           /\ (t + 1) % Workers \in WorkerId
<1>1. Workers \in Nat \ {0} /\ t \in 0..(Workers - 1)
  BY IntakeAssumption DEF WorkerId
<1>2. (t + 1) % Workers = IF t = Workers - 1 THEN 0 ELSE t + 1
  BY <1>1
<1> QED BY <1>1, <1>2 DEF WorkerId

LEMMA IntakeStarts == IntakeInit => IntakeTyped
<1> SUFFICES ASSUME IntakeInit PROVE IntakeTyped
  OBVIOUS
<1>1. 0 \in WorkerId /\ 0 \in 0..Len(Stream) /\ Len(Stream) \in Nat /\ 0 <= Buffer
  BY IntakeAssumption DEF WorkerId
<1>2. <<>> \in Seq(Time) /\ Len(<<>>) = 0
  OBVIOUS
<1> QED BY <1>1, <1>2 DEF IntakeInit, IntakeTyped

LEMMA IntakeKeepsType ==
    ASSUME IntakeTyped, [IntakeNext]_intakeVars
    PROVE  IntakeTyped'
<1>0. Len(Stream) \in Nat /\ Workers \in Nat \ {0} /\ Buffer \in Nat \ {0}
  BY IntakeAssumption
<1> USE DEF IntakeTyped, workVars, cursorVars, histVars
<1>1. CASE Produce
  BY <1>0, <1>1 DEF Produce
<1>2. CASE Connect
  <2>1. known' \in 0..Len(Stream) /\ next' \in 1..(Len(Stream) + 1)
    BY <1>0, <1>2 DEF Connect
  <2>2. skipped' \subseteq Time
    BY <1>0, <1>2 DEF Connect, Time
  <2> QED BY <1>2, <2>1, <2>2 DEF Connect
<1>3. CASE Disconnect
  BY <1>0, <1>3 DEF Disconnect
<1>4. CASE Receive
  BY <1>0, <1>4 DEF Receive
<1>5. ASSUME NEW which \in {"blueprint", "cursor", "file"}, which \in handing, Return(which)
      PROVE  /\ handing' \in SUBSET {"blueprint", "cursor", "file"}
             /\ handing' # {} => next' <= produced
             /\ next' \in 1..(Len(Stream) + 1) /\ link = "up"
  BY <1>0, <1>5 DEF Return
<1>6. CASE HandleCursor
  <2>1. CASE Return("cursor") /\ persisted' \in {persisted, next}
    <3>1. persisted' \in 0..Len(Stream)
      BY <1>0, <1>6, <2>1 DEF HandleCursor
    <3> QED BY <1>6, <2>1, <1>5, <3>1 DEF HandleCursor
  <2>2. CASE persisted' = 0 /\ handing' = (handing \ {"cursor"}) \cup {"file"} /\ UNCHANGED next
    BY <1>0, <1>6, <2>2 DEF HandleCursor
  <2> QED BY <1>6, <2>1, <2>2 DEF HandleCursor
<1>7. CASE WriteCursorFile
  <2>1. persisted' \in 0..Len(Stream)
    BY <1>0, <1>7 DEF WriteCursorFile
  <2> QED BY <1>7, <1>5, <2>1 DEF WriteCursorFile
<1>8. CASE DropEvent
  BY <1>8, <1>5 DEF DropEvent
<1>9. CASE SendEvent
  <2>1. next \in Time /\ turn' \in WorkerId
    BY <1>9, SentIsInHand, NextTurn DEF SendEvent
  <2>2. channel' \in [WorkerId -> Seq(Time)] /\ \A w \in WorkerId : Len(channel'[w]) <= Buffer
    <3>1. Append(channel[turn], next) \in Seq(Time) /\ Len(Append(channel[turn], next)) <= Buffer
      BY <1>0, <1>9, <2>1, Appended DEF SendEvent
    <3> QED BY <1>9, <3>1 DEF SendEvent
  <2> QED BY <1>9, <1>5, <2>1, <2>2 DEF SendEvent
<1>10. CASE Crash
  <2>1. lost' \subseteq Time
    <3>1. "blueprint" \in handing => next \in Time
      BY <1>0 DEF Time
    <3>2. InHand \subseteq Time
      BY DEF InHand
    <3> QED BY <1>10, <3>1, <3>2 DEF Crash
  <2>2. /\ <<>> \in Seq(Time) /\ Len(<<>>) = 0
        /\ turn' \in WorkerId
        /\ channel' \in [WorkerId -> Seq(Time)] /\ \A w \in WorkerId : Len(channel'[w]) <= Buffer
        /\ working' \in [WorkerId -> 0..Len(Stream)]
    <3>1. <<>> \in Seq(Time) /\ Len(<<>>) = 0
      OBVIOUS
    <3>2. 0 \in WorkerId /\ 0 \in 0..Len(Stream) /\ 0 <= Buffer
      BY <1>0 DEF WorkerId
    <3>3. /\ turn' = 0 /\ channel' = [w \in WorkerId |-> <<>>]
          /\ working' = [w \in WorkerId |-> 0]
      BY <1>10 DEF Crash
    <3> QED BY <3>1, <3>2, <3>3
  <2>3. /\ persisted' \in 0..Len(Stream) /\ known' \in 0..Len(Stream)
        /\ breaks' \in Nat /\ crashes' \in Nat /\ crashes' <= breaks'
    BY <1>0, <1>10 DEF Crash
  <2>4. overtakers' \in [Time -> SUBSET Time]
    BY <1>10 DEF Crash
  <2> QED BY <1>10, <2>1, <2>2, <2>3, <2>4 DEF Crash
<1>11. ASSUME NEW w \in WorkerId, TakeEvent(w) PROVE IntakeTyped'
  <2>1. /\ Tail(channel[w]) \in Seq(Time) /\ Len(Tail(channel[w])) <= Buffer
        /\ Head(channel[w]) \in Time
    BY <1>0, <1>11, HeadAndTail DEF TakeEvent
  <2>2. Head(channel[w]) \in 0..Len(Stream)
    BY <1>0, <2>1 DEF Time
  <2> QED BY <1>11, <2>1, <2>2 DEF TakeEvent
<1>12. ASSUME NEW w \in WorkerId, FinishEvent(w) PROVE IntakeTyped'
  <2>1. working[w] \in Time
    BY <1>0, <1>12 DEF FinishEvent, Time
  <2> QED BY <1>0, <1>12, <2>1 DEF FinishEvent
<1>13. ASSUME NEW did \in Deniable, EditDenylist(did) PROVE IntakeTyped'
  BY <1>13 DEF EditDenylist
<1>14. CASE UNCHANGED intakeVars
  BY <1>14 DEF intakeVars
<1> QED BY <1>1, <1>2, <1>3, <1>4, <1>6, <1>7, <1>8, <1>9, <1>10, <1>11, <1>12, <1>13, <1>14
     DEF IntakeNext
------------------------------------------------------------------------------
(* What became of the events.                                               *)

Accounted(t) == t \in routed \cup InHand \cup skipped \cup lost

\* All the events of this instance up to the n-th are accounted for.
AccountedUpTo(n) == \A t \in Time : t <= n /\ Expected(t) => Accounted(t)

\* Whichever of the cursors the stream is resumed from, and wherever the consumer
\* stands, what lies behind is accounted for, but for the event being handed over.
AccountInv ==
    /\ AccountedUpTo(known)
    /\ \A t \in Time : t <= persisted /\ Expected(t) =>
          Accounted(t) \/ (t = next /\ "blueprint" \in handing)
    /\ link = "up" => AccountedUpTo(next - 1)
    /\ handing # {} /\ "blueprint" \notin handing /\ Expected(next) => Accounted(next)

LEMMA AccountedStays ==
    ASSUME UNCHANGED <<channel, working>>,
           routed \subseteq routed', skipped \subseteq skipped', lost \subseteq lost'
    PROVE  \A t : Accounted(t) => Accounted(t)'
<1>1. InHand' = InHand
  BY DEF InHand
<1> QED BY <1>1 DEF Accounted

\* What is accounted for stays so when neither the cursors nor the consumer move.
LEMMA CursorsStay ==
    ASSUME AccountInv, \A t : Accounted(t) => Accounted(t)',
           UNCHANGED <<known, persisted, link, next, handing>>
    PROVE  AccountInv'
BY DEF AccountInv, AccountedUpTo

LEMMA AccountsStart == IntakeInit => AccountInv
BY IntakeAssumption DEF IntakeInit, AccountInv, AccountedUpTo, Time

\* A handler returns: the event it was called for is accounted for, or the other
\* handler still has it.
LEMMA HandlerReturns ==
    ASSUME IntakeTyped, AccountInv, \A t : Accounted(t) => Accounted(t)',
           NEW which \in handing, Return(which), UNCHANGED <<known, link>>,
           persisted' \in {0, persisted, next}, NEW e, e = next,
           which = "blueprint" => persisted' = persisted /\ (Expected(e) => Accounted(e)')
    PROVE  AccountInv'
<1>1. /\ link = "up" /\ next \in Time /\ handing \subseteq {"blueprint", "cursor", "file"}
      /\ next \in Int /\ persisted \in Int /\ Time \subseteq Int /\ 0 \notin Time
      /\ \A t \in Time : t > 0
  BY IntakeAssumption DEF IntakeTyped, Time
<1>2. /\ handing' = handing \ {which}
      /\ IF handing = {which} THEN next' = next + 1 ELSE next' = next
  BY DEF Return
<1>3. "blueprint" \notin handing' /\ Expected(e) => Accounted(e)'
  <2>1. CASE which = "blueprint"
    BY <2>1
  <2>2. CASE which # "blueprint"
    BY <2>2, <1>2 DEF AccountInv
  <2> QED BY <2>1, <2>2
<1>4. \A t \in Time : t <= next - 1 /\ Expected(t) => Accounted(t)'
  BY <1>1 DEF AccountInv, AccountedUpTo
<1>5. AccountedUpTo(known)'
  BY DEF AccountInv, AccountedUpTo
<1>6. ASSUME NEW t \in Time, t <= persisted', Expected(t)
      PROVE  Accounted(t)' \/ (t = next' /\ "blueprint" \in handing')
  <2>1. CASE t = next
    <3>1. CASE "blueprint" \in handing'
      BY <2>1, <3>1, <1>2
    <3> QED BY <2>1, <3>1, <1>3, <1>6
  <2>2. CASE t # next /\ persisted' = persisted
    BY <1>6, <2>2 DEF AccountInv
  <2>3. CASE t # next /\ persisted' = next
    BY <1>1, <1>4, <1>6, <2>3
  <2>4. persisted' # 0
    BY <1>1, <1>6
  <2> QED BY <2>1, <2>2, <2>3, <2>4
<1>7. AccountedUpTo(next - 1)'
  <2>1. CASE handing = {which}
    <3>1. "blueprint" \notin handing' /\ next' - 1 = next
      BY <1>1, <1>2, <2>1
    <3>2. \A t \in Time : t <= next => t = next \/ t <= next - 1
      BY <1>1
    <3> QED BY <1>3, <1>4, <3>1, <3>2 DEF AccountedUpTo
  <2>2. CASE handing # {which}
    BY <1>2, <1>4, <2>2 DEF AccountedUpTo
  <2> QED BY <2>1, <2>2
<1>8. handing' # {} => next' = next
  BY <1>2
<1>9. (handing # {} /\ "blueprint" \notin handing /\ Expected(next) => Accounted(next))'
  BY <1>3, <1>8
<1> QED BY <1>5, <1>6, <1>7, <1>9 DEF AccountInv

LEMMA AccountsKept ==
    ASSUME IntakeTyped, AccountInv, [IntakeNext]_intakeVars
    PROVE  AccountInv'
<1>0. /\ Len(Stream) \in Nat /\ Time \subseteq Int /\ \A t \in Time : t > 0
      /\ persisted \in Int /\ known \in Int /\ next \in Int /\ produced \in Int
  BY IntakeAssumption DEF IntakeTyped, Time
<1> USE DEF workVars, cursorVars, histVars
<1>1. CASE Produce
  <2>1. \A t : Accounted(t) => Accounted(t)'
    BY <1>1, AccountedStays DEF Produce
  <2> QED BY <1>1, <2>1, CursorsStay DEF Produce
<1>2. CASE Connect
  <2>1. \A t : Accounted(t) => Accounted(t)'
    BY <1>2, AccountedStays DEF Connect
  <2>2. handing = {} /\ handing' = {} /\ link' = "up" /\ persisted' = persisted
    BY <1>2 DEF Connect, IntakeTyped
  <2>3. PICK cursor \in {persisted, known} :
            known' = cursor /\ next' = IF cursor = 0 THEN produced + 1 ELSE cursor + 1
    BY <1>2 DEF Connect
  <2>4. AccountedUpTo(cursor)'
    BY <2>1, <2>2 DEF AccountInv, AccountedUpTo
  <2>5. CASE cursor # 0
    <3>1. next' - 1 = known' /\ known' = cursor
      BY <1>0, <2>3, <2>5
    <3>2. AccountedUpTo(next - 1)' /\ AccountedUpTo(known)'
      BY <2>4, <3>1 DEF AccountedUpTo
    <3> QED BY <2>1, <2>2, <3>2 DEF AccountInv
  <2>6. CASE cursor = 0
    <3>1. 1..produced \subseteq skipped'
      BY <1>2, <2>3, <2>6 DEF Connect
    <3>2. next' - 1 = produced /\ known' = 0
      BY <1>0, <2>3, <2>6
    <3>3. AccountedUpTo(next - 1)'
      BY <1>0, <3>1, <3>2 DEF AccountedUpTo, Accounted
    <3>4. AccountedUpTo(known)'
      BY <1>0, <3>2 DEF AccountedUpTo
    <3> QED BY <2>1, <2>2, <3>3, <3>4 DEF AccountInv
  <2> QED BY <2>5, <2>6
<1>3. CASE Disconnect
  <2>1. \A t : Accounted(t) => Accounted(t)'
    BY <1>3, AccountedStays DEF Disconnect
  <2> QED BY <1>3, <2>1 DEF Disconnect, AccountInv, AccountedUpTo
<1>4. CASE Receive
  <2>1. \A t : Accounted(t) => Accounted(t)'
    BY <1>4, AccountedStays DEF Receive
  <2> QED BY <1>4, <2>1 DEF Receive, AccountInv, AccountedUpTo
<1>5. CASE HandleCursor
  <2>1. \A t : Accounted(t) => Accounted(t)'
    BY <1>5, AccountedStays DEF HandleCursor
  <2>2. CASE Return("cursor") /\ persisted' \in {persisted, next}
    BY <1>5, <2>1, <2>2, HandlerReturns DEF HandleCursor
  <2>3. CASE persisted' = 0 /\ handing' = (handing \ {"cursor"}) \cup {"file"} /\ UNCHANGED next
    <3>1. /\ handing # {} /\ ("blueprint" \in handing' <=> "blueprint" \in handing)
          /\ known' = known /\ link' = link
      BY <1>5, <2>3 DEF HandleCursor
    <3>2. \A t \in Time : ~(t <= persisted')
      BY <1>0, <2>3
    <3> QED BY <2>1, <2>3, <3>1, <3>2 DEF AccountInv, AccountedUpTo
  <2> QED BY <1>5, <2>2, <2>3 DEF HandleCursor
<1>6. CASE WriteCursorFile
  <2>1. \A t : Accounted(t) => Accounted(t)'
    BY <1>6, AccountedStays DEF WriteCursorFile
  <2> QED BY <1>6, <2>1, HandlerReturns DEF WriteCursorFile
<1>7. CASE DropEvent
  <2>1. \A t : Accounted(t) => Accounted(t)'
    BY <1>7, AccountedStays DEF DropEvent
  <2>2. PICK e : e = next
    OBVIOUS
  <2>3. ~Expected(e)
    BY <1>7, <2>2 DEF DropEvent, Expected, MayBeDenied, IntakeTyped
  <2> QED BY <1>7, <2>1, <2>2, <2>3, HandlerReturns DEF DropEvent
<1>8. CASE SendEvent
  <2>0. PICK e : e = next
    OBVIOUS
  <2>1. InHand' = InHand \cup {e}
    BY <1>8, <2>0, SentIsInHand
  <2>2. Accounted(e)' /\ \A t : Accounted(t) => Accounted(t)'
    <3>1. UNCHANGED <<routed, skipped, lost>>
      BY <1>8 DEF SendEvent
    <3> QED BY <2>1, <3>1 DEF Accounted
  <2> QED BY <1>8, <2>0, <2>2, HandlerReturns DEF SendEvent
<1>9. CASE Crash
  <2>1. /\ persisted' \in {0, persisted} /\ known' = persisted'
        /\ link' = "down" /\ handing' = {}
        /\ UNCHANGED <<routed, skipped>>
    BY <1>9 DEF Crash
  <2>2. ASSUME NEW t \in Time, t <= persisted', Expected(t)
        PROVE  Accounted(t)'
    <3>1. t <= persisted /\ persisted' \in Int /\ persisted' >= t
      BY <1>0, <2>1, <2>2
    <3>2. Accounted(t) \/ (t = next /\ "blueprint" \in handing)
      BY <2>2, <3>1 DEF AccountInv
    <3>3. t \in (InHand \ routed) \cup (IF "blueprint" \in handing THEN {next} ELSE {})
          => t \in lost'
      BY <1>9, <3>1 DEF Crash
    <3>4. lost \subseteq lost'
      BY <1>9 DEF Crash
    <3> QED BY <2>1, <3>2, <3>3, <3>4 DEF Accounted
  <2> QED BY <2>1, <2>2 DEF AccountInv, AccountedUpTo
<1>10. ASSUME NEW w \in WorkerId, TakeEvent(w) PROVE AccountInv'
  <2>1. InHand' = InHand
    BY <1>10, TakenStaysInHand
  <2>2. \A t : Accounted(t) => Accounted(t)'
    BY <1>10, <2>1 DEF Accounted, TakeEvent
  <2> QED BY <1>10, <2>2, CursorsStay DEF TakeEvent
<1>11. ASSUME NEW w \in WorkerId, FinishEvent(w) PROVE AccountInv'
  <2>1. InHand \subseteq InHand' \cup {working[w]}
    BY <1>11, FinishedLeavesHand
  <2>2. \A t : Accounted(t) => Accounted(t)'
    BY <1>11, <2>1 DEF Accounted, FinishEvent
  <2> QED BY <1>11, <2>2, CursorsStay DEF FinishEvent
<1>12. ASSUME NEW did \in Deniable, EditDenylist(did) PROVE AccountInv'
  <2>1. \A t : Accounted(t) => Accounted(t)'
    BY <1>12, AccountedStays DEF EditDenylist
  <2> QED BY <1>12, <2>1, CursorsStay DEF EditDenylist
<1>13. CASE UNCHANGED intakeVars
  <2>1. \A t : Accounted(t) => Accounted(t)'
    BY <1>13, AccountedStays DEF intakeVars
  <2> QED BY <1>13, <2>1, CursorsStay DEF intakeVars
<1> QED BY <1>1, <1>2, <1>3, <1>4, <1>5, <1>6, <1>7, <1>8, <1>9, <1>10, <1>11, <1>12, <1>13
     DEF IntakeNext

\* A crash loses at most what the hands and channels hold and the event being
\* handed over.
LossBounded ==
    /\ IsFiniteSet(lost)
    /\ Cardinality(lost) <= crashes * (Workers * (Buffer + 1) + 1)

LEMMA LossKept ==
    ASSUME IntakeTyped, LossBounded, [IntakeNext]_intakeVars
    PROVE  LossBounded'
<1>1. CASE Crash
  <2> DEFINE Taken == { t \in (InHand \ routed)
                               \cup (IF "blueprint" \in handing THEN {next} ELSE {}) :
                       persisted' >= t }
  <2>1. lost' = lost \cup Taken /\ crashes' = crashes + 1
    BY <1>1 DEF Crash
  <2>2. IsFiniteSet(InHand \cup {next})
        /\ Cardinality(InHand \cup {next}) <= Workers * (Buffer + 1) + 1
    <3>1. IsFiniteSet(InHand) /\ Cardinality(InHand) <= Workers * (Buffer + 1)
      BY InHandCount
    <3>2. Workers * (Buffer + 1) \in Nat
      BY IntakeAssumption
    <3>3. Cardinality(InHand) \in Nat
      BY <3>1, FS_CardinalityType
    <3> QED BY <3>1, <3>2, <3>3, FS_AddElement
  <2>3. Taken \subseteq InHand \cup {next}
    OBVIOUS
  <2> HIDE DEF Taken
  <2>4. IsFiniteSet(Taken) /\ Cardinality(Taken) <= Cardinality(InHand \cup {next})
    BY <2>2, <2>3, FS_Subset
  <2>5. IsFiniteSet(lost) /\ Cardinality(lost) <= crashes * (Workers * (Buffer + 1) + 1)
    BY DEF LossBounded
  <2>6. /\ IsFiniteSet(lost \cup Taken)
        /\ Cardinality(lost \cup Taken)
             = Cardinality(lost) + Cardinality(Taken) - Cardinality(lost \cap Taken)
    BY <2>4, <2>5, FS_Union
  <2>7. /\ Cardinality(lost) \in Nat /\ Cardinality(Taken) \in Nat
        /\ Cardinality(lost \cap Taken) \in Nat
        /\ Cardinality(InHand \cup {next}) \in Nat
    BY <2>2, <2>4, <2>5, FS_CardinalityType, FS_Intersection
  <2>8. \A m, c \in Nat : (c + 1) * m = c * m + m
    OBVIOUS
  <2>9. Workers * (Buffer + 1) + 1 \in Nat /\ crashes \in Nat
    <3>1. Workers \in Nat /\ Buffer \in Nat /\ crashes \in Nat
      BY IntakeAssumption DEF IntakeTyped
    <3>2. Workers * (Buffer + 1) \in Nat
      BY <3>1
    <3> HIDE DEF IntakeTyped
    <3> QED BY <3>1, <3>2
  <2>10. crashes * (Workers * (Buffer + 1) + 1) \in Nat
    BY <2>9
  <2>11. Cardinality(lost \cup Taken) <= (crashes + 1) * (Workers * (Buffer + 1) + 1)
    <3>1. (crashes + 1) * (Workers * (Buffer + 1) + 1)
            = crashes * (Workers * (Buffer + 1) + 1) + (Workers * (Buffer + 1) + 1)
      BY <2>8, <2>9
    <3> QED BY <3>1, <2>2, <2>4, <2>5, <2>6, <2>7, <2>9, <2>10
  <2> QED BY <2>1, <2>6, <2>11 DEF LossBounded
<1>2. CASE ~Crash
  <2>1. UNCHANGED <<lost, crashes>>
    BY <1>2 DEF IntakeNext, intakeVars, Produce, Connect, Disconnect, Receive, HandleCursor,
       WriteCursorFile, DropEvent, SendEvent, TakeEvent, FinishEvent, EditDenylist, histVars
  <2> QED BY <2>1 DEF LossBounded
<1> QED BY <1>1, <1>2
------------------------------------------------------------------------------
(* How far events are overtaken.                                            *)

\* Behind the i-th place of a worker, and the turns since the worker's last.
Behind(w, i) == Len(channel[w]) - i
Since(w) == IF turn > w THEN turn - w - 1 ELSE turn - w - 1 + Workers

\* How many later events the turns have let past an event at that place.
Passed(w, i) == (Workers - 1) * Behind(w, i) + Since(w)

\* The later events elsewhere that may be finished before it: all but those that
\* wait behind it.
MayOvertake(t, w, i) ==
    { x \in Time : x > t /\ \E v \in WorkerId : \E k \in PlacesOf(v) :
                       At(v, k) = x /\ (v # w \/ k < i) }

\* Before the first disconnect nothing comes twice.
Clean == breaks = crashes

\* How many of the events that may overtake an event were there before it.
Extra == IF Clean THEN 0 ELSE Workers * (Buffer + 1) - 1

\* But for those, as many have overtaken it or may yet as the turns have let past.
Fair(t, w, i) ==
    \E Old \in SUBSET Time :
        /\ Cardinality(Old) <= Extra
        /\ Cardinality((overtakers[t] \cup MayOvertake(t, w, i)) \ Old) <= Passed(w, i)

OvertakingInv ==
    /\ \A t \in Time : t \notin InHand => overtakers[t] = {}
    /\ \A t \in InHand : \E w \in WorkerId : \E i \in PlacesOf(w) : At(w, i) = t /\ Fair(t, w, i)

\* Until a disconnect each event is at one place, and comes after those in hand.
CleanInv ==
    Clean =>
    /\ \A t \in InHand : t <= next /\ (t = next => handing # {} /\ "blueprint" \notin handing)
    /\ link = "down" => InHand = {}
    /\ \A w, v \in WorkerId : \A i \in PlacesOf(w), k \in PlacesOf(v) :
          At(w, i) = At(v, k) /\ At(w, i) # 0 => w = v /\ i = k

LEMMA TimeFinite == IsFiniteSet(Time) /\ 0 \notin Time /\ Time \subseteq Nat
BY FS_Interval, IntakeAssumption DEF Time

LEMMA Smaller ==
    ASSUME NEW A \in SUBSET Time, NEW B \in SUBSET Time, B \subseteq A
    PROVE  /\ Cardinality(B) <= Cardinality(A)
           /\ Cardinality(A) \in Nat /\ Cardinality(B) \in Nat
<1>1. IsFiniteSet(A) /\ IsFiniteSet(B)
  BY TimeFinite, FS_Subset
<1> QED BY <1>1, FS_Subset, FS_CardinalityType

LEMMA OneMore ==
    ASSUME NEW A \in SUBSET Time, NEW B \in SUBSET Time, NEW x, B \subseteq A \cup {x}
    PROVE  Cardinality(B) <= Cardinality(A) + 1
<1>1. IsFiniteSet(A) /\ IsFiniteSet(B)
  BY TimeFinite, FS_Subset
<1>2. IsFiniteSet(A \cup {x}) /\ Cardinality(A) \in Nat
      /\ Cardinality(A \cup {x}) <= Cardinality(A) + 1
  <2>1. Cardinality(A) \in Nat
    BY <1>1, FS_CardinalityType
  <2>2. /\ IsFiniteSet(A \cup {x})
        /\ Cardinality(A \cup {x}) = IF x \in A THEN Cardinality(A) ELSE Cardinality(A) + 1
    BY <1>1, FS_AddElement
  <2>3. \A n \in Nat : n <= n + 1 /\ n + 1 <= n + 1
    OBVIOUS
  <2> QED BY <2>1, <2>2, <2>3
<1>3. Cardinality(B) <= Cardinality(A \cup {x}) /\ Cardinality(B) \in Nat
      /\ Cardinality(A \cup {x}) \in Nat
  BY <1>1, <1>2, FS_Subset, FS_CardinalityType
<1> QED BY <1>2, <1>3

LEMMA SinceRange ==
    ASSUME IntakeTyped, NEW w \in WorkerId
    PROVE  Since(w) \in 0..(Workers - 1)
BY IntakeAssumption DEF IntakeTyped, WorkerId, Since

LEMMA Bound ==
    ASSUME NEW m \in Nat, NEW b \in Nat, NEW d \in 0..b
    PROVE  m * d \in 0..(m * b)
OBVIOUS

LEMMA PassedRange ==
    ASSUME IntakeTyped, NEW w \in WorkerId, NEW i \in PlacesOf(w)
    PROVE  Behind(w, i) \in 0..Buffer /\ Passed(w, i) \in 0..((Workers - 1) * (Buffer + 1))
<1>1. Behind(w, i) \in 0..Buffer
  BY Places, IntakeAssumption DEF PlacesOf, Behind
<1>2. Workers - 1 \in Nat /\ Buffer \in Nat
  BY IntakeAssumption
<1>3. (Workers - 1) * Behind(w, i) \in 0..((Workers - 1) * Buffer)
  BY <1>1, <1>2, Bound
<1>4. (Workers - 1) * (Buffer + 1) = (Workers - 1) * Buffer + (Workers - 1)
  BY <1>2
<1>5. (Workers - 1) * Buffer \in Nat
  BY <1>2
<1>6. Since(w) \in 0..(Workers - 1)
  BY SinceRange
<1> DEFINE p == (Workers - 1) * Behind(w, i)
           q == (Workers - 1) * Buffer
           r == (Workers - 1) * (Buffer + 1)
<1>7. p \in 0..q /\ r = q + (Workers - 1) /\ q \in Nat /\ Passed(w, i) = p + Since(w)
  BY <1>3, <1>4, <1>5 DEF Passed
<1> HIDE DEF p, q, r
<1>8. Passed(w, i) \in 0..r
  BY <1>2, <1>6, <1>7
<1> QED BY <1>1, <1>8 DEF r

LEMMA ExtraRange == ASSUME IntakeTyped PROVE Extra \in Nat
<1>1. Workers * (Buffer + 1) \in Nat \ {0}
  BY IntakeAssumption
<1> QED BY <1>1 DEF Extra

\* What fairness to an event rests on may shrink, or grow by one as it passes one more.
LEMMA FairnessMoves ==
    ASSUME IntakeTyped, IntakeTyped', Extra <= Extra',
           NEW t \in Time, NEW w, NEW i, Fair(t, w, i), Passed(w, i) \in Int,
           NEW v, NEW k, Passed(v, k)' \in Int,
           \/ /\ (overtakers[t] \cup MayOvertake(t, v, k))'
                     \subseteq overtakers[t] \cup MayOvertake(t, w, i)
              /\ Passed(v, k)' >= Passed(w, i)
           \/ /\ \E x : (overtakers[t] \cup MayOvertake(t, v, k))'
                            \subseteq overtakers[t] \cup MayOvertake(t, w, i) \cup {x}
              /\ Passed(v, k)' >= Passed(w, i) + 1
    PROVE  Fair(t, v, k)'
<1>1. PICK Old \in SUBSET Time :
          /\ Cardinality(Old) <= Extra
          /\ Cardinality((overtakers[t] \cup MayOvertake(t, w, i)) \ Old) <= Passed(w, i)
  BY DEF Fair
<1> DEFINE A == overtakers[t] \cup MayOvertake(t, w, i)
<1> DEFINE B == overtakers'[t] \cup MayOvertake(t, v, k)'
<1>2. A \in SUBSET Time /\ B \in SUBSET Time
  BY DEF IntakeTyped, MayOvertake
<1>3. Cardinality(Old) \in Nat /\ Extra \in Nat /\ Extra' \in Nat
  <2>1. Workers * (Buffer + 1) - 1 \in Nat
    BY IntakeAssumption
  <2>2. Extra' \in Nat
    BY <2>1 DEF Extra
  <2> QED BY Smaller, ExtraRange, <2>2
<1>4. Cardinality(Old) <= Extra'
  BY <1>1, <1>3
<1>5. \/ B \subseteq A /\ Passed(v, k)' >= Passed(w, i)
      \/ (\E x : B \subseteq A \cup {x}) /\ Passed(v, k)' >= Passed(w, i) + 1
  OBVIOUS
<1>6. Cardinality(A \ Old) <= Passed(w, i)
  BY <1>1
<1> HIDE DEF A, B
<1>7. Cardinality(B \ Old) <= Passed(v, k)'
  <2>1. A \ Old \in SUBSET Time /\ B \ Old \in SUBSET Time
    BY <1>2
  <2>2. Cardinality(A \ Old) \in Nat /\ Cardinality(B \ Old) \in Nat
    BY <2>1, Smaller
  <2>3. CASE B \subseteq A /\ Passed(v, k)' >= Passed(w, i)
    <3>1. B \ Old \subseteq A \ Old
      BY <2>3
    <3>2. Cardinality(B \ Old) <= Cardinality(A \ Old)
      BY <2>1, <3>1, Smaller
    <3> QED BY <1>6, <2>2, <2>3, <3>2
  <2>4. CASE (\E x : B \subseteq A \cup {x}) /\ Passed(v, k)' >= Passed(w, i) + 1
    <3>0. PICK x : B \subseteq A \cup {x}
      BY <2>4
    <3>1. B \ Old \subseteq (A \ Old) \cup {x}
      BY <3>0
    <3>2. Cardinality(B \ Old) <= Cardinality(A \ Old) + 1
      BY <2>1, <3>1, OneMore
    <3> QED BY <1>6, <2>2, <2>4, <3>2
  <2> QED BY <1>5, <2>3, <2>4
<1> QED BY <1>4, <1>7 DEF Fair, B

\* Apart from one place, hands and channels hold fewer events than Extra allows for.
LEMMA TheOthers ==
    ASSUME IntakeTyped, NEW t \in InHand, NEW S, S \subseteq InHand \ {t}
    PROVE  S \in SUBSET Time /\ Cardinality(S) <= Workers * (Buffer + 1) - 1
<1>1. InHand \in SUBSET Time
  BY DEF InHand
<1>2. IsFiniteSet(InHand) /\ Cardinality(InHand) <= Workers * (Buffer + 1)
  BY InHandCount
<1>3. IsFiniteSet(InHand \ {t}) /\ Cardinality(InHand \ {t}) = Cardinality(InHand) - 1
  BY <1>2, FS_RemoveElement
<1>4. IsFiniteSet(S) /\ Cardinality(S) <= Cardinality(InHand \ {t})
  BY <1>3, FS_Subset
<1>5. /\ Cardinality(S) \in Nat /\ Cardinality(InHand) \in Nat
      /\ Cardinality(InHand \ {t}) \in Nat
  BY <1>2, <1>3, <1>4, FS_CardinalityType
<1>6. Workers * (Buffer + 1) \in Nat
  BY IntakeAssumption
<1> QED BY <1>1, <1>2, <1>3, <1>4, <1>5, <1>6

\* An event that has not been overtaken yet: what may overtake it is what was there
\* before it, and in a clean run there is nothing.
LEMMA FairnessStarts ==
    ASSUME IntakeTyped, NEW w \in WorkerId, NEW i \in PlacesOf(w), NEW t, At(w, i) = t,
           t \in Time, overtakers[t] = {}, Clean => MayOvertake(t, w, i) = {}
    PROVE  Fair(t, w, i)
<1>1. t \in InHand
  BY InHandAt
<1>2. Passed(w, i) \in Nat
  <2>1. (Workers - 1) * (Buffer + 1) \in Nat
    BY IntakeAssumption
  <2> DEFINE p == (Workers - 1) * (Buffer + 1)
  <2>2. p \in Nat /\ Passed(w, i) \in 0..p
    BY <2>1, PassedRange
  <2> HIDE DEF p
  <2> QED BY <2>2
<1>3. MayOvertake(t, w, i) \subseteq InHand \ {t}
  BY InHandAt, TimeFinite DEF MayOvertake
<1>4. /\ MayOvertake(t, w, i) \in SUBSET Time
      /\ Cardinality(MayOvertake(t, w, i)) <= Workers * (Buffer + 1) - 1
  BY <1>1, <1>3, TheOthers
<1>5. Cardinality(MayOvertake(t, w, i)) <= Extra
  <2>1. CASE Clean
    BY <2>1, FS_EmptySet DEF Extra
  <2>2. CASE ~Clean
    BY <2>2, <1>4 DEF Extra
  <2> QED BY <2>1, <2>2
<1>6. (overtakers[t] \cup MayOvertake(t, w, i)) \ MayOvertake(t, w, i) = {}
  OBVIOUS
<1>7. Cardinality({}) <= Passed(w, i)
  BY <1>2, FS_EmptySet
<1> QED BY <1>4, <1>5, <1>6, <1>7 DEF Fair


\* Of a state that is well typed; and of the next one.
Sized ==
    /\ \A t : t \in InHand <=>
           t \in Time /\ \E w \in WorkerId : \E i \in PlacesOf(w) : At(w, i) = t
    /\ \A w \in WorkerId : \A i \in PlacesOf(w) : Passed(w, i) \in Int
    /\ \A w \in WorkerId : \A i \in PlacesOf(w) : \A t \in Time :
          /\ At(w, i) = t /\ overtakers[t] = {}
          /\ Clean => MayOvertake(t, w, i) = {}
          => Fair(t, w, i)

LEMMA WellSized == IntakeTyped => Sized
<1> SUFFICES ASSUME IntakeTyped PROVE Sized
  OBVIOUS
<1>1. \A t : t \in InHand <=>
           t \in Time /\ \E w \in WorkerId : \E i \in PlacesOf(w) : At(w, i) = t
  BY InHandAt
<1>2. ASSUME NEW w \in WorkerId, NEW i \in PlacesOf(w) PROVE Passed(w, i) \in Int
  <2> DEFINE p == (Workers - 1) * (Buffer + 1)
  <2>1. p \in Nat
    BY IntakeAssumption
  <2>2. Passed(w, i) \in 0..p
    BY PassedRange
  <2> HIDE DEF p
  <2> QED BY <2>1, <2>2
<1> QED BY <1>1, <1>2, FairnessStarts DEF Sized

LEMMA WellSizedThen == (IntakeTyped => Sized)'
BY WellSized, PTL

LEMMA OvertakingStarts == IntakeInit => OvertakingInv /\ CleanInv
<1> SUFFICES ASSUME IntakeInit PROVE OvertakingInv /\ CleanInv
  OBVIOUS
<1>1. \A w \in WorkerId : channel[w] = <<>> /\ working[w] = 0
  BY DEF IntakeInit
<1>2. InHand = {}
  BY <1>1, TimeFinite DEF InHand, ToSet
<1>3. \A w \in WorkerId : \A i \in PlacesOf(w) : At(w, i) = 0
  BY <1>1 DEF PlacesOf, At
<1> QED BY <1>2, <1>3 DEF IntakeInit, OvertakingInv, CleanInv

LEMMA OvertakingStays ==
    ASSUME IntakeTyped, IntakeTyped', OvertakingInv, Extra <= Extra',
           UNCHANGED <<channel, working, turn, overtakers>>
    PROVE  OvertakingInv'
<1>1. InHand' = InHand
  BY DEF InHand
<1>2. ASSUME NEW t \in InHand
      PROVE  (\E w \in WorkerId : \E i \in PlacesOf(w) : At(w, i) = t /\ Fair(t, w, i))'
  <2>1. PICK w \in WorkerId : \E i \in PlacesOf(w) : At(w, i) = t /\ Fair(t, w, i)
    BY DEF OvertakingInv
  <2>2. PICK i \in PlacesOf(w) : At(w, i) = t /\ Fair(t, w, i)
    BY <2>1
  <2>3. /\ (overtakers[t] \cup MayOvertake(t, w, i))'
               \subseteq overtakers[t] \cup MayOvertake(t, w, i)
        /\ Passed(w, i)' = Passed(w, i) /\ At(w, i)' = At(w, i) /\ PlacesOf(w)' = PlacesOf(w)
    BY DEF MayOvertake, PlacesOf, At, Passed, Behind, Since
  <2>4. Passed(w, i) \in Int
    BY WellSized DEF Sized
  <2>5. t \in Time
    BY DEF InHand
  <2>6. Fair(t, w, i)'
    BY <2>2, <2>3, <2>4, <2>5, FairnessMoves
  <2> QED BY <2>2, <2>3, <2>6
<1> QED BY <1>1, <1>2 DEF OvertakingInv

LEMMA TakeShifts ==
    ASSUME IntakeTyped, NEW w \in WorkerId, TakeEvent(w)
    PROVE  /\ \A v \in WorkerId \ {w} : PlacesOf(v)' = PlacesOf(v) /\ \A k : At(v, k)' = At(v, k)
           /\ PlacesOf(w)' = 0..(Len(channel[w]) - 1)
           /\ \A k \in 0..(Len(channel[w]) - 1) :
                  k + 1 \in PlacesOf(w) /\ At(w, k)' = At(w, k + 1)
           /\ Len(channel[w])' = Len(channel[w]) - 1 /\ Len(channel[w]) \in Nat \ {0}
           /\ At(w, 0) = 0
           /\ \A v \in WorkerId \ {w} : Len(channel[v])' = Len(channel[v])
<1>1. /\ working[w] = 0 /\ channel[w] # <<>> /\ channel[w] \in Seq(Time)
      /\ \A v \in WorkerId : /\ channel'[v] = IF v = w THEN Tail(channel[w]) ELSE channel[v]
                             /\ working'[v] = IF v = w THEN Head(channel[w]) ELSE working[v]
  BY DEF TakeEvent, IntakeTyped
<1>2. /\ Len(channel[w]) \in Nat \ {0} /\ Len(channel'[w]) = Len(channel[w]) - 1
      /\ working'[w] = channel[w][1]
      /\ \A i \in 1..(Len(channel[w]) - 1) : channel'[w][i] = channel[w][i + 1]
  <2>1. channel'[w] = Tail(channel[w]) /\ working'[w] = Head(channel[w])
    BY <1>1
  <2> QED BY <1>1, <2>1, HeadAndTail
<1>3. \A k \in 0..(Len(channel[w]) - 1) :
          k + 1 \in PlacesOf(w) /\ At(w, k)' = At(w, k + 1)
  <2> TAKE k \in 0..(Len(channel[w]) - 1)
  <2>1. k + 1 \in PlacesOf(w) /\ k + 1 # 0
    BY <1>2 DEF PlacesOf
  <2>2. CASE k = 0
    BY <1>2, <2>1, <2>2 DEF At
  <2>3. CASE k # 0
    <3>1. k \in 1..(Len(channel[w]) - 1)
      BY <1>2, <2>3
    <3> QED BY <1>2, <2>1, <2>3, <3>1 DEF At
  <2> QED BY <2>1, <2>2, <2>3
<1> QED BY <1>1, <1>2, <1>3 DEF PlacesOf, At

LEMMA TakeIsFair ==
    ASSUME IntakeTyped, IntakeTyped', OvertakingInv, NEW w \in WorkerId, TakeEvent(w)
    PROVE  OvertakingInv'
<1>0. UNCHANGED <<turn, overtakers, breaks, crashes>> /\ Extra' = Extra /\ Extra \in Int
  BY ExtraRange DEF TakeEvent, Extra, Clean
<1>1. InHand' = InHand
  BY TakenStaysInHand
<1>2. ASSUME NEW t \in InHand
      PROVE  (\E v \in WorkerId : \E i \in PlacesOf(v) : At(v, i) = t /\ Fair(t, v, i))'
  <2>1. PICK v \in WorkerId : \E i \in PlacesOf(v) : At(v, i) = t /\ Fair(t, v, i)
    BY DEF OvertakingInv
  <2>2. PICK i \in PlacesOf(v) : At(v, i) = t /\ Fair(t, v, i)
    BY <2>1
  <2>3. t \in Time /\ t # 0
    BY TimeFinite DEF InHand
  <2>4. Passed(v, i) \in Int
    BY WellSized DEF Sized
  <2>5. PICK k : k = IF v = w THEN i - 1 ELSE i
    OBVIOUS
  <2>6. i \in Nat
    BY Places DEF PlacesOf
  <2>7. /\ k \in PlacesOf(v)' /\ At(v, k)' = t /\ Passed(v, k)' = Passed(v, i)
    <3>1. CASE v = w
      <4>1. k \in 0..(Len(channel[w]) - 1) /\ k + 1 = i
        BY <3>1, <2>2, <2>3, <2>5, <2>6, TakeShifts DEF PlacesOf
      <4>2. Behind(v, k)' = Behind(v, i)
        BY <3>1, <2>5, <2>6, TakeShifts DEF Behind
      <4> QED BY <4>1, <4>2, <3>1, <2>2, <1>0, TakeShifts DEF Passed, Since
    <3>2. CASE v # w
      <4>1. k = i /\ Behind(v, k)' = Behind(v, i)
        BY <3>2, <2>5, TakeShifts DEF Behind
      <4> QED BY <4>1, <3>2, <2>2, <1>0, TakeShifts DEF Passed, Since
    <3> QED BY <3>1, <3>2
  <2>8. MayOvertake(t, v, k)' \subseteq MayOvertake(t, v, i)
    <3>1. ASSUME NEW x \in Time, NEW u \in WorkerId, NEW j \in PlacesOf(u)', At(u, j)' = x,
                 u # v \/ j < k
          PROVE  \E l \in PlacesOf(u) : At(u, l) = x /\ (u # v \/ l < i)
      <4>1. CASE u = w
        <5>1. j \in 0..(Len(channel[w]) - 1) /\ j \in Nat
          BY <3>1, <4>1, TakeShifts
        <5>2. j + 1 \in PlacesOf(u) /\ At(u, j + 1) = x
          BY <3>1, <4>1, <5>1, TakeShifts
        <5>3. u # v \/ j + 1 < i
          BY <3>1, <4>1, <5>1, <2>5, <2>6
        <5> QED BY <5>2, <5>3
      <4>2. CASE u # w
        <5>1. j \in PlacesOf(u) /\ At(u, j) = x
          BY <3>1, <4>2, TakeShifts
        <5>2. u # v \/ j < i
          BY <3>1, <4>2, <2>5
        <5> QED BY <5>1, <5>2
      <4> QED BY <4>1, <4>2
    <3> QED BY <3>1 DEF MayOvertake
  <2>9. (overtakers[t] \cup MayOvertake(t, v, k))'
            \subseteq overtakers[t] \cup MayOvertake(t, v, i)
    BY <1>0, <2>8
  <2>10. Fair(t, v, k)'
    BY <1>0, <2>2, <2>3, <2>4, <2>7, <2>9, FairnessMoves
  <2> QED BY <2>7, <2>10
<1> QED BY <1>0, <1>1, <1>2 DEF OvertakingInv

LEMMA FinishFrees ==
    ASSUME IntakeTyped, NEW w \in WorkerId, FinishEvent(w)
    PROVE  /\ \A v \in WorkerId : PlacesOf(v)' = PlacesOf(v) /\ Len(channel[v])' = Len(channel[v])
           /\ \A v \in WorkerId : \A k : At(v, k)' = IF v = w /\ k = 0 THEN 0 ELSE At(v, k)
           /\ At(w, 0) = working[w] /\ working[w] \in Time
           /\ UNCHANGED <<turn, breaks, crashes>>
<1>1. /\ channel' = channel /\ working[w] # 0
      /\ \A v \in WorkerId : working'[v] = IF v = w THEN 0 ELSE working[v]
  BY DEF FinishEvent, IntakeTyped
<1>2. working[w] \in Time
  BY <1>1, IntakeAssumption DEF IntakeTyped, Time
<1> QED BY <1>1, <1>2 DEF PlacesOf, At, FinishEvent

LEMMA FinishIsFair ==
    ASSUME IntakeTyped, IntakeTyped', OvertakingInv, CleanInv, NEW w \in WorkerId, FinishEvent(w)
    PROVE  OvertakingInv'
<1>1. PICK e \in Time : e = working[w]
  BY FinishFrees
<1>2. \A t \in Time : overtakers'[t] = IF t = e \/ t \notin InHand THEN {}
                                       ELSE IF t < e THEN overtakers[t] \cup {e}
                                       ELSE overtakers[t]
  BY <1>1 DEF FinishEvent
<1>3. InHand' \subseteq InHand /\ InHand \subseteq InHand' \cup {e}
  BY <1>1, FinishedLeavesHand
<1>4. \A t \in Time : t \notin InHand' => overtakers'[t] = {}
  BY <1>2, <1>3
<1>5. Extra' = Extra /\ Extra \in Int
  BY ExtraRange, FinishFrees DEF Extra, Clean
<1>6. e # 0 /\ 0 \in PlacesOf(w) /\ At(w, 0) = e
  BY <1>1, TimeFinite, FinishFrees, Places DEF PlacesOf
<1>7. ASSUME NEW v \in WorkerId, NEW k \in PlacesOf(v)', NEW t \in Time, At(v, k)' = t
      PROVE  /\ k \in PlacesOf(v) /\ At(v, k) = t /\ (v # w \/ k # 0)
             /\ MayOvertake(t, v, k)' \subseteq MayOvertake(t, v, k)
             /\ Passed(v, k)' = Passed(v, k)
  <2>1. k \in PlacesOf(v) /\ At(v, k) = t /\ (v # w \/ k # 0)
    BY <1>7, FinishFrees, TimeFinite
  <2>2. \A u \in WorkerId : \A j \in PlacesOf(u)' : \A x \in Time :
            At(u, j)' = x => j \in PlacesOf(u) /\ At(u, j) = x
    BY FinishFrees, TimeFinite
  <2>3. MayOvertake(t, v, k)' \subseteq MayOvertake(t, v, k)
    BY <2>2 DEF MayOvertake
  <2>4. Passed(v, k)' = Passed(v, k)
    BY FinishFrees DEF Passed, Behind, Since
  <2> QED BY <2>1, <2>3, <2>4
<1>8. ASSUME NEW t \in InHand'
      PROVE  (\E v \in WorkerId : \E i \in PlacesOf(v) : At(v, i) = t /\ Fair(t, v, i))'
  <2>1. t \in Time /\ t \in InHand
    BY <1>3, <1>8 DEF InHand
  <2>2. CASE t = e
    <3>0. Sized'
      BY WellSizedThen
    <3>1. PICK v \in WorkerId : \E k \in PlacesOf(v)' : At(v, k)' = t
      BY <1>8, <3>0 DEF Sized
    <3>2. PICK k \in PlacesOf(v)' : At(v, k)' = t
      BY <3>1
    <3>3. k \in PlacesOf(v) /\ At(v, k) = t /\ (v # w \/ k # 0)
      BY <1>7, <2>1, <3>2
    <3>4. ~Clean
      BY <1>6, <2>2, <3>3 DEF CleanInv
    <3>5. ~Clean' /\ overtakers'[t] = {}
      BY <1>2, <2>1, <2>2, <3>4, FinishFrees DEF Clean
    <3>6. Fair(t, v, k)'
      BY <2>1, <3>0, <3>2, <3>5 DEF Sized
    <3> QED BY <3>2, <3>6
  <2>3. CASE t # e
    <3>1. PICK v \in WorkerId : \E i \in PlacesOf(v) : At(v, i) = t /\ Fair(t, v, i)
      BY <2>1 DEF OvertakingInv
    <3>2. PICK i \in PlacesOf(v) : At(v, i) = t /\ Fair(t, v, i)
      BY <3>1
    <3>3. ~(v = w /\ i = 0)
      BY <1>6, <2>3, <3>2
    <3>4. i \in PlacesOf(v)' /\ At(v, i)' = t
      BY <3>2, <3>3, FinishFrees
    <3>5. MayOvertake(t, v, i)' \subseteq MayOvertake(t, v, i) /\ Passed(v, i)' = Passed(v, i)
      BY <1>7, <2>1, <3>4
    <3>6. t < e => e \in MayOvertake(t, v, i)
      <4>1. i \in Nat
        BY Places DEF PlacesOf
      <4>2. w # v \/ 0 < i
        BY <3>3, <4>1
      <4>3. t < e => e > t
        BY <2>1, TimeFinite
      <4> QED BY <1>6, <4>2, <4>3 DEF MayOvertake
    <3>7. (overtakers[t] \cup MayOvertake(t, v, i))' \subseteq overtakers[t] \cup MayOvertake(t, v, i)
      BY <1>2, <2>1, <2>3, <3>5, <3>6
    <3>8. Passed(v, i) \in Int
      BY <3>2, WellSized DEF Sized
    <3>9. Fair(t, v, i)'
      BY <1>5, <2>1, <3>2, <3>5, <3>7, <3>8, FairnessMoves
    <3> QED BY <3>4, <3>9
  <2> QED BY <2>2, <2>3
<1> QED BY <1>4, <1>8 DEF OvertakingInv

LEMMA SendFills ==
    ASSUME IntakeTyped, SendEvent, NEW e, e = next, NEW n, n = Len(channel[turn]) + 1
    PROVE  /\ \A v \in WorkerId \ {turn} :
                 /\ PlacesOf(v)' = PlacesOf(v) /\ \A k : At(v, k)' = At(v, k)
                 /\ Len(channel[v])' = Len(channel[v])
           /\ Len(channel[turn]) \in Nat /\ Len(channel'[turn]) = Len(channel[turn]) + 1
           /\ \A w \in WorkerId : w = turn => PlacesOf(w)' = PlacesOf(w) \cup {n}
           /\ \A w \in WorkerId : w = turn => \A k \in PlacesOf(w) : At(w, k)' = At(w, k)
           /\ \A w \in WorkerId : w = turn => At(w, n)' = e
<1>0. e \in Time
  BY SentIsInHand
<1>1. /\ working' = working
      /\ turn \in WorkerId /\ channel[turn] \in Seq(Time)
      /\ \A v \in WorkerId : channel'[v] = IF v = turn THEN Append(channel[turn], e)
                                           ELSE channel[v]
  BY DEF SendEvent, IntakeTyped
<1>2. /\ Len(channel[turn]) \in Nat /\ Len(channel'[turn]) = Len(channel[turn]) + 1
      /\ channel'[turn][Len(channel[turn]) + 1] = e
      /\ \A i \in 1..Len(channel[turn]) : channel'[turn][i] = channel[turn][i]
  <2>1. channel'[turn] = Append(channel[turn], e)
    BY <1>1
  <2> QED BY <1>0, <1>1, <2>1, Appended
<1>3. ASSUME NEW w \in WorkerId, w = turn
      PROVE  /\ PlacesOf(w)' = PlacesOf(w) \cup {n}
             /\ \A k \in PlacesOf(w) : At(w, k)' = At(w, k)
             /\ At(w, n)' = e
  <2>1. PlacesOf(w)' = PlacesOf(w) \cup {n}
    BY <1>2, <1>3 DEF PlacesOf
  <2>2. ASSUME NEW k \in PlacesOf(w) PROVE At(w, k)' = At(w, k)
    <3>1. k = 0 \/ k \in 1..Len(channel[w])
      BY <1>2, <1>3 DEF PlacesOf
    <3> QED BY <1>1, <1>2, <1>3, <3>1 DEF At
  <2>3. At(w, n)' = e
    <3>1. n # 0 /\ channel'[w][n] = e
      BY <1>2, <1>3
    <3> QED BY <3>1 DEF At
  <2> QED BY <2>1, <2>2, <2>3
<1>4. \A v \in WorkerId \ {turn} :
         /\ PlacesOf(v)' = PlacesOf(v) /\ \A k : At(v, k)' = At(v, k)
         /\ Len(channel[v])' = Len(channel[v])
  BY <1>1 DEF PlacesOf, At
<1> QED BY <1>2, <1>3, <1>4

LEMMA TurnPasses ==
    ASSUME IntakeTyped, SendEvent, NEW w \in WorkerId
    PROVE  Since(w)' = IF w = turn THEN 0 ELSE Since(w) + 1
<1>1. turn \in WorkerId /\ turn' = IF turn = Workers - 1 THEN 0 ELSE turn + 1
  BY NextTurn DEF SendEvent, IntakeTyped
<1>2. w = turn => Since(w)' = 0
  BY <1>1, IntakeAssumption DEF Since, WorkerId
<1>3. w # turn => Since(w)' = Since(w) + 1
  BY <1>1, IntakeAssumption DEF Since, WorkerId
<1> QED BY <1>2, <1>3

LEMMA SendIsFair ==
    ASSUME IntakeTyped, IntakeTyped', OvertakingInv, CleanInv, SendEvent
    PROVE  OvertakingInv'
<1>1. PICK e \in Time : e = next
  BY SentIsInHand
<1>2. PICK m \in WorkerId : m = turn
  BY DEF IntakeTyped
<1>3. PICK n : n = Len(channel[m]) + 1
  OBVIOUS
<1>4. InHand' = InHand \cup {e} /\ overtakers' = overtakers
  BY <1>1, SentIsInHand DEF SendEvent
<1>5. Extra' = Extra /\ Extra \in Int /\ (Clean' <=> Clean)
  BY ExtraRange DEF Extra, Clean, SendEvent
<1>6. /\ \A v \in WorkerId \ {m} :
            /\ PlacesOf(v)' = PlacesOf(v) /\ \A k : At(v, k)' = At(v, k)
            /\ Len(channel[v])' = Len(channel[v])
      /\ Len(channel[m]) \in Nat /\ Len(channel[m])' = Len(channel[m]) + 1
      /\ PlacesOf(m)' = PlacesOf(m) \cup {n}
      /\ \A k \in PlacesOf(m) : At(m, k)' = At(m, k)
      /\ At(m, n)' = e
  BY <1>1, <1>2, <1>3, SendFills
<1>7. \A k \in PlacesOf(m) : k \in Nat /\ k < n
  BY <1>3, <1>6 DEF PlacesOf
<1>8. ASSUME NEW v \in WorkerId, NEW k \in PlacesOf(v)', ~(v = m /\ k = n)
      PROVE  k \in PlacesOf(v) /\ At(v, k)' = At(v, k)
  BY <1>6, <1>8
<1>9. ASSUME NEW t \in InHand'
      PROVE  (\E v \in WorkerId : \E i \in PlacesOf(v) : At(v, i) = t /\ Fair(t, v, i))'
  <2>1. t \in Time
    BY <1>9 DEF InHand
  <2>2. CASE t \in InHand
    <3>1. PICK v \in WorkerId : \E i \in PlacesOf(v) : At(v, i) = t /\ Fair(t, v, i)
      BY <2>2 DEF OvertakingInv
    <3>2. PICK i \in PlacesOf(v) : At(v, i) = t /\ Fair(t, v, i)
      BY <3>1
    <3>3. i \in PlacesOf(v)' /\ At(v, i)' = t
      BY <1>6, <3>2
    <3>4. Passed(v, i) \in Int /\ Passed(v, i)' \in Int
      BY <3>2, <3>3, WellSized, WellSizedThen DEF Sized
    <3>5. CASE v = m
      <4>1. ASSUME NEW x \in Time, NEW u \in WorkerId, NEW j \in PlacesOf(u)', At(u, j)' = x,
                   u # v \/ j < i
            PROVE  j \in PlacesOf(u) /\ At(u, j) = x
        <5>1. ~(u = m /\ j = n)
          BY <1>3, <1>6, <1>7, <3>2, <3>5, <4>1
        <5> QED BY <1>8, <4>1, <5>1
      <4>2. MayOvertake(t, v, i)' \subseteq MayOvertake(t, v, i)
        BY <4>1 DEF MayOvertake
      <4>3. Passed(v, i)' = Passed(v, i)
        <5>1. Since(v) = Workers - 1 /\ Since(v)' = 0
          <6>1. Since(v) = Workers - 1
            BY <1>2, <3>5, IntakeAssumption DEF Since, WorkerId
          <6>2. Since(v)' = 0
            BY <1>2, <3>5, TurnPasses
          <6> QED BY <6>1, <6>2
        <5>2. PICK b : b = Behind(v, i)
          OBVIOUS
        <5>3. b \in Nat /\ Behind(v, i)' = b + 1
          BY <1>6, <1>7, <3>2, <3>5, <5>2, PassedRange DEF Behind
        <5>4. Workers - 1 \in Nat
          BY IntakeAssumption
        <5>5. \A c \in Nat : c * (b + 1) + 0 = c * b + c
          BY <5>3
        <5> QED BY <5>1, <5>2, <5>3, <5>4, <5>5 DEF Passed
      <4> QED BY <1>4, <1>5, <2>1, <3>2, <3>3, <3>4, <4>2, <4>3, FairnessMoves
    <3>6. CASE v # m
      <4>1. MayOvertake(t, v, i)' \subseteq MayOvertake(t, v, i) \cup {e}
        <5>1. ASSUME NEW x \in Time, NEW u \in WorkerId, NEW j \in PlacesOf(u)', At(u, j)' = x
              PROVE  x = e \/ (j \in PlacesOf(u) /\ At(u, j) = x)
          BY <1>6, <1>8, <5>1
        <5> QED BY <5>1 DEF MayOvertake
      <4>2. (overtakers[t] \cup MayOvertake(t, v, i))'
                \subseteq overtakers[t] \cup MayOvertake(t, v, i) \cup {e}
        BY <1>4, <4>1
      <4>3. Passed(v, i)' = Passed(v, i) + 1
        <5>1. Since(v)' = Since(v) + 1 /\ Since(v) \in Int
          BY <1>2, <3>6, TurnPasses, SinceRange
        <5>2. Behind(v, i)' = Behind(v, i)
          BY <1>6, <3>6 DEF Behind
        <5>3. Behind(v, i) \in Int
          BY <3>2, PassedRange
        <5>4. (Workers - 1) * Behind(v, i) \in Int
          BY <5>3, IntakeAssumption
        <5>5. \A p, s \in Int : p + (s + 1) = (p + s) + 1
          OBVIOUS
        <5> QED BY <5>1, <5>2, <5>4, <5>5 DEF Passed
      <4>4. Fair(t, v, i)'
        <5>1. \E x : (overtakers[t] \cup MayOvertake(t, v, i))'
                        \subseteq overtakers[t] \cup MayOvertake(t, v, i) \cup {x}
          BY <4>2
        <5>2. Passed(v, i)' >= Passed(v, i) + 1 /\ Extra <= Extra'
          BY <1>5, <3>4, <4>3
        <5> QED BY <2>1, <3>2, <3>4, <5>1, <5>2, FairnessMoves
      <4> QED BY <3>3, <4>4
    <3> QED BY <3>5, <3>6
  <2>3. CASE t \notin InHand
    <3>1. t = e /\ overtakers'[t] = {}
      BY <1>4, <1>9, <2>1, <2>3 DEF OvertakingInv
    <3>2. ASSUME Clean', NEW x \in MayOvertake(t, m, n)' PROVE FALSE
      <4>1. PICK u \in WorkerId : \E j \in PlacesOf(u)' : At(u, j)' = x /\ (u # m \/ j < n)
        BY <3>2 DEF MayOvertake
      <4>2. PICK j \in PlacesOf(u)' : At(u, j)' = x /\ (u # m \/ j < n)
        BY <4>1
      <4>3. ~(u = m /\ j = n)
        BY <1>3, <1>6, <4>2
      <4>4. x \in InHand
        BY <1>8, <3>2, <4>2, <4>3, InHandAt DEF MayOvertake
      <4>5. x <= e
        BY <1>1, <1>5, <3>2, <4>4 DEF CleanInv
      <4> QED BY <3>1, <3>2, <4>5, <2>1, TimeFinite DEF MayOvertake
    <3>3. Fair(t, m, n)'
      <4>1. Sized' /\ n \in PlacesOf(m)' /\ At(m, n)' = t
        BY <1>6, <3>1, WellSizedThen
      <4> QED BY <2>1, <3>1, <3>2, <4>1 DEF Sized
    <3> QED BY <1>6, <3>1, <3>3
  <2> QED BY <2>2, <2>3
<1>10. \A t \in Time : t \notin InHand' => overtakers'[t] = {}
  BY <1>4 DEF OvertakingInv
<1> QED BY <1>9, <1>10 DEF OvertakingInv

LEMMA OvertakingKept ==
    ASSUME IntakeTyped, OvertakingInv, CleanInv, [IntakeNext]_intakeVars
    PROVE  OvertakingInv'
<1>0. IntakeTyped'
  BY IntakeKeepsType
<1>1. CASE Crash
  <2>1. InHand' = {} /\ \A t \in Time : overtakers'[t] = {}
    BY <1>1, CrashEmptiesHands DEF Crash
  <2> QED BY <2>1 DEF OvertakingInv
<1>2. CASE Disconnect
  <2>1. ~Clean' /\ UNCHANGED <<channel, working, turn, overtakers>>
    BY <1>2 DEF Disconnect, Clean, IntakeTyped, workVars
  <2>2. Extra <= Extra'
    <3>1. Workers * (Buffer + 1) \in Nat \ {0}
      BY IntakeAssumption
    <3>2. \A n \in Nat \ {0} : 0 <= n - 1 /\ n - 1 <= n - 1
      OBVIOUS
    <3> QED BY <2>1, <3>1, <3>2 DEF Extra
  <2> QED BY <1>0, <2>1, <2>2, OvertakingStays
<1>3. SendEvent => OvertakingInv'
  BY <1>0, SendIsFair
<1>4. ASSUME NEW w \in WorkerId, TakeEvent(w) \/ FinishEvent(w) PROVE OvertakingInv'
  BY <1>0, <1>4, TakeIsFair, FinishIsFair
<1>5. CASE /\ ~Crash /\ ~Disconnect /\ ~SendEvent
           /\ ~ \E w \in WorkerId : TakeEvent(w) \/ FinishEvent(w)
  <2>1. UNCHANGED <<channel, working, turn, overtakers, breaks, crashes>>
    BY <1>5 DEF IntakeNext, intakeVars, Produce, Connect, Receive, HandleCursor,
       WriteCursorFile, DropEvent, EditDenylist, workVars
  <2>2. Extra <= Extra'
    BY <2>1, ExtraRange DEF Extra, Clean
  <2> QED BY <1>0, <2>1, <2>2, OvertakingStays
<1> QED BY <1>1, <1>2, <1>3, <1>4, <1>5

\* The places keep what they hold, and the consumer only moves on.
LEMMA CleanStays ==
    ASSUME IntakeTyped, IntakeTyped', CleanInv, Clean' => Clean,
           UNCHANGED <<channel, working>>,
           Clean => /\ link' = "down" => InHand = {}
                    /\ \A t \in InHand : t <= next'
                          /\ (t = next' => handing' # {} /\ "blueprint" \notin handing')
    PROVE  CleanInv'
<1>1. InHand' = InHand
  BY DEF InHand
<1>2. \A w : PlacesOf(w)' = PlacesOf(w) /\ \A i : At(w, i)' = At(w, i)
  BY DEF PlacesOf, At
<1> QED BY <1>1, <1>2 DEF CleanInv

\* A handler other than the one that sends returns.
LEMMA CleanReturns ==
    ASSUME IntakeTyped, IntakeTyped', CleanInv, Clean' => Clean,
           UNCHANGED <<channel, working, link>>, NEW which \in handing, Return(which)
    PROVE  CleanInv'
<1>1. next \in Int /\ InHand \subseteq Int /\ link = "up"
  BY IntakeAssumption DEF IntakeTyped, InHand, Time
<1>2. ASSUME NEW t \in InHand, Clean
      PROVE  t <= next' /\ (t = next' => handing' # {} /\ "blueprint" \notin handing')
  <2>1. t <= next /\ (t = next => "blueprint" \notin handing)
    BY <1>2 DEF CleanInv
  <2>2. CASE handing = {which}
    BY <1>1, <2>1, <2>2 DEF Return
  <2>3. CASE handing # {which}
    <3>1. next' = next /\ handing' = handing \ {which} /\ handing' # {}
      BY <2>3 DEF Return
    <3> QED BY <2>1, <3>1
  <2> QED BY <2>2, <2>3
<1> QED BY <1>1, <1>2, CleanStays

LEMMA CleanSend ==
    ASSUME IntakeTyped, IntakeTyped', CleanInv, SendEvent
    PROVE  CleanInv'
<1>1. PICK e \in Time : e = next
  BY SentIsInHand
<1>2. PICK m \in WorkerId : m = turn
  BY DEF IntakeTyped
<1>3. PICK n : n = Len(channel[m]) + 1
  OBVIOUS
<1>4. InHand' = InHand \cup {e} /\ (Clean' <=> Clean) /\ link' = "up"
  BY <1>1, SentIsInHand DEF SendEvent, Clean, IntakeTyped
<1>5. /\ \A v \in WorkerId \ {m} :
            PlacesOf(v)' = PlacesOf(v) /\ \A k : At(v, k)' = At(v, k)
      /\ PlacesOf(m)' = PlacesOf(m) \cup {n}
      /\ \A k \in PlacesOf(m) : At(m, k)' = At(m, k)
      /\ At(m, n)' = e
  BY <1>1, <1>2, <1>3, SendFills
<1>6. ASSUME NEW v \in WorkerId, NEW k \in PlacesOf(v)', ~(v = m /\ k = n)
      PROVE  k \in PlacesOf(v) /\ At(v, k)' = At(v, k)
  BY <1>5, <1>6
<1>7. "blueprint" \in handing /\ next \in Int /\ InHand \subseteq Int
  BY IntakeAssumption DEF SendEvent, IntakeTyped, InHand, Time
<1>8. ASSUME Clean PROVE e \notin InHand
  BY <1>1, <1>7, <1>8 DEF CleanInv
<1>9. ASSUME Clean, NEW t \in InHand'
      PROVE  t <= next' /\ (t = next' => handing' # {} /\ "blueprint" \notin handing')
  <2>1. t <= next /\ t \in Int
    <3>1. CASE t = e
      BY <1>1, <1>7, <3>1
    <3>2. CASE t # e
      <4>1. t \in InHand
        BY <1>4, <1>9, <3>2
      <4>2. t <= next
        BY <1>9, <4>1 DEF CleanInv
      <4> QED BY <1>7, <4>1, <4>2
    <3> QED BY <3>1, <3>2
  <2>2. CASE handing = {"blueprint"}
    BY <1>7, <2>1, <2>2 DEF SendEvent, Return
  <2>3. CASE handing # {"blueprint"}
    <3>1. next' = next /\ handing' # {} /\ "blueprint" \notin handing'
      BY <1>7, <2>3 DEF SendEvent, Return
    <3> QED BY <2>1, <3>1
  <2> QED BY <2>2, <2>3
<1>10. ASSUME Clean, NEW w \in WorkerId, NEW v \in WorkerId,
              NEW i \in PlacesOf(w)', NEW k \in PlacesOf(v)', At(w, i)' = At(v, k)', At(w, i)' # 0
       PROVE  w = v /\ i = k
  <2>1. \A u \in WorkerId : \A j \in PlacesOf(u) : At(u, j) # e
    BY <1>1, <1>8, <1>10, InHandAt
  <2>2. CASE ~(w = m /\ i = n) /\ ~(v = m /\ k = n)
    <3>1. i \in PlacesOf(w) /\ At(w, i)' = At(w, i) /\ k \in PlacesOf(v) /\ At(v, k)' = At(v, k)
      BY <1>6, <2>2
    <3>2. At(w, i) = At(v, k) /\ At(w, i) # 0
      BY <1>10, <3>1
    <3>3. \A x, y \in WorkerId : \A j \in PlacesOf(x), l \in PlacesOf(y) :
             At(x, j) = At(y, l) /\ At(x, j) # 0 => x = y /\ j = l
      BY <1>10 DEF CleanInv
    <3> QED BY <3>1, <3>2, <3>3
  <2>3. CASE w = m /\ i = n /\ ~(v = m /\ k = n)
    BY <1>5, <1>6, <1>10, <2>1, <2>3
  <2>4. CASE ~(w = m /\ i = n) /\ v = m /\ k = n
    BY <1>5, <1>6, <1>10, <2>1, <2>4
  <2> QED BY <2>2, <2>3, <2>4
<1> QED BY <1>4, <1>9, <1>10 DEF CleanInv

LEMMA CleanKept ==
    ASSUME IntakeTyped, CleanInv, [IntakeNext]_intakeVars
    PROVE  CleanInv'
<1>0. IntakeTyped'
  BY IntakeKeepsType
<1> USE DEF workVars, cursorVars, histVars
<1>1. CASE Produce \/ UNCHANGED intakeVars \/ \E did \in Deniable : EditDenylist(did)
  <2>1. UNCHANGED <<channel, working, link, next, handing, breaks, crashes>>
    BY <1>1 DEF Produce, intakeVars, EditDenylist
  <2> QED BY <1>0, <2>1, CleanStays DEF CleanInv, Clean
<1>2. CASE Connect
  <2>1. UNCHANGED <<channel, working, breaks, crashes>> /\ link = "down" /\ link' = "up"
    BY <1>2 DEF Connect
  <2> QED BY <1>0, <2>1, CleanStays DEF CleanInv, Clean
<1>3. CASE Disconnect
  <2>1. ~Clean'
    BY <1>3 DEF Disconnect, Clean, IntakeTyped
  <2> QED BY <2>1 DEF CleanInv
<1>4. CASE Receive
  <2>1. /\ UNCHANGED <<channel, working, link, next, breaks, crashes>>
        /\ handing = {} /\ link = "up"
    BY <1>4 DEF Receive
  <2> QED BY <1>0, <2>1, CleanStays DEF CleanInv, Clean
<1>5. CASE HandleCursor
  <2>1. UNCHANGED <<channel, working, link, breaks, crashes>> /\ "cursor" \in handing
    BY <1>5 DEF HandleCursor
  <2>2. CASE Return("cursor")
    BY <1>0, <2>1, <2>2, CleanReturns DEF Clean
  <2>3. CASE handing' = (handing \ {"cursor"}) \cup {"file"} /\ UNCHANGED next
    BY <1>0, <2>1, <2>3, CleanStays DEF CleanInv, Clean
  <2> QED BY <1>5, <2>2, <2>3 DEF HandleCursor
<1>6. CASE WriteCursorFile
  BY <1>0, <1>6, CleanReturns DEF WriteCursorFile, Clean
<1>7. CASE DropEvent
  BY <1>0, <1>7, CleanReturns DEF DropEvent, Clean
<1>8. CASE SendEvent
  BY <1>0, <1>8, CleanSend
<1>9. CASE Crash
  <2>1. InHand' = {} /\ \A w \in WorkerId : channel'[w] = <<>> /\ working'[w] = 0
    BY <1>9, CrashEmptiesHands DEF Crash
  <2>2. \A w \in WorkerId : \A i \in PlacesOf(w)' : At(w, i)' = 0
    BY <2>1 DEF PlacesOf, At
  <2> QED BY <2>1, <2>2 DEF CleanInv
<1>10. ASSUME NEW w \in WorkerId, TakeEvent(w) PROVE CleanInv'
  <2>1. InHand' = InHand /\ UNCHANGED <<link, next, handing, breaks, crashes>>
    BY <1>10, TakenStaysInHand DEF TakeEvent
  <2>2. ASSUME NEW u \in WorkerId, NEW i \in PlacesOf(u)'
        PROVE  /\ i \in Nat
               /\ (IF u = w THEN i + 1 ELSE i) \in PlacesOf(u)
               /\ At(u, i)' = At(u, IF u = w THEN i + 1 ELSE i)
    <3>1. i \in Nat
      BY <1>10, <2>2, TakeShifts, Places DEF PlacesOf
    <3> QED BY <1>10, <2>2, <3>1, TakeShifts
  <2>3. ASSUME Clean, NEW u \in WorkerId, NEW v \in WorkerId, NEW i \in PlacesOf(u)',
               NEW k \in PlacesOf(v)', At(u, i)' = At(v, k)', At(u, i)' # 0
        PROVE  u = v /\ i = k
    <3>1. u = v /\ (IF u = w THEN i + 1 ELSE i) = (IF v = w THEN k + 1 ELSE k)
      BY <2>2, <2>3 DEF CleanInv
    <3>2. i \in Nat /\ k \in Nat
      BY <2>2
    <3> QED BY <3>1, <3>2
  <2> QED BY <2>1, <2>3 DEF CleanInv, Clean
<1>11. ASSUME NEW w \in WorkerId, FinishEvent(w) PROVE CleanInv'
  <2>1. InHand' \subseteq InHand /\ UNCHANGED <<link, next, handing, breaks, crashes>>
    BY <1>11, FinishedLeavesHand DEF FinishEvent
  <2>2. \A u \in WorkerId : PlacesOf(u)' = PlacesOf(u) /\ \A i : At(u, i)' \in {0, At(u, i)}
    BY <1>11, FinishFrees
  <2>3. ASSUME Clean, NEW u \in WorkerId, NEW v \in WorkerId, NEW i \in PlacesOf(u)',
               NEW k \in PlacesOf(v)', At(u, i)' = At(v, k)', At(u, i)' # 0
        PROVE  u = v /\ i = k
    <3>1. i \in PlacesOf(u) /\ k \in PlacesOf(v) /\ At(u, i) = At(v, k) /\ At(u, i) # 0
      BY <2>2, <2>3
    <3> QED BY <2>3, <3>1 DEF CleanInv
  <2> QED BY <2>1, <2>3 DEF CleanInv, Clean
<1> QED BY <1>1, <1>2, <1>3, <1>4, <1>5, <1>6, <1>7, <1>8, <1>9, <1>10, <1>11 DEF IntakeNext

------------------------------------------------------------------------------
(* The specification.                                                       *)

IntakeInv == IntakeTyped /\ AccountInv /\ LossBounded /\ OvertakingInv /\ CleanInv

\* Whatever the stream, the workers and their channels, and however often the
\* connection breaks or the process dies, every state keeps the accounts of the
\* events and of how far they are overtaken.
THEOREM IntakeCorrect == IntakeSpec => []IntakeInv
<1>1. IntakeInit => IntakeInv
  <2> SUFFICES ASSUME IntakeInit PROVE IntakeInv
    OBVIOUS
  <2>1. LossBounded
    <3>1. lost = {} /\ crashes = 0
      BY DEF IntakeInit
    <3>2. Workers * (Buffer + 1) + 1 \in Nat
      BY IntakeAssumption
    <3>3. \A n \in Nat : 0 <= 0 * n
      OBVIOUS
    <3> QED BY <3>1, <3>2, <3>3, FS_EmptySet DEF LossBounded
  <2> QED BY <2>1, IntakeStarts, AccountsStart, OvertakingStarts DEF IntakeInv
<1>2. IntakeInv /\ [IntakeNext]_intakeVars => IntakeInv'
  BY IntakeKeepsType, AccountsKept, LossKept, OvertakingKept, CleanKept DEF IntakeInv
<1> QED BY <1>1, <1>2, PTL DEF IntakeSpec

\* Of the events that the persisted cursor has passed, none of this instance's is
\* unaccounted for, and a crash loses at most what hands and channels held.
THEOREM EventsAlwaysAccounted == IntakeSpec => []EventsAccountedFor
<1>1. IntakeInv => EventsAccountedFor
  <2> SUFFICES ASSUME IntakeInv PROVE EventsAccountedFor
    OBVIOUS
  <2>1. \A t \in 1..persisted : t \in Time /\ t <= persisted
    BY IntakeAssumption DEF IntakeInv, IntakeTyped, Time
  <2>2. \A t \in 1..persisted : Expected(t) =>
          \/ t \in routed \cup InHand \cup skipped \cup lost
          \/ t = next /\ "blueprint" \in handing
    BY <2>1 DEF IntakeInv, AccountInv, Accounted
  <2> QED BY <2>2 DEF IntakeInv, LossBounded, EventsAccountedFor
<1> QED BY <1>1, IntakeCorrect, PTL

\* However long the stream, a waiting event is overtaken by no more events than the
\* turns, the channels and the disconnects allow.
THEOREM OvertakingAlwaysBounded == IntakeSpec => []OvertakingIsBounded
<1>1. IntakeInv => OvertakingIsBounded
  <2> SUFFICES ASSUME IntakeInv, NEW t \in Time
               PROVE  Cardinality(overtakers[t]) <=
                          IF Clean THEN (Workers - 1) * (Buffer + 1)
                          ELSE (2 * Workers - 1) * (Buffer + 1) - 1
    BY DEF OvertakingIsBounded, Clean
  <2> DEFINE p == (Workers - 1) * (Buffer + 1)
             q == Workers * (Buffer + 1)
  <2>1. /\ p \in Nat /\ q \in Nat \ {0}
        /\ (2 * Workers - 1) * (Buffer + 1) - 1 = p + (q - 1)
    <3>1. Workers \in Nat \ {0} /\ Buffer \in Nat \ {0}
      BY IntakeAssumption
    <3> QED BY <3>1
  <2>2. Extra = IF Clean THEN 0 ELSE q - 1
    BY DEF Extra
  <2>3. CASE t \in InHand
    <3>1. PICK w \in WorkerId : \E i \in PlacesOf(w) : At(w, i) = t /\ Fair(t, w, i)
      BY <2>3 DEF IntakeInv, OvertakingInv
    <3>2. PICK i \in PlacesOf(w) : At(w, i) = t /\ Fair(t, w, i)
      BY <3>1
    <3>3. PICK Old \in SUBSET Time :
              /\ Cardinality(Old) <= Extra
              /\ Cardinality((overtakers[t] \cup MayOvertake(t, w, i)) \ Old) <= Passed(w, i)
      BY <3>2 DEF Fair
    <3> DEFINE New == (overtakers[t] \cup MayOvertake(t, w, i)) \ Old
    <3>4. overtakers[t] \in SUBSET Time /\ New \in SUBSET Time
      BY DEF IntakeInv, IntakeTyped, MayOvertake
    <3>5. overtakers[t] \subseteq New \cup Old /\ New \cap Old = {}
      OBVIOUS
    <3>6. Passed(w, i) \in 0..p
      BY PassedRange DEF IntakeInv
    <3>7. Cardinality(New) <= Passed(w, i)
      BY <3>3
    <3> HIDE DEF New
    <3>8. IsFiniteSet(New) /\ IsFiniteSet(Old)
      BY <3>4, TimeFinite, FS_Subset
    <3>9. /\ Cardinality(New) \in Nat /\ Cardinality(Old) \in Nat
          /\ Cardinality(New \cup Old) = Cardinality(New) + Cardinality(Old)
      <4>1. /\ Cardinality(New) \in Nat /\ Cardinality(Old) \in Nat
            /\ Cardinality(New \cup Old)
                 = Cardinality(New) + Cardinality(Old) - Cardinality(New \cap Old)
        BY <3>8, FS_CardinalityType, FS_Union
      <4>2. Cardinality(New \cap Old) = 0
        BY <3>5, FS_EmptySet
      <4> QED BY <4>1, <4>2
    <3>10. Cardinality(overtakers[t]) <= Cardinality(New \cup Old)
           /\ Cardinality(overtakers[t]) \in Nat
      BY <3>4, <3>5, Smaller
    <3> HIDE DEF p, q
    <3>11. Cardinality(overtakers[t]) <= p + (IF Clean THEN 0 ELSE q - 1)
      BY <2>1, <2>2, <3>3, <3>6, <3>7, <3>9, <3>10
    <3> QED BY <2>1, <3>11 DEF p
  <2>4. CASE t \notin InHand
    <3>1. Cardinality(overtakers[t]) = 0
      BY <2>4, FS_EmptySet DEF IntakeInv, OvertakingInv
    <3> HIDE DEF p, q
    <3>2. Cardinality(overtakers[t]) <= p + (IF Clean THEN 0 ELSE q - 1)
      BY <2>1, <3>1
    <3> QED BY <2>1, <3>2 DEF p
  <2> QED BY <2>3, <2>4
<1> QED BY <1>1, IntakeCorrect, PTL

------------------------------------------------------------------------------
(* The partition.                                                           *)

\* The filter of blueprints is no stricter than that of events: whoever lets pass
\* an event of this instance is kept.
LEMMA PartitionAgrees ==
    ASSUME NEW node, NEW c, ShouldProcessEvent(c), EvaluateJetstreamEntry(node, c) = "pass"
    PROVE  CouldMatchPartition(node.config)
<1>1. MatchesFilters(node.config, c) = "match"
  BY DEF EvaluateJetstreamEntry
<1>2. /\ FilterResult(node.config.did, c.did) = "match"
      /\ FilterResult(node.config.collection, c.collection) = "match"
  BY <1>1 DEF MatchesFilters
<1>3. /\ node.config.did.form = "array" => c.did \in node.config.did.values
      /\ node.config.collection.form = "array" => c.collection \in node.config.collection.values
  BY <1>2 DEF FilterResult
<1>4. CASE Strategy = "did"
  BY <1>3, <1>4 DEF ShouldProcessEvent, PartitionKey, CouldMatchPartition, SomeHere
<1>5. CASE Strategy = "collection"
  BY <1>3, <1>5 DEF ShouldProcessEvent, PartitionKey, CouldMatchPartition, SomeHere
<1>6. CASE Strategy \notin {"did", "collection"}
  BY <1>6 DEF CouldMatchPartition
<1> QED BY <1>4, <1>5, <1>6

------------------------------------------------------------------------------
(* The cache.                                                               *)

SomeEntry == EntryNode \cup {NoEntry}
CacheEntry == [aturi : ATURI, entry : SomeEntry]

ProcessorTyped ==
    /\ streaming \in BOOLEAN
    /\ enabled \subseteq ATURI
    /\ entry \in [ATURI -> SomeEntry]
    /\ loading \in [Loader -> [step : {"none", "list", "nodes"},
                               todo : SUBSET (DOMAIN Blueprint),
                               got : Seq(CacheEntry), current : BOOLEAN]]
    /\ cached \in Seq(CacheEntry)
    /\ requests \in Nat
    /\ caller \in {"idle", "edited"}
    /\ excused \in BOOLEAN

\* No blueprint is listed twice, or again once it has been read.
Distinct(list) ==
    \A i, k \in DOMAIN list : list[i].aturi = list[k].aturi => i = k

ListedOnce ==
    /\ Distinct(cached)
    /\ \A l \in Loader :
          /\ Distinct(loading[l].got)
          /\ \A i \in DOMAIN loading[l].got : \A k \in loading[l].todo :
                loading[l].got[i].aturi # Blueprint[k]

\* A list of cache entries is of the rows as they are ...
OfTheRows(list) ==
    \A k \in DOMAIN list : list[k].aturi \in enabled /\ list[k].entry = entry[list[k].aturi]

Lists(list, b) == \E k \in DOMAIN list : list[k] = Loaded(b, entry[b])

Due(b) == b \in enabled /\ Wanted(b)

\* ... so is what a load has read since the rows were last edited, and what is
\* left to read completes it.
LoadIsSound(l) ==
    loading[l].step = "nodes" /\ loading[l].current =>
        /\ OfTheRows(loading[l].got)
        /\ \A k \in loading[l].todo : Blueprint[k] \in enabled
        /\ \A b \in ATURI : Due(b) =>
              \/ Lists(loading[l].got, b)
              \/ \E k \in loading[l].todo : Blueprint[k] = b

\* A cache that lags behind the rows will be replaced, or has an excuse.
CacheIsSound ==
    streaming /\ NothingToCome /\ ~excused =>
        /\ OfTheRows(cached)
        /\ Len(cached) < MaxCacheSize => \A b \in ATURI : Due(b) => Lists(cached, b)

ProcessorInv ==
    /\ ProcessorTyped
    /\ ListedOnce
    /\ \A l \in Loader : LoadIsSound(l)
    /\ CacheIsSound

LEMMA Extended ==
    ASSUME NEW S, NEW s \in Seq(S), NEW x \in S
    PROVE  /\ Append(s, x) \in Seq(S)
           /\ DOMAIN s = 1..Len(s) /\ Len(s) \in Nat
           /\ DOMAIN Append(s, x) = DOMAIN s \cup {Len(s) + 1} /\ Len(s) + 1 \notin DOMAIN s
           /\ Append(s, x)[Len(s) + 1] = x
           /\ \A i \in DOMAIN s : Append(s, x)[i] = s[i]
OBVIOUS

LEMMA Replaces ==
    ASSUME NEW S, NEW s \in Seq(S)
    PROVE  /\ Replacement(s) \in Seq(S)
           /\ DOMAIN Replacement(s) \subseteq DOMAIN s
           /\ \A i \in DOMAIN Replacement(s) : Replacement(s)[i] = s[i]
           /\ Len(Replacement(s)) < MaxCacheSize => DOMAIN Replacement(s) = DOMAIN s
<1> DEFINE n == IF Len(s) < MaxCacheSize THEN Len(s) ELSE MaxCacheSize
<1>1. n \in Nat /\ n <= Len(s) /\ Len(s) \in Nat /\ DOMAIN s = 1..Len(s)
  BY ProcessorAssumption
<1>0. n < MaxCacheSize => n = Len(s)
  BY ProcessorAssumption
<1>2. Replacement(s) = SubSeq(s, 1, n)
  BY DEF Replacement
<1> HIDE DEF n
<1>3. ASSUME NEW i \in 1..n PROVE s[i] \in S /\ i \in DOMAIN s
  <2>1. i \in 1..Len(s)
    BY <1>1
  <2>2. \A k \in 1..Len(s) : s[k] \in S
    OBVIOUS
  <2> QED BY <1>1, <2>1, <2>2
<1>4. /\ SubSeq(s, 1, n) \in Seq(S)
      /\ Len(SubSeq(s, 1, n)) = IF 1 <= n THEN n - 1 + 1 ELSE 0
      /\ \A i \in 1 .. (n - 1 + 1) : SubSeq(s, 1, n)[i] = s[1 + i - 1]
  <2>1. 1 \in Int /\ n \in Int /\ \A i \in 1..n : s[i] \in S
    BY <1>1, <1>3
  <2> QED BY <2>1, SubSeqProperties
<1>5. DOMAIN SubSeq(s, 1, n) = 1..n /\ Len(SubSeq(s, 1, n)) = n
  <2>1. Len(SubSeq(s, 1, n)) = n
    BY <1>1, <1>4
  <2>2. DOMAIN SubSeq(s, 1, n) = 1..Len(SubSeq(s, 1, n))
    BY <1>4
  <2> QED BY <2>1, <2>2
<1>6. \A i \in 1..n : SubSeq(s, 1, n)[i] = s[i]
  <2> SUFFICES ASSUME NEW i \in 1..n PROVE SubSeq(s, 1, n)[i] = s[i]
    OBVIOUS
  <2>1. i \in 1..(n - 1 + 1) /\ 1 + i - 1 = i
    BY <1>1
  <2> QED BY <1>4, <2>1
<1>7. DOMAIN Replacement(s) = 1..n /\ Len(Replacement(s)) = n
  BY <1>2, <1>5
<1>8. 1..n \subseteq DOMAIN s
  BY <1>3
<1>9. Len(Replacement(s)) < MaxCacheSize => DOMAIN Replacement(s) = DOMAIN s
  BY <1>0, <1>1, <1>7
<1> QED BY <1>2, <1>4, <1>6, <1>7, <1>8, <1>9

LEMMA Awaited ==
    NothingToCome <=> /\ \A l \in Loader : loading[l].step = "none"
                      /\ ~(requests > 0) /\ caller # "edited"
BY ProcessorAssumption DEF NothingToCome, ReloadToCome, Loader, Reloader

LEMMA AwaitedThen ==
    (NothingToCome <=> /\ \A l \in Loader : loading[l].step = "none"
                       /\ ~(requests > 0) /\ caller # "edited")'
BY Awaited, PTL

LoadState == [step : {"none", "list", "nodes"}, todo : SUBSET (DOMAIN Blueprint),
              got : Seq(CacheEntry), current : BOOLEAN]

\* A load reads on: another row is taken off what is left, and kept if it is wanted.
LEMMA ReadsOn ==
    ASSUME ProcessorTyped, NEW l \in Loader, ListNodesOf(l)
    PROVE  \E k \in loading[l].todo :
             /\ loading[l].step = "nodes"
             /\ loading' = [loading EXCEPT ![l] =
                   [step |-> "nodes", todo |-> loading[l].todo \ {k},
                    got |-> IF Wanted(Blueprint[k])
                            THEN Append(loading[l].got, Loaded(Blueprint[k], entry[Blueprint[k]]))
                            ELSE loading[l].got,
                    current |-> loading[l].current]]
BY DEF ListNodesOf, ProcessorTyped

LEMMA ProcessorKeepsType ==
    ASSUME ProcessorTyped, [ProcessorNext]_processorVars
    PROVE  ProcessorTyped'
<1> USE DEF rowVars
<1>1. ASSUME NEW l \in Loader, NEW r \in LoadState, loading' = [loading EXCEPT ![l] = r]
      PROVE  loading' \in [Loader -> LoadState]
  BY <1>1 DEF ProcessorTyped, LoadState
<1>2. NotLoading \in LoadState /\ AboutToLoad \in LoadState
  <2>1. <<>> \in Seq(CacheEntry)
    OBVIOUS
  <2>2. NotLoading \in LoadState
    BY <2>1 DEF NotLoading, LoadState
  <2> QED BY <2>2 DEF AboutToLoad, LoadState
<1>3. ASSUME NEW l \in Loader, Load(l) PROVE ProcessorTyped'
  <2>1. CASE ListRows(l)
    <3>1. PICK r : r = [step |-> "nodes", got |-> <<>>, current |-> TRUE,
                        todo |-> {k \in DOMAIN Blueprint : Blueprint[k] \in enabled}]
      OBVIOUS
    <3>2. r \in LoadState /\ loading' = [loading EXCEPT ![l] = r]
      BY <2>1, <3>1 DEF ListRows, LoadState
    <3>3. loading' \in [Loader -> LoadState]
      BY <1>1, <3>2
    <3> QED BY <2>1, <3>3 DEF ListRows, ProcessorTyped, LoadState
  <2>2. CASE ListNodesOf(l)
    <3>1. PICK k \in loading[l].todo :
             loading' = [loading EXCEPT ![l] =
                   [step |-> "nodes", todo |-> loading[l].todo \ {k},
                    got |-> IF Wanted(Blueprint[k])
                            THEN Append(loading[l].got, Loaded(Blueprint[k], entry[Blueprint[k]]))
                            ELSE loading[l].got,
                    current |-> loading[l].current]]
      BY <2>2, ReadsOn
    <3>2. k \in DOMAIN Blueprint /\ loading[l] \in LoadState
      BY DEF ProcessorTyped, LoadState
    <3>3. Blueprint[k] \in ATURI
      BY <3>2 DEF ATURI, ToSet
    <3>4. Loaded(Blueprint[k], entry[Blueprint[k]]) \in CacheEntry
      BY <3>3 DEF ProcessorTyped, Loaded, CacheEntry
    <3>5. loading[l].got \in Seq(CacheEntry)
      BY <3>2 DEF LoadState
    <3>6. Append(loading[l].got, Loaded(Blueprint[k], entry[Blueprint[k]])) \in Seq(CacheEntry)
      BY <3>4, <3>5, Extended
    <3>7. loading' \in [Loader -> LoadState]
      BY <1>1, <3>1, <3>2, <3>5, <3>6 DEF LoadState
    <3> QED BY <2>2, <3>7 DEF ListNodesOf, ProcessorTyped, LoadState
  <2>3. CASE LoadFails(l)
    <3>1. loading' \in [Loader -> LoadState]
      BY <1>1, <1>2, <2>3 DEF LoadFails
    <3> QED BY <2>3, <3>1 DEF LoadFails, ProcessorTyped, LoadState
  <2>4. CASE Install(l)
    <3>1. loading' \in [Loader -> LoadState]
      BY <1>1, <1>2, <2>4 DEF Install
    <3>2. cached' \in Seq(CacheEntry)
      BY <2>4, Replaces DEF Install, ProcessorTyped
    <3>3. excused' \in BOOLEAN
      BY <2>4 DEF Install
    <3> QED BY <2>4, <3>1, <3>2, <3>3 DEF Install, ProcessorTyped, LoadState
  <2> QED BY <1>3, <2>1, <2>2, <2>3, <2>4 DEF Load
<1>4. CASE ServeRequest
  <2>1. loading' \in [Loader -> LoadState]
    <3>1. Reloader \in Loader
      BY DEF Loader
    <3> QED BY <1>1, <1>2, <1>4, <3>1 DEF ServeRequest, ProcessorTyped, LoadState
  <2>2. requests' \in Nat
    BY <1>4 DEF ServeRequest, ProcessorTyped
  <2> QED BY <1>4, <2>1, <2>2 DEF ServeRequest, ProcessorTyped, LoadState
<1>5. CASE IntervalPasses
  BY <1>5 DEF IntervalPasses, ProcessorTyped
<1>6. CASE RequestReload
  BY <1>6 DEF RequestReload, ProcessorTyped
<1>7. CASE RequestTimesOut
  BY <1>7 DEF RequestTimesOut, ProcessorTyped
<1>8. ASSUME NEW b \in ATURI, Edit(b) PROVE ProcessorTyped'
  <2>1. loading' \in [Loader -> LoadState]
    <3>1. \A l \in Loader : [loading[l] EXCEPT !.current = FALSE] \in LoadState
      BY DEF ProcessorTyped, LoadState
    <3> QED BY <1>8, <3>1 DEF Edit
  <2>2. enabled' \subseteq ATURI
    BY <1>8 DEF Edit, ProcessorTyped
  <2>3. entry' \in [ATURI -> SomeEntry]
    BY <1>8 DEF Edit, ProcessorTyped, SomeEntry
  <2> QED BY <1>8, <2>1, <2>2, <2>3 DEF Edit, ProcessorTyped, LoadState
<1>9. CASE UNCHANGED processorVars
  BY <1>9 DEF processorVars, ProcessorTyped
<1> QED BY <1>3, <1>4, <1>5, <1>6, <1>7, <1>8, <1>9 DEF ProcessorNext

------------------------------------------------------------------------------
(* The inductive invariant.                                                 *)

LEMMA ProcessorStarts == ProcessorInit => ProcessorInv
<1> SUFFICES ASSUME ProcessorInit PROVE ProcessorInv
  OBVIOUS
<1>0. <<>> \in Seq(CacheEntry) /\ DOMAIN <<>> = {}
  OBVIOUS
<1>1. NotLoading \in LoadState /\ AboutToLoad \in LoadState
  <2>1. NotLoading \in LoadState
    BY <1>0 DEF NotLoading, LoadState
  <2> QED BY <2>1 DEF AboutToLoad, LoadState
<1>2. /\ NotLoading.got = <<>> /\ NotLoading.todo = {} /\ NotLoading.step = "none"
      /\ AboutToLoad.got = <<>> /\ AboutToLoad.todo = {} /\ AboutToLoad.step = "list"
  BY DEF NotLoading, AboutToLoad
<1>3. \A l \in Loader : loading[l] \in {NotLoading, AboutToLoad}
  BY DEF ProcessorInit
<1>4. ProcessorTyped
  <2>1. loading \in [Loader -> LoadState]
    BY <1>1 DEF ProcessorInit
  <2>2. entry \in [ATURI -> SomeEntry]
    BY DEF ProcessorInit, SomeEntry
  <2> QED BY <1>0, <2>1, <2>2 DEF ProcessorInit, ProcessorTyped, LoadState
<1>5. ListedOnce
  <2>1. \A l \in Loader : loading[l].got = <<>> /\ loading[l].todo = {}
    BY <1>2, <1>3
  <2>2. cached = <<>>
    BY DEF ProcessorInit
  <2> QED BY <1>0, <2>1, <2>2 DEF ListedOnce, Distinct
<1>6. \A l \in Loader : LoadIsSound(l)
  BY <1>2, <1>3 DEF LoadIsSound
<1>7. CacheIsSound
  <2>1. PICK l \in Worker : TRUE
    BY ProcessorAssumption
  <2>2. l \in Loader /\ (streaming => loading[l] = AboutToLoad)
    BY <2>1 DEF ProcessorInit, Loader
  <2>3. streaming => ~NothingToCome
    BY <1>2, <2>2, Awaited
  <2> QED BY <2>3 DEF CacheIsSound
<1> QED BY <1>4, <1>5, <1>6, <1>7 DEF ProcessorInv

LEMMA ListedOnceKept ==
    ASSUME ProcessorTyped, ListedOnce, [ProcessorNext]_processorVars
    PROVE  ListedOnce'
<1> USE DEF rowVars
<1>0. DOMAIN <<>> = {}
  OBVIOUS
<1>1. ASSUME NEW l \in Loader, NEW r, loading' = [loading EXCEPT ![l] = r],
             UNCHANGED cached, Distinct(r.got),
             \A i \in DOMAIN r.got : \A k \in r.todo : r.got[i].aturi # Blueprint[k]
      PROVE  ListedOnce'
  <2>1. \A m \in Loader : loading'[m] = IF m = l THEN r ELSE loading[m]
    BY <1>1 DEF ProcessorTyped
  <2> QED BY <1>1, <2>1 DEF ListedOnce, Distinct
<1>2. /\ NotLoading.got = <<>> /\ NotLoading.todo = {}
      /\ AboutToLoad.got = <<>> /\ AboutToLoad.todo = {}
  BY DEF NotLoading, AboutToLoad
<1>3. Distinct(<<>>)
  BY <1>0 DEF Distinct
<1>4. ASSUME NEW l \in Loader, Load(l) PROVE ListedOnce'
  <2>1. CASE ListRows(l)
    <3>1. PICK r : r = [step |-> "nodes", got |-> <<>>, current |-> TRUE,
                        todo |-> {k \in DOMAIN Blueprint : Blueprint[k] \in enabled}]
      OBVIOUS
    <3>2. loading' = [loading EXCEPT ![l] = r] /\ r.got = <<>> /\ UNCHANGED cached
      BY <2>1, <3>1 DEF ListRows
    <3> QED BY <1>0, <1>1, <1>3, <3>2
  <2>2. CASE ListNodesOf(l)
    <3>1. PICK k \in loading[l].todo :
             loading' = [loading EXCEPT ![l] =
                   [step |-> "nodes", todo |-> loading[l].todo \ {k},
                    got |-> IF Wanted(Blueprint[k])
                            THEN Append(loading[l].got, Loaded(Blueprint[k], entry[Blueprint[k]]))
                            ELSE loading[l].got,
                    current |-> loading[l].current]]
      BY <2>2, ReadsOn
    <3>2. PICK r :
             r = [step |-> "nodes", todo |-> loading[l].todo \ {k},
                    got |-> IF Wanted(Blueprint[k])
                            THEN Append(loading[l].got, Loaded(Blueprint[k], entry[Blueprint[k]]))
                            ELSE loading[l].got,
                    current |-> loading[l].current]
      OBVIOUS
    <3>3. /\ loading' = [loading EXCEPT ![l] = r] /\ UNCHANGED cached
          /\ r.todo = loading[l].todo \ {k}
      BY <2>2, <3>1, <3>2 DEF ListNodesOf
    <3>4. /\ Distinct(loading[l].got)
          /\ \A i \in DOMAIN loading[l].got : \A m \in loading[l].todo :
                loading[l].got[i].aturi # Blueprint[m]
          /\ loading[l].got \in Seq(CacheEntry)
          /\ k \in DOMAIN Blueprint /\ loading[l].todo \subseteq DOMAIN Blueprint
      BY DEF ListedOnce, ProcessorTyped
    <3>5. CASE ~Wanted(Blueprint[k])
      <4>1. r.got = loading[l].got
        BY <3>2, <3>5
      <4> QED BY <1>1, <3>3, <3>4, <4>1
    <3>6. CASE Wanted(Blueprint[k])
      <4>1. PICK x : x = Loaded(Blueprint[k], entry[Blueprint[k]])
        OBVIOUS
      <4>2. r.got = Append(loading[l].got, x) /\ x.aturi = Blueprint[k]
        BY <3>2, <3>6, <4>1 DEF Loaded
      <4>3. x \in CacheEntry
        <5>1. Blueprint[k] \in ATURI
          BY <3>4 DEF ATURI, ToSet
        <5> QED BY <4>1, <5>1 DEF ProcessorTyped, Loaded, CacheEntry
      <4>4. PICK g, n : g = loading[l].got /\ n = Len(g) + 1
        OBVIOUS
      <4>5. /\ DOMAIN r.got = DOMAIN g \cup {n} /\ n \notin DOMAIN g
            /\ r.got[n] = x /\ \A i \in DOMAIN g : r.got[i] = g[i]
        BY <3>4, <4>2, <4>3, <4>4, Extended
      <4>6. \A i \in DOMAIN g : g[i].aturi # Blueprint[k]
        BY <3>4, <4>4
      <4>7. Distinct(r.got)
        BY <3>4, <4>2, <4>4, <4>5, <4>6 DEF Distinct
      <4>8. \A m \in r.todo : Blueprint[m] # Blueprint[k]
        BY <3>3, <3>4, ProcessorAssumption
      <4>9. ASSUME NEW i \in DOMAIN r.got, NEW m \in r.todo
            PROVE  r.got[i].aturi # Blueprint[m]
        BY <3>3, <3>4, <4>2, <4>4, <4>5, <4>8, <4>9
      <4> QED BY <1>1, <3>3, <4>7, <4>9
    <3> QED BY <3>5, <3>6
  <2>3. CASE LoadFails(l)
    BY <1>0, <1>1, <1>2, <1>3, <2>3 DEF LoadFails
  <2>4. CASE Install(l)
    <3>1. /\ cached' = Replacement(loading[l].got)
          /\ \A m \in Loader : loading'[m] = IF m = l THEN NotLoading ELSE loading[m]
          /\ loading[l].got \in Seq(CacheEntry)
      BY <2>4 DEF Install, ProcessorTyped
    <3>2. /\ DOMAIN cached' \subseteq DOMAIN loading[l].got
          /\ \A i \in DOMAIN cached' : cached'[i] = loading[l].got[i]
      BY <3>1, Replaces
    <3>3. Distinct(cached)'
      BY <3>2 DEF Distinct, ListedOnce
    <3> QED BY <1>0, <1>2, <3>1, <3>3 DEF ListedOnce, Distinct
  <2> QED BY <1>4, <2>1, <2>2, <2>3, <2>4 DEF Load
<1>5. CASE ServeRequest
  <2>1. CASE loading' = [loading EXCEPT ![Reloader] = AboutToLoad]
    <3>1. Reloader \in Loader /\ UNCHANGED cached
      BY <1>5 DEF Loader, ServeRequest
    <3> QED BY <1>0, <1>1, <1>2, <1>3, <2>1, <3>1
  <2>2. CASE UNCHANGED loading
    BY <1>5, <2>2 DEF ServeRequest, ListedOnce, Distinct
  <2> QED BY <1>5, <2>1, <2>2 DEF ServeRequest
<1>6. CASE IntervalPasses \/ RequestReload \/ RequestTimesOut \/ UNCHANGED processorVars
  BY <1>6 DEF IntervalPasses, RequestReload, RequestTimesOut, processorVars, ListedOnce, Distinct
<1>7. ASSUME NEW b \in ATURI, Edit(b) PROVE ListedOnce'
  <2>1. \A l \in Loader : loading'[l].got = loading[l].got /\ loading'[l].todo = loading[l].todo
    BY <1>7 DEF Edit, ProcessorTyped
  <2> QED BY <1>7, <2>1 DEF Edit, ListedOnce, Distinct
<1> QED BY <1>4, <1>5, <1>6, <1>7 DEF ProcessorNext

\* A load that goes on while the rows stay the same.
LEMMA LoadsKept ==
    ASSUME ProcessorTyped, \A l \in Loader : LoadIsSound(l), [ProcessorNext]_processorVars
    PROVE  \A l \in Loader : LoadIsSound(l)'
<1> USE DEF rowVars
<1>1. ASSUME NEW l \in Loader, NEW r, loading' = [loading EXCEPT ![l] = r],
             UNCHANGED <<enabled, entry>>,
             r.step = "nodes" /\ r.current =>
                 /\ OfTheRows(r.got)
                 /\ \A k \in r.todo : Blueprint[k] \in enabled
                 /\ \A b \in ATURI : Due(b) =>
                       Lists(r.got, b) \/ \E k \in r.todo : Blueprint[k] = b
      PROVE  \A m \in Loader : LoadIsSound(m)'
  <2>1. \A m \in Loader : loading'[m] = IF m = l THEN r ELSE loading[m]
    BY <1>1 DEF ProcessorTyped
  <2>2. \A m \in Loader : LoadIsSound(m)' <=>
            (loading'[m].step = "nodes" /\ loading'[m].current =>
                /\ OfTheRows(loading'[m].got)
                /\ \A k \in loading'[m].todo : Blueprint[k] \in enabled
                /\ \A b \in ATURI : Due(b) =>
                      Lists(loading'[m].got, b) \/ \E k \in loading'[m].todo : Blueprint[k] = b)
    BY <1>1 DEF LoadIsSound, OfTheRows, Due, Lists, Wanted, IsValid, CouldMatchPartition
  <2> QED BY <1>1, <2>1, <2>2 DEF LoadIsSound
<1>2. NotLoading.step = "none" /\ AboutToLoad.step = "list"
  BY DEF NotLoading, AboutToLoad
<1>3. ASSUME NEW l \in Loader, Load(l) PROVE \A m \in Loader : LoadIsSound(m)'
  <2>1. CASE ListRows(l)
    <3>1. PICK r : r = [step |-> "nodes", got |-> <<>>, current |-> TRUE,
                        todo |-> {k \in DOMAIN Blueprint : Blueprint[k] \in enabled}]
      OBVIOUS
    <3>2. /\ loading' = [loading EXCEPT ![l] = r] /\ UNCHANGED <<enabled, entry>>
          /\ r.got = <<>> /\ r.todo = {k \in DOMAIN Blueprint : Blueprint[k] \in enabled}
      BY <2>1, <3>1 DEF ListRows
    <3>3. OfTheRows(r.got)
      BY <3>2 DEF OfTheRows
    <3>4. \A b \in ATURI : Due(b) => \E k \in r.todo : Blueprint[k] = b
      BY <3>2 DEF Due, ATURI, ToSet
    <3> QED BY <1>1, <3>2, <3>3, <3>4
  <2>2. CASE ListNodesOf(l)
    <3>1. PICK k \in loading[l].todo : 
             /\ loading[l].step = "nodes"
             /\ loading' = [loading EXCEPT ![l] =
                   [step |-> "nodes", todo |-> loading[l].todo \ {k},
                    got |-> IF Wanted(Blueprint[k])
                            THEN Append(loading[l].got, Loaded(Blueprint[k], entry[Blueprint[k]]))
                            ELSE loading[l].got,
                    current |-> loading[l].current]]
      BY <2>2, ReadsOn
    <3>2. PICK r :
             r = [step |-> "nodes", todo |-> loading[l].todo \ {k},
                    got |-> IF Wanted(Blueprint[k])
                            THEN Append(loading[l].got, Loaded(Blueprint[k], entry[Blueprint[k]]))
                            ELSE loading[l].got,
                    current |-> loading[l].current]
      OBVIOUS
    <3>3. /\ loading' = [loading EXCEPT ![l] = r] /\ UNCHANGED <<enabled, entry>>
          /\ r.todo = loading[l].todo \ {k} /\ r.current = loading[l].current
      BY <2>2, <3>1, <3>2 DEF ListNodesOf
    <3>4. loading[l].got \in Seq(CacheEntry) /\ k \in DOMAIN Blueprint
      BY DEF ProcessorTyped
    <3>5. ASSUME r.current
          PROVE  /\ OfTheRows(r.got)
                 /\ \A m \in r.todo : Blueprint[m] \in enabled
                 /\ \A b \in ATURI : Due(b) =>
                       Lists(r.got, b) \/ \E m \in r.todo : Blueprint[m] = b
      <4>1. /\ OfTheRows(loading[l].got)
            /\ \A m \in loading[l].todo : Blueprint[m] \in enabled
            /\ \A b \in ATURI : Due(b) =>
                  Lists(loading[l].got, b) \/ \E m \in loading[l].todo : Blueprint[m] = b
        BY <3>1, <3>3, <3>5 DEF LoadIsSound
      <4>2. CASE ~Wanted(Blueprint[k])
        <5>1. r.got = loading[l].got
          BY <3>2, <4>2
        <5> QED BY <3>3, <4>1, <4>2, <5>1 DEF Due
      <4>3. CASE Wanted(Blueprint[k])
        <5>1. PICK x : x = Loaded(Blueprint[k], entry[Blueprint[k]])
          OBVIOUS
        <5>2. /\ r.got = Append(loading[l].got, x)
              /\ x.aturi = Blueprint[k] /\ x.entry = entry[Blueprint[k]]
          BY <3>2, <4>3, <5>1 DEF Loaded
        <5>3. x \in CacheEntry
          <6>1. Blueprint[k] \in ATURI
            BY <3>4 DEF ATURI, ToSet
          <6> QED BY <5>1, <6>1 DEF ProcessorTyped, Loaded, CacheEntry
        <5>4. PICK g, n : g = loading[l].got /\ n = Len(g) + 1
          OBVIOUS
        <5>5. /\ DOMAIN r.got = DOMAIN g \cup {n} /\ n \notin DOMAIN g
              /\ r.got[n] = x /\ \A i \in DOMAIN g : r.got[i] = g[i]
          BY <3>4, <5>2, <5>3, <5>4, Extended
        <5>6. Blueprint[k] \in enabled
          BY <4>1
        <5>7. OfTheRows(r.got)
          BY <4>1, <5>2, <5>4, <5>5, <5>6 DEF OfTheRows
        <5>8. Lists(r.got, Blueprint[k])
          BY <5>1, <5>5 DEF Lists
        <5>9. \A b : Lists(loading[l].got, b) => Lists(r.got, b)
          BY <5>4, <5>5 DEF Lists
        <5> QED BY <3>3, <4>1, <5>7, <5>8, <5>9
      <4> QED BY <4>2, <4>3
    <3> QED BY <1>1, <3>3, <3>5
  <2>3. CASE LoadFails(l)
    BY <1>1, <1>2, <2>3 DEF LoadFails
  <2>4. CASE Install(l)
    BY <1>1, <1>2, <2>4 DEF Install
  <2> QED BY <1>3, <2>1, <2>2, <2>3, <2>4 DEF Load
<1>4. ASSUME UNCHANGED <<loading, enabled, entry>> PROVE \A m \in Loader : LoadIsSound(m)'
  BY <1>4 DEF LoadIsSound, OfTheRows, Due, Lists, Wanted, IsValid, CouldMatchPartition
<1>5. CASE ServeRequest
  <2>1. CASE loading' = [loading EXCEPT ![Reloader] = AboutToLoad]
    <3>1. Reloader \in Loader /\ UNCHANGED <<enabled, entry>>
      BY <1>5 DEF Loader, ServeRequest
    <3> QED BY <1>1, <1>2, <2>1, <3>1
  <2>2. CASE UNCHANGED loading
    BY <1>4, <1>5, <2>2 DEF ServeRequest
  <2> QED BY <1>5, <2>1, <2>2 DEF ServeRequest
<1>6. CASE IntervalPasses \/ RequestReload \/ RequestTimesOut \/ UNCHANGED processorVars
  BY <1>4, <1>6 DEF IntervalPasses, RequestReload, RequestTimesOut, processorVars
<1>7. ASSUME NEW b \in ATURI, Edit(b) PROVE \A m \in Loader : LoadIsSound(m)'
  <2>1. \A l \in Loader : loading'[l].current = FALSE
    BY <1>7 DEF Edit, ProcessorTyped
  <2> QED BY <2>1 DEF LoadIsSound
<1> QED BY <1>3, <1>5, <1>6, <1>7 DEF ProcessorNext

LEMMA CacheKept ==
    ASSUME ProcessorTyped, ProcessorTyped', CacheIsSound,
           \A l \in Loader : LoadIsSound(l), [ProcessorNext]_processorVars
    PROVE  CacheIsSound'
<1> USE DEF rowVars
<1>0. NotLoading.step = "none" /\ AboutToLoad.step = "list"
  BY DEF NotLoading, AboutToLoad
<1>1. ASSUME ~NothingToCome' \/ excused' PROVE CacheIsSound'
  BY <1>1 DEF CacheIsSound
<1>2. ASSUME UNCHANGED <<streaming, enabled, entry, cached>>, NothingToCome' /\ ~excused' =>
                                                               NothingToCome /\ ~excused
      PROVE  CacheIsSound'
  BY <1>2 DEF CacheIsSound, OfTheRows, Due, Lists, Wanted, IsValid, CouldMatchPartition
<1>3. ASSUME NEW l \in Loader, Load(l) PROVE CacheIsSound'
  <2>1. CASE ListRows(l) \/ ListNodesOf(l)
    <3>1. loading'[l].step = "nodes"
      <4>1. CASE ListRows(l)
        BY <4>1 DEF ListRows, ProcessorTyped
      <4>2. CASE ListNodesOf(l)
        BY <4>2, ReadsOn DEF ProcessorTyped
      <4> QED BY <2>1, <4>1, <4>2
    <3>2. ~NothingToCome'
      BY <3>1, AwaitedThen
    <3> QED BY <1>1, <3>2
  <2>2. CASE LoadFails(l)
    BY <1>1, <2>2 DEF LoadFails
  <2>3. CASE Install(l)
    <3>1. /\ loading[l].step = "nodes" /\ loading[l].todo = {}
          /\ cached' = Replacement(loading[l].got)
          /\ excused' = (~loading[l].current /\ (excused \/ ~ReloadToCome(l)))
          /\ UNCHANGED <<streaming, enabled, entry, requests, caller>>
          /\ \A m \in Loader : loading'[m] = IF m = l THEN NotLoading ELSE loading[m]
      BY <2>3 DEF Install, ProcessorTyped
    <3>2. CASE loading[l].current
      <4>1. /\ OfTheRows(loading[l].got)
            /\ \A b \in ATURI : Due(b) => Lists(loading[l].got, b)
        BY <3>1, <3>2 DEF LoadIsSound
      <4>2. PICK g : g = loading[l].got
        OBVIOUS
      <4>3. g \in Seq(CacheEntry) /\ cached' = Replacement(g)
        BY <3>1, <4>2 DEF ProcessorTyped
      <4>4. /\ DOMAIN cached' \subseteq DOMAIN g
            /\ \A i \in DOMAIN cached' : cached'[i] = g[i]
            /\ Len(cached') < MaxCacheSize => DOMAIN cached' = DOMAIN g
        BY <4>3, Replaces
      <4>5. OfTheRows(cached)'
        BY <3>1, <4>1, <4>2, <4>4 DEF OfTheRows
      <4>6. ASSUME Len(cached') < MaxCacheSize, NEW b \in ATURI, Due(b)'
            PROVE  Lists(cached, b)'
        <5>1. Due(b)
          BY <3>1, <4>6 DEF Due, Wanted, IsValid, CouldMatchPartition
        <5>2. Lists(g, b)
          BY <4>1, <4>2, <5>1
        <5> QED BY <3>1, <4>4, <4>6, <5>2 DEF Lists
      <4> QED BY <4>5, <4>6 DEF CacheIsSound
    <3>3. CASE ~loading[l].current
      <4>1. excused' \/ ReloadToCome(l)
        BY <3>1, <3>3
      <4>2. ReloadToCome(l) => ~NothingToCome'
        <5>1. ReloadToCome(l) => \/ \E m \in Loader : loading'[m].step # "none"
                                 \/ requests' > 0 \/ caller' = "edited"
          BY <3>1 DEF ReloadToCome
        <5> QED BY <5>1, AwaitedThen
      <4> QED BY <1>1, <4>1, <4>2
    <3> QED BY <3>2, <3>3
  <2> QED BY <1>3, <2>1, <2>2, <2>3 DEF Load
<1>4. CASE ServeRequest
  <2>1. CASE loading' = [loading EXCEPT ![Reloader] = AboutToLoad]
    <3>1. Reloader \in Loader /\ loading'[Reloader].step = "list"
      BY <1>0, <2>1 DEF Loader, ProcessorTyped
    <3> QED BY <1>1, <3>1, AwaitedThen
  <2>2. CASE excused'
    BY <1>1, <2>2
  <2> QED BY <1>4, <2>1, <2>2 DEF ServeRequest
<1>5. CASE IntervalPasses \/ UNCHANGED processorVars
  <2>1. UNCHANGED <<streaming, enabled, entry, cached, loading, requests, caller, excused>>
    BY <1>5 DEF IntervalPasses, processorVars
  <2>2. NothingToCome' <=> NothingToCome
    BY <2>1, Awaited, AwaitedThen
  <2> QED BY <1>2, <2>1, <2>2
<1>6. CASE RequestReload
  <2>1. requests' > 0
    BY <1>6 DEF RequestReload, ProcessorTyped
  <2> QED BY <1>1, <2>1, AwaitedThen
<1>7. CASE RequestTimesOut
  BY <1>1, <1>7 DEF RequestTimesOut
<1>8. ASSUME NEW b \in ATURI, Edit(b) PROVE CacheIsSound'
  BY <1>1, <1>8, AwaitedThen DEF Edit
<1> QED BY <1>3, <1>4, <1>5, <1>6, <1>7, <1>8 DEF ProcessorNext

\* Every list of blueprints, whatever the edits, loads, failures and timeouts.
THEOREM ProcessorCorrect == ProcessorSpec => []ProcessorInv
<1>1. ProcessorInv /\ [ProcessorNext]_processorVars => ProcessorInv'
  BY ProcessorKeepsType, ListedOnceKept, LoadsKept, CacheKept DEF ProcessorInv
<1> QED BY ProcessorStarts, <1>1, PTL DEF ProcessorSpec

\* A cache that lags behind the rows has one of the excuses.
THEOREM StaleAlwaysExcused == ProcessorSpec => []StaleHasAnExcuse
<1>1. ProcessorInv => StaleHasAnExcuse
  <2> SUFFICES ASSUME ProcessorInv, streaming, NothingToCome, ~excused
               PROVE  /\ Len(cached) < MaxCacheSize =>
                            \A b \in ATURI : Interested(b) => InCache(b)
                      /\ \A k \in DOMAIN cached :
                            /\ cached[k].aturi \in enabled
                            /\ cached[k].entry = entry[cached[k].aturi]
    BY DEF StaleHasAnExcuse
  <2>1. /\ OfTheRows(cached)
        /\ Len(cached) < MaxCacheSize => \A b \in ATURI : Due(b) => Lists(cached, b)
    BY DEF ProcessorInv, CacheIsSound
  <2>2. ASSUME NEW b \in ATURI, Interested(b) PROVE Due(b)
    BY <2>2, PartitionAgrees DEF Interested, Due, Wanted
  <2> QED BY <2>1, <2>2 DEF OfTheRows, Lists, InCache
<1> QED BY <1>1, ProcessorCorrect, PTL

\* However long the cache and whatever its groups, a commit is submitted for the
\* blueprints it matches.
THEOREM MatchesAlwaysSubmitted == ProcessorSpec => []EveryMatchIsSubmitted
<1>1. ProcessorInv => EveryMatchIsSubmitted
  <2> SUFFICES ASSUME ProcessorInv, NEW c \in Commit, streaming, ShouldProcessEvent(c),
                      NEW k \in DOMAIN cached, ~Represented(k)
               PROVE  (cached[k].aturi \in HandleCommit(c)) <=>
                          EvaluateJetstreamEntry(cached[k].entry, c) = "pass"
    BY DEF EveryMatchIsSubmitted
  <2> DEFINE same == {m \in DOMAIN cached : cached[m].entry.config = cached[k].entry.config}
             best == cached[First(same)].entry
  <2>1. same \in GroupsOf(cached) /\ k \in same
    BY DEF GroupsOf
  <2>2. First(same) \in same
    <3>1. same \in SUBSET Nat
      BY DEF ProcessorInv, ProcessorTyped
    <3>2. \E x \in same : \A y \in same : x <= y
      BY <2>1, <3>1, Least
    <3> QED BY <3>2 DEF First
  <2>3. EvaluateJetstreamEntry(best, c) = EvaluateJetstreamEntry(cached[k].entry, c)
    <3>1. best.config = cached[k].entry.config
      BY <2>2
    <3>2. best.payload = cached[k].entry.payload
      BY DEF Represented
    <3> HIDE DEF best
    <3> QED BY <3>1, <3>2 DEF EvaluateJetstreamEntry
  <2>4. HandleCommit(c) = MatchedBy(c)
    BY DEF HandleCommit
  <2>5. ASSUME EvaluateJetstreamEntry(cached[k].entry, c) = "pass"
        PROVE  cached[k].aturi \in MatchedBy(c)
    BY <2>1, <2>3, <2>5 DEF MatchedBy
  <2>6. ASSUME cached[k].aturi \in MatchedBy(c)
        PROVE  EvaluateJetstreamEntry(cached[k].entry, c) = "pass"
    <3>1. PICK g \in GroupsOf(cached) : /\ EvaluateJetstreamEntry(cached[First(g)].entry, c) = "pass"
                                        /\ \E m \in g : cached[m].aturi = cached[k].aturi
      BY <2>6 DEF MatchedBy
    <3>2. PICK config : g = {m \in DOMAIN cached : cached[m].entry.config = config}
      BY DEF GroupsOf
    <3>3. PICK m \in g : cached[m].aturi = cached[k].aturi
      BY <3>1
    <3>4. m = k
      BY <3>2, <3>3 DEF ProcessorInv, ListedOnce, Distinct
    <3>5. g = same
      BY <3>2, <3>3, <3>4
    <3> QED BY <2>3, <3>1, <3>5
  <2> QED BY <2>4, <2>5, <2>6
<1> QED BY <1>1, ProcessorCorrect, PTL

------------------------------------------------------------------------------
(* The denylist.                                                            *)

Below(S, x) == {y \in S : y <= x}

LEMMA BelowCounts ==
    ASSUME NEW S \in SUBSET Nat, IsFiniteSet(S)
    PROVE  /\ \A x : /\ IsFiniteSet(Below(S, x))
                     /\ Cardinality(Below(S, x)) \in Nat
                     /\ Cardinality(Below(S, x)) <= Cardinality(S)
           /\ Cardinality(S) \in Nat
           /\ \A x \in S : Cardinality(Below(S, x)) >= 1
           /\ \A x, z \in S : x < z => Cardinality(Below(S, x)) < Cardinality(Below(S, z))
<1>1. \A x : Below(S, x) \in SUBSET S
  BY DEF Below
<1>2. \A x : /\ IsFiniteSet(Below(S, x))
             /\ Cardinality(Below(S, x)) <= Cardinality(S)
  BY <1>1, FS_Subset
<1>3. Cardinality(S) \in Nat /\ \A x : Cardinality(Below(S, x)) \in Nat
  BY <1>2, FS_CardinalityType
<1>4. ASSUME NEW x \in S PROVE Cardinality(Below(S, x)) >= 1
  <2>1. x \in Below(S, x)
    BY DEF Below
  <2>2. Cardinality(Below(S, x)) # 0
    BY <2>1, <1>2, FS_EmptySet
  <2> QED BY <2>2, <1>3
<1>5. ASSUME NEW x \in S, NEW z \in S, x < z
      PROVE  Cardinality(Below(S, x)) < Cardinality(Below(S, z))
  <2>0. x \in Nat /\ z \in Nat /\ z <= z /\ ~(z <= x) /\ \A y \in S : y <= x => y <= z
    <3>1. \A y \in S : y \in Nat
      OBVIOUS
    <3> QED BY <3>1, <1>5
  <2>1. Below(S, x) \in SUBSET Below(S, z) /\ z \in Below(S, z) /\ z \notin Below(S, x)
    BY <2>0 DEF Below
  <2>2. /\ Cardinality(Below(S, x)) <= Cardinality(Below(S, z))
        /\ Cardinality(Below(S, z)) # Cardinality(Below(S, x))
    BY <2>1, <1>2, FS_Subset
  <2> QED BY <2>2, <1>3
<1> QED BY <1>2, <1>3, <1>4, <1>5

\* A finite set of numbers that is not empty has a greatest one.
LEMMA Greatest ==
    ASSUME NEW S \in SUBSET Nat, IsFiniteSet(S), S # {}
    PROVE  \E x \in S : \A y \in S : y <= x
<1> DEFINE Above(x) == {y \in S : y > x}
<1> DEFINE Counts == {Cardinality(Above(x)) : x \in S}
<1>1. \A x : /\ IsFiniteSet(Above(x))
             /\ Cardinality(Above(x)) \in Nat
  <2>1. \A x : Above(x) \in SUBSET S
    OBVIOUS
  <2> QED BY <2>1, FS_Subset, FS_CardinalityType
<1>2. PICK n \in Counts : \A m \in Counts : n <= m
  <2>1. Counts \in SUBSET Nat /\ Counts # {}
    BY <1>1
  <2> HIDE DEF Counts
  <2> QED BY <2>1, Least
<1>3. PICK x \in S : n = Cardinality(Above(x))
  BY <1>2
<1>4. ASSUME NEW y \in S, ~(y <= x) PROVE FALSE
  <2>0. y > x /\ ~(y > y) /\ \A z \in S : z > y => z > x
    <3>1. \A z \in S : z \in Nat
      OBVIOUS
    <3> QED BY <3>1, <1>4
  <2>1. Above(y) \in SUBSET Above(x) /\ y \in Above(x) /\ y \notin Above(y)
    BY <2>0, <1>4
  <2>2. /\ Cardinality(Above(y)) <= Cardinality(Above(x))
        /\ Cardinality(Above(x)) # Cardinality(Above(y))
    <3> HIDE DEF Above
    <3> QED BY <2>1, <1>1, FS_Subset
  <2>3. n <= Cardinality(Above(y))
    BY <1>2
  <2> HIDE DEF Above
  <2> QED BY <2>2, <2>3, <1>1, <1>3
<1> QED BY <1>4

\* Each place up to the size of a finite set of numbers is some element's.
LEMMA PlaceTaken ==
    ASSUME NEW S \in SUBSET Nat, IsFiniteSet(S), NEW n \in 1..Cardinality(S)
    PROVE  \E x \in S : Cardinality(Below(S, x)) = n
<1> DEFINE Reached == {x \in S : Cardinality(Below(S, x)) >= n}
<1>1. Cardinality(S) \in Nat /\ n \in Nat /\ n >= 1 /\ n <= Cardinality(S)
  BY BelowCounts
<1>2. S # {}
  BY <1>1, FS_EmptySet
<1>3. PICK g \in S : \A y \in S : y <= g
  BY <1>2, Greatest
<1>4. Below(S, g) = S
  BY <1>3 DEF Below
<1>5. g \in Reached
  BY <1>1, <1>4
<1>6. PICK x \in Reached : \A y \in Reached : x <= y
  <2>1. Reached \in SUBSET Nat /\ Reached # {}
    BY <1>5
  <2> HIDE DEF Reached
  <2> QED BY <2>1, Least
<1>7. x \in S /\ Cardinality(Below(S, x)) >= n /\ Cardinality(Below(S, x)) \in Nat
  BY <1>6, BelowCounts
<1> DEFINE Before == Below(S, x) \ {x}
<1>8. IsFiniteSet(Below(S, x)) /\ x \in Below(S, x)
  BY <1>7, BelowCounts DEF Below
<1>9. IsFiniteSet(Before) /\ Cardinality(Before) = Cardinality(Below(S, x)) - 1
  BY <1>8, FS_RemoveElement
<1>10. CASE Before = {}
  <2>1. Cardinality(Before) = 0
    BY <1>10, FS_EmptySet
  <2>2. Cardinality(Below(S, x)) = n
    <3> HIDE DEF Before
    <3> QED BY <2>1, <1>1, <1>7, <1>9
  <2> QED BY <2>2, <1>7
<1>11. CASE Before # {}
  <2>1. Before \in SUBSET Nat
    BY DEF Below
  <2>2. PICK p \in Before : \A y \in Before : y <= p
    <3> HIDE DEF Before
    <3> QED BY <2>1, <1>9, <1>11, Greatest
  <2>3. p \in S /\ p < x
    BY <2>2, <1>7 DEF Below
  <2>4. Below(S, p) = Before
    <3>1. \A y \in S : y <= x /\ y # x => y <= p
      BY <2>2 DEF Below
    <3>2. \A y \in S : y <= p => y <= x /\ y # x
      <4>1. \A y \in S : y \in Nat
        OBVIOUS
      <4> QED BY <4>1, <2>3, <1>7
    <3> QED BY <3>1, <3>2 DEF Below
  <2>5. p \notin Reached
    <3>1. p \in Nat /\ x \in Nat /\ ~(x <= p)
      BY <2>3, <1>7
    <3> HIDE DEF Reached
    <3> QED BY <3>1, <1>6
  <2>6. ~(Cardinality(Below(S, p)) >= n)
    BY <2>3, <2>5
  <2>7. Cardinality(Below(S, x)) = n
    <3> HIDE DEF Before, Reached
    <3> QED BY <2>4, <2>6, <1>1, <1>7, <1>9
  <2> QED BY <2>7, <1>7
<1> QED BY <1>10, <1>11

\* The place of a row of a page, in the table and in the page.
LEMMA PlaceInPage ==
    ASSUME NEW S \in SUBSET Nat, IsFiniteSet(S), NEW c \in Nat
    PROVE  \A x \in S : x > c =>
              Cardinality(Below(S, x)) =
                  Cardinality(Below(S, c)) + Cardinality(Below({y \in S : y > c}, x))
<1> SUFFICES ASSUME NEW x \in S, x > c
             PROVE  Cardinality(Below(S, x)) =
                      Cardinality(Below(S, c)) + Cardinality(Below({y \in S : y > c}, x))
  OBVIOUS
<1> DEFINE A == Below(S, c)
           B == Below({y \in S : y > c}, x)
<1>1. Below(S, x) = A \cup B /\ A \cap B = {}
  <2>1. \A y \in S : /\ y <= c => y <= x /\ ~(y > c)
                     /\ ~(y <= c) => y > c
    <3>1. \A y \in S : y \in Nat
      OBVIOUS
    <3> QED BY <3>1
  <2> QED BY <2>1 DEF Below
<1>2. IsFiniteSet(A) /\ IsFiniteSet(B)
  <2>1. A \in SUBSET S /\ B \in SUBSET S
    BY DEF Below
  <2> HIDE DEF A, B
  <2> QED BY <2>1, FS_Subset
<1>3. /\ Cardinality(A \cup B) = Cardinality(A) + Cardinality(B) - Cardinality(A \cap B)
      /\ Cardinality(A) \in Nat /\ Cardinality(B) \in Nat /\ Cardinality(A \cap B) = 0
  <2>1. Cardinality(A \cup B) = Cardinality(A) + Cardinality(B) - Cardinality(A \cap B)
    <3> HIDE DEF A, B
    <3> QED BY <1>2, FS_Union
  <2> QED BY <2>1, <1>1, <1>2, FS_CardinalityType, FS_EmptySet
<1> HIDE DEF A, B
<1>4. Cardinality(Below(S, x)) = Cardinality(A) + Cardinality(B)
  BY <1>1, <1>3
<1> QED BY <1>4 DEF A, B

\* A multiple, and how far a number is past it.
LEMMA PastMultiple ==
    ASSUME NEW q \in Nat, NEW m \in Nat \ {0}, NEW t \in 0..(m - 1)
    PROVE  (q * m + t) % m = t
OBVIOUS

DenyTyped ==
    /\ table \in SUBSET Item
    /\ filter \in [Node -> SUBSET Item]
    /\ filling \in [Node -> {"new", "paging", "done", "failed"}]
    /\ pageFrom \in [Node -> Item \cup {0}]
    /\ inserting \in [Node -> Item \cup {0}]
    /\ own \in [Node -> SUBSET Item]
    /\ quiet \in [Node -> BOOLEAN]
    /\ writes \in Nat

\* The rows of the table that follow no full page.
OfSomePage == {x \in table : Rank(x) % (PageSize + 1) # 0}

\* A filter knows what its instance inserted, which inserts nothing before it has
\* filled the filter, and whose inserts are writes like any other.
KnowsItsOwn(i) ==
    /\ own[i] \subseteq filter[i]
    /\ filling[i] \in {"new", "paging"} => own[i] = {} /\ inserting[i] = 0
    /\ inserting[i] # 0 => ~quiet[i]

\* While nobody writes, the next page starts after a row whose place is a multiple
\* of a page and one row, and the filter has the rows before it, but for those.
FilledSoFar(i) ==
    quiet[i] =>
        /\ filling[i] = "paging" =>
              /\ pageFrom[i] \in table \cup {0}
              /\ \E q \in Nat : Rank(pageFrom[i]) = q * (PageSize + 1)
              /\ filter[i] = {x \in OfSomePage : x < pageFrom[i]}
        /\ filling[i] = "done" => filter[i] = OfSomePage

DenyInv ==
    /\ DenyTyped
    /\ \A i \in Node : KnowsItsOwn(i) /\ FilledSoFar(i)

LEMMA TableOfNumbers ==
    DenyTyped => /\ table \in SUBSET Nat /\ IsFiniteSet(table) /\ 0 \notin table
                 /\ \A x : Rank(x) = Cardinality(Below(table, x))
<1> SUFFICES ASSUME DenyTyped
             PROVE  /\ table \in SUBSET Nat /\ IsFiniteSet(table) /\ 0 \notin table
                    /\ \A x : Rank(x) = Cardinality(Below(table, x))
  OBVIOUS
<1>1. table \in SUBSET Item
  BY DEF DenyTyped
<1> QED BY <1>1, DenyAssumption, FS_Subset DEF Rank, Below

\* A page that starts after row c, at a multiple of a page and one row: its items
\* are the rows of the next places, up to the next multiple; there the next page
\* starts, if the table has a row of that place.
LEMMA PageEndsAtMultiple ==
    ASSUME DenyTyped, NEW c \in table \cup {0},
           NEW q \in Nat, Rank(c) = q * (PageSize + 1)
    PROVE  LET page == ListPage(c, PageSize)
               so == {x \in OfSomePage : x < c} \cup page.items
           IN  \/ page.next = 0 /\ so = OfSomePage
               \/ /\ page.next \in table /\ page.items # {}
                  /\ Rank(page.next) = (q + 1) * (PageSize + 1)
                  /\ so = {x \in OfSomePage : x < page.next}
<1> DEFINE rows == {x \in table : x > c}
           place(x) == Cardinality(Below(rows, x))
           page == ListPage(c, PageSize)
           so == {x \in OfSomePage : x < c} \cup page.items
           M == PageSize + 1
<1>1. /\ table \in SUBSET Nat /\ IsFiniteSet(table) /\ 0 \notin table
      /\ \A x : Rank(x) = Cardinality(Below(table, x))
  BY TableOfNumbers
<1>2. rows \in SUBSET Nat /\ IsFiniteSet(rows)
  <2>1. rows \in SUBSET table
    OBVIOUS
  <2> HIDE DEF rows
  <2> QED BY <2>1, <1>1, FS_Subset
<1>3. c \in Nat /\ q \in Nat /\ PageSize \in Nat /\ PageSize >= 1 /\ M \in Nat \ {0}
  BY <1>1, DenyAssumption
<1>4. page = [items |-> {x \in rows : place(x) <= PageSize},
              next |-> IF Cardinality(rows) > PageSize
                       THEN CHOOSE x \in rows : place(x) = PageSize + 1 ELSE 0]
  BY DEF ListPage, Below
<1>5. /\ Cardinality(rows) \in Nat
      /\ \A x \in rows : /\ place(x) \in Nat /\ place(x) >= 1
                         /\ place(x) <= Cardinality(rows)
      /\ \A x, z \in rows : x < z => place(x) < place(z)
  BY <1>2, BelowCounts
<1>6. \A x \in rows : Rank(x) = q * M + place(x)
  <2>1. \A x \in rows : Rank(x) = Rank(c) + place(x)
    BY <1>1, <1>3, PlaceInPage
  <2> QED BY <2>1
<1>7. \A x \in rows : place(x) <= PageSize => x \in OfSomePage
  <2> SUFFICES ASSUME NEW x \in rows, place(x) <= PageSize
               PROVE  Rank(x) % M # 0
    BY DEF OfSomePage
  <2>1. place(x) \in 0..(M - 1) /\ place(x) # 0
    BY <1>3, <1>5
  <2>2. Rank(x) % M = place(x)
    <3>1. (q * M + place(x)) % M = place(x)
      <4> HIDE DEF place, M, rows
      <4> QED BY <2>1, <1>3, PastMultiple
    <3>2. Rank(x) = q * M + place(x)
      BY <1>6
    <3> HIDE DEF place, M, rows
    <3> QED BY <3>1, <3>2
  <2> HIDE DEF place, M
  <2> QED BY <2>1, <2>2
<1>8. c \notin OfSomePage
  <2>1. CASE c = 0
    BY <2>1, <1>1 DEF OfSomePage
  <2>2. CASE c \in table
    <3>1. (q * M + 0) % M = 0
      <4>1. 0 \in 0..(M - 1)
        BY <1>3
      <4> HIDE DEF M
      <4> QED BY <4>1, <1>3, PastMultiple
    <3>2. q * M + 0 = Rank(c)
      <4>1. Rank(c) = q * M
        OBVIOUS
      <4>2. q * M \in Nat
        BY <1>3
      <4> HIDE DEF M
      <4> QED BY <4>1, <4>2
    <3>3. Rank(c) % M = 0
      <4> HIDE DEF M
      <4> QED BY <3>1, <3>2
    <3> QED BY <3>3 DEF OfSomePage
  <2> QED BY <2>1, <2>2
<1>9. \A x \in table : x < c \/ x = c \/ x \in rows
  <2>1. \A x \in table : x \in Nat
    BY <1>1
  <2> QED BY <2>1, <1>3
<1>10. CASE Cardinality(rows) > PageSize
  <2>1. PageSize + 1 \in 1..Cardinality(rows)
    BY <1>3, <1>5, <1>10
  <2>2. \E x \in rows : place(x) = PageSize + 1
    <3> HIDE DEF rows
    <3> QED BY <2>1, <1>2, PlaceTaken
  <2>3. page.next \in rows /\ place(page.next) = PageSize + 1
    <3> HIDE DEF rows, place
    <3> QED BY <2>2, <1>4, <1>10
  <2>4. page.items # {}
    <3>1. 1 \in 1..Cardinality(rows)
      <4> HIDE DEF rows
      <4> QED BY <1>3, <1>5, <1>10
    <3>2. PICK x \in rows : place(x) = 1
      <4> HIDE DEF rows
      <4> QED BY <3>1, <1>2, PlaceTaken
    <3>3. place(x) <= PageSize
      BY <3>2, <1>3
    <3> HIDE DEF rows, place
    <3> QED BY <3>3, <1>4
  <2>5. Rank(page.next) = (q + 1) * M
    <3>1. Rank(page.next) = q * M + M
      <4>1. Rank(page.next) = q * M + place(page.next)
        BY <2>3, <1>6
      <4> HIDE DEF place, page
      <4> QED BY <4>1, <2>3
    <3>2. (q + 1) * M = q * M + M
      <4> HIDE DEF M
      <4> QED BY <1>3
    <3> HIDE DEF M, page
    <3> QED BY <3>1, <3>2
  <2>6. \A x \in rows : x < page.next <=> place(x) <= PageSize
    <3> SUFFICES ASSUME NEW x \in rows
                 PROVE  x < page.next <=> place(x) <= PageSize
      OBVIOUS
    <3>1. x < page.next => place(x) < place(page.next)
      <4> HIDE DEF rows, place, page
      <4> QED BY <2>3, <1>5
    <3>2. page.next < x => place(page.next) < place(x)
      <4> HIDE DEF rows, place, page
      <4> QED BY <2>3, <1>5
    <3>3. place(x) \in Nat /\ x \in Nat /\ page.next \in Nat
      <4> HIDE DEF rows, place, page
      <4> QED BY <2>3, <1>2, <1>5
    <3>4. page.next = x => place(x) = PageSize + 1
      <4> HIDE DEF rows, place, page
      <4> QED BY <2>3
    <3> HIDE DEF rows, place, page
    <3> QED BY <2>3, <3>1, <3>2, <3>3, <3>4, <1>3
  <2>7. page.next > c
    BY <2>3
  <2>8. so = {x \in OfSomePage : x < page.next}
    <3>1. ASSUME NEW x \in so PROVE x \in OfSomePage /\ x < page.next
      <4>1. CASE x \in OfSomePage /\ x < c
        <5>1. x \in Nat /\ page.next \in Nat
          <6> HIDE DEF rows, page
          <6> QED BY <4>1, <2>3, <1>1, <1>2 DEF OfSomePage
        <5> HIDE DEF page
        <5> QED BY <4>1, <5>1, <2>7, <1>3
      <4>2. CASE x \in page.items
        <5>1. x \in rows /\ place(x) <= PageSize
          <6> HIDE DEF rows, place
          <6> QED BY <4>2, <1>4
        <5> HIDE DEF rows, place, page
        <5> QED BY <5>1, <2>6, <1>7
      <4> QED BY <3>1, <4>1, <4>2
    <3>2. ASSUME NEW x \in OfSomePage, x < page.next PROVE x \in so
      <4>1. x < c \/ x \in rows
        BY <3>2, <1>8, <1>9 DEF OfSomePage
      <4>2. CASE x \in rows
        <5>1. place(x) <= PageSize
          <6> HIDE DEF rows, place, page
          <6> QED BY <4>2, <3>2, <2>6
        <5>2. x \in page.items
          <6> HIDE DEF rows, place
          <6> QED BY <4>2, <5>1, <1>4
        <5> QED BY <5>2
      <4> QED BY <4>1, <4>2, <3>2
    <3> HIDE DEF so
    <3> QED BY <3>1, <3>2
  <2> QED BY <2>3, <2>4, <2>5, <2>8
<1>11. CASE ~(Cardinality(rows) > PageSize)
  <2>1. page.next = 0
    <3> HIDE DEF rows, place
    <3> QED BY <1>4, <1>11
  <2>2. \A x \in rows : place(x) <= PageSize
    <3> HIDE DEF rows, place
    <3> QED BY <1>3, <1>5, <1>11
  <2>3. page.items = rows
    <3> HIDE DEF rows, place
    <3> QED BY <1>4, <2>2
  <2>4. so = OfSomePage
    <3>1. rows \subseteq OfSomePage
      <4> HIDE DEF rows, place
      <4> QED BY <1>7, <2>2
    <3>2. \A x \in OfSomePage : x < c \/ x \in rows
      BY <1>8, <1>9 DEF OfSomePage
    <3> HIDE DEF rows, page
    <3> QED BY <2>3, <3>1, <3>2
  <2> QED BY <2>1, <2>4
<1> QED BY <1>10, <1>11

LEMMA DenyInitInv == DenyInit => DenyInv
<1> SUFFICES ASSUME DenyInit PROVE DenyInv
  OBVIOUS
<1>1. DenyTyped
  BY DEF DenyInit, DenyTyped
<1>2. \A i \in Node : KnowsItsOwn(i) /\ FilledSoFar(i)
  BY DEF DenyInit, KnowsItsOwn, FilledSoFar
<1> QED BY <1>1, <1>2 DEF DenyInv

LEMMA DenyTypeStep == DenyTyped /\ [DenyNext]_denyVars => DenyTyped'
<1> SUFFICES ASSUME DenyTyped, [DenyNext]_denyVars PROVE DenyTyped'
  OBVIOUS
<1> USE DEF DenyTyped
<1>1. ASSUME NEW i \in Node, ClearFilter(i) PROVE DenyTyped'
  BY <1>1 DEF ClearFilter
<1>2. ASSUME NEW i \in Node, FillPage(i) PROVE DenyTyped'
  <2> DEFINE page == ListPage(pageFrom[i], PageSize)
  <2>1. page.items \in SUBSET Item
    BY DEF ListPage
  <2>2. CASE /\ filter' = [filter EXCEPT ![i] = @ \cup page.items]
             /\ pageFrom' = [pageFrom EXCEPT ![i] = page.next]
             /\ filling' = [filling EXCEPT ![i] =
                   IF page.items = {} \/ page.next = 0 THEN "done" ELSE "paging"]
    <3>1. page.next \in Item \cup {0}
      <4> DEFINE rows == {x \in table : x > pageFrom[i]}
                 place(x) == Cardinality(Below(rows, x))
      <4>1. page.next = IF Cardinality(rows) > PageSize
                        THEN CHOOSE x \in rows : place(x) = PageSize + 1 ELSE 0
        BY DEF ListPage, Below
      <4>2. CASE Cardinality(rows) > PageSize
        <5>1. rows \in SUBSET table
          OBVIOUS
        <5>2. rows \in SUBSET Nat /\ IsFiniteSet(rows)
          <6> HIDE DEF rows
          <6> QED BY <5>1, TableOfNumbers, FS_Subset
        <5>3. PageSize + 1 \in 1..Cardinality(rows)
          <6> HIDE DEF rows
          <6> QED BY <4>2, <5>2, FS_CardinalityType, DenyAssumption
        <5>4. \E x \in rows : place(x) = PageSize + 1
          <6> HIDE DEF rows
          <6> QED BY <5>2, <5>3, PlaceTaken
        <5>5. page.next \in rows
          <6> HIDE DEF rows, place, page
          <6> QED BY <4>1, <4>2, <5>4
        <5> HIDE DEF page
        <5> QED BY <5>5
      <4>3. CASE ~(Cardinality(rows) > PageSize)
        BY <4>1, <4>3
      <4> QED BY <4>2, <4>3
    <3> HIDE DEF page
    <3> QED BY <1>2, <2>1, <2>2, <3>1 DEF FillPage
  <2>3. CASE /\ filling' = [filling EXCEPT ![i] = "failed"]
             /\ UNCHANGED <<filter, pageFrom>>
    BY <1>2, <2>3 DEF FillPage
  <2> QED BY <1>2, <2>2, <2>3 DEF FillPage
<1>3. ASSUME NEW i \in Node, InsertIntoFilter(i) PROVE DenyTyped'
  BY <1>3 DEF InsertIntoFilter
<1>4. ASSUME NEW i \in Node, RestartNode(i) PROVE DenyTyped'
  BY <1>4 DEF RestartNode
<1>5. ASSUME NEW i \in Node, NEW x \in Item, InsertRow(i, x) PROVE DenyTyped'
  BY <1>5 DEF InsertRow, Wrote
<1>6. ASSUME NEW i \in Node, NEW x \in Item, DeleteRow(i, x) PROVE DenyTyped'
  BY <1>6 DEF DeleteRow, Wrote
<1>7. CASE UNCHANGED denyVars
  BY <1>7 DEF denyVars
<1> QED BY <1>1, <1>2, <1>3, <1>4, <1>5, <1>6, <1>7 DEF DenyNext

\* What a step leaves alone, of an instance and the table it fills from.
LEMMA FillingKept ==
    ASSUME NEW i \in Node, KnowsItsOwn(i) /\ FilledSoFar(i),
           filter'[i] = filter[i], filling'[i] = filling[i],
           pageFrom'[i] = pageFrom[i], inserting'[i] = inserting[i], own'[i] = own[i],
           table' = table, quiet'[i] = quiet[i]
    PROVE  (KnowsItsOwn(i) /\ FilledSoFar(i))'
BY DEF KnowsItsOwn, FilledSoFar, OfSomePage, Rank

LEMMA DenyStep == DenyInv /\ [DenyNext]_denyVars => DenyInv'
<1> SUFFICES ASSUME DenyInv, [DenyNext]_denyVars PROVE DenyInv'
  OBVIOUS
<1>1. DenyTyped /\ DenyTyped'
  BY DenyTypeStep DEF DenyInv
<1>2. \A n \in Node : KnowsItsOwn(n) /\ FilledSoFar(n)
  BY DEF DenyInv
<1> SUFFICES ASSUME NEW n \in Node PROVE (KnowsItsOwn(n) /\ FilledSoFar(n))'
  BY <1>1 DEF DenyInv
<1>3. ASSUME NEW i \in Node, ClearFilter(i) PROVE (KnowsItsOwn(n) /\ FilledSoFar(n))'
  <2>1. CASE n = i
    <3>1. /\ filling[n] = "new" /\ filling'[n] = "paging" /\ filter'[n] = {}
          /\ pageFrom'[n] = 0 /\ table' = table /\ own' = own /\ inserting' = inserting
      BY <1>1, <1>3, <2>1 DEF ClearFilter, DenyTyped
    <3>2. KnowsItsOwn(n)'
      BY <1>2, <3>1 DEF KnowsItsOwn
    <3>3. Rank(0)' = 0
      <4>1. {y \in table : y <= 0} = {}
        <5>1. \A y \in table : y \in Nat \ {0}
          BY <1>1, TableOfNumbers
        <5> QED BY <5>1
      <4> QED BY <3>1, <4>1, FS_EmptySet DEF Rank
    <3>4. FilledSoFar(n)'
      <4>1. {x \in OfSomePage' : x < 0} = {}
        <5>1. \A y \in OfSomePage' : y \in Nat
          BY <1>1, <3>1, TableOfNumbers DEF OfSomePage
        <5> QED BY <5>1
      <4>2. 0 = 0 * (PageSize + 1)
        BY DenyAssumption
      <4> QED BY <3>1, <3>3, <4>1, <4>2 DEF FilledSoFar
    <3> QED BY <3>2, <3>4
  <2>2. CASE n # i
    BY <1>1, <1>2, <1>3, <2>2, FillingKept DEF ClearFilter, DenyTyped
  <2> QED BY <2>1, <2>2
<1>4. ASSUME NEW i \in Node, FillPage(i) PROVE (KnowsItsOwn(n) /\ FilledSoFar(n))'
  <2>1. CASE n = i
    <3>1. /\ filling[n] = "paging" /\ table' = table /\ quiet' = quiet
          /\ own' = own /\ inserting' = inserting
      BY <1>4, <2>1 DEF FillPage
    <3>2. own[n] = {} /\ inserting[n] = 0
      BY <1>2, <3>1 DEF KnowsItsOwn
    <3>3. KnowsItsOwn(n)'
      BY <3>1, <3>2 DEF KnowsItsOwn
    <3>4. OfSomePage' = OfSomePage /\ \A x : Rank(x)' = Rank(x)
      BY <3>1 DEF OfSomePage, Rank
    <3>5. CASE filling' = [filling EXCEPT ![i] = "failed"]
      BY <1>1, <2>1, <3>3, <3>5 DEF FilledSoFar, DenyTyped
    <3>6. CASE /\ ~(filling' = [filling EXCEPT ![i] = "failed"])
               /\ quiet[n]
      <4> DEFINE page == ListPage(pageFrom[n], PageSize)
      <4>1. /\ filter'[n] = filter[n] \cup page.items
            /\ pageFrom'[n] = page.next
            /\ filling'[n] = IF page.items = {} \/ page.next = 0 THEN "done" ELSE "paging"
        BY <1>1, <1>4, <2>1, <3>6 DEF FillPage, DenyTyped
      <4>2. PICK q \in Nat : Rank(pageFrom[n]) = q * (PageSize + 1)
        BY <1>2, <3>1, <3>6 DEF FilledSoFar
      <4>3. /\ pageFrom[n] \in table \cup {0}
            /\ filter[n] = {x \in OfSomePage : x < pageFrom[n]}
        BY <1>2, <3>1, <3>6 DEF FilledSoFar
      <4>4. \/ page.next = 0 /\ filter'[n] = OfSomePage
            \/ /\ page.next \in table /\ page.items # {}
               /\ Rank(page.next) = (q + 1) * (PageSize + 1)
               /\ filter'[n] = {x \in OfSomePage : x < page.next}
        <5>1. PICK c : c = pageFrom[n]
          OBVIOUS
        <5> QED BY <1>1, <4>1, <4>2, <4>3, <5>1, PageEndsAtMultiple
      <4>5. CASE page.next = 0 /\ filter'[n] = OfSomePage
        <5> HIDE DEF page
        <5> QED BY <3>3, <3>4, <4>1, <4>5 DEF FilledSoFar
      <4>6. CASE /\ page.next \in table /\ page.items # {}
                 /\ Rank(page.next) = (q + 1) * (PageSize + 1)
                 /\ filter'[n] = {x \in OfSomePage : x < page.next}
        <5>1. page.next # 0
          <6> HIDE DEF page
          <6> QED BY <1>1, <4>6, TableOfNumbers
        <5>2. q + 1 \in Nat
          OBVIOUS
        <5>3. PICK d : d = page.next
          OBVIOUS
        <5>4. Rank(d)' = (q + 1) * (PageSize + 1)
          BY <3>4, <4>6, <5>3
        <5>5. pageFrom'[n] = d
          BY <4>1, <5>3
        <5>6. Rank(pageFrom[n])' = (q + 1) * (PageSize + 1)
          BY <5>4, <5>5 DEF Rank
        <5>7. FilledSoFar(n)'
          <6> HIDE DEF page
          <6> QED BY <3>1, <3>4, <4>1, <4>6, <5>1, <5>2, <5>6 DEF FilledSoFar
        <5> QED BY <3>3, <5>7
      <4> QED BY <4>4, <4>5, <4>6
    <3>7. CASE ~quiet[n]
      BY <3>1, <3>3, <3>7 DEF FilledSoFar
    <3> QED BY <3>5, <3>6, <3>7
  <2>2. CASE n # i
    BY <1>1, <1>2, <1>4, <2>2, FillingKept DEF FillPage, DenyTyped
  <2> QED BY <2>1, <2>2
<1>5. ASSUME NEW i \in Node, InsertIntoFilter(i) PROVE (KnowsItsOwn(n) /\ FilledSoFar(n))'
  <2>1. CASE n = i
    BY <1>1, <1>2, <1>5, <2>1 DEF InsertIntoFilter, KnowsItsOwn, FilledSoFar, DenyTyped
  <2>2. CASE n # i
    BY <1>1, <1>2, <1>5, <2>2, FillingKept DEF InsertIntoFilter, DenyTyped
  <2> QED BY <2>1, <2>2
<1>6. ASSUME NEW i \in Node, RestartNode(i) PROVE (KnowsItsOwn(n) /\ FilledSoFar(n))'
  <2>1. CASE n = i
    BY <1>1, <1>6, <2>1 DEF RestartNode, KnowsItsOwn, FilledSoFar, DenyTyped
  <2>2. CASE n # i
    BY <1>1, <1>2, <1>6, <2>2, FillingKept DEF RestartNode, DenyTyped
  <2> QED BY <2>1, <2>2
<1>7. ASSUME NEW i \in Node, NEW x \in Item, InsertRow(i, x)
      PROVE  (KnowsItsOwn(n) /\ FilledSoFar(n))'
  BY <1>1, <1>2, <1>7
     DEF InsertRow, Wrote, Ready, KnowsItsOwn, FilledSoFar, DenyTyped
<1>8. ASSUME NEW i \in Node, NEW x \in Item, DeleteRow(i, x)
      PROVE  (KnowsItsOwn(n) /\ FilledSoFar(n))'
  BY <1>1, <1>2, <1>8
     DEF DeleteRow, Wrote, Ready, KnowsItsOwn, FilledSoFar, DenyTyped
<1>9. CASE UNCHANGED denyVars
  BY <1>2, <1>9, FillingKept DEF denyVars
<1> QED BY <1>3, <1>4, <1>5, <1>6, <1>7, <1>8, <1>9 DEF DenyNext

\* The invariant of the denylist: while nobody writes, the filter of an instance
\* that is filling it (src/denylist/postgres.rs: init) has the rows up to its
\* cursor, without those that follow a full page.
THEOREM DenyListCorrect == DenySpec => []DenyInv
<1>1. DenyInv /\ UNCHANGED denyVars => DenyInv'
  BY DenyStep
<1> QED BY DenyInitInv, DenyStep, PTL DEF DenySpec

\* For tables and pages of any size: the filter of an instance knows, when it has
\* been filled, exactly the rows that follow no full page, and always what the
\* instance itself inserted (src/denylist/postgres.rs: list, init, exists, insert).
THEOREM FilterAlwaysExplained == DenySpec => []FilterIsExplained
<1>1. DenyInv => FilterIsExplained
  BY DEF DenyInv, KnowsItsOwn, FilledSoFar, OfSomePage, FilterIsExplained, Denies
<1> QED BY <1>1, DenyListCorrect, PTL
==============================================================================
