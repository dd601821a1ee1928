---------------------------- MODULE Service_proofs ----------------------------
(*****************************************************************************)
(* Proofs about the parts of the service that serve its callers and each     *)
(* other: the limits of Throttle, the token of ServiceToken, the cookies of  *)
(* Sessions, the chain of NodeEvaluators, the start in Startup, what is made *)
(* of Prototypes and what the handlers in BlueprintApi write - for any       *)
(* limits, clocks, parties, nodes, environments and texts.                   *)
(*****************************************************************************)
EXTENDS Throttle, ServiceToken, Sessions, NodeEvaluators, Startup, Prototypes, BlueprintApi,
        FiniteSetTheorems, SequenceTheorems, WellFoundedInduction, TLAPS

------------------------------------------------------------------------------
(* The throttle.                                                            *)

CallSteps == {"idle", "authority", "expire authority", "aturi", "expire aturi",
              "admit", "refuse"}

ThrottleTypeOK ==
    /\ minute \in 1..MaxTime
    /\ counter \in [Keys -> Nat]
    /\ expires \in [Keys -> Nat]
    /\ admitted \in [Keys -> Nat]
    /\ call \in [Caller -> [step : CallSteps, uri : Value, at : 0..MaxTime]]

\* A call took the time when it was made, and counts only what has a limit.
CallSound(c) ==
    /\ call[c].step # "idle" => call[c].uri \in Uri /\ call[c].at \in 1..minute
    /\ call[c].step \in {"authority", "expire authority", "aturi", "expire aturi"} =>
          Counted(c) \in LimitedValues

\* The calls that counted themselves under a key, were not over its limit, and have
\* yet to return.
Went(c, value) ==
    \/ /\ value = Authority
       /\ call[c].step \in {"expire authority", "aturi", "expire aturi", "admit"}
    \/ /\ value = call[c].uri
       /\ call[c].step \in {"expire aturi", "admit"}
Passed(key) == {c \in Caller : key = Key(call[c].at, key[2]) /\ Went(c, key[2])}
LimitOf(key) == LimitFor(key[2]).limit

\* While a window lasts, its key holds a count at least of those who were admitted
\* and of those who are about to be, and no more than the limit of them.
Accounted(key) ==
    /\ admitted[key] <= LimitOf(key)
    /\ minute <= key[1] =>
          /\ admitted[key] + Cardinality(Passed(key)) <= counter[key]
          /\ admitted[key] + Cardinality(Passed(key)) <= LimitOf(key)

\* No key is forgotten before its window is over.
Outlasts(key) == expires[key] # 0 => expires[key] > key[1]

ThrottleInv ==
    /\ ThrottleTypeOK
    /\ \A c \in Caller : CallSound(c)
    /\ \A key \in Keys : Outlasts(key) /\ Accounted(key)

LEMMA WindowEnds ==
    ASSUME NEW at \in Nat, NEW window \in Nat \ {0}
    PROVE  RoundUp(at, window) \in Nat /\ RoundUp(at, window) < at + window
  <1> DEFINE x == at + window - 1
             q == x \div window
  <1>1. x \in Nat
    OBVIOUS
  <1>2. q \in Nat /\ q * window <= x
    BY <1>1
  <1>3. q * window \in Nat
    BY <1>2
  <1>4. RoundUp(at, window) = q * window
    BY DEF RoundUp
  <1> HIDE DEF q
  <1> QED BY <1>1, <1>2, <1>3, <1>4

LEMMA LimitTypes ==
    ASSUME NEW v \in Value
    PROVE  /\ LimitFor(v).limit \in Nat /\ LimitFor(v).window \in Nat
           /\ v \in Uri => LimitFor(v) = Limits.aturi
           /\ LimitFor(Authority) = Limits.authority
  BY ThrottleAssumption DEF LimitFor

LEMMA KeyFacts ==
    ASSUME NEW at \in Nat, NEW v \in LimitedValues
    PROVE  /\ Key(at, v)[2] = v
           /\ Key(at, v)[1] \in Nat /\ Key(at, v)[1] < at + LimitFor(v).window
           /\ LimitFor(v).limit \in Nat \ {0} /\ LimitFor(v).window \in Nat \ {0}
  <1>1. v \in Value /\ LimitFor(v).limit > 0
    BY DEF LimitedValues
  <1>2. LimitFor(v).limit \in Nat \ {0} /\ LimitFor(v).window \in Nat \ {0}
    BY <1>1, LimitTypes, ThrottleAssumption DEF GoodLimits, GoodLimit, LimitFor
  <1> QED BY <1>2, WindowEnds DEF Key

LEMMA KeysAre ==
    ASSUME NEW key \in Keys
    PROVE  /\ key[1] \in Nat /\ key[2] \in LimitedValues
           /\ LimitOf(key) \in Nat \ {0}
  <1>1. PICK at \in 1..MaxTime, v \in LimitedValues : key = Key(at, v)
    BY DEF Keys
  <1>2. at \in Nat
    BY ThrottleAssumption
  <1> QED BY <1>1, <1>2, KeyFacts DEF LimitOf

LEMMA PassedFinite ==
    ASSUME NEW key
    PROVE  IsFiniteSet(Passed(key)) /\ Cardinality(Passed(key)) \in Nat
  <1>1. Passed(key) \subseteq Caller
    BY DEF Passed
  <1>2. IsFiniteSet(Passed(key))
    BY <1>1, FS_Subset, ThrottleAssumption
  <1> QED BY <1>2, FS_CardinalityType

\* What a call does changes the key it counts by one call, and no other.
LEMMA NoNewPassed ==
    ASSUME NEW key, Passed(key)' \subseteq Passed(key)
    PROVE  Cardinality(Passed(key)') <= Cardinality(Passed(key)) /\ Cardinality(Passed(key)') \in Nat
  BY PassedFinite, FS_Subset, FS_CardinalityType

LEMMA OneNewPassed ==
    ASSUME NEW key, NEW c, Passed(key)' \subseteq Passed(key) \cup {c}
    PROVE  Cardinality(Passed(key)') <= Cardinality(Passed(key)) + 1 /\ Cardinality(Passed(key)') \in Nat
  <1> DEFINE more == Passed(key) \cup {c}
  <1>1. IsFiniteSet(more) /\ Cardinality(more) <= Cardinality(Passed(key)) + 1
        /\ Cardinality(more) \in Nat
    BY PassedFinite, FS_AddElement, FS_CardinalityType
  <1> HIDE DEF more
  <1>2. Passed(key)' \subseteq more
    BY DEF more
  <1>3. Cardinality(Passed(key)') <= Cardinality(more) /\ Cardinality(Passed(key)') \in Nat
    BY <1>1, <1>2, FS_Subset, FS_CardinalityType
  <1> QED BY <1>1, <1>3, PassedFinite

LEMMA OneLessPassed ==
    ASSUME NEW key, NEW c \in Passed(key), Passed(key)' \subseteq Passed(key) \ {c}
    PROVE  Cardinality(Passed(key)') + 1 <= Cardinality(Passed(key)) /\ Cardinality(Passed(key)') \in Nat
  <1> DEFINE fewer == Passed(key) \ {c}
  <1>1. IsFiniteSet(fewer) /\ Cardinality(fewer) = Cardinality(Passed(key)) - 1
    BY PassedFinite, FS_RemoveElement
  <1> HIDE DEF fewer
  <1>2. Passed(key)' \subseteq fewer
    BY DEF fewer
  <1>3. Cardinality(Passed(key)') <= Cardinality(fewer) /\ Cardinality(Passed(key)') \in Nat
    BY <1>1, <1>2, FS_Subset, FS_CardinalityType
  <1> QED BY <1>1, <1>3, PassedFinite

LEMMA ThrottleTypes ==
    ThrottleInv => ThrottleTypeOK /\ \A c \in Caller : CallSound(c)
  BY DEF ThrottleInv

LEMMA ThrottleInitial == ThrottleInit => ThrottleInv
  <1> SUFFICES ASSUME ThrottleInit
               PROVE  ThrottleInv
    OBVIOUS
  <1>1. ThrottleTypeOK
    BY ThrottleAssumption DEF ThrottleInit, ThrottleTypeOK, NoCall, CallSteps, Value
  <1>2. ASSUME NEW c \in Caller
        PROVE  CallSound(c) /\ call[c].step = "idle"
    BY DEF ThrottleInit, NoCall, CallSound
  <1>3. ASSUME NEW key \in Keys
        PROVE  Outlasts(key) /\ Accounted(key)
    <2>1. Passed(key) = {}
      BY <1>2 DEF Passed, Went
    <2>2. Cardinality(Passed(key)) = 0
      BY <2>1, FS_EmptySet
    <2> QED BY <2>2, KeysAre DEF ThrottleInit, Outlasts, Accounted
  <1> QED BY <1>1, <1>2, <1>3 DEF ThrottleInv

LEMMA KeyIsKept ==
    ASSUME NEW at \in 1..MaxTime, NEW v \in LimitedValues
    PROVE  Key(at, v) \in Keys
  BY DEF Keys

\* A key ends less than its window after any minute from that of the call.
LEMMA KeyEnds ==
    ASSUME NEW m \in 1..MaxTime, NEW at \in 1..m, NEW v \in LimitedValues
    PROVE  /\ Key(at, v) \in Keys /\ Key(at, v)[2] = v
           /\ Key(at, v)[1] < m + LimitFor(v).window
           /\ LimitFor(v).window \in Nat
  <1>1. m \in Nat /\ at \in 1..MaxTime /\ at \in Nat /\ at <= m
    BY ThrottleAssumption
  <1>2. Key(at, v) \in Keys
    BY <1>1, KeyIsKept
  <1>3. /\ Key(at, v)[2] = v /\ Key(at, v)[1] \in Nat
        /\ Key(at, v)[1] < at + LimitFor(v).window
        /\ LimitFor(v).window \in Nat
    BY <1>1, KeyFacts
  <1>4. at + LimitFor(v).window <= m + LimitFor(v).window
    BY <1>1, <1>3
  <1> QED BY <1>1, <1>2, <1>3, <1>4

Counts(c) == call[c].step \in {"authority", "expire authority", "aturi", "expire aturi"}

\* What a call counts under exists, and has a limit.
LEMMA CountsUnder ==
    ASSUME ThrottleInv, NEW c \in Caller, Counts(c)
    PROVE  /\ KeyOf(c) \in Keys /\ KeyOf(c)[2] = Counted(c) /\ Counted(c) \in LimitedValues
           /\ KeyOf(c)[1] < minute + LimitFor(Counted(c)).window
           /\ LimitFor(Counted(c)).window \in Nat
           /\ Counted(c) = IF call[c].step \in {"authority", "expire authority"}
                           THEN Authority ELSE call[c].uri
           /\ Authority # call[c].uri /\ call[c].uri \in Uri
  <1>1. Counted(c) \in LimitedValues /\ call[c].at \in 1..minute /\ call[c].uri \in Uri
    BY ThrottleTypes DEF CallSound, Counts
  <1>2. minute \in 1..MaxTime
    BY ThrottleTypes DEF ThrottleTypeOK
  <1>3. PICK m \in 1..MaxTime : m = minute
    BY <1>2
  <1>4. PICK at \in 1..m : at = call[c].at
    BY <1>1, <1>3
  <1>5. PICK v \in LimitedValues : v = Counted(c)
    BY <1>1
  <1>6. KeyOf(c) = Key(at, v)
    BY <1>4, <1>5 DEF KeyOf
  <1>8. /\ Key(at, v) \in Keys /\ Key(at, v)[2] = v
        /\ Key(at, v)[1] < m + LimitFor(v).window
        /\ LimitFor(v).window \in Nat
    BY KeyEnds
  <1>9. Authority # call[c].uri
    BY <1>1, ThrottleAssumption
  <1> QED BY <1>1, <1>3, <1>5, <1>6, <1>8, <1>9 DEF Counted

\* A step of c that neither counts nor ends what was admitted.
LEMMA NothingCounted ==
    ASSUME ThrottleInv, NEW key \in Keys, minute' = minute,
           UNCHANGED <<counter, admitted>>, Passed(key)' \subseteq Passed(key)
    PROVE  Accounted(key)'
  <1>1. admitted[key] \in Nat /\ counter[key] \in Nat /\ LimitOf(key) \in Nat
    BY ThrottleTypes, KeysAre DEF ThrottleTypeOK
  <1>2. LimitOf(key)' = LimitOf(key)
    BY DEF LimitOf
  <1>3. Accounted(key)
    BY DEF ThrottleInv
  <1> QED BY <1>1, <1>2, <1>3, NoNewPassed, PassedFinite DEF Accounted

\* The other calls are left alone.
LEMMA OthersStay ==
    ASSUME ThrottleInv, NEW c \in Caller, NEW r,
           call' = [call EXCEPT ![c] = r], UNCHANGED minute
    PROVE  /\ call'[c] = r
           /\ \A d \in Caller \ {c} : call'[d] = call[d] /\ CallSound(d)'
           /\ \A key : Passed(key)' \subseteq Passed(key) \cup {c}
           /\ \A key : ~(key = Key(r.at, key[2]) /\ Went(c, key[2])') => c \notin Passed(key)'
  <1>1. /\ call'[c] = r
        /\ \A d \in Caller \ {c} : call'[d] = call[d]
    BY ThrottleTypes DEF ThrottleTypeOK
  <1>2. \A d \in Caller \ {c} : CallSound(d)'
    BY <1>1, ThrottleTypes DEF CallSound, Counted
  <1>3. ASSUME NEW key
        PROVE  /\ Passed(key)' \subseteq Passed(key) \cup {c}
               /\ ~(key = Key(r.at, key[2]) /\ Went(c, key[2])') => c \notin Passed(key)'
    BY <1>1 DEF Passed, Went
  <1> QED BY <1>1, <1>2, <1>3

LEMMA CallStep ==
    ASSUME ThrottleInv, NEW c \in Caller, NEW uri \in Uri, CallThrottle(c, uri)
    PROVE  ThrottleInv'
  <1> DEFINE step == IF Limits.authority.limit = 0 THEN AfterAuthority ELSE "authority"
             r == [step |-> step, uri |-> uri, at |-> minute]
  <1>1. /\ call' = [call EXCEPT ![c] = r]
        /\ UNCHANGED <<minute, counter, expires, admitted>>
    BY DEF CallThrottle
  <1>2. minute \in 1..MaxTime /\ uri \in Value /\ uri # Authority /\ Authority \in Value
    BY ThrottleTypes, ThrottleAssumption DEF ThrottleTypeOK, Value
  <1>3. step \in {"authority", "aturi", "admit"}
    BY DEF AfterAuthority
  <1>4. /\ step = "authority" => Authority \in LimitedValues
        /\ step # "authority" => Authority \notin LimitedValues
        /\ step = "aturi" => uri \in LimitedValues
        /\ step = "admit" => uri \notin LimitedValues
    BY <1>2, ThrottleAssumption DEF AfterAuthority, LimitedValues, LimitFor
  <1> HIDE DEF step
  <1>5. ThrottleTypeOK'
    <2>1. r \in [step : CallSteps, uri : Value, at : 0..MaxTime]
      <3>1. minute \in 0..MaxTime
        BY <1>2, ThrottleAssumption
      <3> QED BY <1>2, <1>3, <3>1 DEF CallSteps
    <2> HIDE DEF r
    <2> QED BY <1>1, <2>1, ThrottleTypes DEF ThrottleTypeOK
  <1>6. /\ call'[c] = r
        /\ \A d \in Caller \ {c} : CallSound(d)'
        /\ \A key : Passed(key)' \subseteq Passed(key) \cup {c}
        /\ \A key : ~(key = Key(r.at, key[2]) /\ Went(c, key[2])') => c \notin Passed(key)'
    <2> HIDE DEF r
    <2> QED BY <1>1, OthersStay
  <1>a. call'[c].step = step /\ call'[c].uri = uri /\ call'[c].at = minute
    BY <1>6
  <1>b. minute \in 1..minute
    BY <1>2
  <1>7. CallSound(c)'
    <2>1. step = "authority" => Counted(c)' = Authority
      BY <1>a DEF Counted
    <2>2. step = "aturi" => Counted(c)' = uri
      BY <1>a DEF Counted
    <2> QED BY <1>1, <1>3, <1>4, <1>a, <1>b, <2>1, <2>2 DEF CallSound
  <1>8. ASSUME NEW key \in Keys
        PROVE  Outlasts(key)' /\ Accounted(key)'
    <2>1. key[2] \in LimitedValues
      BY KeysAre
    <2>2. ~Went(c, key[2])'
      BY <1>2, <1>3, <1>4, <1>a, <2>1 DEF Went
    <2>3. Passed(key)' \subseteq Passed(key)
      BY <1>6, <2>2
    <2>4. Accounted(key)'
      BY <1>1, <2>3, NothingCounted
    <2> QED BY <1>1, <2>4 DEF Outlasts, ThrottleInv
  <1> QED BY <1>5, <1>6, <1>7, <1>8 DEF ThrottleInv

\* A call goes on: it stays the call of one AT-URI made at one time.
LEMMA CallGoesOn ==
    ASSUME ThrottleInv, NEW c \in Caller, NEW s \in CallSteps, call[c].step # "idle",
           Becomes(c, s), UNCHANGED minute
    PROVE  /\ call' \in [Caller -> [step : CallSteps, uri : Value, at : 0..MaxTime]]
           /\ call'[c].step = s /\ call'[c].uri = call[c].uri /\ call'[c].at = call[c].at
           /\ \A d \in Caller \ {c} : CallSound(d)'
           /\ (s \in {"authority", "expire authority"} => Authority \in LimitedValues)
              /\ (s \in {"aturi", "expire aturi"} => call[c].uri \in LimitedValues)
              => CallSound(c)'
           /\ \A key : Passed(key)' \subseteq Passed(key) \cup {c}
           /\ \A key : (Went(c, key[2])' => Went(c, key[2])) =>
                           Passed(key)' \subseteq Passed(key)
           /\ \A key : (key = Key(call[c].at, key[2]) => ~Went(c, key[2])') =>
                           c \notin Passed(key)'
  <1>1. PICK r \in [step : CallSteps, uri : Value, at : 0..MaxTime] : r = call[c]
    BY ThrottleTypes DEF ThrottleTypeOK
  <1>2. PICK q \in [step : CallSteps, uri : Value, at : 0..MaxTime] :
           q = [step |-> s, uri |-> r.uri, at |-> r.at]
    OBVIOUS
  <1>3. call' = [call EXCEPT ![c] = q]
    <2>1. [r EXCEPT !.step = s] = q
      BY <1>2
    <2> QED BY <1>1, <2>1, ThrottleTypes DEF Becomes, ThrottleTypeOK
  <1>4. /\ call'[c] = q
        /\ \A d \in Caller \ {c} : call'[d] = call[d] /\ CallSound(d)'
        /\ \A key : Passed(key)' \subseteq Passed(key) \cup {c}
        /\ \A key : ~(key = Key(q.at, key[2]) /\ Went(c, key[2])') => c \notin Passed(key)'
    BY <1>3, OthersStay
  <1>5. call'[c].step = s /\ call'[c].uri = call[c].uri /\ call'[c].at = call[c].at
    BY <1>1, <1>2, <1>4
  <1>6. call' \in [Caller -> [step : CallSteps, uri : Value, at : 0..MaxTime]]
    BY <1>3, ThrottleTypes DEF ThrottleTypeOK
  <1>7. ASSUME s \in {"authority", "expire authority"} => Authority \in LimitedValues,
               s \in {"aturi", "expire aturi"} => call[c].uri \in LimitedValues
        PROVE  CallSound(c)'
    <2>1. call[c].uri \in Uri /\ call[c].at \in 1..minute
      BY ThrottleTypes DEF CallSound
    <2> QED BY <1>5, <1>7, <2>1 DEF CallSound, Counted
  <1>8. ASSUME NEW key, Went(c, key[2])' => Went(c, key[2])
        PROVE  Passed(key)' \subseteq Passed(key)
    BY <1>4, <1>5, <1>8 DEF Passed
  <1> QED BY <1>4, <1>5, <1>6, <1>7, <1>8

LEMMA AfterAuthorityIs ==
    ASSUME ThrottleInv, NEW c \in Caller, call[c].step # "idle"
    PROVE  /\ AfterAuthority \in {"aturi", "admit"}
           /\ AfterAuthority = "aturi" => call[c].uri \in LimitedValues
           /\ AfterAuthority = "admit" => call[c].uri \notin LimitedValues
  <1>1. call[c].uri \in Uri
    BY ThrottleTypes DEF CallSound
  <1> QED BY <1>1, ThrottleAssumption DEF AfterAuthority, LimitedValues, LimitFor, Value

\* Where a call goes that has counted itself: a limit lets at least one through.
LEMMA VerdictIs ==
    ASSUME ThrottleInv, NEW c \in Caller, Counts(c), NEW n \in Nat
    PROVE  /\ n > LimitFor(Counted(c)).limit => Verdict(c, n) = "refuse"
           /\ Verdict(c, 1) # "refuse"
           /\ call[c].step \in {"authority", "expire authority"} =>
                 Verdict(c, n) \in {"refuse", AfterAuthority}
           /\ call[c].step \in {"aturi", "expire aturi"} =>
                 Verdict(c, n) \in {"refuse", "admit"}
  <1>1. Counted(c) \in LimitedValues /\ LimitFor(Counted(c)).limit \in Nat \ {0}
    BY CountsUnder, KeyFacts
  <1>2. call[c].step \in {"authority", "expire authority"} => Counted(c) = Authority
    BY CountsUnder
  <1>3. call[c].step \in {"aturi", "expire aturi"} => Counted(c) # Authority
    BY CountsUnder
  <1>4. AfterAuthority # "refuse"
    BY DEF AfterAuthority
  <1>5. n > LimitFor(Counted(c)).limit => Verdict(c, n) = "refuse"
    BY DEF Verdict
  <1>7. Verdict(c, 1) # "refuse"
    <2>1. PICK l \in Nat \ {0} : l = LimitFor(Counted(c)).limit
      BY <1>1
    <2>2. ~(1 > l)
      OBVIOUS
    <2> QED BY <1>4, <2>1, <2>2 DEF Verdict
  <1>6. Verdict(c, n) \in {"refuse", IF Counted(c) = Authority THEN AfterAuthority ELSE "admit"}
    BY DEF Verdict
  <1> QED BY <1>2, <1>3, <1>5, <1>6, <1>7

LEMMA IncrementStep ==
    ASSUME ThrottleInv, NEW c \in Caller, Increment(c)
    PROVE  ThrottleInv'
  <1>a. PICK k \in Keys : k = KeyOf(c)
    BY CountsUnder DEF Increment, Counts
  <1>b. PICK n \in Nat : n = counter[k] + 1
    BY ThrottleTypes DEF ThrottleTypeOK
  <1>c. PICK s : s = IF n = 1 THEN IF Counted(c) = Authority THEN "expire authority"
                                                             ELSE "expire aturi"
                     ELSE Verdict(c, n)
    OBVIOUS
  <1>1. /\ call[c].step \in {"authority", "aturi"}
        /\ counter' = [counter EXCEPT ![k] = n]
        /\ Becomes(c, s)
        /\ UNCHANGED <<minute, expires, admitted>>
    BY <1>a, <1>b, <1>c DEF Increment
  <1>2. /\ k \in Keys /\ k[2] = Counted(c) /\ Counted(c) \in LimitedValues
        /\ Counted(c) = IF call[c].step = "authority" THEN Authority ELSE call[c].uri
        /\ Authority # call[c].uri /\ call[c].uri \in Uri
        /\ k = Key(call[c].at, Counted(c))
    BY <1>1, <1>a, CountsUnder DEF KeyOf, Counts
  <1>3. n \in Nat /\ counter[k] \in Nat /\ LimitOf(k) \in Nat \ {0}
        /\ LimitOf(k) = LimitFor(Counted(c)).limit
    BY <1>2, ThrottleTypes, KeysAre DEF ThrottleTypeOK, LimitOf
  <1>4. /\ call[c].step = "authority" => s \in {"expire authority", "refuse", AfterAuthority}
        /\ call[c].step = "aturi" => s \in {"expire aturi", "refuse", "admit"}
        /\ n > LimitOf(k) => s = "refuse"
    <2>1. /\ n > LimitFor(Counted(c)).limit => Verdict(c, n) = "refuse"
          /\ call[c].step = "authority" => Verdict(c, n) \in {"refuse", AfterAuthority}
          /\ call[c].step = "aturi" => Verdict(c, n) \in {"refuse", "admit"}
      BY <1>1, <1>3, VerdictIs DEF Counts
    <2>2. CASE n = 1
      <3>1. ~(n > LimitOf(k))
        BY <1>3, <2>2
      <3>2. call[c].step = "authority" => s = "expire authority"
        BY <1>2, <1>c, <2>2
      <3>3. call[c].step = "aturi" => s = "expire aturi"
        BY <1>2, <1>c, <2>2
      <3> QED BY <3>1, <3>2, <3>3
    <2>3. CASE n # 1
      BY <1>3, <1>c, <2>1, <2>3
    <2> QED BY <2>2, <2>3
  <1>5. /\ AfterAuthority \in {"aturi", "admit"}
        /\ AfterAuthority = "aturi" => call[c].uri \in LimitedValues
        /\ AfterAuthority = "admit" => call[c].uri \notin LimitedValues
    BY <1>1, AfterAuthorityIs
  <1>6. s \in CallSteps
    BY <1>1, <1>4, <1>5 DEF CallSteps
  <1>7. /\ call' \in [Caller -> [step : CallSteps, uri : Value, at : 0..MaxTime]]
        /\ call'[c].step = s /\ call'[c].uri = call[c].uri /\ call'[c].at = call[c].at
        /\ \A d \in Caller \ {c} : CallSound(d)'
        /\ (s \in {"authority", "expire authority"} => Authority \in LimitedValues)
           /\ (s \in {"aturi", "expire aturi"} => call[c].uri \in LimitedValues)
           => CallSound(c)'
        /\ \A key : Passed(key)' \subseteq Passed(key) \cup {c}
        /\ \A key : (Went(c, key[2])' => Went(c, key[2])) =>
                        Passed(key)' \subseteq Passed(key)
        /\ \A key : (key = Key(call[c].at, key[2]) => ~Went(c, key[2])') =>
                        c \notin Passed(key)'
    BY <1>1, <1>6, CallGoesOn
  <1>8. \A d \in Caller : CallSound(d)'
    BY <1>1, <1>2, <1>4, <1>5, <1>7
  <1>9. ThrottleTypeOK'
    BY <1>1, <1>2, <1>3, <1>7, ThrottleTypes DEF ThrottleTypeOK
  <1>10. ASSUME NEW key \in Keys, key # k
         PROVE  Passed(key)' \subseteq Passed(key) /\ counter'[key] = counter[key]
    <2>1. CASE key[2] = Counted(c)
      BY <1>2, <1>7, <1>10, <2>1, ThrottleTypes, <1>1 DEF ThrottleTypeOK
    <2>2. CASE key[2] # Counted(c)
      <3>1. key[2] \in LimitedValues
        BY KeysAre
      <3>2. Went(c, key[2])' => Went(c, key[2])
        BY <1>1, <1>2, <1>4, <1>5, <1>7, <2>2, <3>1 DEF Went
      <3> QED BY <1>1, <1>7, <1>10, <3>2, ThrottleTypes DEF ThrottleTypeOK
    <2> QED BY <2>1, <2>2
  <1>11. ASSUME NEW key \in Keys, key # k
         PROVE  Accounted(key)'
    <2>1. Accounted(key) /\ admitted[key] \in Nat /\ counter[key] \in Nat
          /\ LimitOf(key) \in Nat
      BY ThrottleTypes, KeysAre DEF ThrottleInv, ThrottleTypeOK
    <2>2. /\ Cardinality(Passed(key)') <= Cardinality(Passed(key))
          /\ Cardinality(Passed(key)') \in Nat /\ Cardinality(Passed(key)) \in Nat
      BY <1>10, <1>11, NoNewPassed, PassedFinite
    <2>3. LimitOf(key)' = LimitOf(key) /\ counter'[key] = counter[key]
      BY <1>10, <1>11 DEF LimitOf
    <2> QED BY <1>1, <2>1, <2>2, <2>3 DEF Accounted
  <1>12. Accounted(k)'
    <2>1. Accounted(k) /\ admitted[k] \in Nat
      BY <1>2, ThrottleTypes DEF ThrottleInv, ThrottleTypeOK
    <2>2. counter'[k] = n /\ n = counter[k] + 1
      BY <1>1, <1>2, <1>b, ThrottleTypes DEF ThrottleTypeOK
    <2>3. LimitOf(k)' = LimitOf(k)
      BY DEF LimitOf
    <2>4. /\ Cardinality(Passed(k)') <= Cardinality(Passed(k)) + 1
          /\ Cardinality(Passed(k)') \in Nat /\ Cardinality(Passed(k)) \in Nat
      BY <1>7, OneNewPassed, PassedFinite
    <2>5. CASE n > LimitOf(k)
      <3>1. Passed(k)' \subseteq Passed(k)
        BY <1>4, <1>7, <2>5 DEF Went
      <3>2. Cardinality(Passed(k)') <= Cardinality(Passed(k))
        BY <3>1, NoNewPassed
      <3> QED BY <1>1, <1>3, <2>1, <2>2, <2>3, <2>4, <3>2 DEF Accounted
    <2>6. CASE n <= LimitOf(k)
      BY <1>1, <1>3, <2>1, <2>2, <2>3, <2>4, <2>6 DEF Accounted
    <2> QED BY <1>3, <2>5, <2>6
  <1>13. \A key \in Keys : Outlasts(key)'
    BY <1>1 DEF Outlasts, ThrottleInv
  <1> QED BY <1>8, <1>9, <1>11, <1>12, <1>13 DEF ThrottleInv

\* The key that a call gives its time to live outlasts its window.
LEMMA ExpireStep ==
    ASSUME ThrottleInv, NEW c \in Caller, Expire(c)
    PROVE  ThrottleInv'
  <1>a. PICK k \in Keys : k = KeyOf(c)
    BY CountsUnder DEF Expire, Counts
  <1>b. PICK s : s = Verdict(c, 1)
    OBVIOUS
  <1>c. PICK w \in Nat : w = LimitFor(Counted(c)).window /\ k[1] < minute + w
    BY <1>a, CountsUnder DEF Expire, Counts
  <1>1. /\ call[c].step \in {"expire authority", "expire aturi"}
        /\ expires' = [expires EXCEPT ![k] = minute + w]
        /\ Becomes(c, s)
        /\ UNCHANGED <<minute, counter, admitted>>
    BY <1>a, <1>b, <1>c DEF Expire
  <1>2. /\ k[2] = Counted(c)
        /\ Counted(c) = IF call[c].step = "expire authority" THEN Authority ELSE call[c].uri
        /\ Authority # call[c].uri /\ call[c].uri \in Uri
    BY <1>1, <1>a, CountsUnder DEF KeyOf, Counts
  <1>3. /\ call[c].step = "expire authority" => s = AfterAuthority
        /\ call[c].step = "expire aturi" => s = "admit"
    BY <1>1, <1>b, VerdictIs DEF Counts
  <1>4. /\ AfterAuthority \in {"aturi", "admit"}
        /\ AfterAuthority = "aturi" => call[c].uri \in LimitedValues
        /\ AfterAuthority = "admit" => call[c].uri \notin LimitedValues
    BY <1>1, AfterAuthorityIs
  <1>5. s \in CallSteps
    BY <1>1, <1>3, <1>4 DEF CallSteps
  <1>6. /\ call' \in [Caller -> [step : CallSteps, uri : Value, at : 0..MaxTime]]
        /\ call'[c].step = s /\ call'[c].uri = call[c].uri /\ call'[c].at = call[c].at
        /\ \A d \in Caller \ {c} : CallSound(d)'
        /\ (s \in {"authority", "expire authority"} => Authority \in LimitedValues)
           /\ (s \in {"aturi", "expire aturi"} => call[c].uri \in LimitedValues)
           => CallSound(c)'
        /\ \A key : (Went(c, key[2])' => Went(c, key[2])) =>
                        Passed(key)' \subseteq Passed(key)
    BY <1>1, <1>5, CallGoesOn
  <1>7. \A d \in Caller : CallSound(d)'
    BY <1>1, <1>3, <1>4, <1>6
  <1>8. minute \in Nat
    BY ThrottleTypes, ThrottleAssumption DEF ThrottleTypeOK
  <1>9. ThrottleTypeOK'
    <2>1. minute + w \in Nat
      BY <1>8
    <2>2. expires' \in [Keys -> Nat]
      BY <1>1, <2>1, ThrottleTypes DEF ThrottleTypeOK
    <2> QED BY <1>1, <1>6, <2>2, ThrottleTypes DEF ThrottleTypeOK
  <1>10. ASSUME NEW key \in Keys
         PROVE  Accounted(key)'
    <2>1. key[2] \in LimitedValues
      BY KeysAre
    <2>2. Went(c, key[2])' => Went(c, key[2])
      BY <1>1, <1>2, <1>3, <1>4, <1>6, <2>1 DEF Went
    <2> QED BY <1>1, <1>6, <2>2, NothingCounted
  <1>11. ASSUME NEW key \in Keys
         PROVE  Outlasts(key)'
    <2>1. Outlasts(key) /\ expires \in [Keys -> Nat]
      BY ThrottleTypes DEF ThrottleInv, ThrottleTypeOK
    <2>2. CASE key = k
      <3>1. expires'[k] = minute + w
        BY <1>1, <2>1
      <3> QED BY <1>8, <1>c, <2>2, <3>1, KeysAre DEF Outlasts
    <2>3. CASE key # k
      BY <1>1, <2>1, <2>3 DEF Outlasts
    <2> QED BY <2>2, <2>3
  <1> QED BY <1>7, <1>9, <1>10, <1>11 DEF ThrottleInv

\* A call that is refused, or left to itself, is no longer counted among those that
\* are about to be admitted.
LEMMA GiveUpStep ==
    ASSUME ThrottleInv, NEW c \in Caller, Fail(c) \/ ProceedAnyway(c)
    PROVE  ThrottleInv'
  <1>0. UNCHANGED <<minute, counter, expires, admitted>> /\ call[c].step # "idle"
    BY DEF Fail, ProceedAnyway
  <1>1. /\ call' \in [Caller -> [step : CallSteps, uri : Value, at : 0..MaxTime]]
        /\ \A d \in Caller : CallSound(d)'
        /\ \A key : Passed(key)' \subseteq Passed(key)
    <2>1. CASE Fail(c)
      <3>1. "refuse" \in CallSteps /\ Becomes(c, "refuse")
        BY <2>1 DEF Fail, CallSteps
      <3>2. call'[c].step = "refuse"
        BY <1>0, <3>1, CallGoesOn
      <3>3. \A key : ~Went(c, key[2])'
        BY <3>2 DEF Went
      <3> QED BY <1>0, <3>1, <3>3, CallGoesOn
    <2>2. CASE ProceedAnyway(c)
      <3>1. /\ NoCall \in [step : CallSteps, uri : Value, at : 0..MaxTime]
            /\ NoCall.step = "idle"
        BY ThrottleAssumption DEF NoCall, CallSteps, Value
      <3>2. call' = [call EXCEPT ![c] = NoCall]
        BY <2>2 DEF ProceedAnyway
      <3>3. /\ call'[c] = NoCall
            /\ \A d \in Caller \ {c} : CallSound(d)'
            /\ \A key : Passed(key)' \subseteq Passed(key) \cup {c}
            /\ \A key : ~(key = Key(NoCall.at, key[2]) /\ Went(c, key[2])') => c \notin Passed(key)'
        BY <1>0, <3>2, OthersStay
      <3>4. \A key : ~Went(c, key[2])'
        BY <3>1, <3>3 DEF Went
      <3>5. CallSound(c)'
        BY <3>1, <3>3 DEF CallSound
      <3> QED BY <3>1, <3>2, <3>3, <3>4, <3>5, ThrottleTypes DEF ThrottleTypeOK
    <2> QED BY <2>1, <2>2
  <1>2. ThrottleTypeOK'
    BY <1>0, <1>1, ThrottleTypes DEF ThrottleTypeOK
  <1>3. \A key \in Keys : Accounted(key)'
    BY <1>0, <1>1, NothingCounted
  <1>4. \A key \in Keys : Outlasts(key)'
    BY <1>0 DEF Outlasts, ThrottleInv
  <1> QED BY <1>1, <1>2, <1>3, <1>4 DEF ThrottleInv

\* A call that returns was about to be admitted in every window it is admitted in.
LEMMA FinishStep ==
    ASSUME ThrottleInv, NEW c \in Caller, Finish(c)
    PROVE  ThrottleInv'
  <1>0. /\ UNCHANGED <<minute, counter, expires>>
        /\ call[c].step \in {"admit", "refuse"}
        /\ call' = [call EXCEPT ![c] = NoCall]
        /\ admitted' = [key \in Keys |->
              IF call[c].step = "admit" /\ key \in WindowsOf(c) THEN admitted[key] + 1
              ELSE admitted[key]]
    BY DEF Finish
  <1>1. /\ NoCall \in [step : CallSteps, uri : Value, at : 0..MaxTime]
        /\ NoCall.step = "idle"
    BY ThrottleAssumption DEF NoCall, CallSteps, Value
  <1>2. /\ call'[c] = NoCall
        /\ \A d \in Caller \ {c} : CallSound(d)'
        /\ \A key : Passed(key)' \subseteq Passed(key) \cup {c}
        /\ \A key : ~(key = Key(NoCall.at, key[2]) /\ Went(c, key[2])') => c \notin Passed(key)'
    BY <1>0, OthersStay
  <1>3. \A key : ~Went(c, key[2])'
    BY <1>1, <1>2 DEF Went
  <1>4. \A key : Passed(key)' \subseteq Passed(key) \ {c}
    BY <1>2, <1>3
  <1>5. CallSound(c)'
    BY <1>1, <1>2 DEF CallSound
  <1>6. admitted \in [Keys -> Nat] /\ counter \in [Keys -> Nat] /\ minute \in Nat
    BY ThrottleTypes, ThrottleAssumption DEF ThrottleTypeOK
  <1>7. ThrottleTypeOK'
    <2>1. admitted' \in [Keys -> Nat]
      BY <1>0, <1>6
    <2> QED BY <1>0, <1>1, <2>1, ThrottleTypes DEF ThrottleTypeOK
  <1>8. ASSUME NEW key \in Keys
        PROVE  Accounted(key)'
    <2>1. Accounted(key) /\ LimitOf(key) \in Nat /\ LimitOf(key)' = LimitOf(key)
      BY KeysAre DEF ThrottleInv, LimitOf
    <2>2. /\ key[1] \in Nat
          /\ Cardinality(Passed(key)) \in Nat
          /\ Cardinality(Passed(key)') \in Nat
          /\ Cardinality(Passed(key)') <= Cardinality(Passed(key))
      BY <1>4, KeysAre, NoNewPassed, PassedFinite
    <2>3. CASE ~(call[c].step = "admit" /\ key \in WindowsOf(c))
      <3>1. admitted'[key] = admitted[key]
        BY <1>0, <2>3
      <3> QED BY <1>0, <1>6, <2>1, <2>2, <3>1 DEF Accounted
    <2>4. CASE call[c].step = "admit" /\ key \in WindowsOf(c)
      <3>1. PICK v \in {Authority, call[c].uri} \cap LimitedValues :
               key = Key(call[c].at, v) /\ minute <= key[1]
        BY <2>4 DEF WindowsOf
      <3>2. key[2] = v
        BY <3>1 DEF Key
      <3>3. c \in Passed(key)
        BY <2>4, <3>1, <3>2 DEF Passed, Went
      <3>4. Cardinality(Passed(key)') + 1 <= Cardinality(Passed(key))
        BY <1>4, <3>3, OneLessPassed
      <3>5. admitted'[key] = admitted[key] + 1
        BY <1>0, <2>4
      <3> QED BY <1>0, <1>6, <2>1, <2>2, <3>1, <3>4, <3>5 DEF Accounted
    <2> QED BY <2>3, <2>4
  <1>9. \A key \in Keys : Outlasts(key)'
    BY <1>0 DEF Outlasts, ThrottleInv
  <1> QED BY <1>2, <1>5, <1>7, <1>8, <1>9 DEF ThrottleInv

\* A minute that is still in the window of a key does not make Redis forget it.
LEMMA PassMinuteStep ==
    ASSUME ThrottleInv, PassMinute
    PROVE  ThrottleInv'
  <1> DEFINE Gone(key) == expires[key] # 0 /\ expires[key] <= minute + 1
  <1>0. /\ minute < MaxTime /\ minute' = minute + 1
        /\ UNCHANGED <<call, admitted>>
        /\ counter' = [key \in Keys |-> IF Gone(key) THEN 0 ELSE counter[key]]
        /\ expires' = [key \in Keys |-> IF Gone(key) THEN 0 ELSE expires[key]]
    <2>1. \A key \in Keys :
             key \in {k \in Keys : expires[k] # 0 /\ expires[k] <= minute + 1} <=> Gone(key)
      OBVIOUS
    <2> QED BY <2>1 DEF PassMinute
  <1>1. /\ minute \in 1..MaxTime /\ minute \in Nat
        /\ counter \in [Keys -> Nat] /\ expires \in [Keys -> Nat] /\ admitted \in [Keys -> Nat]
    BY ThrottleTypes, ThrottleAssumption DEF ThrottleTypeOK
  <1>2. ThrottleTypeOK'
    <2>1. minute' \in 1..MaxTime
      BY <1>0, <1>1, ThrottleAssumption
    <2>2. counter' \in [Keys -> Nat] /\ expires' \in [Keys -> Nat]
      BY <1>0, <1>1
    <2> QED BY <1>0, <2>1, <2>2, ThrottleTypes DEF ThrottleTypeOK
  <1>3. ASSUME NEW c \in Caller
        PROVE  CallSound(c)'
    <2>1. CallSound(c) /\ 1..minute \subseteq 1..minute'
      BY <1>0, <1>1, ThrottleTypes
    <2> QED BY <1>0, <2>1 DEF CallSound, Counted
  <1>4. ASSUME NEW key \in Keys
        PROVE  Outlasts(key)' /\ Accounted(key)'
    <2>1. Outlasts(key) /\ Accounted(key)
      BY DEF ThrottleInv
    <2>2. key[1] \in Nat /\ LimitOf(key)' = LimitOf(key)
      BY KeysAre DEF LimitOf
    <2>3. Passed(key)' = Passed(key)
      BY <1>0 DEF Passed, Went
    <2>4. Outlasts(key)'
      BY <1>0, <2>1 DEF Outlasts
    <2>5. minute' <= key[1] => counter'[key] = counter[key] /\ minute <= key[1]
      BY <1>0, <1>1, <2>1, <2>2 DEF Outlasts
    <2> QED BY <1>0, <2>1, <2>2, <2>3, <2>4, <2>5 DEF Accounted
  <1> QED BY <1>2, <1>3, <1>4 DEF ThrottleInv

\* The inductive invariant of the throttler, for any callers, limits and windows.
THEOREM ThrottleCorrect == ThrottleSpec => []ThrottleInv
  <1>1. ASSUME ThrottleInv, [ThrottleNext]_throttleVars
        PROVE  ThrottleInv'
    <2>1. CASE UNCHANGED throttleVars
      <3>1. UNCHANGED <<minute, counter, expires, call, admitted>>
        BY <2>1 DEF throttleVars
      <3>2. \A c \in Caller : CallSound(c)'
        BY <1>1, <3>1, ThrottleTypes DEF CallSound, Counted
      <3>3. \A key : Passed(key)' = Passed(key) /\ LimitOf(key)' = LimitOf(key)
        BY <3>1 DEF Passed, Went, LimitOf
      <3>4. \A key \in Keys : Outlasts(key)' /\ Accounted(key)'
        BY <1>1, <3>1, <3>3 DEF ThrottleInv, Outlasts, Accounted
      <3>5. ThrottleTypeOK'
        BY <1>1, <3>1, ThrottleTypes DEF ThrottleTypeOK
      <3> QED BY <3>2, <3>4, <3>5 DEF ThrottleInv
    <2>2. CASE ThrottleNext
      BY <1>1, <2>2, PassMinuteStep, IncrementStep, ExpireStep, GiveUpStep, FinishStep,
         CallStep
         DEF ThrottleNext
    <2> QED BY <1>1, <2>1, <2>2
  <1> QED BY <1>1, ThrottleInitial, PTL DEF ThrottleSpec

\* Within a window no authority and no blueprint is admitted more often than its
\* limit, however the calls of the workers interleave, fail or are delayed.
THEOREM LimitsAreKept == ThrottleSpec => []LimitsHold
  <1>1. ThrottleInv => LimitsHold
    BY DEF ThrottleInv, Accounted, LimitOf, LimitsHold
  <1> QED BY <1>1, ThrottleCorrect, PTL

------------------------------------------------------------------------------
(* The service's token.                                                     *)

AuthSteps == {"idle", "ensure", "wait to ensure", "refresh and take", "take", "exchange",
              "wait to refresh", "refresh and retry", "session", "failed"}

TokenTyped ==
    /\ time \in Nat
    /\ token \in [ends : Nat, until : Nat]
    /\ auth \in [Publisher -> [step : AuthSteps, attempt : Nat, ends : Nat, kept : BOOLEAN]]
    /\ elapsed \in [Publisher -> Nat]
    /\ blame \in [Publisher -> SUBSET {"request", "floor", "refused"}]

\* When the present call began, as long as it is no long one.
Began(p) == time - elapsed[p]

\* The token is new since the call began, and so is the one it holds: both last
\* until the call has become long.
NewSinceRetry(p) ==
    auth[p].attempt >= 2 =>
        \/ elapsed[p] >= NewTokenLasts
        \/ /\ token.ends >= Began(p) + NewTokenLasts
           /\ token.until - Hurried >= Began(p) + NewTokenLasts
           /\ auth[p].step = "exchange" => auth[p].ends >= Began(p) + NewTokenLasts

\* Who refreshes a token once more after a refresh has taken long.
RefreshesAgain(p) ==
    auth[p].step \in {"wait to refresh", "refresh and retry"} /\ auth[p].attempt >= 2 =>
        elapsed[p] >= NewTokenLasts

\* A token that is taken was looked at in this call, or is new; one that is held and
\* not kept beyond its end had the margins left then.
LookedAt(p) ==
    /\ auth[p].step = "take" =>
          elapsed[p] > Early + Margin \/ token.until > Began(p) + Early
    /\ auth[p].step = "exchange" /\ ~auth[p].kept =>
          elapsed[p] > Early + Margin \/ auth[p].ends > Began(p) + Early + Margin

AtRest(p) == auth[p].step = "idle" => auth[p].attempt = 0 /\ blame[p] = {}

GetsThrough(p) ==
    /\ auth[p].step = "failed" => "request" \in blame[p] \/ elapsed[p] >= NewTokenLasts
    /\ "refused" \in blame[p] => elapsed[p] > Early + Margin

CallInv(p) ==
    NewSinceRetry(p) /\ RefreshesAgain(p) /\ LookedAt(p) /\ AtRest(p) /\ GetsThrough(p)

TokenInv == TokenTyped /\ \A p \in Publisher : CallInv(p)

\* The least of the lifetimes and of what the floor leaves is well defined.
LEMMA LeastLifetime ==
    /\ NewTokenLasts \in Int
    /\ NewTokenLasts <= Floor - Hurried
    /\ \A n \in Lifetimes : NewTokenLasts <= n
<1> DEFINE Lasting == Lifetimes \cup {Floor - Hurried}
<1>1. PICK n \in Lifetimes : \A m \in Lifetimes : n <= m
  BY TokenAssumption
<1>2. Lifetimes \subseteq Int /\ Floor - Hurried \in Int /\ n \in Int
  BY <1>1, TokenAssumption
<1>3. \E k \in Lasting : \A m \in Lasting : k <= m
  <2>1. CASE n <= Floor - Hurried
    <3>1. \A m \in Lasting : n <= m
      BY <1>1, <2>1
    <3> QED BY <3>1
  <2>2. CASE Floor - Hurried < n
    <3>1. \A m \in Lasting : Floor - Hurried <= m
      BY <1>1, <1>2, <2>2
    <3> QED BY <3>1
  <2> QED BY <1>2, <2>1, <2>2
<1>4. NewTokenLasts \in Lasting /\ \A m \in Lasting : NewTokenLasts <= m
  BY <1>3 DEF NewTokenLasts
<1> QED BY <1>2, <1>4

\* History stops to count where nothing depends on it.
LEMMA LongIsLong ==
    LongCall \in Int /\ LongCall >= NewTokenLasts /\ LongCall > Early + Margin
BY LeastLifetime, TokenAssumption DEF LongCall, Larger

\* A new token lasts for the least lifetime, and is kept for the floor.
LEMMA NewTokenIs ==
    ASSUME time \in Nat, NEW lifetime \in Lifetimes
    PROVE  /\ NewToken(lifetime) \in [ends : Nat, until : Nat]
           /\ NewToken(lifetime).ends >= time + NewTokenLasts
           /\ NewToken(lifetime).until >= time + Floor
           /\ NewToken(lifetime).until - Hurried >= time + NewTokenLasts
BY LeastLifetime, TokenAssumption DEF NewToken, KeptUntil, Larger

\* What the others do to the token leaves a call its invariant.
LEMMA OthersCalls ==
    ASSUME TokenTyped, NEW q \in Publisher, CallInv(q),
           time' = time, auth'[q] = auth[q], elapsed'[q] = elapsed[q],
           blame'[q] = blame[q],
           token' = token \/ \E lifetime \in Lifetimes : token' = NewToken(lifetime)
    PROVE  CallInv(q)'
<1>1. CASE token' = token
  BY <1>1 DEF CallInv, NewSinceRetry, RefreshesAgain, LookedAt, AtRest, GetsThrough, Began
<1>2. ASSUME NEW lifetime \in Lifetimes, token' = NewToken(lifetime)
      PROVE  CallInv(q)'
  <2>1. /\ token'.ends >= time + NewTokenLasts
        /\ token'.until >= time + Floor
        /\ token'.until - Hurried >= time + NewTokenLasts
        /\ token'.ends \in Nat /\ token'.until \in Nat
    BY <1>2, NewTokenIs DEF TokenTyped
  <2>2. elapsed[q] \in Nat /\ time \in Nat /\ NewTokenLasts \in Int
    BY LeastLifetime DEF TokenTyped
  <2>3. NewSinceRetry(q)'
    BY <2>1, <2>2, TokenAssumption DEF CallInv, NewSinceRetry, Began
  <2>4. LookedAt(q)'
    BY <2>1, <2>2, TokenAssumption DEF CallInv, LookedAt, Began
  <2> QED BY <2>3, <2>4 DEF CallInv, RefreshesAgain, AtRest, GetsThrough
<1> QED BY <1>1, <1>2

\* So a step of one call is about that call alone.
LEMMA OneCall ==
    ASSUME TokenInv, NEW p \in Publisher,
           time' = time, elapsed' = elapsed,
           token' = token \/ \E lifetime \in Lifetimes : token' = NewToken(lifetime),
           NEW next \in [step : AuthSteps, attempt : Nat, ends : Nat, kept : BOOLEAN],
           auth' = [auth EXCEPT ![p] = next],
           NEW why \in SUBSET {"request", "floor", "refused"},
           blame' = [blame EXCEPT ![p] = why],
           CallInv(p)'
    PROVE  TokenInv'
<1>1. TokenTyped'
  <2>1. token' \in [ends : Nat, until : Nat]
    BY NewTokenIs DEF TokenInv, TokenTyped
  <2> QED BY <2>1 DEF TokenInv, TokenTyped
<1>2. ASSUME NEW q \in Publisher
      PROVE  CallInv(q)'
  <2>1. CASE q = p
    BY <2>1
  <2>2. CASE q # p
    <3>1. auth'[q] = auth[q] /\ elapsed'[q] = elapsed[q] /\ blame'[q] = blame[q]
      BY <2>2 DEF TokenInv, TokenTyped
    <3> QED BY <3>1, OthersCalls DEF TokenInv
  <2> QED BY <2>1, <2>2
<1> QED BY <1>1, <1>2 DEF TokenInv

LEMMA TokenStart == TokenInit => TokenInv
<1> SUFFICES ASSUME TokenInit PROVE TokenInv
  OBVIOUS
<1>1. TokenTyped
  <2>1. PICK lifetime \in Lifetimes :
            token = [ends |-> lifetime, until |-> Larger(lifetime - Margin, Floor)]
    BY DEF TokenInit
  <2>2. token \in [ends : Nat, until : Nat]
    BY <2>1, TokenAssumption DEF Larger
  <2> QED BY <2>2 DEF TokenInit, TokenTyped, NotCalling, AuthSteps
<1>2. ASSUME NEW p \in Publisher PROVE CallInv(p)
  <2>1. auth[p].step = "idle" /\ auth[p].attempt = 0 /\ blame[p] = {}
    BY DEF TokenInit, NotCalling
  <2> QED BY <2>1 DEF CallInv, NewSinceRetry, RefreshesAgain, LookedAt, AtRest, GetsThrough
<1> QED BY <1>1, <1>2 DEF TokenInv

\* One step of one call, action by action.
LEMMA CallStarts ==
    ASSUME TokenInv, NEW p \in Publisher, CallAuth(p) \/ EndCall(p) PROVE TokenInv'
<1>1. CASE CallAuth(p)
  <2> DEFINE next == [NotCalling EXCEPT !.step = "ensure", !.attempt = 1]
  <2>1. next \in [step : AuthSteps, attempt : Nat, ends : Nat, kept : BOOLEAN]
    BY DEF NotCalling, AuthSteps
  <2>2. auth'[p].step = "ensure" /\ auth'[p].attempt = 1 /\ blame'[p] = {}
    BY <1>1 DEF CallAuth, TokenInv, TokenTyped, NotCalling
  <2>3. CallInv(p)'
    BY <2>2 DEF CallInv, NewSinceRetry, RefreshesAgain, LookedAt, AtRest, GetsThrough
  <2> HIDE DEF next
  <2> QED BY <1>1, <2>1, <2>3, OneCall DEF CallAuth, next
<1>2. CASE EndCall(p)
  <2>1. /\ auth'[p].step = "idle" /\ auth'[p].attempt = 0 /\ blame'[p] = {}
        /\ NotCalling \in [step : AuthSteps, attempt : Nat, ends : Nat, kept : BOOLEAN]
    BY <1>2 DEF EndCall, TokenInv, TokenTyped, NotCalling, AuthSteps
  <2>2. CallInv(p)'
    BY <2>1 DEF CallInv, NewSinceRetry, RefreshesAgain, LookedAt, AtRest, GetsThrough
  <2>3. TokenTyped'
    BY <1>2, <2>1 DEF EndCall, TokenInv, TokenTyped
  <2>4. ASSUME NEW q \in Publisher, q # p
        PROVE  CallInv(q)'
    <3>1. auth'[q] = auth[q] /\ elapsed'[q] = elapsed[q] /\ blame'[q] = blame[q]
          /\ token' = token /\ time' = time
      BY <1>2, <2>4 DEF EndCall, TokenInv, TokenTyped
    <3> QED BY <3>1, OthersCalls DEF TokenInv
  <2> QED BY <2>2, <2>3, <2>4 DEF TokenInv
<1> QED BY <1>1, <1>2

LEMMA CallLooks ==
    ASSUME TokenInv, NEW p \in Publisher, EnsureValid(p) \/ LockToEnsure(p) PROVE TokenInv'
<1>1. PICK step \in {"wait to ensure", "take", "refresh and take"} :
          /\ auth' = [auth EXCEPT ![p].step = step]
          /\ step = "take" => time < token.until - Early \/ time < token.until - Floor
  <2>1. CASE EnsureValid(p)
    <3>1. CASE time >= token.until - Early
      BY <2>1, <3>1 DEF EnsureValid, Does
    <3>2. CASE ~(time >= token.until - Early)
      <4>1. time < token.until - Early
        BY <3>2, TokenAssumption DEF TokenInv, TokenTyped
      <4> QED BY <2>1, <3>2, <4>1 DEF EnsureValid, Does
    <3> QED BY <3>1, <3>2
  <2>2. CASE LockToEnsure(p)
    BY <2>2 DEF LockToEnsure, Does
  <2> QED BY <2>1, <2>2
<1> DEFINE next == [auth[p] EXCEPT !.step = step]
<1>2. /\ next \in [step : AuthSteps, attempt : Nat, ends : Nat, kept : BOOLEAN]
      /\ next.step = step /\ next.attempt = auth[p].attempt
  BY DEF TokenInv, TokenTyped, AuthSteps
<1>3. auth' = [auth EXCEPT ![p] = next] /\ auth'[p] = next
  BY <1>1 DEF TokenInv, TokenTyped
<1>4. time' = time /\ token' = token /\ elapsed' = elapsed /\ blame' = blame
  BY DEF EnsureValid, LockToEnsure
<1>5. blame[p] \in SUBSET {"request", "floor", "refused"}
      /\ blame' = [blame EXCEPT ![p] = blame[p]]
  BY <1>4 DEF TokenInv, TokenTyped
<1>6. CallInv(p)
  BY DEF TokenInv
<1> HIDE DEF next
<1>7. NewSinceRetry(p)' /\ RefreshesAgain(p)'
  BY <1>2, <1>3, <1>4, <1>6 DEF CallInv, NewSinceRetry, RefreshesAgain, Began
<1>8. LookedAt(p)'
  <2>1. step = "take" => token.until > Began(p) + Early
    BY <1>1, TokenAssumption DEF TokenInv, TokenTyped, Began
  <2> QED BY <1>2, <1>3, <1>4, <2>1 DEF LookedAt, Began
<1>9. AtRest(p)' /\ GetsThrough(p)'
  BY <1>2, <1>3, <1>4, <1>6 DEF CallInv, AtRest, GetsThrough
<1> QED BY <1>2, <1>3, <1>4, <1>5, <1>7, <1>8, <1>9, OneCall DEF CallInv

LEMMA CallTakes ==
    ASSUME TokenInv, NEW p \in Publisher, TakeToken(p) PROVE TokenInv'
<1>1. time' = time /\ token' = token /\ elapsed' = elapsed /\ blame' = blame
  BY DEF TakeToken
<1>2. blame[p] \in SUBSET {"request", "floor", "refused"}
      /\ blame' = [blame EXCEPT ![p] = blame[p]]
  BY <1>1 DEF TokenInv, TokenTyped
<1>3. CallInv(p) /\ auth[p].step = "take"
  BY DEF TokenInv, TakeToken
<1>4. /\ time \in Nat /\ elapsed[p] \in Nat /\ token.until \in Nat /\ token.ends \in Nat
      /\ NewTokenLasts \in Int /\ Early \in Nat /\ Margin \in Nat /\ Hurried \in Nat
  BY LeastLifetime, TokenAssumption DEF TokenInv, TokenTyped
<1>5. auth[p] \in [step : AuthSteps, attempt : Nat, ends : Nat, kept : BOOLEAN]
  BY DEF TokenInv, TokenTyped
<1>6. CASE time >= token.until - Hurried
  <2> DEFINE next == [auth[p] EXCEPT !.step = "wait to refresh"]
  <2>1. /\ next \in [step : AuthSteps, attempt : Nat, ends : Nat, kept : BOOLEAN]
        /\ next.step = "wait to refresh" /\ next.attempt = auth[p].attempt
    BY <1>5 DEF AuthSteps
  <2>2. auth' = [auth EXCEPT ![p] = next] /\ auth'[p] = next
    <3>1. ~(time < token.until - Hurried)
      BY <1>6, <1>4
    <3> QED BY <3>1 DEF TakeToken, Does, TokenInv, TokenTyped
  <2> HIDE DEF next
  <2>3. NewSinceRetry(p)'
    BY <2>1, <2>2, <1>1, <1>3 DEF CallInv, NewSinceRetry, Began
  <2>4. RefreshesAgain(p)'
    <3>1. auth[p].attempt >= 2 => elapsed[p] >= NewTokenLasts
      BY <1>3, <1>4, <1>6 DEF CallInv, NewSinceRetry, Began
    <3> QED BY <3>1, <2>1, <2>2, <1>1 DEF RefreshesAgain
  <2>5. LookedAt(p)' /\ AtRest(p)' /\ GetsThrough(p)'
    BY <2>1, <2>2, <1>1, <1>3 DEF CallInv, LookedAt, AtRest, GetsThrough
  <2> QED BY <2>1, <2>2, <2>3, <2>4, <2>5, <1>1, <1>2, OneCall DEF CallInv
<1>7. CASE ~(time >= token.until - Hurried)
  <2> DEFINE kept == token.until > token.ends - Margin
  <2> DEFINE next == [auth[p] EXCEPT !.step = "exchange", !.ends = token.ends,
                                     !.kept = kept]
  <2>0. kept \in BOOLEAN
    OBVIOUS
  <2>1. /\ next \in [step : AuthSteps, attempt : Nat, ends : Nat, kept : BOOLEAN]
        /\ next.step = "exchange" /\ next.attempt = auth[p].attempt
        /\ next.ends = token.ends /\ next.kept = kept
    <3> HIDE DEF kept
    <3> QED BY <2>0, <1>5, <1>4 DEF AuthSteps
  <2>2. auth' = [auth EXCEPT ![p] = next] /\ auth'[p] = next
    BY <1>7, <1>4 DEF TakeToken, TokenInv, TokenTyped
  <2> HIDE DEF next
  <2>3. NewSinceRetry(p)'
    BY <2>1, <2>2, <1>1, <1>3 DEF CallInv, NewSinceRetry, Began
  <2>4. RefreshesAgain(p)' /\ AtRest(p)' /\ GetsThrough(p)'
    BY <2>1, <2>2, <1>1, <1>3 DEF CallInv, RefreshesAgain, AtRest, GetsThrough
  <2>5. LookedAt(p)'
    <3>1. elapsed[p] > Early + Margin \/ token.until > Began(p) + Early
      BY <1>3 DEF CallInv, LookedAt
    <3>2. ~next.kept => token.ends >= token.until + Margin
      BY <2>1, <1>4
    <3>3. ~next.kept => elapsed[p] > Early + Margin \/ next.ends > Began(p) + Early + Margin
      BY <3>1, <3>2, <2>1, <1>4 DEF Began
    <3> QED BY <3>3, <2>1, <2>2, <1>1 DEF LookedAt, Began
  <2> QED BY <2>1, <2>2, <2>3, <2>4, <2>5, <1>1, <1>2, OneCall DEF CallInv
<1> QED BY <1>6, <1>7

LEMMA CallWaits ==
    ASSUME TokenInv, NEW p \in Publisher, LockToRefresh(p) PROVE TokenInv'
<1>1. time' = time /\ token' = token /\ elapsed' = elapsed /\ blame' = blame
  BY DEF LockToRefresh
<1>2. blame[p] \in SUBSET {"request", "floor", "refused"}
      /\ blame' = [blame EXCEPT ![p] = blame[p]]
  BY <1>1 DEF TokenInv, TokenTyped
<1>3. CallInv(p) /\ auth[p].step = "wait to refresh"
  BY DEF TokenInv, LockToRefresh
<1> DEFINE next == [auth[p] EXCEPT !.step = "refresh and retry"]
<1>4. /\ next \in [step : AuthSteps, attempt : Nat, ends : Nat, kept : BOOLEAN]
      /\ next.step = "refresh and retry" /\ next.attempt = auth[p].attempt
  BY DEF TokenInv, TokenTyped, AuthSteps
<1>5. auth' = [auth EXCEPT ![p] = next] /\ auth'[p] = next
  BY DEF LockToRefresh, Does, TokenInv, TokenTyped
<1> HIDE DEF next
<1>6. CallInv(p)'
  BY <1>1, <1>3, <1>4, <1>5
  DEF CallInv, NewSinceRetry, RefreshesAgain, LookedAt, AtRest, GetsThrough, Began
<1> QED BY <1>1, <1>2, <1>4, <1>5, <1>6, OneCall

LEMMA CallRefreshes ==
    ASSUME TokenInv, NEW p \in Publisher, Refresh(p) PROVE TokenInv'
<1>1. time' = time /\ elapsed' = elapsed
  BY DEF Refresh
<1>2. CallInv(p) /\ blame[p] \in SUBSET {"request", "floor", "refused"}
  BY DEF TokenInv, TokenTyped
<1>3. /\ time \in Nat /\ elapsed[p] \in Nat
      /\ NewTokenLasts \in Int /\ Early \in Nat /\ Floor \in Nat /\ Floor > Early
      /\ MaxRetries \in Nat /\ MaxRetries >= 2
  BY LeastLifetime, TokenAssumption DEF TokenInv, TokenTyped
<1>4. auth[p] \in [step : AuthSteps, attempt : Nat, ends : Nat, kept : BOOLEAN]
  BY DEF TokenInv, TokenTyped
<1>5. ASSUME NEW lifetime \in Lifetimes, token' = NewToken(lifetime),
             IF auth[p].step = "refresh and take" THEN Does(p, "take") ELSE Retry(p),
             blame' = blame
      PROVE  TokenInv'
  <2>1. blame' = [blame EXCEPT ![p] = blame[p]]
    BY <1>5 DEF TokenInv, TokenTyped
  <2>2. /\ token'.ends >= time + NewTokenLasts
        /\ token'.until >= time + Floor
        /\ token'.until - Hurried >= time + NewTokenLasts
        /\ token'.ends \in Nat /\ token'.until \in Nat
    BY <1>5, NewTokenIs DEF TokenInv, TokenTyped
  <2>5. /\ Began(p)' = Began(p) /\ Began(p) \in Int /\ Began(p) <= time
        /\ token'.ends >= Began(p) + NewTokenLasts
        /\ token'.until - Hurried >= Began(p) + NewTokenLasts
        /\ token'.until > Began(p) + Early
    BY <2>2, <1>1, <1>3, TokenAssumption DEF Began
  <2>3. CASE auth[p].step = "refresh and take"
    <3> DEFINE next == [auth[p] EXCEPT !.step = "take"]
    <3>1. /\ next \in [step : AuthSteps, attempt : Nat, ends : Nat, kept : BOOLEAN]
          /\ next.step = "take" /\ next.attempt = auth[p].attempt
      BY <1>4 DEF AuthSteps
    <3>2. auth' = [auth EXCEPT ![p] = next] /\ auth'[p] = next
      BY <1>5, <2>3 DEF Does, TokenInv, TokenTyped
    <3> HIDE DEF next
    <3>3. NewSinceRetry(p)' /\ RefreshesAgain(p)'
      BY <3>1, <3>2, <2>5 DEF NewSinceRetry, RefreshesAgain
    <3>4. LookedAt(p)' /\ AtRest(p)' /\ GetsThrough(p)'
      BY <3>1, <3>2, <2>5, <1>1, <1>2, <1>5
      DEF CallInv, LookedAt, AtRest, GetsThrough
    <3> QED BY <3>1, <3>2, <3>3, <3>4, <2>1, <1>1, <1>2, <1>5, OneCall DEF CallInv
  <2>4. CASE auth[p].step # "refresh and take"
    <3>1. auth[p].step = "refresh and retry"
      BY <2>4 DEF Refresh
    <3> DEFINE step == IF auth[p].attempt < MaxRetries THEN "ensure" ELSE "failed"
    <3>1a. PICK n \in Nat : n = auth[p].attempt + 1
      BY <1>4
    <3> DEFINE next == [auth[p] EXCEPT !.step = step, !.attempt = n]
    <3>2. /\ next \in [step : AuthSteps, attempt : Nat, ends : Nat, kept : BOOLEAN]
          /\ next.step = step /\ next.attempt = n
      BY <1>4 DEF AuthSteps
    <3>3. auth' = [auth EXCEPT ![p] = next] /\ auth'[p] = next
      BY <1>5, <2>4, <3>1a DEF Retry, TokenInv, TokenTyped
    <3>4. step \in {"ensure", "failed"} /\ (step = "failed" => elapsed[p] >= NewTokenLasts)
      <4>1. CASE auth[p].attempt < MaxRetries
        BY <4>1
      <4>2. CASE ~(auth[p].attempt < MaxRetries)
        <5>1. auth[p].attempt >= 2
          BY <4>2, <1>3, <1>4
        <5> QED BY <5>1, <4>2, <3>1, <1>2 DEF CallInv, RefreshesAgain
      <4> QED BY <4>1, <4>2
    <3> HIDE DEF next, step
    <3>5. NewSinceRetry(p)' /\ RefreshesAgain(p)'
      BY <3>2, <3>3, <3>4, <2>5 DEF NewSinceRetry, RefreshesAgain
    <3>6. LookedAt(p)' /\ AtRest(p)' /\ GetsThrough(p)'
      BY <3>2, <3>3, <3>4, <1>1, <1>2, <1>5 DEF CallInv, LookedAt, AtRest, GetsThrough
    <3> QED BY <3>2, <3>3, <3>5, <3>6, <2>1, <1>1, <1>2, <1>5, OneCall DEF CallInv
  <2> QED BY <2>3, <2>4
<1>6. CASE Does(p, "failed") /\ Blames(p, {"request"}) /\ UNCHANGED token
  <2> DEFINE next == [auth[p] EXCEPT !.step = "failed"]
  <2> DEFINE why == blame[p] \cup {"request"}
  <2>1. /\ next \in [step : AuthSteps, attempt : Nat, ends : Nat, kept : BOOLEAN]
        /\ next.step = "failed" /\ next.attempt = auth[p].attempt
    BY <1>4 DEF AuthSteps
  <2>2. auth' = [auth EXCEPT ![p] = next] /\ auth'[p] = next
    BY <1>6 DEF Does, TokenInv, TokenTyped
  <2>3. /\ why \in SUBSET {"request", "floor", "refused"} /\ "request" \in why
        /\ "refused" \in why <=> "refused" \in blame[p]
        /\ blame' = [blame EXCEPT ![p] = why] /\ blame'[p] = why
    BY <1>2, <1>6 DEF Blames, TokenInv, TokenTyped
  <2> HIDE DEF next, why
  <2>4. NewSinceRetry(p)' /\ RefreshesAgain(p)'
    BY <2>1, <2>2, <1>1, <1>2, <1>6 DEF CallInv, NewSinceRetry, RefreshesAgain, Began
  <2>5. LookedAt(p)' /\ AtRest(p)' /\ GetsThrough(p)'
    BY <2>1, <2>2, <2>3, <1>1, <1>2 DEF CallInv, LookedAt, AtRest, GetsThrough
  <2> QED BY <2>1, <2>2, <2>3, <2>4, <2>5, <1>1, <1>6, OneCall DEF CallInv
<1> QED BY <1>5, <1>6 DEF Refresh

LEMMA CallExchanges ==
    ASSUME TokenInv, NEW p \in Publisher, Exchange(p) PROVE TokenInv'
<1>1. time' = time /\ elapsed' = elapsed /\ token' = token /\ auth[p].step = "exchange"
  BY DEF Exchange
<1>2. CallInv(p) /\ blame[p] \in SUBSET {"request", "floor", "refused"}
  BY DEF TokenInv, TokenTyped
<1>3. /\ time \in Nat /\ elapsed[p] \in Nat
      /\ NewTokenLasts \in Int /\ Early \in Nat /\ Margin \in Nat
  BY LeastLifetime, TokenAssumption DEF TokenInv, TokenTyped
<1>4. auth[p] \in [step : AuthSteps, attempt : Nat, ends : Nat, kept : BOOLEAN]
  BY DEF TokenInv, TokenTyped
<1>12. time >= auth[p].ends =>
          /\ auth[p].attempt >= 2 => elapsed[p] >= NewTokenLasts
          /\ ~auth[p].kept => elapsed[p] > Early + Margin
  BY <1>1, <1>2, <1>3, <1>4 DEF CallInv, NewSinceRetry, LookedAt, Began
<1>5. PICK step \in {"session", "wait to refresh", "failed"},
           why \in SUBSET {"request", "floor", "refused"} :
          /\ auth' = [auth EXCEPT ![p].step = step]
          /\ blame' = [blame EXCEPT ![p] = why]
          /\ step = "failed" => "request" \in why
          /\ step = "wait to refresh" => time >= auth[p].ends
          /\ "refused" \in why =>
                "refused" \in blame[p] \/ (~auth[p].kept /\ time >= auth[p].ends)
  <2>1. CASE Does(p, "session") /\ UNCHANGED blame
    <3>1. blame' = [blame EXCEPT ![p] = blame[p]]
      BY <2>1 DEF TokenInv, TokenTyped
    <3> blame[p] \in SUBSET {"request", "floor", "refused"}
      BY <1>2
    <3> WITNESS "session" \in {"session", "wait to refresh", "failed"},
                blame[p] \in SUBSET {"request", "floor", "refused"}
    <3> QED BY <3>1, <2>1 DEF Does
  <2>2. CASE /\ time >= auth[p].ends /\ Does(p, "wait to refresh")
             /\ Blames(p, {IF auth[p].kept THEN "floor" ELSE "refused"})
    <3> DEFINE why == blame[p] \cup {IF auth[p].kept THEN "floor" ELSE "refused"}
    <3>1. /\ why \in SUBSET {"request", "floor", "refused"}
          /\ blame' = [blame EXCEPT ![p] = why]
          /\ "refused" \in why => "refused" \in blame[p] \/ ~auth[p].kept
      BY <2>2, <1>2 DEF Blames
    <3> HIDE DEF why
    <3> why \in SUBSET {"request", "floor", "refused"}
      BY <3>1
    <3> WITNESS "wait to refresh" \in {"session", "wait to refresh", "failed"},
                why \in SUBSET {"request", "floor", "refused"}
    <3> QED BY <3>1, <2>2 DEF Does
  <2>3. CASE Does(p, "failed") /\ Blames(p, {"request"})
    <3> DEFINE why == blame[p] \cup {"request"}
    <3>1. /\ why \in SUBSET {"request", "floor", "refused"} /\ "request" \in why
          /\ blame' = [blame EXCEPT ![p] = why]
          /\ "refused" \in why => "refused" \in blame[p]
      BY <2>3, <1>2 DEF Blames
    <3> HIDE DEF why
    <3> why \in SUBSET {"request", "floor", "refused"}
      BY <3>1
    <3> WITNESS "failed" \in {"session", "wait to refresh", "failed"},
                why \in SUBSET {"request", "floor", "refused"}
    <3> QED BY <3>1, <2>3 DEF Does
  <2> QED BY <2>1, <2>2, <2>3 DEF Exchange
<1> DEFINE next == [auth[p] EXCEPT !.step = step]
<1>6. /\ next \in [step : AuthSteps, attempt : Nat, ends : Nat, kept : BOOLEAN]
      /\ next.step = step /\ next.attempt = auth[p].attempt
  BY <1>4 DEF AuthSteps
<1>7. auth' = [auth EXCEPT ![p] = next] /\ auth'[p] = next /\ blame'[p] = why
  BY <1>5 DEF TokenInv, TokenTyped
<1> HIDE DEF next
<1>8. NewSinceRetry(p)'
  BY <1>1, <1>2, <1>5, <1>6, <1>7 DEF CallInv, NewSinceRetry, Began
<1>9. RefreshesAgain(p)'
  <2>1. step = "wait to refresh" /\ auth[p].attempt >= 2 => elapsed[p] >= NewTokenLasts
    BY <1>5, <1>12
  <2> QED BY <2>1, <1>1, <1>5, <1>6, <1>7 DEF RefreshesAgain
<1>10. LookedAt(p)'
  BY <1>5, <1>6, <1>7 DEF LookedAt
<1>11. AtRest(p)' /\ GetsThrough(p)'
  <2>1. ~auth[p].kept /\ time >= auth[p].ends => elapsed[p] > Early + Margin
    BY <1>12
  <2> QED BY <2>1, <1>1, <1>2, <1>5, <1>6, <1>7 DEF CallInv, AtRest, GetsThrough
<1> QED BY <1>1, <1>5, <1>6, <1>7, <1>8, <1>9, <1>10, <1>11, OneCall DEF CallInv

LEMMA Shifts == \A m, n \in Int : (m + 1) - (n + 1) = m - n
OBVIOUS

\* Time passes: a call that is not long yet began when it did.
LEMMA HoursPass == TokenInv /\ PassHours => TokenInv'
<1> SUFFICES ASSUME TokenInv, PassHours PROVE TokenInv'
  OBVIOUS
<1>1. time' = time + 1 /\ UNCHANGED <<token, auth, lock, blame>>
  BY DEF PassHours
<1>2. TokenTyped'
  <2>1. LongCall \in Nat
    BY LongIsLong, TokenAssumption
  <2>2. \A n \in Nat : n + 1 \in Nat
    OBVIOUS
  <2>3. elapsed' \in [Publisher -> Nat]
    BY <2>1, <2>2 DEF PassHours, TokenInv, TokenTyped
  <2> QED BY <1>1, <2>2, <2>3 DEF TokenInv, TokenTyped
<1>3. ASSUME NEW p \in Publisher PROVE CallInv(p)'
  <2>1. /\ CallInv(p) /\ elapsed[p] \in Nat /\ elapsed'[p] \in Nat /\ time \in Nat
        /\ NewTokenLasts \in Int /\ Early \in Nat /\ Margin \in Nat /\ LongCall \in Int
    BY <1>2, LeastLifetime, LongIsLong, TokenAssumption DEF TokenInv, TokenTyped
  <2>2. auth'[p] = auth[p] /\ blame'[p] = blame[p] /\ token' = token
    BY <1>1
  <2>3. CASE auth[p].step # "idle" /\ elapsed[p] < LongCall
    <3>1. elapsed'[p] = elapsed[p] + 1
      BY <2>3 DEF PassHours
    <3>2. /\ Began(p)' = Began(p)
          /\ elapsed[p] >= NewTokenLasts => elapsed'[p] >= NewTokenLasts
          /\ elapsed[p] > Early + Margin => elapsed'[p] > Early + Margin
      BY <3>1, <2>1, <1>1, Shifts DEF Began
    <3> QED BY <3>2, <2>1, <2>2
            DEF CallInv, NewSinceRetry, RefreshesAgain, LookedAt, AtRest, GetsThrough
  <2>4. CASE auth[p].step # "idle" /\ ~(elapsed[p] < LongCall)
    <3>1. elapsed'[p] >= NewTokenLasts /\ elapsed'[p] > Early + Margin
      BY <2>4, LongIsLong DEF PassHours
    <3> QED BY <3>1, <2>2, <2>4
            DEF CallInv, NewSinceRetry, RefreshesAgain, LookedAt, AtRest, GetsThrough
  <2>5. CASE auth[p].step = "idle"
    BY <2>1, <2>2, <2>5 DEF CallInv, NewSinceRetry, RefreshesAgain, LookedAt, AtRest, GetsThrough
  <2> QED BY <2>3, <2>4, <2>5
<1> QED BY <1>2, <1>3 DEF TokenInv

\* The service's token: whatever a call and the others have done, the token it uses
\* is new since its last attempt, or it was looked at in time.
THEOREM TokenCorrect == TokenSpec => []TokenInv
<1>1. TokenInv /\ [TokenNext]_tokenVars => TokenInv'
  <2> SUFFICES ASSUME TokenInv, [TokenNext]_tokenVars PROVE TokenInv'
    OBVIOUS
  <2>1. CASE PassHours
    BY <2>1, HoursPass
  <2>2. ASSUME NEW p \in Publisher,
               \/ CallAuth(p) \/ EnsureValid(p) \/ LockToEnsure(p) \/ TakeToken(p)
               \/ LockToRefresh(p) \/ Refresh(p) \/ Exchange(p) \/ EndCall(p)
        PROVE  TokenInv'
    BY <2>2, CallStarts, CallLooks, CallTakes, CallWaits, CallRefreshes, CallExchanges
  <2>3. CASE UNCHANGED tokenVars
    BY <2>3 DEF tokenVars, TokenInv, TokenTyped, CallInv, NewSinceRetry, RefreshesAgain,
                LookedAt, AtRest, GetsThrough, Began
  <2> QED BY <2>1, <2>2, <2>3 DEF TokenNext
<1> QED BY <1>1, TokenStart, PTL DEF TokenSpec

\* A call of auth() gets its session unless a request of its own fails or it takes
\* longer than a new token lasts, whatever the other calls refresh meanwhile; and a
\* token is refused only to a call that is longer than the margins, or one that the
\* floor has kept in use (auth.rs:165, 277).
THEOREM CallsGetThrough == TokenSpec => []AuthGetsThrough
<1>1. TokenInv => AuthGetsThrough
  BY DEF TokenInv, CallInv, GetsThrough, AuthGetsThrough
<1> QED BY <1>1, TokenCorrect, PTL

------------------------------------------------------------------------------
(* Logins and sessions.                                                     *)

VisitSteps == {"idle", "find", "exchange", "store", "clean up", "respond", "over"}
VisitRecord == [step : VisitSteps, login : Login \cup {NoVisit.login}, life : Nat, at : Nat]

LoginTyped ==
    /\ moment \in Nat
    /\ visit \in [Visit -> VisitRecord]
    /\ session \in [Visit -> Nat]
    /\ code \in [Login -> {"none", "open", "used"}]
    /\ jar \in [visit : Visit \cup {NobodyIn.visit}, until : Nat, late : BOOLEAN]

\* A callback that has exchanged the code, or has left a session.
Stores(v) == visit[v].step \in {"store", "clean up", "respond"} \/ session[v] # 0

\* The session is there from its storing on, and for as long as the token lives.
VisitInv(v) ==
    /\ visit[v].step # "idle" => visit[v].login \in Login
    /\ visit[v].step \in {"idle", "find", "exchange", "store"} => session[v] = 0
    /\ visit[v].step \in {"clean up", "respond"} =>
          session[v] = visit[v].at + visit[v].life /\ visit[v].at <= moment
    /\ Stores(v) => code[visit[v].login] = "used"

\* The session of a cookie that lasts is that of a callback which is over.
JarInv ==
    CookieLasts => /\ jar.visit \in Visit
                   /\ visit[jar.visit].step = "over"
                   /\ jar.late \/ session[jar.visit] >= jar.until

\* One callback of each login gets that far.
OneStores ==
    \A v, w \in Visit :
        Stores(v) /\ Stores(w) /\ visit[v].login = visit[w].login => v = w

LoginInv == LoginTyped /\ (\A v \in Visit : VisitInv(v)) /\ JarInv /\ OneStores

LEMMA LoginStart == SessionInit => LoginInv
<1> SUFFICES ASSUME SessionInit PROVE LoginInv
  OBVIOUS
<1>1. /\ NoVisit.step = "idle" /\ NoVisit.life = 0 /\ NoVisit.at = 0
      /\ NoVisit \in VisitRecord
  BY DEF NoVisit, VisitRecord, VisitSteps
<1>2. NobodyIn.until = 0
      /\ NobodyIn \in [visit : Visit \cup {NobodyIn.visit}, until : Nat, late : BOOLEAN]
  BY DEF NobodyIn
<1>3. LoginTyped
  BY <1>1, <1>2 DEF SessionInit, LoginTyped
<1>4. ASSUME NEW v \in Visit PROVE ~Stores(v) /\ VisitInv(v)
  BY <1>1 DEF SessionInit, Stores, VisitInv
<1>5. ~CookieLasts
  BY <1>2 DEF SessionInit, CookieLasts
<1> QED BY <1>3, <1>4, <1>5 DEF LoginInv, JarInv, OneStores

\* A step of a callback that is not over.
LEMMA OneVisit ==
    ASSUME LoginInv, NEW v \in Visit, visit[v].step # "over",
           NEW r \in VisitRecord, visit' = [visit EXCEPT ![v] = r],
           NEW s \in Nat, session' = [session EXCEPT ![v] = s],
           moment' = moment,
           code' \in {code, [code EXCEPT ![visit[v].login] = "used"]},
           jar' = jar \/ (JarInv' /\ LoginTyped'),
           VisitInv(v)',
           Stores(v)' => /\ r.login = visit[v].login
                         /\ Stores(v) \/ code[visit[v].login] = "open"
    PROVE  LoginInv'
<1>1. LoginTyped'
  BY DEF LoginInv, LoginTyped
<1>2. /\ visit'[v] = r /\ session'[v] = s
      /\ \A w \in Visit : w # v => visit'[w] = visit[w] /\ session'[w] = session[w]
  BY DEF LoginInv, LoginTyped
<1>3. \A l \in Login : code[l] = "used" => code'[l] = "used"
  BY DEF LoginInv, LoginTyped
<1>4. ASSUME NEW w \in Visit, w # v PROVE VisitInv(w)' /\ (Stores(w)' <=> Stores(w))
  <2>1. Stores(w)' <=> Stores(w)
    BY <1>2, <1>4 DEF Stores
  <2>2. VisitInv(w) /\ visit'[w] = visit[w] /\ session'[w] = session[w]
    BY <1>2, <1>4 DEF LoginInv
  <2>3. Stores(w) => visit[w].login \in Login
    BY <2>2 DEF VisitInv, Stores
  <2> QED BY <2>1, <2>2, <2>3, <1>3 DEF VisitInv
<1>5. JarInv'
  <2>1. CASE jar' = jar
    <3>1. CookieLasts' => CookieLasts
      BY <2>1 DEF CookieLasts
    <3>2. CookieLasts => jar.visit \in Visit /\ jar.visit # v
      BY DEF LoginInv, JarInv
    <3> QED BY <3>1, <3>2, <2>1, <1>2 DEF LoginInv, JarInv
  <2> QED BY <2>1
<1>6. OneStores'
  <2> SUFFICES ASSUME NEW u \in Visit, NEW w \in Visit, Stores(u)', Stores(w)',
                      visit'[u].login = visit'[w].login, u # w
               PROVE  FALSE
    BY DEF OneStores
  <2>1. ASSUME NEW x \in Visit, x # v, Stores(x)', Stores(v)',
               visit'[x].login = visit'[v].login
        PROVE  FALSE
    <3>1. Stores(x) /\ visit[x].login = visit[v].login
      BY <2>1, <1>2, <1>4
    <3>2. code[visit[v].login] = "used"
      BY <3>1 DEF LoginInv, VisitInv
    <3>3. Stores(v)
      BY <2>1, <3>2
    <3> QED BY <3>1, <3>3, <2>1 DEF LoginInv, OneStores
  <2>2. CASE u # v /\ w # v
    <3>1. Stores(u) /\ Stores(w) /\ visit[u].login = visit[w].login
      BY <2>2, <1>2, <1>4
    <3> QED BY <3>1 DEF LoginInv, OneStores
  <2> QED BY <2>1, <2>2
<1> QED BY <1>1, <1>4, <1>5, <1>6 DEF LoginInv

\* Every other step leaves the callbacks alone.
LEMMA NoVisitStep ==
    ASSUME LoginInv, visit' = visit, session' = session,
           moment' \in Nat, moment' >= moment,
           code' \in [Login -> {"none", "open", "used"}],
           \A l \in Login : code[l] = "used" => code'[l] = "used",
           jar' = jar \/ jar' = NobodyIn
    PROVE  LoginInv'
<1>1. LoginTyped'
  <2>1. NobodyIn \in [visit : Visit \cup {NobodyIn.visit}, until : Nat, late : BOOLEAN]
    BY DEF NobodyIn
  <2> HIDE DEF NobodyIn
  <2> QED BY <2>1 DEF LoginInv, LoginTyped
<1>2. ASSUME NEW v \in Visit PROVE VisitInv(v)'
  <2>1. VisitInv(v) /\ visit[v].at \in Nat /\ moment \in Nat
    BY DEF LoginInv, LoginTyped, VisitRecord
  <2>2. Stores(v) => visit[v].login \in Login
    BY <2>1 DEF VisitInv, Stores
  <2>3. visit[v].at <= moment => visit'[v].at <= moment'
    BY <2>1
  <2> QED BY <2>1, <2>2, <2>3 DEF VisitInv, Stores
<1>3. JarInv'
  <2>1. CASE jar' = jar
    <3>1. CookieLasts' => CookieLasts
      BY <2>1, <1>1 DEF CookieLasts, LoginInv, LoginTyped
    <3> QED BY <2>1, <3>1 DEF LoginInv, JarInv
  <2>2. CASE jar' = NobodyIn
    <3>1. ~CookieLasts'
      BY <2>2, <1>1 DEF CookieLasts, NobodyIn, LoginTyped
    <3> QED BY <3>1 DEF JarInv
  <2> QED BY <2>1, <2>2
<1>4. OneStores'
  BY DEF LoginInv, OneStores, Stores
<1> QED BY <1>1, <1>2, <1>3, <1>4 DEF LoginInv

LEMMA OverRecord ==
    ASSUME LoginInv, NEW v \in Visit
    PROVE  /\ [NoVisit EXCEPT !.step = "over", !.login = visit[v].login] \in VisitRecord
           /\ [NoVisit EXCEPT !.step = "over", !.login = visit[v].login].step = "over"
           /\ [NoVisit EXCEPT !.step = "over", !.login = visit[v].login].login
                = visit[v].login
           /\ visit[v] \in VisitRecord /\ session[v] \in Nat
           /\ session = [session EXCEPT ![v] = session[v]]
BY DEF LoginInv, LoginTyped, VisitRecord, VisitSteps, NoVisit

\* A callback ends, and leaves the session it has stored, if any.
LEMMA VisitEnds ==
    ASSUME LoginInv, NEW v \in Visit, visit[v].step \notin {"idle", "over"}, IsOver(v),
           session' = session, moment' = moment,
           code' \in {code, [code EXCEPT ![visit[v].login] = "used"]},
           jar' = jar \/ (JarInv' /\ LoginTyped')
    PROVE  LoginInv'
<1>1. PICK r \in VisitRecord :
          /\ r = [NoVisit EXCEPT !.step = "over", !.login = visit[v].login]
          /\ r.step = "over" /\ r.login = visit[v].login
  BY OverRecord
<1>2. visit' = [visit EXCEPT ![v] = r] /\ visit'[v] = r
  BY <1>1 DEF IsOver, LoginInv, LoginTyped
<1>3. session[v] \in Nat /\ session' = [session EXCEPT ![v] = session[v]]
  BY OverRecord
<1>4. VisitInv(v) /\ visit[v].login \in Login
  BY DEF LoginInv, VisitInv
<1>5. Stores(v)' => Stores(v)
  BY <1>1, <1>2 DEF Stores
<1>6. code[visit[v].login] = "used" => code'[visit[v].login] = "used"
  BY <1>4 DEF LoginInv, LoginTyped
<1>7. VisitInv(v)'
  BY <1>1, <1>2, <1>4, <1>5, <1>6 DEF VisitInv
<1> QED BY <1>1, <1>2, <1>3, <1>5, <1>7, OneVisit

LEMMA CallbackStarts ==
    ASSUME LoginInv, NEW v \in Visit, NEW l \in Login, Callback(v, l) PROVE LoginInv'
<1> DEFINE r == [visit[v] EXCEPT !.step = "find", !.login = l]
<1>1. r \in VisitRecord /\ r.step = "find" /\ r.login = l
  BY OverRecord DEF VisitRecord, VisitSteps
<1>2. visit' = [visit EXCEPT ![v] = r] /\ visit'[v] = r
  BY DEF Callback, LoginInv, LoginTyped
<1> HIDE DEF r
<1>3. visit[v].step = "idle" /\ VisitInv(v) /\ session' = [session EXCEPT ![v] = session[v]]
  BY OverRecord DEF Callback, LoginInv
<1>4. session[v] = 0 /\ session'[v] = 0
  BY <1>3 DEF VisitInv, Callback
<1>5. ~Stores(v)' /\ VisitInv(v)'
  BY <1>1, <1>2, <1>4 DEF VisitInv, Stores
<1>6. /\ moment' = moment /\ jar' = jar /\ session[v] \in Nat /\ visit[v].step # "over"
      /\ code' \in {code, [code EXCEPT ![visit[v].login] = "used"]}
  BY <1>3, OverRecord DEF Callback
<1> QED BY <1>1, <1>2, <1>3, <1>5, <1>6, OneVisit

LEMMA RequestFound ==
    ASSUME LoginInv, NEW v \in Visit, FindRequest(v) PROVE LoginInv'
<1>1. CASE IsOver(v)
  BY <1>1, VisitEnds DEF FindRequest
<1>2. CASE Visits(v, "exchange")
  <2> DEFINE r == [visit[v] EXCEPT !.step = "exchange"]
  <2>1. r \in VisitRecord /\ r.step = "exchange" /\ r.login = visit[v].login
    BY OverRecord DEF VisitRecord, VisitSteps
  <2>2. visit' = [visit EXCEPT ![v] = r] /\ visit'[v] = r
    BY <1>2 DEF Visits, LoginInv, LoginTyped
  <2> HIDE DEF r
  <2>3. /\ VisitInv(v) /\ visit[v].step = "find" /\ session'[v] = session[v]
        /\ session' = [session EXCEPT ![v] = session[v]]
    BY OverRecord DEF LoginInv, FindRequest
  <2>4. visit[v].login \in Login /\ session[v] = 0
    BY <2>3 DEF VisitInv
  <2>5. ~Stores(v)' /\ VisitInv(v)'
    BY <2>1, <2>2, <2>3, <2>4 DEF VisitInv, Stores
  <2> QED BY <2>1, <2>2, <2>3, <2>5, OverRecord, OneVisit DEF FindRequest
<1> QED BY <1>1, <1>2 DEF FindRequest

\* The code is good for one exchange: nobody else of this login has got that far.
LEMMA CodeExchanged ==
    ASSUME LoginInv, NEW v \in Visit, ExchangeCode(v) PROVE LoginInv'
<1>1. CASE IsOver(v) /\ code' \in {code, [code EXCEPT ![visit[v].login] = "used"]}
  BY <1>1, VisitEnds DEF ExchangeCode
<1>2. ASSUME code[visit[v].login] = "open", NEW life \in TokenLives,
             visit' = [visit EXCEPT ![v].step = "store", ![v].life = life],
             code' = [code EXCEPT ![visit[v].login] = "used"]
      PROVE  LoginInv'
  <2> DEFINE r == [visit[v] EXCEPT !.step = "store", !.life = life]
  <2>1. r \in VisitRecord /\ r.step = "store" /\ r.login = visit[v].login
    BY OverRecord, SessionAssumption DEF VisitRecord, VisitSteps
  <2>2. visit' = [visit EXCEPT ![v] = r] /\ visit'[v] = r
    BY <1>2 DEF LoginInv, LoginTyped
  <2> HIDE DEF r
  <2>3. /\ VisitInv(v) /\ visit[v].step = "exchange" /\ session'[v] = session[v]
        /\ session' = [session EXCEPT ![v] = session[v]]
    BY OverRecord DEF LoginInv, ExchangeCode
  <2>4. visit[v].login \in Login /\ session[v] = 0
    BY <2>3 DEF VisitInv
  <2>5. code'[visit[v].login] = "used"
    BY <1>2, <2>4 DEF LoginInv, LoginTyped
  <2>6. VisitInv(v)'
    BY <2>1, <2>2, <2>3, <2>4, <2>5 DEF VisitInv
  <2>7. /\ visit[v].step # "over" /\ moment' = moment /\ jar' = jar /\ session[v] \in Nat
        /\ code' \in {code, [code EXCEPT ![visit[v].login] = "used"]}
    BY <1>2, <2>3, OverRecord DEF ExchangeCode
  <2> QED BY <1>2, <2>1, <2>2, <2>3, <2>6, <2>7, OneVisit
<1> QED BY <1>1, <1>2 DEF ExchangeCode

LEMMA SessionStored ==
    ASSUME LoginInv, NEW v \in Visit, StoreSession(v) PROVE LoginInv'
<1> DEFINE r == [visit[v] EXCEPT !.step = "clean up", !.at = moment]
<1>1. /\ r \in VisitRecord
      /\ r.step = "clean up" /\ r.login = visit[v].login /\ r.life = visit[v].life
      /\ r.at = moment
  BY OverRecord DEF LoginInv, LoginTyped, VisitRecord, VisitSteps
<1>2. visit' = [visit EXCEPT ![v] = r] /\ visit'[v] = r
  BY DEF StoreSession, LoginInv, LoginTyped
<1> HIDE DEF r
<1>3. VisitInv(v) /\ visit[v].step = "store" /\ moment' = moment /\ code' = code
  BY DEF LoginInv, StoreSession
<1>4. PICK s \in Nat : s = moment + visit[v].life
  BY DEF LoginInv, LoginTyped, VisitRecord
<1>5. session' = [session EXCEPT ![v] = s] /\ session'[v] = s
  BY <1>4 DEF StoreSession, LoginInv, LoginTyped
<1>6. Stores(v) /\ moment <= moment
  BY <1>3 DEF Stores, LoginInv, LoginTyped
<1>7. VisitInv(v)'
  BY <1>1, <1>2, <1>3, <1>4, <1>5, <1>6 DEF VisitInv
<1> QED BY <1>1, <1>2, <1>3, <1>5, <1>6, <1>7, OneVisit DEF StoreSession

LEMMA CleanedUp ==
    ASSUME LoginInv, NEW v \in Visit, CleanUp(v) PROVE LoginInv'
<1> DEFINE r == [visit[v] EXCEPT !.step = "respond"]
<1>1. /\ r \in VisitRecord
      /\ r.step = "respond" /\ r.login = visit[v].login /\ r.life = visit[v].life
      /\ r.at = visit[v].at
  BY OverRecord DEF VisitRecord, VisitSteps
<1>2. visit' = [visit EXCEPT ![v] = r] /\ visit'[v] = r
  BY DEF CleanUp, Visits, LoginInv, LoginTyped
<1> HIDE DEF r
<1>3. /\ VisitInv(v) /\ visit[v].step = "clean up" /\ moment' = moment /\ code' = code
      /\ session' = session /\ jar' = jar
  BY DEF LoginInv, CleanUp
<1>4. Stores(v)
  BY <1>3 DEF Stores
<1>5. VisitInv(v)'
  BY <1>1, <1>2, <1>3, <1>4 DEF VisitInv
<1> QED BY <1>1, <1>2, <1>3, <1>4, <1>5, OverRecord, OneVisit

\* The cookie is younger than the session by the margin, if the response was in time.
LEMMA CookieSet ==
    ASSUME LoginInv, NEW v \in Visit, SetCookie(v) PROVE LoginInv'
<1>1. /\ VisitInv(v) /\ visit[v].step = "respond" /\ moment' = moment /\ code' = code
      /\ session' = session /\ IsOver(v)
  BY DEF LoginInv, SetCookie
<1>2. /\ moment \in Nat /\ visit[v].at \in Nat /\ visit[v].life \in Nat
      /\ CookieMargin \in Nat /\ visit[v].at <= moment
      /\ session[v] = visit[v].at + visit[v].life
  BY <1>1, SessionAssumption DEF LoginInv, LoginTyped, VisitRecord, VisitInv
<1> DEFINE late == moment - visit[v].at > CookieMargin
<1>3. late \in BOOLEAN
  OBVIOUS
<1>4. PICK until \in Nat : until = moment + CookieAge(visit[v].life)
  BY <1>2 DEF CookieAge
<1>5. jar' = [visit |-> v, until |-> until, late |-> late]
  BY <1>4 DEF SetCookie
<1>6. jar'.visit = v /\ jar'.until = until /\ jar'.late = late
  BY <1>5
<1>7. until > moment => late \/ session[v] >= until
  BY <1>2, <1>4 DEF CookieAge
<1> HIDE DEF late
<1>8. visit'[v].step = "over"
  BY <1>1, OverRecord DEF IsOver, LoginInv, LoginTyped
<1>9. JarInv'
  BY <1>1, <1>6, <1>7, <1>8 DEF JarInv, CookieLasts
<1>10. LoginTyped'
  <2>1. visit' \in [Visit -> VisitRecord]
    BY <1>1, OverRecord DEF IsOver, LoginInv, LoginTyped
  <2>2. jar' \in [visit : Visit \cup {NobodyIn.visit}, until : Nat, late : BOOLEAN]
    BY <1>3, <1>5
  <2> QED BY <1>1, <2>1, <2>2 DEF LoginInv, LoginTyped
<1> QED BY <1>1, <1>9, <1>10, VisitEnds

LEMMA LoginSteps == LoginInv /\ [SessionNext]_sessionVars => LoginInv'
<1> SUFFICES ASSUME LoginInv, [SessionNext]_sessionVars PROVE LoginInv'
  OBVIOUS
<1>1. ASSUME NEW v \in Visit,
             \/ FindRequest(v) \/ ExchangeCode(v) \/ StoreSession(v) \/ CleanUp(v)
             \/ SetCookie(v) \/ VisitFails(v)
      PROVE  LoginInv'
  <2>1. CASE VisitFails(v)
    BY <2>1, VisitEnds DEF VisitFails
  <2> QED BY <1>1, <2>1, RequestFound, CodeExchanged, SessionStored, CleanedUp, CookieSet
<1>2. ASSUME NEW l \in Login, NEW v \in Visit, Callback(v, l)
      PROVE  LoginInv'
  BY <1>2, CallbackStarts
<1>3. moment \in Nat /\ code \in [Login -> {"none", "open", "used"}] /\ moment >= moment
  BY DEF LoginInv, LoginTyped
<1>4. ASSUME NEW l \in Login, BeginLogin(l)
      PROVE  LoginInv'
  <2>1. /\ code' \in [Login -> {"none", "open", "used"}]
        /\ \A m \in Login : code[m] = "used" => code'[m] = "used"
    BY <1>3, <1>4 DEF BeginLogin
  <2> QED BY <1>3, <1>4, <2>1, NoVisitStep DEF BeginLogin
<1>5. ASSUME NEW k \in Checker,
             \/ RequireAuth(k) \/ GetSession(k) \/ GetAuthenticatedDid(k)
             \/ LookForToken(k) \/ AskProvider(k) \/ RememberToken(k)
      PROVE  LoginInv'
  <2>1. UNCHANGED <<moment, loginVars, jar>>
    BY <1>5 DEF RequireAuth, GetSession, GetAuthenticatedDid, LookForToken, AskProvider,
                RememberToken
  <2> QED BY <1>3, <2>1, NoVisitStep DEF loginVars
<1>6. CASE RevokeToken \/ Logout \/ UNCHANGED sessionVars
  <2>1. UNCHANGED <<moment, loginVars>> /\ (jar' = jar \/ jar' = NobodyIn)
    BY <1>6 DEF RevokeToken, Logout, sessionVars, loginVars
  <2> QED BY <1>3, <2>1, NoVisitStep DEF loginVars
<1>7. CASE PassMoment
  <2>1. moment' \in Nat /\ moment' >= moment /\ UNCHANGED <<loginVars, jar>>
    BY <1>3, <1>7 DEF PassMoment
  <2> QED BY <1>3, <2>1, NoVisitStep DEF loginVars
<1> QED BY <1>1, <1>2, <1>4, <1>5, <1>6, <1>7 DEF SessionNext

(* The tokens of clients.                                                   *)

ClientTyped ==
    /\ {moment, revoked, tokenCache} \subseteq Nat
    /\ check \in [Checker -> [step : {"idle", "page", "token", "ask", "remember"},
                              since : Nat]]

\* What is remembered was good at most one request before.
CacheInv ==
    IF revoked = 0 THEN tokenCache <= moment + Remembered
    ELSE revoked <= moment /\ tokenCache <= revoked + MaxReply + Remembered

CheckInv(k) ==
    /\ check[k].step \in {"ask", "remember"} =>
          check[k].since <= moment /\ moment <= check[k].since + MaxReply
    /\ check[k].step = "remember" /\ revoked # 0 => check[k].since <= revoked

ReplyInv == reply = "token" /\ revoked # 0 => moment - revoked < Remembered + MaxReply

ClientInv == ClientTyped /\ CacheInv /\ (\A k \in Checker : CheckInv(k)) /\ ReplyInv

LEMMA ClientStart == SessionInit => ClientInv
BY SessionAssumption
DEF SessionInit, NoCheck, ClientInv, ClientTyped, CacheInv, CheckInv, ReplyInv

\* A step of one request, at one moment.
LEMMA OneCheck ==
    ASSUME ClientInv, NEW k \in Checker,
           NEW r \in [step : {"idle", "page", "token", "ask", "remember"}, since : Nat],
           check' = [check EXCEPT ![k] = r],
           moment' = moment, revoked' = revoked,
           tokenCache' \in Nat, CacheInv', CheckInv(k)', ReplyInv'
    PROVE  ClientInv'
<1>1. ClientTyped'
  BY DEF ClientInv, ClientTyped
<1>2. ASSUME NEW j \in Checker, j # k PROVE CheckInv(j)'
  <2>1. check'[j] = check[j]
    BY <1>2 DEF ClientInv, ClientTyped
  <2> QED BY <2>1 DEF ClientInv, CheckInv
<1> QED BY <1>1, <1>2 DEF ClientInv

\* What a step of one request starts from.
LEMMA CheckFacts ==
    ASSUME ClientInv, NEW k \in Checker
    PROVE  /\ check[k] \in [step : {"idle", "page", "token", "ask", "remember"}, since : Nat]
           /\ NoCheck \in [step : {"idle", "page", "token", "ask", "remember"}, since : Nat]
           /\ NoCheck.step = "idle"
           /\ {moment, revoked, tokenCache, MaxReply, Remembered} \subseteq Nat
           /\ Remembered > 0
           /\ CacheInv /\ CheckInv(k)
BY SessionAssumption DEF ClientInv, ClientTyped, NoCheck

LEMMA CheckRests ==
    ASSUME ClientInv, NEW k \in Checker,
           check' = [check EXCEPT ![k] = NoCheck],
           moment' = moment, revoked' = revoked, tokenCache' = tokenCache, ReplyInv'
    PROVE  ClientInv'
<1>1. check'[k] = NoCheck
  BY DEF ClientInv, ClientTyped
<1>2. CheckInv(k)'
  BY <1>1, CheckFacts DEF CheckInv
<1> QED BY <1>2, CheckFacts, OneCheck DEF CacheInv, ClientInv, ClientTyped

\* A request goes on: to another step, since the same moment or since now.
LEMMA CheckMoves ==
    ASSUME ClientInv, NEW k \in Checker,
           NEW step \in {"page", "token", "ask", "remember"}, NEW since \in Nat,
           check' = [check EXCEPT ![k] = [step |-> step, since |-> since]],
           moment' = moment, revoked' = revoked, tokenCache' = tokenCache,
           reply' # "token",
           step \in {"ask", "remember"} => since <= moment /\ moment <= since + MaxReply,
           step = "remember" => revoked = 0
    PROVE  ClientInv'
<1> DEFINE r == [step |-> step, since |-> since]
<1>1. /\ r \in [step : {"idle", "page", "token", "ask", "remember"}, since : Nat]
      /\ r.step = step /\ r.since = since
  OBVIOUS
<1>2. check' = [check EXCEPT ![k] = r] /\ check'[k] = r
  BY DEF ClientInv, ClientTyped
<1> HIDE DEF r
<1>3. CheckInv(k)'
  BY <1>1, <1>2 DEF CheckInv
<1>4. ReplyInv' /\ CacheInv' /\ tokenCache' \in Nat
  BY CheckFacts DEF ReplyInv, CacheInv
<1> QED BY <1>1, <1>2, <1>3, <1>4, OneCheck

LEMMA CheckUpdate ==
    ASSUME NEW c \in [step : {"idle", "page", "token", "ask", "remember"}, since : Nat],
           NEW step
    PROVE  [c EXCEPT !.step = step] = [step |-> step, since |-> c.since]
OBVIOUS

LEMMA CheckStarts ==
    ASSUME ClientInv, NEW k \in Checker,
           RequireAuth(k) \/ GetSession(k) \/ GetAuthenticatedDid(k)
    PROVE  ClientInv'
<1>1. UNCHANGED <<moment, revoked, tokenCache>> /\ reply' # "token"
  BY DEF RequireAuth, GetSession, GetAuthenticatedDid
<1>2. CASE RequireAuth(k)
  <2>1. PICK since \in Nat : since = check[k].since
    BY CheckFacts
  <2>2. check' = [check EXCEPT ![k] = [step |-> "page", since |-> since]]
    <3>1. [check[k] EXCEPT !.step = "page"] = [step |-> "page", since |-> since]
      BY <2>1, CheckFacts, CheckUpdate
    <3> QED BY <1>2, <3>1 DEF RequireAuth
  <2> QED BY <1>1, <2>2, CheckMoves
<1>3. CASE GetSession(k)
  BY <1>1, <1>3, CheckRests DEF GetSession, ReplyInv
<1>4. CASE GetAuthenticatedDid(k)
  <2>1. CASE check' = check
    BY <1>1, <2>1 DEF ClientInv, ClientTyped, CacheInv, CheckInv, ReplyInv
  <2>2. CASE check' # check
    <3>1. PICK since \in Nat : since = check[k].since
      BY CheckFacts
    <3>2. check' = [check EXCEPT ![k] = [step |-> "token", since |-> since]]
      BY <1>4, <2>2, <3>1, CheckFacts DEF GetAuthenticatedDid, ClientInv, ClientTyped
    <3> QED BY <1>1, <3>2, CheckMoves
  <2> QED BY <2>1, <2>2
<1> QED BY <1>2, <1>3, <1>4

\* The cache answers until what it remembers is over.
LEMMA TokenLookedFor ==
    ASSUME ClientInv, NEW k \in Checker, LookForToken(k) PROVE ClientInv'
<1>1. UNCHANGED <<moment, revoked, tokenCache>>
  BY DEF LookForToken
<1>2. CASE RememberedToken /\ reply' = "token" /\ check' = [check EXCEPT ![k] = NoCheck]
  <2>1. revoked # 0 => moment - revoked < Remembered + MaxReply
    BY <1>2, CheckFacts DEF RememberedToken, CacheInv
  <2> QED BY <1>1, <1>2, <2>1, CheckRests DEF ReplyInv
<1>3. CASE reply' = "none" /\ check' = [check EXCEPT ![k] = [step |-> "ask", since |-> moment]]
  <2>1. moment \in Nat /\ moment <= moment /\ moment <= moment + MaxReply
    BY CheckFacts
  <2> QED BY <1>1, <1>3, <2>1, CheckMoves
<1> QED BY <1>2, <1>3 DEF LookForToken

\* The provider has not revoked the token when it says that it is good.
LEMMA ProviderAsked ==
    ASSUME ClientInv, NEW k \in Checker, AskProvider(k) PROVE ClientInv'
<1>1. UNCHANGED <<moment, revoked, tokenCache>> /\ reply' = "none"
  BY DEF AskProvider
<1>2. CASE revoked = 0 /\ check' = [check EXCEPT ![k].step = "remember"]
  <2>1. PICK since \in Nat : since = check[k].since
    BY CheckFacts
  <2>2. check' = [check EXCEPT ![k] = [step |-> "remember", since |-> since]]
    <3>1. [check[k] EXCEPT !.step = "remember"] = [step |-> "remember", since |-> since]
      BY <2>1, CheckFacts, CheckUpdate
    <3> QED BY <1>2, <3>1
  <2>3. since <= moment /\ moment <= since + MaxReply
    BY <2>1, CheckFacts DEF AskProvider, CheckInv
  <2> QED BY <1>1, <1>2, <2>2, <2>3, CheckMoves
<1>3. CASE check' = [check EXCEPT ![k] = NoCheck]
  BY <1>1, <1>3, CheckRests DEF ReplyInv
<1> QED BY <1>2, <1>3 DEF AskProvider

\* The answer is as old as the request at most, and remembered from now on.
LEMMA TokenRemembered ==
    ASSUME ClientInv, NEW k \in Checker, RememberToken(k) PROVE ClientInv'
<1>1. moment' = moment /\ revoked' = revoked /\ check' = [check EXCEPT ![k] = NoCheck]
  BY DEF RememberToken
<1>2. /\ tokenCache' = moment + Remembered /\ check[k].since \in Nat
      /\ moment <= check[k].since + MaxReply
      /\ revoked # 0 => check[k].since <= revoked
  BY CheckFacts DEF RememberToken, CheckInv
<1>3. tokenCache' \in Nat /\ CacheInv'
  BY <1>1, <1>2, CheckFacts DEF CacheInv
<1>4. ReplyInv'
  <2>1. revoked # 0 => moment - revoked < Remembered + MaxReply
    BY <1>2, CheckFacts
  <2> QED BY <1>1, <2>1 DEF ReplyInv
<1>5. check'[k] = NoCheck
  BY <1>1 DEF ClientInv, ClientTyped
<1>6. CheckInv(k)'
  BY <1>5, CheckFacts DEF CheckInv
<1> QED BY <1>1, <1>3, <1>4, <1>6, CheckFacts, OneCheck

LEMMA ClientSteps == ClientInv /\ [SessionNext]_sessionVars => ClientInv'
<1> SUFFICES ASSUME ClientInv, [SessionNext]_sessionVars PROVE ClientInv'
  OBVIOUS
<1>1. ASSUME NEW k \in Checker,
             \/ RequireAuth(k) \/ GetSession(k) \/ GetAuthenticatedDid(k)
             \/ LookForToken(k) \/ AskProvider(k) \/ RememberToken(k)
      PROVE  ClientInv'
  BY <1>1, CheckStarts, TokenLookedFor, ProviderAsked, TokenRemembered
<1>2. CASE UNCHANGED <<moment, clientVars>> /\ (reply' = reply \/ reply' # "token")
  BY <1>2 DEF clientVars, ClientInv, ClientTyped, CacheInv, CheckInv, ReplyInv
<1>3. ASSUME NEW l \in Login, NEW v \in Visit, Callback(v, l) PROVE ClientInv'
  BY <1>2, <1>3 DEF Callback
<1>4. ASSUME NEW l \in Login, BeginLogin(l) PROVE ClientInv'
  BY <1>2, <1>4 DEF BeginLogin
<1>5. ASSUME NEW v \in Visit,
             \/ FindRequest(v) \/ ExchangeCode(v) \/ StoreSession(v) \/ CleanUp(v)
             \/ SetCookie(v) \/ VisitFails(v)
      PROVE  ClientInv'
  BY <1>2, <1>5 DEF FindRequest, ExchangeCode, StoreSession, CleanUp, SetCookie, VisitFails
<1>6. CASE Logout \/ UNCHANGED sessionVars
  BY <1>2, <1>6 DEF Logout, sessionVars, clientVars
<1>7. CASE RevokeToken
  <2>1. /\ revoked = 0 /\ revoked' = moment /\ moment > 0 /\ reply' = "none"
        /\ UNCHANGED <<moment, tokenCache, check>>
    BY <1>7 DEF RevokeToken
  <2>2. {moment, revoked, tokenCache, MaxReply, Remembered} \subseteq Nat /\ CacheInv
    BY SessionAssumption DEF ClientInv, ClientTyped
  <2>3. CacheInv' /\ ReplyInv'
    BY <2>1, <2>2 DEF CacheInv, ReplyInv
  <2>4. ASSUME NEW k \in Checker PROVE CheckInv(k)'
    BY <2>1 DEF ClientInv, CheckInv
  <2> QED BY <2>1, <2>3, <2>4 DEF ClientInv, ClientTyped
<1>8. CASE PassMoment
  <2>1. /\ moment' = moment + 1 /\ reply' = "none" /\ UNCHANGED <<revoked, tokenCache, check>>
        /\ \A k \in Checker : check[k].step \in {"ask", "remember"} =>
              moment - check[k].since < MaxReply
    BY <1>8 DEF PassMoment, clientVars
  <2>2. {moment, revoked, tokenCache, MaxReply, Remembered} \subseteq Nat /\ CacheInv
    BY SessionAssumption DEF ClientInv, ClientTyped
  <2>3. CacheInv' /\ ReplyInv' /\ moment' \in Nat
    BY <2>1, <2>2 DEF CacheInv, ReplyInv
  <2>4. ASSUME NEW k \in Checker PROVE CheckInv(k)'
    <3>1. PICK since \in Nat : since = check[k].since
      BY CheckFacts
    <3>2. /\ since <= moment => since <= moment + 1
          /\ moment - since < MaxReply => moment + 1 <= since + MaxReply
      BY <2>2
    <3> QED BY <2>1, <3>1, <3>2 DEF ClientInv, CheckInv
  <2> QED BY <2>1, <2>3, <2>4 DEF ClientInv, ClientTyped
<1> QED BY <1>1, <1>3, <1>4, <1>5, <1>6, <1>7, <1>8 DEF SessionNext

\* Of two callbacks of one login at most one leaves a session, and a cookie finds the
\* one that its callback has stored; what is remembered of a client's token was good
\* when the provider was asked.
THEOREM SessionsCorrect == SessionSpec => [](LoginInv /\ ClientInv)
BY LoginStart, LoginSteps, ClientStart, ClientSteps, PTL DEF SessionSpec

\* A cookie that lasts finds its session unless its response was late, a login makes
\* one session, and a revoked token is refused once what is remembered of it is over,
\* however requests and callbacks interleave (handle_auth.rs:223, http/auth.rs).
THEOREM WhoAsksAlwaysKnown == SessionSpec => []WhoAsksIsKnown
<1>1. LoginInv /\ ClientInv => WhoAsksIsKnown
  <2> SUFFICES ASSUME LoginInv, ClientInv PROVE WhoAsksIsKnown
    OBVIOUS
  <2>1. CookieLasts => SessionFound \/ jar.late
    <3>1. CookieLasts /\ ~jar.late => session[jar.visit] \in Nat /\ session[jar.visit] >= jar.until
      BY DEF LoginInv, LoginTyped, JarInv
    <3>2. jar.until \in Nat /\ moment \in Nat
      BY DEF LoginInv, LoginTyped
    <3> QED BY <3>1, <3>2 DEF CookieLasts, SessionFound
  <2>2. ASSUME NEW l \in Login
        PROVE  Cardinality({v \in Visit : session[v] # 0 /\ visit[v].login = l}) <= 1
    <3> DEFINE S == {v \in Visit : session[v] # 0 /\ visit[v].login = l}
    <3>1. CASE S = {}
      BY <3>1, FS_EmptySet
    <3>2. ASSUME NEW v \in S PROVE Cardinality(S) <= 1
      <4>1. ASSUME NEW w \in S PROVE w = v
        BY <4>1, <3>2 DEF LoginInv, OneStores, Stores
      <4>2. S = {v}
        BY <3>2, <4>1
      <4>3. Cardinality({v}) = 1
        BY FS_Singleton
      <4>4. Cardinality(S) = 1
        BY <4>2, <4>3
      <4> HIDE DEF S
      <4> QED BY <4>4
    <3> QED BY <3>1, <3>2
  <2>3. reply = "token" /\ revoked # 0 => moment - revoked < Remembered + MaxReply
    BY DEF ClientInv, ReplyInv
  <2> QED BY <2>1, <2>2, <2>3 DEF WhoAsksIsKnown
<1> QED BY <1>1, SessionsCorrect, PTL

------------------------------------------------------------------------------
(* The evaluators.                                                          *)

Kinds == {"pass", "stop", "form", "data", "external", "panic"}

\* What may come of a node, from a value of a form: of an object no other value,
\* of null only null or an object, and a panic of neither.
ResultFits(form, result) ==
    /\ result.kind \in Kinds
    /\ form = "object" /\ result.kind = "pass" => result.out = "object"
    /\ form = "null" /\ result.kind = "pass" => result.out \in {"null", "object"}
    /\ result.kind = "panic" => form \notin {"object", "null"}

\* The three exceptions of AcceptedNodesFit.
Unchecked(n) ==
    \/ n.type = "periodic_entry" /\ (n.config.form # "object" \/ n.config.cron # "fits")
    \/ n.type = "sentiment_analysis" /\ n.payload.form \notin {"string", "object"}
    \/ n.type = "publish_webhook" /\ ~HeadersFit(n.config)

LEMMA BooleanResults ==
    ASSUME NEW payload, NEW form, NEW result \in ByBoolean(payload, form)
    PROVE  /\ ResultFits(form, result)
           /\ result.kind = "form" => payload.form \notin {"boolean", "object"}
BY DEF ByBoolean, Pass, Ends, ResultFits, Kinds

LEMMA TextResults ==
    ASSUME NEW n, NEW form, NEW results,
           \A r \in results : ResultFits(form, r) /\ r.kind # "form",
           NEW result \in WithText(n, form, results)
    PROVE  /\ ResultFits(form, result)
           /\ result.kind = "form" => n.payload.form \notin {"string", "object"}
<1>1. PICK text \in TextOf(n.payload, form) :
          result \in IF text = "text" THEN results ELSE {Ends(text)}
  BY DEF WithText
<1>2. /\ text \in {"text", "data", "form"}
      /\ text = "form" => n.payload.form \notin {"string", "object"}
  BY DEF TextOf
<1>3. CASE text = "text"
  BY <1>1, <1>3
<1>4. CASE text # "text"
  BY <1>1, <1>2, <1>4 DEF Ends, ResultFits, Kinds
<1> QED BY <1>3, <1>4

LEMMA SetFieldFits == ASSUME NEW form PROVE ResultFits(form, SetField(form)) /\ SetField(form).kind # "form"
BY DEF SetField, Pass, Ends, ResultFits, Kinds

LEMMA JetstreamResults ==
    ASSUME NEW n, NEW form, NEW result \in EvaluateJetstream(n, form)
    PROVE  \/ result \in ByBoolean(n.payload, form)
           \/ result = Ends("stop")
           \/ /\ result = Ends("form")
              /\ n.config.form = "object"
              /\ \E d, c : MatchesFilters(n.config, [did |-> d, collection |-> c]) = "error"
<1>1. PICK d \in Seen(form), c \in Seen(form) :
          result \in CASE FilterBy(n, d, c) = "match" -> ByBoolean(n.payload, form)
                       [] FilterBy(n, d, c) = "no" -> {Ends("stop")}
                       [] OTHER -> {Ends("form")}
  BY DEF EvaluateJetstream
<1>2. CASE FilterBy(n, d, c) \in {"match", "no"}
  BY <1>1, <1>2
<1>3. CASE FilterBy(n, d, c) \notin {"match", "no"}
  <2>1. /\ n.config.form = "object"
        /\ FilterBy(n, d, c) = MatchesFilters(n.config, [did |-> d, collection |-> c])
    BY <1>3 DEF FilterBy
  <2>2. \A e : MatchesFilters(n.config, e) \in {"match", "no", "error"}
    BY DEF MatchesFilters, FilterResult
  <2>3. MatchesFilters(n.config, [did |-> d, collection |-> c]) = "error"
    BY <1>3, <2>1, <2>2
  <2>4. result = Ends("form")
    BY <1>1, <1>3
  <2> QED BY <2>1, <2>3, <2>4
<1> QED BY <1>2, <1>3

LEMMA EachEvaluator ==
    ASSUME NEW n, NEW form, NEW result \in EvaluateNodeOf(n, form)
    PROVE  /\ ResultFits(form, result)
           /\ result.kind = "form" /\ AcceptedNode(n) => Unchecked(n)
<1> USE DEF EvaluateNodeOf
<1>0. /\ AcceptedNode(n) => n.type \in NodeTypes
      /\ AcceptedNode(n) => ValidNodePayload(n.type, n.payload)
      /\ AcceptedNode(n) => ValidNodeConfig(n.type, n.config)
  BY DEF AcceptedNode
<1>1. CASE n.type = "jetstream_entry"
  <2>1. result \in EvaluateJetstream(n, form)
    BY <1>1
  <2>2. CASE result \in ByBoolean(n.payload, form)
    BY <1>0, <1>1, <2>2, BooleanResults DEF ValidNodePayload, EntryTypes
  <2>3. CASE result = Ends("stop")
    BY <2>3 DEF Ends, ResultFits, Kinds
  <2>4. CASE /\ result = Ends("form")
             /\ n.config.form = "object"
             /\ \E d, c : MatchesFilters(n.config, [did |-> d, collection |-> c]) = "error"
    <3>1. n.config.did.form = "other" \/ n.config.collection.form = "other"
      BY <2>4 DEF MatchesFilters, FilterResult
    <3>2. ~ValidJetstreamConfig(n.config, GoodDids, GoodCollections)
      BY <3>1 DEF ValidJetstreamConfig, ValidFilter
    <3>3. ~AcceptedNode(n)
      BY <1>0, <1>1, <2>4, <3>2 DEF ValidNodeConfig
    <3> QED BY <2>4, <3>3 DEF Ends, ResultFits, Kinds
  <2> QED BY <2>1, <2>2, <2>3, <2>4, JetstreamResults
<1>2. CASE n.type \in {"webhook_entry", "zap_entry", "condition"}
  <2>1. result \in ByBoolean(n.payload, form)
    BY <1>2 DEF EvaluateWebhookEntry, EvaluateZapEntry, EvaluateCondition
  <2> QED BY <1>0, <1>2, <2>1, BooleanResults DEF ValidNodePayload, EntryTypes
<1>3. CASE n.type = "periodic_entry"
  <2>1. result \in EvaluatePeriodic(n, form)
    BY <1>3
  <2>2. CASE n.config.form = "object" /\ n.config.cron = "fits"
    <3>1. result \in ByBoolean(n.payload, form)
      BY <2>1, <2>2 DEF EvaluatePeriodic
    <3> QED BY <1>0, <1>3, <3>1, BooleanResults DEF ValidNodePayload, EntryTypes
  <2>3. CASE ~(n.config.form = "object" /\ n.config.cron = "fits")
    BY <1>3, <2>1, <2>3 DEF EvaluatePeriodic, Ends, ResultFits, Kinds, Unchecked
  <2> QED BY <2>2, <2>3
<1>4. CASE n.type = "transform"
  <2>1. result \in EvaluateTransform(n, form)
    BY <1>4
  <2>2. CASE n.payload.form = "object"
    BY <2>1, <2>2 DEF EvaluateTransform, Pass, Ends, ResultFits, Kinds
  <2>3. CASE n.payload.form = "array" /\ n.payload.elements = "objects"
    BY <2>1, <2>3 DEF EvaluateTransform, Pass, Ends, ResultFits, Kinds
  <2>4. CASE ~(n.payload.form = "object")
             /\ ~(n.payload.form = "array" /\ n.payload.elements = "objects")
    <3>1. result = Ends("form")
      BY <2>1, <2>4 DEF EvaluateTransform
    <3>2. ~AcceptedNode(n)
      BY <1>0, <1>4, <2>4 DEF ValidNodePayload, EntryTypes
    <3> QED BY <3>1, <3>2 DEF Ends, ResultFits, Kinds
  <2> QED BY <2>2, <2>3, <2>4
<1>5. CASE n.type \in {"parse_aturi", "facet_text", "get_record", "sentiment_analysis"}
  <2>1. \E results : /\ result \in WithText(n, form, results)
                     /\ \A r \in results : ResultFits(form, r) /\ r.kind # "form"
    <3>1. CASE n.type = "parse_aturi"
      <4>1. result \in WithText(n, form, {SetField(form), Ends("data")})
        BY <3>1 DEF EvaluateParseAturi
      <4>2. ResultFits(form, Ends("data")) /\ Ends("data").kind # "form"
        BY DEF Ends, ResultFits, Kinds
      <4> QED BY <4>1, <4>2, SetFieldFits
    <3>2. CASE n.type = "facet_text"
      <4>1. result \in WithText(n, form, {SetField(form)})
        BY <3>2 DEF EvaluateFacetText
      <4> QED BY <4>1, SetFieldFits
    <3>3. /\ ResultFits(form, Pass("object")) /\ Pass("object").kind # "form"
          /\ ResultFits(form, Ends("external")) /\ Ends("external").kind # "form"
          /\ ResultFits(form, Ends("data")) /\ Ends("data").kind # "form"
      BY DEF Pass, Ends, ResultFits, Kinds
    <3>4. CASE n.type = "get_record"
      <4>1. result \in WithText(n, form, {Pass("object"), Ends("external"), Ends("data")})
        BY <3>4 DEF EvaluateGetRecord
      <4> QED BY <4>1, <3>3
    <3>5. CASE n.type = "sentiment_analysis"
      <4>1. result \in WithText(n, form, {Pass("object"), Ends("external")})
        BY <3>5 DEF EvaluateSentiment
      <4> QED BY <4>1, <3>3
    <3> QED BY <1>5, <3>1, <3>2, <3>4, <3>5
  <2>2. /\ ResultFits(form, result)
        /\ result.kind = "form" => n.payload.form \notin {"string", "object"}
    BY <2>1, TextResults
  <2>3. AcceptedNode(n) /\ n.payload.form \notin {"string", "object"} => Unchecked(n)
    BY <1>0, <1>5 DEF ValidNodePayload, Unchecked, EntryTypes
  <2> QED BY <2>2, <2>3
<1>6. CASE n.type = "publish_record"
  <2>1. result \in EvaluatePublishRecord(n, form)
    BY <1>6
  <2>2. PICK data \in PayloadData(n.payload, form) :
            result \in CASE data \in {"object", "string"} ->
                              {Pass(form), Ends("data"), Ends("external")}
                         [] data = "form" -> {Ends("form")}
                         [] OTHER -> {Ends("data")}
    BY <2>1 DEF EvaluatePublishRecord
  <2>3. data = "form" => n.payload.form \notin {"string", "object"}
    BY DEF PayloadData, FieldOf, Template, JsonForm
  <2>4. AcceptedNode(n) => n.payload.form \in {"string", "object"}
    BY <1>0, <1>6 DEF ValidNodePayload, EntryTypes
  <2> QED BY <2>2, <2>3, <2>4 DEF Pass, Ends, ResultFits, Kinds
<1>7. CASE n.type = "publish_webhook"
  <2>1. result \in EvaluatePublishWebhook(n, form)
    BY <1>7
  <2>2. AcceptedNode(n) => /\ n.payload.form \in {"string", "object"}
                           /\ n.config.form = "object" /\ n.config.url = "https"
                           /\ n.config.headers # "other"
    BY <1>0, <1>7 DEF ValidNodePayload, ValidNodeConfig, ValidPublishWebhookConfig, EntryTypes
  <2>3. CASE n.config.form # "object" \/ n.config.url # "https" \/ n.config.headers = "other"
    BY <2>1, <2>2, <2>3 DEF EvaluatePublishWebhook, Ends, ResultFits, Kinds
  <2>4. CASE ~(n.config.form # "object" \/ n.config.url # "https" \/ n.config.headers = "other")
    <3>1. PICK data \in PayloadData(n.payload, form) :
            result \in CASE data = "form" -> {Ends("form")}
                         [] data = "none" -> {Ends("data")}
                         [] OTHER -> IF HeadersFit(n.config)
                                     THEN {Pass(form), Ends("external")}
                                     ELSE {Ends("form")}
      BY <2>1, <2>4 DEF EvaluatePublishWebhook
    <3>2. data = "form" => n.payload.form \notin {"string", "object"}
      BY DEF PayloadData, FieldOf, Template, JsonForm
    <3> QED BY <1>7, <2>2, <3>1, <3>2 DEF Pass, Ends, ResultFits, Kinds, Unchecked
  <2> QED BY <2>3, <2>4
<1>8. CASE n.type = "debug_action"
  BY <1>8 DEF Pass, ResultFits, Kinds
<1>9. CASE n.type \notin NodeTypes
  BY <1>0, <1>9 DEF Ends, ResultFits, Kinds, NodeTypes, EntryTypes, ActionTypes
<1> QED BY <1>1, <1>2, <1>3, <1>4, <1>5, <1>6, <1>7, <1>8, <1>9
        DEF NodeTypes, EntryTypes, ActionTypes

EvaluatorInv ==
    /\ verdict \in Kinds
    /\ started = "object" /\ verdict = "pass" => datum = "object"
    /\ started = "null" /\ verdict = "pass" => datum \in {"null", "object"}
    /\ verdict = "panic" => started \notin {"object", "null"}
    /\ verdict = "form" /\ AcceptedNode(evaluated) => Unchecked(evaluated)

LEMMA EvaluatorStep == EvaluatorInv /\ [EvaluatorNext]_evaluatorVars => EvaluatorInv'
<1> SUFFICES ASSUME EvaluatorInv, [EvaluatorNext]_evaluatorVars PROVE EvaluatorInv'
  OBVIOUS
<1>1. CASE EvaluatorNext
  <2>1. PICK n \in CheckedNode : EvaluateNext(n) \/ EvaluateAlone(n)
    BY <1>1 DEF EvaluatorNext
  <2>2. /\ verdict = "pass" /\ evaluated' = n /\ started' = started
        /\ \E result \in EvaluateNodeOf(n, datum) :
              datum' = result.out /\ verdict' = result.kind
    BY <2>1 DEF EvaluateNext, EvaluateAlone
  <2>3. PICK result \in EvaluateNodeOf(n, datum) :
            datum' = result.out /\ verdict' = result.kind
    BY <2>2
  <2>4. /\ ResultFits(datum, result)
        /\ result.kind = "form" /\ AcceptedNode(n) => Unchecked(n)
    BY EachEvaluator
  <2>5. AcceptedNode(evaluated)' <=> AcceptedNode(n)
    BY <2>2 DEF AcceptedNode, ValidNodeConfig, ValidNodePayload,
       ValidPublishRecordConfig, ValidPublishWebhookConfig
  <2>6. Unchecked(evaluated)' <=> Unchecked(n)
    BY <2>2 DEF Unchecked, HeadersFit
  <2> QED BY <2>2, <2>3, <2>4, <2>5, <2>6 DEF EvaluatorInv, ResultFits
<1>2. CASE UNCHANGED evaluatorVars
  BY <1>2 DEF evaluatorVars, EvaluatorInv, AcceptedNode, Unchecked
<1> QED BY <1>1, <1>2

\* The invariant of an evaluation: an object stays one, and null stays null or
\* becomes an object, whatever the nodes (src/engine/).
THEOREM EvaluatorsCorrect == EvaluatorSpec => []EvaluatorInv
<1>1. EvaluatorInit => EvaluatorInv
  BY DEF EvaluatorInit, EvaluatorInv, Kinds
<1> QED BY <1>1, EvaluatorStep, PTL DEF EvaluatorSpec

\* For any nodes, and any spelling of their filters: what the Validator accepts
\* (src/validation.rs) its evaluator can work with, with the three exceptions.
THEOREM AcceptedAlwaysFit == EvaluatorSpec => []AcceptedNodesFit
<1>1. EvaluatorInv => AcceptedNodesFit
  BY DEF EvaluatorInv, AcceptedNodesFit, Unchecked
<1> QED BY <1>1, EvaluatorsCorrect, PTL

\* For chains of nodes of any length: a value that was an object or null makes no
\* evaluator panic (src/engine/node_type_parse_aturi.rs, node_type_facet_text.rs).
THEOREM ObjectsAreSafe == EvaluatorSpec => []ObjectsNeverPanic
<1>1. EvaluatorInv => ObjectsNeverPanic
  BY DEF EvaluatorInv, ObjectsNeverPanic
<1> QED BY <1>1, EvaluatorsCorrect, PTL

------------------------------------------------------------------------------
(* The start of the service.                                                *)

\* What main() has behind it when it is at a stage, from the last to the first.
ResultsMade == {"tasks", "signals", "jetstream", "http", "serving"}
ThrottlerMade == ResultsMade \cup {"results"}
QueueMade == ThrottlerMade \cup {"throttler"}
SchedulerElected == QueueMade \cup {"queue", "tokens"}
BlueprintElected == SchedulerElected \cup {"scheduler election"}
WebhookElected == BlueprintElected \cup {"blueprint election", "webhooks"}
DenylistMade == WebhookElected \cup {"webhook election", "identity"}
PoolMade == DenylistMade \cup {"denylist", "database"}
ConfigRead == PoolMade \cup {"redis", "scopes"}

WantsElection(s) == settings.leadership[s].enabled /\ settings.redisUrl = "sound"

WiredWith(config) ==
    [pool : BOOLEAN, denies : BOOLEAN, elections : SUBSET ScopeNames,
     webhooks : {"none", "queue", "direct"}, queue : {"none", config.queueAdapter},
     throttler : {"none", "noop", config.throttler}, results : {"none", config.results},
     cursor : {"none", "redis", "file"}]

StartupTyped ==
    /\ environment \in Environment
    /\ stage \in ConfigRead \cup {"config", Exited}
    /\ wired \in WiredWith(settings)
    /\ tasks \in SUBSET Tasks
    /\ cancelled \in BOOLEAN /\ closed \in BOOLEAN
    /\ ended \in SUBSET {"error", "panic"}

WiredSoFar ==
    /\ stage \in ConfigRead => Accepted(environment)
    /\ stage \in PoolMade => wired.pool = (settings.redisUrl = "sound")
    /\ stage \in DenylistMade => wired.denies = (settings.denylist = "postgres")
    /\ \A s \in wired.elections : WantsElection(s)
    /\ stage \in WebhookElected /\ WantsElection("webhook") => "webhook" \in wired.elections
    /\ stage \in BlueprintElected /\ WantsElection("blueprint") =>
          "blueprint" \in wired.elections
    /\ stage \in SchedulerElected /\ WantsElection("scheduler") =>
          "scheduler" \in wired.elections
    /\ stage \in QueueMade => /\ wired.queue = settings.queueAdapter
                              /\ settings.queueAdapter = "redis" => wired.pool
    /\ stage \in ThrottlerMade =>
          wired.throttler = IF wired.pool THEN settings.throttler ELSE "noop"
    /\ stage \in ResultsMade => wired.results = settings.results

StartupInv == StartupTyped /\ WiredSoFar

\* What Config::new has accepted, main() does not choke on.
LEMMA AcceptedIsEnough ==
    ASSUME environment \in Environment, Accepted(environment)
    PROVE  /\ settings.identityCacheSize > 0
           /\ settings.webhookQueueSize > 0
           /\ settings.queueBuffer > 0
           /\ settings.throttler = "redis-per-identity" => DefaultsAreThere
           /\ settings.results = "filesystem" => settings.resultsDirectory
           /\ settings.queueAdapter \in {"mpsc", "redis"}
<1>1. /\ environment.identityCacheSize \in Raw
      /\ environment.webhookQueueSize \in Raw
      /\ environment.queueBuffer \in Raw
  BY StartupAssumption
<1>2. /\ settings.identityCacheSize = OrElse(environment.identityCacheSize, 1000, 0)
      /\ settings.webhookQueueSize = OrElse(environment.webhookQueueSize, 500, 10)
      /\ settings.queueBuffer = OrElse(environment.queueBuffer, 1000, 100)
      /\ settings.throttler = Chosen(environment.throttler, "noop")
      /\ settings.defaults = <<environment.authorityDefault, environment.aturiDefault>>
      /\ settings.results = Chosen(environment.results, "tracing")
      /\ settings.resultsDirectory = environment.resultsDirectory
      /\ settings.queueAdapter = Chosen(environment.queueAdapter, "mpsc")
  BY DEF settings, ConfigOf
<1>3. /\ Positive(environment.identityCacheSize)
      /\ ValidBackends(environment)
      /\ ValidThrottler(environment)
  BY DEF Accepted
<1>4. OrElse(environment.identityCacheSize, 1000, 0) > 0
  BY <1>1, <1>3 DEF Positive, OrElse, Raw
<1>5. /\ OrElse(environment.webhookQueueSize, 500, 10) > 0
      /\ OrElse(environment.queueBuffer, 1000, 100) > 0
  BY <1>1 DEF OrElse, Raw
<1>6. settings.throttler = "redis-per-identity" => DefaultsAreThere
  <2> SUFFICES ASSUME settings.throttler = "redis-per-identity"
               PROVE  DefaultsAreThere
    OBVIOUS
  <2>1. environment.throttler = "redis-per-identity"
    BY <1>2 DEF Chosen
  <2>2. \A pair \in {environment.authorityDefault, environment.aturiDefault} :
            AboveZero(pair.limit) /\ AboveZero(pair.window)
    BY <1>3, <2>1 DEF ValidThrottler
  <2>3. \A k \in DOMAIN settings.defaults :
            settings.defaults[k] \in {environment.authorityDefault, environment.aturiDefault}
    BY <1>2
  <2> QED BY <2>2, <2>3 DEF DefaultsAreThere, IsGiven, AboveZero
<1>7. /\ settings.results = "filesystem" => settings.resultsDirectory
      /\ settings.queueAdapter \in {"mpsc", "redis"}
  BY <1>2, <1>3 DEF ValidBackends, Chosen
<1> QED BY <1>2, <1>4, <1>5, <1>6, <1>7

LEMMA StartupInitInv == StartupInit => StartupInv
<1> SUFFICES ASSUME StartupInit PROVE StartupInv
  OBVIOUS
<1>1. StartupTyped
  BY DEF StartupInit, StartupTyped, Nothing, WiredWith
<1>2. WiredSoFar
  BY DEF StartupInit, WiredSoFar, Nothing, ConfigRead, PoolMade, DenylistMade,
         WebhookElected, BlueprintElected, SchedulerElected, QueueMade, ThrottlerMade,
         ResultsMade
<1> QED BY <1>1, <1>2 DEF StartupInv

\* The end of the process, whatever it has put together.
LEMMA AfterTheEnd ==
    ASSUME StartupInv, Stop(Exited)
    PROVE  StartupInv'
<1>1. /\ stage' = Exited /\ tasks' = {} /\ wired' = wired /\ environment' = environment
      /\ cancelled' = cancelled /\ closed' = closed /\ ended' = ended /\ settings' = settings
  BY DEF Stop, settings
<1>2. stage' \notin ConfigRead
  BY <1>1 DEF Exited, ConfigRead, PoolMade, DenylistMade, WebhookElected,
              BlueprintElected, SchedulerElected, QueueMade, ThrottlerMade, ResultsMade
<1>3. StartupTyped'
  BY <1>1 DEF StartupInv, StartupTyped
<1>4. WiredSoFar'
  BY <1>1, <1>2 DEF StartupInv, WiredSoFar, WantsElection, ConfigRead, PoolMade,
         DenylistMade, WebhookElected, BlueprintElected, SchedulerElected, QueueMade,
         ThrottlerMade
<1> QED BY <1>3, <1>4 DEF StartupInv

\* An election adds its scope, if it is to be held and there is a pool.
LEMMA ElectWires ==
    ASSUME NEW scope \in ScopeNames, NEW from \in Tasks, NEW to, Elect(scope, from, to),
           NEW config, wired \in WiredWith(config)
    PROVE  /\ stage = from /\ stage' = to
           /\ environment' = environment /\ closed' = closed /\ ended' = ended
           /\ cancelled' = cancelled /\ tasks' \subseteq tasks \cup Tasks
           /\ wired' \in WiredWith(config)
           /\ wired'.pool = wired.pool /\ wired'.denies = wired.denies
           /\ wired'.queue = wired.queue
           /\ wired'.elections = IF Elects(scope) THEN wired.elections \cup {scope}
                                ELSE wired.elections
<1>1. CASE Elects(scope)
  <2>1. wired' = [wired EXCEPT !.elections = @ \cup {scope}]
    BY <1>1 DEF Elect
  <2>2. /\ wired' \in WiredWith(config)
        /\ wired'.pool = wired.pool /\ wired'.denies = wired.denies
        /\ wired'.queue = wired.queue
        /\ wired'.elections = wired.elections \cup {scope}
    BY <2>1 DEF WiredWith
  <2> QED BY <1>1, <2>2 DEF Elect, GoOn, Spawn
<1>2. CASE ~Elects(scope)
  BY <1>2 DEF Elect, GoOn, SpawnNothing
<1> QED BY <1>1, <1>2

LEMMA StartupStep == StartupInv /\ [StartupNext]_startupVars => StartupInv'
<1> SUFFICES ASSUME StartupInv, [StartupNext]_startupVars PROVE StartupInv'
  OBVIOUS
<1> USE DEF StartupInv
<1>0. environment' = environment /\ settings' = settings
  BY DEF StartupNext, MainStep, ReadConfig, CheckScopes, CreatePool, ConnectDatabase,
         CreateDenyList, CreateResolver, Elect, StartWebhooks, InitTokens, CreateQueue,
         CreateThrottler, CreateResults, StartTasks, ListenForSignals, StartJetstream,
         StartHttp, MainEnds, Signal, Close, TaskFails, TaskPanics, TaskStops, Unwrap,
         GoOn, Stop, settings, startupVars
<1> USE <1>0 DEF WantsElection, ConfigRead, PoolMade, DenylistMade,
       WebhookElected, BlueprintElected, SchedulerElected, QueueMade, ThrottlerMade,
       ResultsMade
<1>1. CASE ReadConfig
  <2>1. CASE Stop(Exited)
    BY <2>1, AfterTheEnd
  <2>2. CASE /\ Accepted(environment) /\ GoOn("config", "scopes")
             /\ UNCHANGED wired /\ SpawnNothing
    <3>1. Accepted(environment)'
      BY <2>2 DEF Accepted
    <3> QED BY <2>2, <3>1 DEF GoOn, SpawnNothing, StartupTyped, WiredSoFar
  <2> QED BY <1>1, <2>1, <2>2 DEF ReadConfig
<1>2. Accepted(environment)' <=> Accepted(environment)
  OBVIOUS
<1>a. /\ wired \in WiredWith(settings)
      /\ wired = [wired EXCEPT !.pool = wired.pool]
      /\ DOMAIN wired = {"pool", "denies", "elections", "webhooks", "queue", "throttler",
                         "results", "cursor"}
  BY DEF StartupTyped, WiredWith
<1>3. CASE CheckScopes
  <2>1. CASE Stop(Exited)
    BY <2>1, AfterTheEnd
  <2>2. CASE GoOn("scopes", "redis") /\ UNCHANGED wired /\ SpawnNothing
    <3>1. StartupTyped'
      BY <1>2, <2>2 DEF GoOn, SpawnNothing, StartupTyped
    <3>2. WiredSoFar'
      BY <1>a, <1>2, <2>2 DEF GoOn, SpawnNothing, WiredSoFar
    <3> QED BY <3>1, <3>2
  <2> QED BY <1>3, <2>1, <2>2 DEF CheckScopes
<1>4. CASE CreatePool
  <2>1. StartupTyped'
    BY <1>2, <1>4 DEF CreatePool, GoOn, SpawnNothing, StartupTyped, WiredWith
  <2>2. WiredSoFar'
    BY <1>a, <1>2, <1>4 DEF CreatePool, GoOn, SpawnNothing, WiredSoFar, WiredWith
  <2> QED BY <2>1, <2>2
<1>5. CASE ConnectDatabase
  <2>1. CASE Stop(Exited)
    BY <2>1, AfterTheEnd
  <2>2. CASE GoOn("database", "denylist") /\ UNCHANGED wired /\ SpawnNothing
    <3>1. StartupTyped'
      BY <1>2, <2>2 DEF GoOn, SpawnNothing, StartupTyped
    <3>2. WiredSoFar'
      BY <1>a, <1>2, <2>2 DEF GoOn, SpawnNothing, WiredSoFar
    <3> QED BY <3>1, <3>2
  <2> QED BY <1>5, <2>1, <2>2 DEF ConnectDatabase
<1>6. CASE CreateDenyList
  <2>1. StartupTyped'
    BY <1>2, <1>6 DEF CreateDenyList, GoOn, SpawnNothing, StartupTyped, WiredWith
  <2>2. WiredSoFar'
    BY <1>a, <1>2, <1>6 DEF CreateDenyList, GoOn, SpawnNothing, WiredSoFar, WiredWith
  <2> QED BY <2>1, <2>2
<1>7. CASE CreateResolver
  <2>1. stage = "identity"
    BY <1>7 DEF CreateResolver, Unwrap, GoOn
  <2>2. settings.identityCacheSize > 0
    BY <2>1, AcceptedIsEnough DEF StartupTyped, WiredSoFar
  <2>3. GoOn("identity", "webhook election") /\ UNCHANGED wired /\ SpawnNothing
    BY <1>7, <2>2 DEF CreateResolver, Unwrap
  <2>8. StartupTyped'
    BY <1>2, <2>3 DEF GoOn, SpawnNothing, StartupTyped
  <2>9. WiredSoFar'
    BY <1>a, <1>2, <2>3 DEF GoOn, SpawnNothing, WiredSoFar
  <2> QED BY <2>8, <2>9
<1>8. CASE Elect("webhook", "webhook election", "webhooks")
  <2>1. /\ stage = "webhook election" /\ stage' = "webhooks"
        /\ closed' = closed /\ ended' = ended
        /\ cancelled' = cancelled /\ tasks' \subseteq tasks \cup Tasks
        /\ wired' \in WiredWith(settings)
        /\ wired'.pool = wired.pool /\ wired'.denies = wired.denies
        /\ wired'.queue = wired.queue
        /\ wired'.elections = IF Elects("webhook") THEN wired.elections \cup {"webhook"}
                              ELSE wired.elections
    <3>1. "webhook" \in ScopeNames /\ "webhook election" \in Tasks
      BY DEF ScopeNames, Tasks
    <3> QED BY <1>8, <1>a, <3>1, ElectWires
  <2>2. StartupTyped'
    BY <2>1 DEF StartupTyped
  <2>3. WiredSoFar'
    BY <1>2, <2>1 DEF Elects, WiredSoFar
  <2> QED BY <2>2, <2>3
<1>9. CASE StartWebhooks
  <2>1. stage = "webhooks"
    BY <1>9 DEF StartWebhooks, Unwrap, GoOn
  <2>2. settings.webhookQueueSize > 0
    BY <2>1, AcceptedIsEnough DEF StartupTyped, WiredSoFar
  <2>3. GoOn("webhooks", "blueprint election")
    BY <1>9, <2>2 DEF StartWebhooks, Unwrap
  <2>8. StartupTyped'
    BY <1>2, <1>9, <2>3 DEF StartWebhooks, GoOn, Spawn, Tasks, StartupTyped, WiredWith
  <2>9. WiredSoFar'
    BY <1>a, <1>2, <1>9, <2>3 DEF StartWebhooks, GoOn, Spawn, Tasks, WiredSoFar, WiredWith
  <2> QED BY <2>8, <2>9
<1>10. CASE Elect("blueprint", "blueprint election", "scheduler election")
  <2>1. /\ stage = "blueprint election" /\ stage' = "scheduler election"
        /\ closed' = closed /\ ended' = ended
        /\ cancelled' = cancelled /\ tasks' \subseteq tasks \cup Tasks
        /\ wired' \in WiredWith(settings)
        /\ wired'.pool = wired.pool /\ wired'.denies = wired.denies
        /\ wired'.queue = wired.queue
        /\ wired'.elections = IF Elects("blueprint") THEN wired.elections \cup {"blueprint"}
                              ELSE wired.elections
    <3>1. "blueprint" \in ScopeNames /\ "blueprint election" \in Tasks
      BY DEF ScopeNames, Tasks
    <3> QED BY <1>10, <1>a, <3>1, ElectWires
  <2>2. StartupTyped'
    BY <2>1 DEF StartupTyped
  <2>3. WiredSoFar'
    BY <1>2, <2>1 DEF Elects, WiredSoFar
  <2> QED BY <2>2, <2>3
<1>11. CASE Elect("scheduler", "scheduler election", "tokens")
  <2>1. /\ stage = "scheduler election" /\ stage' = "tokens"
        /\ closed' = closed /\ ended' = ended
        /\ cancelled' = cancelled /\ tasks' \subseteq tasks \cup Tasks
        /\ wired' \in WiredWith(settings)
        /\ wired'.pool = wired.pool /\ wired'.denies = wired.denies
        /\ wired'.queue = wired.queue
        /\ wired'.elections = IF Elects("scheduler") THEN wired.elections \cup {"scheduler"}
                              ELSE wired.elections
    <3>1. "scheduler" \in ScopeNames /\ "scheduler election" \in Tasks
      BY DEF ScopeNames, Tasks
    <3> QED BY <1>11, <1>a, <3>1, ElectWires
  <2>2. StartupTyped'
    BY <2>1 DEF StartupTyped
  <2>3. WiredSoFar'
    BY <1>2, <2>1 DEF Elects, WiredSoFar
  <2> QED BY <2>2, <2>3
<1>12. CASE InitTokens
  <2>1. CASE Stop(Exited)
    BY <2>1, AfterTheEnd
  <2>2. CASE GoOn("tokens", "queue") /\ UNCHANGED wired /\ SpawnNothing
    <3>1. StartupTyped'
      BY <1>2, <2>2 DEF GoOn, SpawnNothing, StartupTyped
    <3>2. WiredSoFar'
      BY <1>a, <1>2, <2>2 DEF GoOn, SpawnNothing, WiredSoFar
    <3> QED BY <3>1, <3>2
  <2> QED BY <1>12, <2>1, <2>2 DEF InitTokens
<1>13. CASE CreateQueue
  <2>1. CASE Stop(Exited)
    BY <2>1, AfterTheEnd
  <2>2. CASE ~Stop(Exited)
    <3>1. stage = "queue"
      BY <1>13, <2>2 DEF CreateQueue, Unwrap, GoOn
    <3>2. settings.queueBuffer > 0
      BY <3>1, AcceptedIsEnough DEF StartupTyped, WiredSoFar
    <3>3. /\ settings.queueAdapter = "redis" => wired.pool
          /\ GoOn("queue", "throttler") /\ SpawnNothing
          /\ wired' = [wired EXCEPT !.queue = settings.queueAdapter]
      BY <1>13, <2>2, <3>2 DEF CreateQueue, Unwrap
    <3>8. StartupTyped'
      BY <1>2, <3>3 DEF GoOn, SpawnNothing, StartupTyped, WiredWith
    <3>9. WiredSoFar'
      BY <1>a, <1>2, <3>3 DEF GoOn, SpawnNothing, WiredSoFar, WiredWith
    <3> QED BY <3>8, <3>9
  <2> QED BY <2>1, <2>2
<1>14. CASE CreateThrottler
  <2>1. stage = "throttler"
    BY <1>14 DEF CreateThrottler, Unwrap, GoOn
  <2>2. settings.throttler = "redis-per-identity" => DefaultsAreThere
    BY <2>1, AcceptedIsEnough DEF StartupTyped, WiredSoFar
  <2>3. GoOn("throttler", "results")
    BY <1>14, <2>2 DEF CreateThrottler, Unwrap
  <2>8. StartupTyped'
    BY <1>2, <1>14, <2>3 DEF CreateThrottler, GoOn, SpawnNothing, StartupTyped, WiredWith
  <2>9. WiredSoFar'
    BY <1>a, <1>2, <1>14, <2>3 DEF CreateThrottler, GoOn, SpawnNothing, WiredSoFar, WiredWith
  <2> QED BY <2>8, <2>9
<1>15. CASE CreateResults
  <2>1. stage = "results"
    BY <1>15 DEF CreateResults, Unwrap, GoOn
  <2>2. settings.results = "filesystem" => settings.resultsDirectory
    BY <2>1, AcceptedIsEnough DEF StartupTyped, WiredSoFar
  <2>3. GoOn("results", "tasks")
    BY <1>15, <2>2 DEF CreateResults, Unwrap
  <2>8. StartupTyped'
    BY <1>2, <1>15, <2>3 DEF CreateResults, GoOn, SpawnNothing, StartupTyped, WiredWith
  <2>9. WiredSoFar'
    BY <1>a, <1>2, <1>15, <2>3 DEF CreateResults, GoOn, SpawnNothing, WiredSoFar, WiredWith
  <2> QED BY <2>8, <2>9
<1>16. CASE StartTasks
  <2>1. StartupTyped'
    BY <1>2, <1>16 DEF StartTasks, GoOn, Spawn, Tasks, StartupTyped
  <2>2. WiredSoFar'
    BY <1>a, <1>2, <1>16 DEF StartTasks, GoOn, Spawn, Tasks, WiredSoFar
  <2> QED BY <2>1, <2>2
<1>17. CASE ListenForSignals
  <2>1. StartupTyped'
    BY <1>2, <1>17 DEF ListenForSignals, GoOn, SpawnNothing, StartupTyped
  <2>2. WiredSoFar'
    BY <1>a, <1>2, <1>17 DEF ListenForSignals, GoOn, SpawnNothing, WiredSoFar
  <2> QED BY <2>1, <2>2
<1>18. CASE StartJetstream
  <2>1. StartupTyped'
    <3>1. CASE settings.jetstream
      <4>1. PICK kept \in {"redis", "file", "none"} :
                wired' = [wired EXCEPT !.cursor = kept]
        BY <1>18, <3>1 DEF StartJetstream
      <4>2. wired' \in WiredWith(settings)
        BY <1>a, <4>1 DEF WiredWith
      <4>3. /\ stage' = "http" /\ closed' = closed /\ ended' = ended /\ stage = "jetstream"
            /\ tasks' = tasks \cup {"reload", "processor", "jetstream"}
            /\ cancelled' = cancelled
        BY <1>18, <3>1 DEF StartJetstream, GoOn, Spawn
      <4> QED BY <4>2, <4>3 DEF StartupTyped, Tasks
    <3>2. CASE ~settings.jetstream
      BY <1>18, <3>2 DEF StartJetstream, GoOn, SpawnNothing, StartupTyped
    <3> QED BY <3>1, <3>2
  <2>2. WiredSoFar'
    BY <1>a, <1>2, <1>18 DEF StartJetstream, GoOn, Spawn, SpawnNothing, Tasks, WiredSoFar, WiredWith
  <2> QED BY <2>1, <2>2
<1>19. CASE StartHttp
  <2>1. StartupTyped'
    BY <1>2, <1>19 DEF StartHttp, GoOn, Spawn, Tasks, StartupTyped
  <2>2. WiredSoFar'
    BY <1>a, <1>2, <1>19 DEF StartHttp, GoOn, Spawn, Tasks, WiredSoFar
  <2> QED BY <2>1, <2>2
<1>20. CASE MainEnds
  BY <1>20, AfterTheEnd DEF MainEnds
<1>21. CASE Signal \/ Close
  <2>1. StartupTyped'
    BY <1>2, <1>21 DEF Signal, Close, StartupTyped
  <2>2. WiredSoFar'
    BY <1>a, <1>2, <1>21 DEF Signal, Close, WiredSoFar
  <2> QED BY <2>1, <2>2
<1>22. ASSUME NEW t \in Tasks, TaskFails(t) \/ TaskPanics(t) \/ TaskStops(t)
       PROVE  StartupInv'
  <2>1. StartupTyped'
    BY <1>2, <1>22 DEF TaskFails, TaskPanics, TaskStops, StartupTyped
  <2>2. WiredSoFar'
    BY <1>a, <1>2, <1>22 DEF TaskFails, TaskPanics, TaskStops, WiredSoFar
  <2> QED BY <2>1, <2>2
<1>23. CASE UNCHANGED startupVars
  <2>0. /\ stage' = stage /\ wired' = wired /\ tasks' = tasks
        /\ cancelled' = cancelled /\ closed' = closed /\ ended' = ended
    BY <1>23 DEF startupVars
  <2>1. StartupTyped'
    BY <2>0 DEF StartupTyped
  <2>2. WiredSoFar'
    BY <1>a, <1>2, <1>23 DEF startupVars, WiredSoFar
  <2> QED BY <2>1, <2>2
<1> QED
  BY <1>1, <1>3, <1>4, <1>5, <1>6, <1>7, <1>8, <1>9, <1>10, <1>11, <1>12, <1>13, <1>14,
     <1>15, <1>16, <1>17, <1>18, <1>19, <1>20, <1>21, <1>22, <1>23
     DEF StartupNext, MainStep

\* The invariant of the start: what main() has put together by each stage
\* (src/bin/ifthisthenat.rs).
THEOREM StartupCorrect == StartupSpec => []StartupInv
BY StartupInitInv, StartupStep, PTL DEF StartupSpec

\* In every environment: main() panics in none that Config::new accepts, and a
\* service that is up does what it was configured to (src/config.rs).
THEOREM AlwaysStartsAsConfigured == StartupSpec => []StartsAsConfigured
<1>1. StartupInv => StartsAsConfigured
  <2> SUFFICES ASSUME StartupInv PROVE StartsAsConfigured
    OBVIOUS
  <2> USE DEF StartupInv, WiredSoFar, WantsElection, ConfigRead, PoolMade,
         DenylistMade, WebhookElected, BlueprintElected, SchedulerElected, QueueMade,
         ThrottlerMade, ResultsMade
  <2>1. stage # Panicked
    BY DEF StartupTyped, Panicked, Exited
  <2>2. stage = "serving" => settings.queueAdapter \in {"mpsc", "redis"}
    BY AcceptedIsEnough DEF StartupTyped
  <2>3. stage = "serving" =>
            /\ wired.queue = settings.queueAdapter
            /\ wired.results = settings.results
            /\ wired.denies = (settings.denylist = "postgres")
            /\ wired.pool \/ settings.redisUrl # "sound"
            /\ wired.pool => wired.throttler = settings.throttler
    OBVIOUS
  <2>4. ASSUME stage = "serving", wired.pool, NEW s \in ScopeNames, settings.leadership[s].enabled
        PROVE  s \in wired.elections
    BY <2>4 DEF ScopeNames
  <2>5. ASSUME stage = "serving", ~wired.pool
        PROVE  wired.queue = "mpsc" /\ wired.elections = {}
    <3>1. settings.redisUrl # "sound"
      BY <2>5
    <3>2. wired.elections = {}
      BY <3>1
    <3> QED BY <2>2, <2>5, <3>2
  <2> QED BY <2>1, <2>3, <2>4, <2>5 DEF StartsAsConfigured
<1> QED BY <1>1, StartupCorrect, PTL

\* In every environment: when two elections of a process contend for one lease
\* (src/leadership.rs: from_env_for_scope).
THEOREM ScopesAlwaysElectApart == StartupSpec => []ScopesElectApart
<1>1. ScopesElectApart
  <2> SUFFICES ASSUME NEW s \in ScopeNames, NEW t \in ScopeNames, Contend(s, t)
               PROVE  /\ \/ KeyIsGiven(s) /\ KeyIsGiven(t)
                         \/ environment.scopes[s].key = DefaultElectionKey(t)
                         \/ environment.scopes[t].key = DefaultElectionKey(s)
                      /\ environment.allScopes.id = "absent"
                         \/ environment.scopes[s].id # "absent"
                         \/ environment.scopes[t].id # "absent"
    BY DEF ScopesElectApart
  <2>1. \A u \in ScopeNames : settings.leadership[u] = LeadershipOf(environment, u)
    BY DEF settings, ConfigOf
  <2>2. /\ LeadershipOf(environment, s).key = LeadershipOf(environment, t).key
        /\ LeadershipOf(environment, s).id # LeadershipOf(environment, t).id
        /\ s # t
    BY <2>1 DEF Contend
  <2> QED BY <2>2 DEF LeadershipOf, KeyIsGiven, DefaultElectionKey
<1> QED BY <1>1, PTL
------------------------------------------------------------------------------
(* Prototypes.                                                              *)

\* Every set of numbers that is not empty has a least one.
LEMMA Least ==
    ASSUME NEW S \in SUBSET Nat, S # {}
    PROVE  \E x \in S : \A y \in S : x <= y
<1> DEFINE R == {p \in Nat \X Nat : p[1] < p[2]}
<1>1. IsWellFoundedOn(R, Nat)
  BY NatLessThanWellFounded DEF OpToRel
<1>2. \A x, y \in Nat : <<y, x>> \in R <=> y < x
  OBVIOUS
<1> HIDE DEF R
<1>3. PICK x \in S : \A y \in S : ~(<<y, x>> \in R)
  BY <1>1, WFMin
<1>4. \A y \in S : x <= y
  <2> SUFFICES ASSUME NEW y \in S PROVE x <= y
    OBVIOUS
  <2>1. ~(<<y, x>> \in R) /\ x \in Nat /\ y \in Nat
    BY <1>3
  <2>2. ~(y < x)
    BY <1>2, <2>1
  <2> QED BY <2>1, <2>2
<1> QED BY <1>3, <1>4

\* The recursion of Replaced, over the first n places of an order.
Follows(g, n, text, order, given) ==
    g = [k \in 0..n |-> IF k = 0 THEN text ELSE ReplaceIn(g[k - 1], order[k], given)]

LEMMA ReplacedStepwise ==
    ASSUME NEW text, NEW given, NEW order, NEW n \in Nat
    PROVE  \E g : Follows(g, n, text, order, given)
<1> DEFINE Unentered == {m \in Nat : ~ \E g : Follows(g, m, text, order, given)}
<1> SUFFICES ASSUME Unentered # {} PROVE FALSE
  OBVIOUS
<1>1. PICK m \in Unentered : \A y \in Unentered : m <= y
  <2>1. Unentered \in SUBSET Nat
    OBVIOUS
  <2> HIDE DEF Unentered
  <2> QED BY <2>1, Least
<1>2. m \in Nat /\ ~ \E g : Follows(g, m, text, order, given)
  BY <1>1
<1>3. CASE m = 0
  <2>1. Follows([k \in 0..0 |-> text], 0, text, order, given)
    BY DEF Follows
  <2> QED BY <1>2, <1>3, <2>1
<1>4. CASE m # 0
  <2>1. m - 1 \in Nat /\ ~(m <= m - 1)
    BY <1>2, <1>4
  <2>2. m - 1 \notin Unentered
    BY <1>1, <2>1
  <2>3. PICK f : Follows(f, m - 1, text, order, given)
    BY <2>1, <2>2
  <2> DEFINE g == [k \in 0..m |-> IF k = m THEN ReplaceIn(f[m - 1], order[m], given) ELSE f[k]]
  <2>4. f = [k \in 0..(m - 1) |-> IF k = 0 THEN text ELSE ReplaceIn(f[k - 1], order[k], given)]
    BY <2>3 DEF Follows
  <2>5. \A k \in 0..m : g[k] = IF k = 0 THEN text ELSE ReplaceIn(g[k - 1], order[k], given)
    <3> SUFFICES ASSUME NEW k \in 0..m
                 PROVE  g[k] = IF k = 0 THEN text ELSE ReplaceIn(g[k - 1], order[k], given)
      OBVIOUS
    <3>1. CASE k = m
      <4>1. m - 1 \in 0..m /\ m - 1 # m
        BY <1>2, <1>4
      <4>2. g[m - 1] = f[m - 1]
        BY <4>1
      <4> QED BY <1>2, <1>4, <3>1, <4>2
    <3>2. CASE k # m
      <4>1. k \in 0..(m - 1)
        BY <1>2, <3>2
      <4>2. g[k] = f[k]
        BY <3>2
      <4>3. f[k] = IF k = 0 THEN text ELSE ReplaceIn(f[k - 1], order[k], given)
        BY <2>4, <4>1
      <4>4. k # 0 => k - 1 \in 0..m /\ k - 1 # m
        BY <1>2, <3>2
      <4>5. k # 0 => g[k - 1] = f[k - 1]
        BY <4>4
      <4> QED BY <4>2, <4>3, <4>5
    <3> QED BY <3>1, <3>2
  <2>6. g = [k \in 0..m |-> g[k]]
    OBVIOUS
  <2>7. g = [k \in 0..m |-> IF k = 0 THEN text ELSE ReplaceIn(g[k - 1], order[k], given)]
    <3> HIDE DEF g
    <3> QED BY <2>5, <2>6
  <2>8. Follows(g, m, text, order, given)
    <3> HIDE DEF g
    <3> QED BY <2>7 DEF Follows
  <2> HIDE DEF g
  <2> QED BY <1>2, <2>8
<1> QED BY <1>3, <1>4

\* The texts on the way from a node's text to what becomes of it.
Way(g, n, text, order, given) ==
    /\ g[0] = text
    /\ \A k \in 1..n : g[k] = ReplaceIn(g[k - 1], order[k], given)
    /\ Replaced(text, order, given) = g[n]

LEMMA ReplacedByFunction ==
    ASSUME NEW text, NEW given, NEW order, NEW n \in Nat, Len(order) = n
    PROVE  \E g : Way(g, n, text, order, given)
<1> DEFINE after == CHOOSE g : Follows(g, n, text, order, given)
<1>1. Follows(after, n, text, order, given)
  BY ReplacedStepwise
<1>2. Replaced(text, order, given) = after[n]
  BY DEF Replaced, Follows
<1> HIDE DEF after
<1>3. after = [k \in 0..n |->
                 IF k = 0 THEN text ELSE ReplaceIn(after[k - 1], order[k], given)]
  BY <1>1 DEF Follows
<1>4. after[0] = text /\ \A k \in 1..n : after[k] = ReplaceIn(after[k - 1], order[k], given)
  BY <1>3
<1> QED BY <1>2, <1>4 DEF Way

\* What is in a text in which all of S have been replaced was there, or comes from
\* a value; and of the references to S only those that a value has brought in.
LEMMA ReplacedTokens ==
    ASSUME NEW text, NEW given, NEW S, IsFiniteSet(S), NEW order \in Orders(S)
    PROVE  \A t \in Replaced(text, order, given) :
              /\ t \in text \/ \E d \in S : t \in ValueOf(d, given).text
              /\ \A d \in S : t = Reference(d.id) => \E e \in S : t \in ValueOf(e, given).text
<1> DEFINE n == Cardinality(S)
<1>1. /\ n \in Nat /\ order \in [1..n -> S] /\ Len(order) = n
      /\ \A d \in S : \E k \in 1..n : order[k] = d
  <2>1. n \in Nat
    BY FS_CardinalityType
  <2> HIDE DEF n
  <2>2. order \in [1..n -> S] /\ \A d \in S : \E k \in DOMAIN order : order[k] = d
    BY DEF Orders, n
  <2> QED BY <2>1, <2>2
<1> HIDE DEF n
<1>2. PICK g : Way(g, n, text, order, given)
  BY <1>1, ReplacedByFunction
<1>3. /\ g[0] = text
      /\ \A k \in 1..n : g[k] = ReplaceIn(g[k - 1], order[k], given)
      /\ Replaced(text, order, given) = g[n]
  BY <1>2 DEF Way
<1> SUFFICES ASSUME NEW t \in g[n]
             PROVE  /\ t \in text \/ \E d \in S : t \in ValueOf(d, given).text
                    /\ \A d \in S : t = Reference(d.id) =>
                          \E e \in S : t \in ValueOf(e, given).text
  BY <1>3
<1> DEFINE FromValue == \E d \in S : t \in ValueOf(d, given).text
\* The first place from which on t stays.
<1> DEFINE There == {k \in 0..n : \A j \in k..n : t \in g[j]}
<1>4. PICK k \in There : \A y \in There : k <= y
  <2>1. n \in There
    <3>1. n \in 0..n /\ \A j \in n..n : j = n
      BY <1>1
    <3> QED BY <3>1
  <2>2. There \in SUBSET Nat
    BY <1>1
  <2> HIDE DEF There
  <2> QED BY <2>1, <2>2, Least
<1>5. k \in 0..n /\ \A j \in k..n : t \in g[j]
  BY <1>4
<1>6. CASE k # 0
  <2>1. k \in 1..n /\ k - 1 \in 0..n /\ ~(k <= k - 1)
    BY <1>1, <1>5, <1>6
  <2>2. k - 1 \notin There
    <3> HIDE DEF There
    <3> QED BY <1>4, <2>1
  <2>3. t \notin g[k - 1]
    <3>1. \A j \in (k - 1)..n : j = k - 1 \/ j \in k..n
      BY <1>1, <2>1
    <3> QED BY <1>5, <2>1, <2>2, <3>1
  <2>4. t \in g[k]
    BY <1>1, <1>5, <2>1
  <2>5. g[k] = ReplaceIn(g[k - 1], order[k], given) /\ order[k] \in S
    BY <1>1, <1>3, <2>1
  <2>6. FromValue
    BY <2>3, <2>4, <2>5 DEF ReplaceIn
  <2> QED BY <2>6
<1>7. CASE k = 0
  <2>1. t \in text
    BY <1>1, <1>3, <1>5, <1>7
  <2>2. ASSUME NEW d \in S, t = Reference(d.id) PROVE FromValue
    <3>1. PICK j \in 1..n : order[j] = d
      BY <1>1
    <3>2. t \in g[j] /\ t \in g[j - 1]
      <4>1. j \in k..n /\ j - 1 \in k..n
        BY <1>1, <1>7, <3>1
      <4> QED BY <1>5, <4>1
    <3>3. g[j] = ReplaceIn(g[j - 1], d, given)
      BY <1>3, <3>1
    <3> QED BY <2>2, <3>2, <3>3 DEF ReplaceIn
  <2> QED BY <2>1, <2>2
<1> QED BY <1>6, <1>7

AskStep == {"idle", "check", "load", "row", "nodes", "done", "failed"}

RequestsTyped ==
    /\ DOMAIN asking = Requester /\ DOMAIN copy = Requester
    /\ \A r \in Requester : /\ DOMAIN asking[r] = {"step", "did", "given", "made"}
                            /\ asking[r].step \in AskStep
                            /\ DOMAIN copy[r] = {"exists", "order", "nodes"}
                            /\ copy[r].exists \in BOOLEAN

\* Once it is there, a prototype is one that has been validated.
PrototypeIsSound ==
    \/ prototype = NoPrototype
    \/ /\ prototype.owner # "nobody"
       /\ DOMAIN prototype = DOMAIN NoPrototype
       /\ IsList(prototype.nodes) /\ IsList(prototype.placeholders)
       /\ ValidPrototype(prototype)

\* The nodes a request has made of the prototype.
MadeSound(given, made) ==
    /\ prototype # NoPrototype
    /\ made = [k \in 1..Len(prototype.nodes) |-> made[k]]
    /\ \A k \in 1..Len(prototype.nodes) : \A t \in made[k].text :
          /\ t.kind = "reference" => LeftWithExcuse(t, given)
          /\ HasSource(t, k, given)

MadeIsSound(r) == MadeSound(asking[r].given, asking[r].made)

\* What is stored is the first of these nodes; in the end all, in order.
CopyIsSound(r) ==
    /\ copy[r].nodes = <<>> \/ MadeIsSound(r)
    /\ asking[r].step \in {"row", "nodes", "done"} => MadeIsSound(r)
    /\ Len(copy[r].nodes) \in Nat
    /\ copy[r].nodes = [k \in 1..Len(copy[r].nodes) |-> asking[r].made[k]]
    /\ copy[r].nodes = <<>> \/ Len(copy[r].nodes) <= Len(prototype.nodes)
    /\ asking[r].step \in {"idle", "check", "load", "row"} => copy[r].nodes = <<>>
    /\ asking[r].step # "done" => copy[r].order = <<>>
    /\ asking[r].step = "done" =>
          /\ Len(copy[r].nodes) = Len(prototype.nodes)
          /\ copy[r].order = [k \in 1..Len(prototype.nodes) |-> k]

PrototypeInv ==
    /\ RequestsTyped
    /\ PrototypeIsSound
    /\ \A r \in Requester : CopyIsSound(r)

LEMMA ListFacts ==
    ASSUME NEW list, IsList(list)
    PROVE  /\ Len(list) \in Nat /\ DOMAIN list = 1..Len(list)
           /\ list # <<>> => Len(list) > 0
BY DEF IsList

LEMMA FinitelyMany ==
    ASSUME NEW p, IsList(p.placeholders), NEW given
    PROVE  IsFiniteSet(Replaceable(p, given))
<1> DEFINE places == 1..Len(p.placeholders)
           f == [k \in places |-> p.placeholders[k]]
<1>1. Len(p.placeholders) \in Nat /\ DOMAIN p.placeholders = places
  BY ListFacts
<1>2. IsFiniteSet(places)
  <2>1. 1 \in Int /\ Len(p.placeholders) \in Int
    BY <1>1
  <2> QED BY <2>1, FS_Interval
<1>3. f \in Surjection(places, PlaceholdersOf(p))
  BY <1>1 DEF Surjection, PlaceholdersOf
<1>4. IsFiniteSet(PlaceholdersOf(p))
  <2> HIDE DEF f, places
  <2> QED BY <1>2, <1>3, FS_Surjection
<1>5. Replaceable(p, given) \in SUBSET PlaceholdersOf(p)
  BY DEF Replaceable
<1> QED BY <1>4, <1>5, FS_Subset

\* What instantiate makes of a prototype that has been validated, of values that
\* fit where they are required, and in whichever order.
LEMMA InstantiatedIsSound ==
    ASSUME PrototypeIsSound, prototype # NoPrototype, NEW given,
           RequiredFit(prototype, given),
           NEW order \in Orders(Replaceable(prototype, given)),
           NEW made, made = Instantiate(prototype, order, given)
    PROVE  MadeSound(given, made)
<1> DEFINE S == Replaceable(prototype, given)
<1>1. /\ DOMAIN prototype.nodes = 1..Len(prototype.nodes)
      /\ ValidPrototype(prototype) /\ IsFiniteSet(S)
  BY ListFacts, FinitelyMany DEF PrototypeIsSound
<1>2. made = [k \in 1..Len(prototype.nodes) |-> made[k]]
  BY <1>1 DEF Instantiate
<1> SUFFICES ASSUME NEW k \in 1..Len(prototype.nodes), NEW t \in made[k].text
             PROVE  /\ t.kind = "reference" => LeftWithExcuse(t, given)
                    /\ HasSource(t, k, given)
  BY <1>2 DEF MadeSound
<1>3. t \in Replaced(prototype.nodes[k].text, order, given)
  BY <1>1 DEF Instantiate
<1>4. /\ t \in prototype.nodes[k].text \/ \E d \in S : t \in ValueOf(d, given).text
      /\ \A d \in S : t = Reference(d.id) => \E e \in S : t \in ValueOf(e, given).text
  <2> HIDE DEF S
  <2>1. order \in Orders(S)
    BY DEF S
  <2> QED BY <1>1, <1>3, <2>1, ReplacedTokens
<1>5. \A d \in S : /\ d \in PlaceholdersOf(prototype) /\ HasValue(d, given)
                   /\ d.required => ValueOf(d, given).fits
  BY DEF Replaceable, RequiredFit
<1>6. HasSource(t, k, given)
  <2> HIDE DEF S
  <2> QED BY <1>4, <1>5 DEF HasSource, BroughtIn
<1>7. ASSUME t.kind = "reference" PROVE LeftWithExcuse(t, given)
  <2>1. CASE \E d \in S : t \in ValueOf(d, given).text
    <3> HIDE DEF S
    <3> QED BY <1>5, <2>1 DEF LeftWithExcuse, BroughtIn
  <2>2. CASE ~ \E d \in S : t \in ValueOf(d, given).text
    <3>1. t \in ReferencesIn(prototype.nodes[k].text)
      <4> HIDE DEF S
      <4> QED BY <1>4, <1>7, <2>2 DEF ReferencesIn
    <3>2. PICK d \in PlaceholdersOf(prototype) : t = Reference(d.id)
      BY <1>1, <3>1 DEF ValidPrototype
    <3>3. d \notin S
      <4> HIDE DEF S
      <4> QED BY <1>4, <2>2, <3>2
    <3>4. ~HasValue(d, given)
      BY <3>3 DEF Replaceable
    <3>5. ~d.required
      BY <3>4 DEF RequiredFit
    <3> QED BY <3>2, <3>4, <3>5 DEF LeftWithExcuse
  <2> QED BY <2>1, <2>2
<1> QED BY <1>6, <1>7

LEMMA PrototypeInitInv == PrototypeInit => PrototypeInv
<1> SUFFICES ASSUME PrototypeInit PROVE PrototypeInv
  OBVIOUS
<1>1. RequestsTyped /\ PrototypeIsSound
  BY DEF PrototypeInit, RequestsTyped, PrototypeIsSound, NotAsked, NoCopy, AskStep
<1>2. ASSUME NEW r \in Requester PROVE CopyIsSound(r)
  <2>1. /\ asking[r].step = "idle" /\ copy[r].nodes = <<>> /\ copy[r].order = <<>>
    BY DEF PrototypeInit, NotAsked, NoCopy
  <2> QED BY <2>1 DEF CopyIsSound
<1> QED BY <1>1, <1>2 DEF PrototypeInv

\* What has been made stays sound while the nodes and placeholders stay.
LEMMA MadeStays ==
    ASSUME NEW given, NEW made, MadeSound(given, made),
           prototype' # NoPrototype, prototype'.nodes = prototype.nodes,
           prototype'.placeholders = prototype.placeholders
    PROVE  MadeSound(given, made)'
<1>1. PlaceholdersOf(prototype)' = PlaceholdersOf(prototype)
  BY DEF PlaceholdersOf
<1>2. \A t : LeftWithExcuse(t, given)' <=> LeftWithExcuse(t, given)
  BY <1>1 DEF LeftWithExcuse, BroughtIn, HasValue, ValueOf
<1>3. \A t, k : HasSource(t, k, given)' <=> HasSource(t, k, given)
  BY <1>1 DEF HasSource, BroughtIn, HasValue, ValueOf
<1> QED BY <1>2, <1>3 DEF MadeSound

\* A request that goes on with what it has made, while the nodes and placeholders
\* of the prototype stay.
LEMMA MadeIsKept ==
    ASSUME NEW r \in Requester, MadeIsSound(r),
           prototype' # NoPrototype, prototype'.nodes = prototype.nodes,
           prototype'.placeholders = prototype.placeholders,
           asking'[r].given = asking[r].given, asking'[r].made = asking[r].made
    PROVE  MadeIsSound(r)'
<1>1. PICK given, made : given = asking[r].given /\ made = asking[r].made
  OBVIOUS
<1>2. MadeSound(given, made)'
  BY <1>1, MadeStays DEF MadeIsSound
<1>3. MadeIsSound(r)' <=> MadeSound(given, made)'
  BY <1>1 DEF MadeIsSound, MadeSound, LeftWithExcuse, HasSource, BroughtIn, HasValue, ValueOf
<1> QED BY <1>2, <1>3

LEMMA PrototypeStays ==
    ASSUME PrototypeIsSound, prototype' = prototype
    PROVE  PrototypeIsSound'
<1>1. PICK p : p = prototype
  OBVIOUS
<1>2. p = NoPrototype \/ (/\ p.owner # "nobody" /\ DOMAIN p = DOMAIN NoPrototype
                          /\ IsList(p.nodes) /\ IsList(p.placeholders)
                          /\ ValidPrototype(p))
  BY <1>1 DEF PrototypeIsSound
<1>3. prototype' = p
  BY <1>1
<1>4. CASE p = NoPrototype
  BY <1>3, <1>4 DEF PrototypeIsSound
<1>5. CASE p # NoPrototype
  <2>1. PlaceholdersOf(prototype)' = PlaceholdersOf(p)
    BY <1>3 DEF PlaceholdersOf
  <2>2. ValidPrototype(prototype)'
    BY <1>2, <1>3, <1>5, <2>1 DEF ValidPrototype
  <2> QED BY <1>2, <1>3, <1>5, <2>2 DEF PrototypeIsSound
<1> QED BY <1>4, <1>5

\* A request that a step leaves alone.
LEMMA OtherRequest ==
    ASSUME NEW q \in Requester, CopyIsSound(q), prototype' = prototype,
           asking'[q] = asking[q], copy'[q] = copy[q]
    PROVE  CopyIsSound(q)'
<1>1. MadeIsSound(q) => MadeIsSound(q)'
  <2> SUFFICES ASSUME MadeIsSound(q) PROVE MadeIsSound(q)'
    OBVIOUS
  <2>1. prototype # NoPrototype
    BY DEF MadeIsSound, MadeSound
  <2> QED BY <2>1, MadeIsKept
<1> QED BY <1>1 DEF CopyIsSound

\* A step of one request, and all others.
LEMMA OneRequest ==
    ASSUME PrototypeInv, NEW r \in Requester, prototype' = prototype,
           RequestsTyped', CopyIsSound(r)',
           \A q \in Requester : q # r => asking'[q] = asking[q] /\ copy'[q] = copy[q]
    PROVE  PrototypeInv'
<1>1. PrototypeIsSound'
  BY PrototypeStays DEF PrototypeInv
<1>2. \A q \in Requester : CopyIsSound(q)'
  BY OtherRequest DEF PrototypeInv
<1> QED BY <1>1, <1>2 DEF PrototypeInv

LEMMA Goes1 ==
    ASSUME RequestsTyped, NEW r \in Requester, NEW where \in AskStep, Goes(r, where)
    PROVE  /\ DOMAIN asking' = Requester
           /\ \A q \in Requester : /\ DOMAIN asking'[q] = {"step", "did", "given", "made"}
                                   /\ asking'[q].step \in AskStep
                                   /\ q # r => asking'[q] = asking[q]
           /\ asking'[r].step = where /\ asking'[r].given = asking[r].given
           /\ asking'[r].made = asking[r].made
BY DEF RequestsTyped, Goes

\* A request that goes on, its copy as it is, or that has failed.
LEMMA GoesOn ==
    ASSUME PrototypeInv, NEW r \in Requester, prototype' = prototype, copy' = copy,
           NEW where \in AskStep, Goes(r, where),
           \/ where = "failed" /\ asking[r].step # "done"
           \/ where \in {"check", "load"} /\ asking[r].step \in {"check", "load"}
    PROVE  PrototypeInv'
<1>1. RequestsTyped /\ CopyIsSound(r)
  BY DEF PrototypeInv
<1>2. /\ DOMAIN asking' = Requester
      /\ \A q \in Requester : /\ DOMAIN asking'[q] = {"step", "did", "given", "made"}
                              /\ asking'[q].step \in AskStep
                              /\ q # r => asking'[q] = asking[q]
      /\ asking'[r].step = where /\ asking'[r].given = asking[r].given
      /\ asking'[r].made = asking[r].made
  BY <1>1, Goes1
<1>3. RequestsTyped'
  BY <1>1, <1>2 DEF RequestsTyped
<1>4. MadeIsSound(r) => MadeIsSound(r)'
  <2> SUFFICES ASSUME MadeIsSound(r) PROVE MadeIsSound(r)'
    OBVIOUS
  <2>1. prototype # NoPrototype
    BY DEF MadeIsSound, MadeSound
  <2> QED BY <1>2, <2>1, MadeIsKept
<1>5. CopyIsSound(r)'
  BY <1>1, <1>2, <1>4 DEF CopyIsSound
<1> QED BY <1>2, <1>3, <1>5, OneRequest

LEMMA AskStepInv ==
    ASSUME PrototypeInv, NEW r \in Requester, NEW did, NEW given,
           NEW where \in {"check", "load"}, Ask(r, did, given, where)
    PROVE  PrototypeInv'
<1>1. RequestsTyped /\ CopyIsSound(r) /\ asking[r].step = "idle"
  BY DEF PrototypeInv, Ask
<1>2. /\ copy' = copy /\ prototype' = prototype
      /\ DOMAIN asking' = Requester
      /\ asking'[r] = [step |-> where, did |-> did, given |-> given, made |-> <<>>]
      /\ \A q \in Requester : q # r => asking'[q] = asking[q]
  BY <1>1 DEF Ask, RequestsTyped
<1>3. RequestsTyped'
  BY <1>1, <1>2 DEF RequestsTyped, AskStep
<1>4. CopyIsSound(r)'
  <2>1. /\ copy[r].nodes = <<>> /\ copy[r].order = <<>>
    BY <1>1 DEF CopyIsSound
  <2>2. asking'[r].step \in {"check", "load"}
    BY <1>2
  <2> QED BY <1>2, <2>1, <2>2 DEF CopyIsSound
<1> QED BY <1>2, <1>3, <1>4, OneRequest

LEMMA LoadStepInv ==
    ASSUME PrototypeInv, NEW r \in Requester, LoadPrototype(r)
    PROVE  PrototypeInv'
<1>1. /\ RequestsTyped /\ CopyIsSound(r) /\ PrototypeIsSound /\ asking[r].step = "load"
      /\ prototype' = prototype /\ copy' = copy
  BY DEF PrototypeInv, LoadPrototype
<1>2. CASE Goes(r, "failed")
  BY <1>1, <1>2, GoesOn DEF AskStep
<1>3. CASE ~Goes(r, "failed")
  <2>1. PICK given : given = asking[r].given
    OBVIOUS
  <2>2. PICK order \in Orders(Replaceable(prototype, given)) :
            /\ prototype # NoPrototype /\ RequiredFit(prototype, given)
            /\ asking' = [asking EXCEPT ![r].step = "row",
                              ![r].made = Instantiate(prototype, order, given)]
    BY <1>3, <2>1 DEF LoadPrototype
  <2>3. PICK made : made = Instantiate(prototype, order, given)
    OBVIOUS
  <2>4. MadeSound(given, made)
    BY <1>1, <2>2, <2>3, InstantiatedIsSound
  <2>5. MadeSound(given, made)'
    BY <1>1, <2>2, <2>4, MadeStays
  <2>6. /\ DOMAIN asking' = Requester
        /\ \A q \in Requester : /\ DOMAIN asking'[q] = {"step", "did", "given", "made"}
                                /\ asking'[q].step \in AskStep
                                /\ q # r => asking'[q] = asking[q]
        /\ asking'[r].step = "row" /\ asking'[r].given = given /\ asking'[r].made = made
    BY <1>1, <2>1, <2>2, <2>3 DEF RequestsTyped, AskStep
  <2>7. MadeIsSound(r)'
    <3>1. asking'[r].given = given /\ asking'[r].made = made
      BY <2>6
    <3>2. MadeIsSound(r)' <=> MadeSound(given, made)'
      BY <3>1 DEF MadeIsSound, MadeSound, LeftWithExcuse, HasSource, BroughtIn, HasValue,
                  ValueOf
    <3> QED BY <2>5, <3>2
  <2>8. RequestsTyped'
    BY <1>1, <2>6 DEF RequestsTyped
  <2>9. CopyIsSound(r)'
    <3>1. copy[r].nodes = <<>> /\ copy[r].order = <<>>
      BY <1>1 DEF CopyIsSound
    <3> QED BY <1>1, <2>6, <2>7, <3>1 DEF CopyIsSound
  <2> QED BY <1>1, <2>6, <2>8, <2>9, OneRequest
<1> QED BY <1>2, <1>3

LEMMA PutBlueprintInv ==
    ASSUME PrototypeInv, NEW r \in Requester, PutBlueprint(r)
    PROVE  PrototypeInv'
<1>1. /\ RequestsTyped /\ CopyIsSound(r) /\ asking[r].step = "row"
      /\ prototype' = prototype /\ Goes(r, "nodes")
  BY DEF PrototypeInv, PutBlueprint
<1>2. /\ DOMAIN asking' = Requester
      /\ \A q \in Requester : /\ DOMAIN asking'[q] = {"step", "did", "given", "made"}
                              /\ asking'[q].step \in AskStep
                              /\ q # r => asking'[q] = asking[q]
      /\ asking'[r].step = "nodes" /\ asking'[r].given = asking[r].given
      /\ asking'[r].made = asking[r].made
  BY <1>1, Goes1 DEF AskStep
<1>3. /\ DOMAIN copy' = Requester
      /\ \A q \in Requester : /\ DOMAIN copy'[q] = {"exists", "order", "nodes"}
                              /\ copy'[q].exists \in BOOLEAN
                              /\ q # r => copy'[q] = copy[q]
      /\ copy'[r].nodes = copy[r].nodes /\ copy'[r].order = copy[r].order
  BY <1>1 DEF PutBlueprint, RequestsTyped
<1>4. RequestsTyped'
  BY <1>2, <1>3 DEF RequestsTyped
<1>5. MadeIsSound(r) /\ copy[r].nodes = <<>> /\ copy[r].order = <<>>
  BY <1>1 DEF CopyIsSound
<1>6. MadeIsSound(r)'
  <2>1. prototype # NoPrototype
    BY <1>5 DEF MadeIsSound, MadeSound
  <2> QED BY <1>1, <1>2, <1>5, <2>1, MadeIsKept
<1>7. CopyIsSound(r)'
  BY <1>2, <1>3, <1>5, <1>6 DEF CopyIsSound
<1> QED BY <1>1, <1>2, <1>3, <1>4, <1>7, OneRequest

LEMMA PutNodeInv ==
    ASSUME PrototypeInv, NEW r \in Requester, PutNextNode(r)
    PROVE  PrototypeInv'
<1>1. /\ RequestsTyped /\ CopyIsSound(r) /\ PrototypeIsSound /\ asking[r].step = "nodes"
      /\ prototype' = prototype /\ asking' = asking
      /\ Len(copy[r].nodes) < Len(asking[r].made)
      /\ copy' = [copy EXCEPT ![r].nodes =
                     Append(@, asking[r].made[Len(copy[r].nodes) + 1])]
  BY DEF PrototypeInv, PutNextNode, Missing, NextMade
<1>2. PICK parts, made, n : /\ parts = copy[r].nodes /\ made = asking[r].made
                            /\ n = Len(parts)
  OBVIOUS
<1>3. /\ MadeIsSound(r) /\ copy[r].order = <<>>
      /\ n \in Nat /\ parts = [k \in 1..n |-> made[k]]
  BY <1>1, <1>2 DEF CopyIsSound
<1>4. prototype # NoPrototype /\ made = [k \in 1..Len(prototype.nodes) |-> made[k]]
  BY <1>2, <1>3 DEF MadeIsSound, MadeSound
<1>5. Len(prototype.nodes) \in Nat
  BY <1>1, <1>4, ListFacts DEF PrototypeIsSound
<1>6. Len(made) = Len(prototype.nodes)
  BY <1>4, <1>5
<1>7. n < Len(prototype.nodes)
  BY <1>1, <1>2, <1>6
<1>8. /\ DOMAIN copy' = Requester
      /\ \A q \in Requester : /\ DOMAIN copy'[q] = {"exists", "order", "nodes"}
                              /\ copy'[q].exists \in BOOLEAN
                              /\ q # r => copy'[q] = copy[q]
      /\ copy'[r].nodes = Append(parts, made[n + 1]) /\ copy'[r].order = copy[r].order
  BY <1>1, <1>2 DEF RequestsTyped
<1>9. /\ Append(parts, made[n + 1]) = [k \in 1..(n + 1) |-> made[k]]
      /\ Len(Append(parts, made[n + 1])) = n + 1
  <2>1. parts \in Seq({made[k] : k \in 1..n})
    BY <1>3
  <2>2. Append(parts, made[n + 1]) =
            [k \in 1..(n + 1) |-> IF k = n + 1 THEN made[n + 1] ELSE parts[k]]
    BY <1>2, <1>3, <2>1
  <2> QED BY <1>3, <2>2
<1>10. RequestsTyped'
  BY <1>1, <1>8 DEF RequestsTyped
<1>11. MadeIsSound(r)'
  BY <1>1, <1>3, <1>4, MadeIsKept
<1>12. CopyIsSound(r)'
  <2>1. PICK new : new = Append(parts, made[n + 1])
    OBVIOUS
  <2>2. /\ copy'[r].nodes = new /\ copy'[r].order = <<>>
        /\ asking'[r].step = "nodes" /\ asking'[r].made = made /\ prototype' = prototype
    BY <1>1, <1>2, <1>3, <1>8, <2>1
  <2>3. new = [k \in 1..(n + 1) |-> made[k]] /\ Len(new) = n + 1
    BY <1>9, <2>1
  <2>4. /\ Len(new) \in Nat /\ Len(new) <= Len(prototype.nodes)
        /\ new = [k \in 1..Len(new) |-> made[k]]
    BY <1>3, <1>5, <1>7, <2>3
  <2> QED BY <1>11, <2>2, <2>4 DEF CopyIsSound
<1> QED BY <1>1, <1>8, <1>10, <1>12, OneRequest

LEMMA PutOrderInv ==
    ASSUME PrototypeInv, NEW r \in Requester, PutNodeOrder(r)
    PROVE  PrototypeInv'
<1>1. /\ RequestsTyped /\ CopyIsSound(r) /\ PrototypeIsSound /\ asking[r].step = "nodes"
      /\ prototype' = prototype /\ Goes(r, "done")
      /\ ~(Len(copy[r].nodes) < Len(asking[r].made))
      /\ copy' = [copy EXCEPT ![r].order = [k \in DOMAIN copy[r].nodes |-> k]]
  BY DEF PrototypeInv, PutNodeOrder, Missing
<1>2. /\ DOMAIN asking' = Requester
      /\ \A q \in Requester : /\ DOMAIN asking'[q] = {"step", "did", "given", "made"}
                              /\ asking'[q].step \in AskStep
                              /\ q # r => asking'[q] = asking[q]
      /\ asking'[r].step = "done" /\ asking'[r].given = asking[r].given
      /\ asking'[r].made = asking[r].made
  BY <1>1, Goes1 DEF AskStep
<1>3. PICK parts, made, n : /\ parts = copy[r].nodes /\ made = asking[r].made
                            /\ n = Len(parts)
  OBVIOUS
<1>4. /\ MadeIsSound(r)
      /\ n \in Nat /\ parts = [k \in 1..n |-> made[k]]
      /\ parts = <<>> \/ n <= Len(prototype.nodes)
  BY <1>1, <1>3 DEF CopyIsSound
<1>5. prototype # NoPrototype /\ made = [k \in 1..Len(prototype.nodes) |-> made[k]]
  BY <1>3, <1>4 DEF MadeIsSound, MadeSound
<1>6. Len(prototype.nodes) \in Nat
  BY <1>1, <1>5, ListFacts DEF PrototypeIsSound
<1>7. Len(made) = Len(prototype.nodes)
  BY <1>5, <1>6
<1>8. n = Len(prototype.nodes) /\ DOMAIN parts = 1..n
  <2>1. parts = <<>> => n = 0
    BY <1>3
  <2>2. ~(n < Len(prototype.nodes))
    BY <1>1, <1>3, <1>7
  <2> QED BY <1>4, <1>6, <2>1, <2>2
<1>9. /\ DOMAIN copy' = Requester
      /\ \A q \in Requester : /\ DOMAIN copy'[q] = {"exists", "order", "nodes"}
                              /\ copy'[q].exists \in BOOLEAN
                              /\ q # r => copy'[q] = copy[q]
      /\ copy'[r].nodes = parts /\ copy'[r].order = [k \in 1..n |-> k]
  BY <1>1, <1>3, <1>8 DEF RequestsTyped
<1>10. RequestsTyped'
  BY <1>2, <1>9 DEF RequestsTyped
<1>11. MadeIsSound(r)'
  BY <1>1, <1>2, <1>4, <1>5, MadeIsKept
<1>12. CopyIsSound(r)'
  <2>1. /\ copy'[r].nodes = parts /\ copy'[r].order = [k \in 1..n |-> k]
        /\ asking'[r].step = "done" /\ asking'[r].made = made /\ prototype' = prototype
    BY <1>1, <1>2, <1>3, <1>9
  <2>2. /\ Len(parts) = n /\ n = Len(prototype.nodes) /\ n <= n
        /\ parts = [k \in 1..Len(parts) |-> made[k]]
    BY <1>3, <1>4, <1>8
  <2> QED BY <1>4, <1>11, <2>1, <2>2 DEF CopyIsSound
<1> QED BY <1>1, <1>2, <1>9, <1>10, <1>12, OneRequest

LEMMA CreateInv ==
    ASSUME PrototypeInv, NEW did \in Author, NEW form \in Form, CreatePrototype(did, form)
    PROVE  PrototypeInv'
<1>1. /\ RequestsTyped /\ prototype = NoPrototype /\ asking' = asking /\ copy' = copy
      /\ \A r \in Requester : CopyIsSound(r)
  BY DEF PrototypeInv, CreatePrototype
<1>2. /\ DOMAIN form = DOMAIN NoPrototype
      /\ IsList(form.nodes) /\ IsList(form.placeholders) /\ ValidPrototype(form)
      /\ did # "nobody"
  BY PrototypeAssumption DEF CreatePrototype
<1>3. /\ DOMAIN prototype' = DOMAIN NoPrototype
      /\ prototype'.owner = did /\ prototype'.nodes = form.nodes
      /\ prototype'.placeholders = form.placeholders
  BY <1>2 DEF CreatePrototype, NoPrototype
<1>4. PrototypeIsSound'
  BY <1>2, <1>3 DEF PrototypeIsSound, ValidPrototype, PlaceholdersOf
<1>5. RequestsTyped'
  BY <1>1 DEF RequestsTyped
<1>6. ASSUME NEW r \in Requester PROVE CopyIsSound(r)'
  <2>1. ~MadeIsSound(r)
    BY <1>1 DEF MadeIsSound, MadeSound
  <2>2. copy[r].nodes = <<>> /\ asking[r].step \notin {"row", "nodes", "done"}
    BY <1>1, <2>1 DEF CopyIsSound
  <2> QED BY <1>1, <2>2 DEF CopyIsSound
<1> QED BY <1>4, <1>5, <1>6 DEF PrototypeInv

LEMMA ToggleInv ==
    ASSUME PrototypeInv, NEW did \in Author, ToggleShared(did)
    PROVE  PrototypeInv'
<1>1. /\ RequestsTyped /\ prototype # NoPrototype /\ asking' = asking /\ copy' = copy
      /\ \A r \in Requester : CopyIsSound(r)
      /\ prototype.owner # "nobody" /\ DOMAIN prototype = DOMAIN NoPrototype
      /\ IsList(prototype.nodes) /\ IsList(prototype.placeholders)
      /\ ValidPrototype(prototype)
      /\ prototype' = [prototype EXCEPT !.shared = ~@]
  BY DEF PrototypeInv, PrototypeIsSound, ToggleShared
<1>2. /\ DOMAIN prototype' = DOMAIN NoPrototype
      /\ prototype'.owner = prototype.owner /\ prototype'.nodes = prototype.nodes
      /\ prototype'.placeholders = prototype.placeholders
  BY <1>1 DEF NoPrototype
<1>3. PrototypeIsSound'
  <2>1. PICK q : q = prototype'
    OBVIOUS
  <2>2. /\ DOMAIN q = DOMAIN NoPrototype /\ q.owner = prototype.owner
        /\ q.nodes = prototype.nodes /\ q.placeholders = prototype.placeholders
    BY <1>2, <2>1
  <2>3. PlaceholdersOf(q) = PlaceholdersOf(prototype)
    BY <2>2 DEF PlaceholdersOf
  <2>4. ValidPrototype(q)
    BY <1>1, <2>2, <2>3 DEF ValidPrototype
  <2>5. q.owner # "nobody" /\ IsList(q.nodes) /\ IsList(q.placeholders)
    BY <1>1, <2>2
  <2> QED BY <2>1, <2>2, <2>4, <2>5 DEF PrototypeIsSound
<1>4. RequestsTyped'
  BY <1>1 DEF RequestsTyped
<1>5. prototype' # NoPrototype
  BY <1>1, <1>2 DEF NoPrototype
<1>6. ASSUME NEW r \in Requester PROVE CopyIsSound(r)'
  <2>1. MadeIsSound(r) => MadeIsSound(r)'
    BY <1>1, <1>2, <1>5, MadeIsKept
  <2> QED BY <1>1, <1>2, <2>1 DEF CopyIsSound
<1> QED BY <1>3, <1>4, <1>6 DEF PrototypeInv

LEMMA NodesHaveSources ==
    ASSUME NEW r \in Requester, CopyIsSound(r)
    PROVE  \A k \in DOMAIN copy[r].nodes : \A t \in copy[r].nodes[k].text :
              /\ t.kind = "reference" => LeftWithExcuse(t, asking[r].given)
              /\ HasSource(t, k, asking[r].given)
<1> SUFFICES ASSUME NEW k \in DOMAIN copy[r].nodes, NEW t \in copy[r].nodes[k].text
             PROVE  /\ t.kind = "reference" => LeftWithExcuse(t, asking[r].given)
                    /\ HasSource(t, k, asking[r].given)
  OBVIOUS
<1>1. PICK given, made, parts, n :
          /\ given = asking[r].given /\ made = asking[r].made
          /\ parts = copy[r].nodes /\ n = Len(parts)
  OBVIOUS
<1>2. /\ n \in Nat /\ parts = [j \in 1..n |-> made[j]]
      /\ parts = <<>> \/ (MadeSound(given, made) /\ n <= Len(prototype.nodes))
  BY <1>1 DEF CopyIsSound, MadeIsSound
<1>3. k \in 1..n /\ parts[k] = made[k] /\ parts # <<>>
  BY <1>1, <1>2
<1>4. t \in made[k].text
  BY <1>1, <1>3
<1>5. /\ \A j \in 1..Len(prototype.nodes) : \A u \in made[j].text :
            /\ u.kind = "reference" => LeftWithExcuse(u, given)
            /\ HasSource(u, j, given)
  BY <1>2, <1>3 DEF MadeSound
<1>6. k \in 1..Len(prototype.nodes)
  <2>1. CASE Len(prototype.nodes) \in Nat
    BY <1>2, <1>3, <2>1
  <2> QED BY <2>1
<1> QED BY <1>1, <1>4, <1>5, <1>6

LEMMA PrototypeStep == PrototypeInv /\ [PrototypeNext]_prototypeVars => PrototypeInv'
<1> SUFFICES ASSUME PrototypeInv, [PrototypeNext]_prototypeVars PROVE PrototypeInv'
  OBVIOUS
<1>1. ASSUME NEW did \in Author, ToggleShared(did) PROVE PrototypeInv'
  BY <1>1, ToggleInv
<1>2. ASSUME NEW did \in Author, NEW form \in Form, CreatePrototype(did, form)
      PROVE  PrototypeInv'
  BY <1>2, CreateInv
<1>3. ASSUME NEW did \in Author, NEW r \in Requester, NEW given \in Given,
             NEW where \in {"check", "load"}, Ask(r, did, given, where)
      PROVE  PrototypeInv'
  BY <1>3, AskStepInv
<1>4. ASSUME NEW r \in Requester, CheckAccess(r) PROVE PrototypeInv'
  <2>1. Goes(r, "load") \/ Goes(r, "failed")
    BY <1>4 DEF CheckAccess
  <2>2. asking[r].step = "check" /\ prototype' = prototype /\ copy' = copy
    BY <1>4 DEF CheckAccess
  <2> QED BY <2>1, <2>2, GoesOn DEF AskStep
<1>5. ASSUME NEW r \in Requester, LoadPrototype(r) PROVE PrototypeInv'
  BY <1>5, LoadStepInv
<1>6. ASSUME NEW r \in Requester, PutBlueprint(r) PROVE PrototypeInv'
  BY <1>6, PutBlueprintInv
<1>7. ASSUME NEW r \in Requester, PutNextNode(r) PROVE PrototypeInv'
  BY <1>7, PutNodeInv
<1>8. ASSUME NEW r \in Requester, ConversionFails(r) \/ AskFails(r) PROVE PrototypeInv'
  <2>1. /\ Goes(r, "failed") /\ asking[r].step # "done"
        /\ prototype' = prototype /\ copy' = copy
    BY <1>8 DEF ConversionFails, AskFails
  <2> QED BY <2>1, GoesOn DEF AskStep
<1>9. ASSUME NEW r \in Requester, PutNodeOrder(r) PROVE PrototypeInv'
  BY <1>9, PutOrderInv
<1>10. CASE UNCHANGED prototypeVars
  <2>1. prototype' = prototype /\ asking' = asking /\ copy' = copy
    BY <1>10 DEF prototypeVars
  <2>2. \A q \in Requester : CopyIsSound(q)'
    BY <2>1, OtherRequest DEF PrototypeInv
  <2>3. PrototypeIsSound'
    BY <2>1, PrototypeStays DEF PrototypeInv
  <2>4. RequestsTyped'
    BY <2>1 DEF PrototypeInv, RequestsTyped
  <2> QED BY <2>2, <2>3, <2>4 DEF PrototypeInv
<1> QED BY <1>1, <1>2, <1>3, <1>4, <1>5, <1>6, <1>7, <1>8, <1>9, <1>10 DEF PrototypeNext

\* The invariant of prototypes: what a request has made of one is of its nodes and
\* its values, and what is stored is the beginning of that
\* (src/prototype_service.rs: instantiate_blueprint).
THEOREM PrototypesCorrect == PrototypeSpec => []PrototypeInv
BY PrototypeInitInv, PrototypeStep, PTL DEF PrototypeSpec

\* For any prototypes, values and order of replacement: a blueprint with an order is
\* whole, and whatever is in its nodes has a source or an excuse
\* (src/storage/prototype.rs: instantiate).
THEOREM InstancesAreWhole == PrototypeSpec => []InstanceIsWhole
<1>1. PrototypeInv => InstanceIsWhole
  <2> SUFFICES ASSUME PrototypeInv, NEW r \in Requester
               PROVE  LET given == asking[r].given
                      IN  /\ copy[r].order # <<>> =>
                                /\ Len(copy[r].order) = Len(prototype.nodes)
                                /\ Len(copy[r].nodes) = Len(prototype.nodes)
                          /\ \A k \in DOMAIN copy[r].nodes : \A t \in copy[r].nodes[k].text :
                                /\ t.kind = "reference" => LeftWithExcuse(t, given)
                                /\ HasSource(t, k, given)
                          /\ copy[r].exists /\ asking[r].step = "done"
                             /\ prototype.nodes # <<>> => copy[r].order # <<>>
    BY DEF InstanceIsWhole
  <2>1. CopyIsSound(r) /\ PrototypeIsSound
    BY DEF PrototypeInv
  <2>2. CASE asking[r].step = "done"
    <3>1. /\ prototype # NoPrototype
          /\ Len(copy[r].nodes) = Len(prototype.nodes)
          /\ copy[r].order = [k \in 1..Len(prototype.nodes) |-> k]
      BY <2>1, <2>2 DEF CopyIsSound, MadeIsSound, MadeSound
    <3>2. /\ Len(prototype.nodes) \in Nat
          /\ prototype.nodes # <<>> => Len(prototype.nodes) > 0
      BY <2>1, <3>1, ListFacts DEF PrototypeIsSound
    <3>3. PICK n : n = Len(prototype.nodes)
      OBVIOUS
    <3>4. Len(copy[r].order) = n
      BY <3>1, <3>2, <3>3
    <3>5. n > 0 => copy[r].order # <<>>
      BY <3>2, <3>3, <3>4
    <3> QED BY <2>1, <3>1, <3>2, <3>3, <3>4, <3>5, NodesHaveSources
  <2>3. CASE asking[r].step # "done"
    <3>1. copy[r].order = <<>>
      BY <2>1, <2>3 DEF CopyIsSound
    <3> QED BY <2>1, <2>3, <3>1, NodesHaveSources
  <2> QED BY <2>2, <2>3
<1> QED BY <1>1, PrototypesCorrect, PTL

------------------------------------------------------------------------------
(* The handlers of the API.  First the orders and the lists of nodes.        *)

\* f lists, in increasing order, the numbers of S.
Lists(f, S) ==
    /\ \A j, k \in DOMAIN f : j < k => f[j] < f[k]
    /\ S = {f[k] : k \in DOMAIN f}

\* InOrder is the only such listing: before the k-th number there are k - 1.
LEMMA InOrderIs ==
    ASSUME NEW n \in Nat, NEW f \in [1..n -> Nat], NEW S, Lists(f, S)
    PROVE  InOrder(S) = f
  <1> DEFINE below(x) == {y \in S : y < x}
  <1>1. \A j, k \in 1..n : (f[j] = f[k] => j = k) /\ (f[j] < f[k] => j < k)
    BY DEF Lists
  <1>2. Cardinality(S) = n
    <2>1. f \in Bijection(1..n, S)
      BY <1>1 DEF Lists, Bijection, Injection, Surjection, IsInjective
    <2>2. IsFiniteSet(1..n) /\ Cardinality(1..n) = n
      BY FS_Interval
    <2> QED
      BY <2>1, <2>2, FS_Bijection DEF ExistsBijection
  <1>3. ASSUME NEW k \in 1..n
        PROVE  Cardinality(below(f[k])) = k - 1
    <2> DEFINE g == [j \in 1..(k - 1) |-> f[j]]
    <2>1. below(f[k]) = {f[j] : j \in 1..(k - 1)}
      BY <1>1 DEF Lists
    <2>2. g \in Bijection(1..(k - 1), below(f[k]))
      BY <1>1, <2>1 DEF Bijection, Injection, Surjection, IsInjective
    <2>3. IsFiniteSet(1..(k - 1)) /\ Cardinality(1..(k - 1)) = k - 1
      BY FS_Interval
    <2> HIDE DEF g, below
    <2> QED
      BY <2>2, <2>3, FS_Bijection DEF ExistsBijection
  <1>4. ASSUME NEW k \in 1..n
        PROVE  (CHOOSE x \in S : Cardinality(below(x)) = k - 1) = f[k]
    <2>1. f[k] \in S /\ Cardinality(below(f[k])) = k - 1
      BY <1>3 DEF Lists
    <2>2. ASSUME NEW x \in S, Cardinality(below(x)) = k - 1
          PROVE  x = f[k]
      <3>1. PICK j \in 1..n : x = f[j]
        BY DEF Lists
      <3>2. Cardinality(below(f[j])) = j - 1
        BY <1>3
      <3> HIDE DEF below
      <3> QED
        BY <2>2, <3>1, <3>2
    <2> HIDE DEF below
    <2> QED
      BY <2>1, <2>2
  <1>5. InOrder(S) = [k \in 1..n |-> CHOOSE x \in S : Cardinality(below(x)) = k - 1]
    BY <1>2 DEF InOrder
  <1> HIDE DEF below
  <1> QED
    BY <1>4, <1>5

Type == NodeTypes \cup UNION {{types[k] : k \in DOMAIN types} : types \in Shape}
Node == [id : Nat, type : Type, born : Nat]

\* OrdersBefore of nodes that had been named by time t.
OrdersBefore(t) == {o \in Seq(Nat) :
    /\ \A k \in DOMAIN o : o[k] \in 1..(t - 1)
    /\ \A j, k \in DOMAIN o : o[j] = o[k] => j = k}

\* Nodes in the order of their creation, all before t.
Sorted(list, t) ==
    /\ list \in Seq(Node)
    /\ \A k \in DOMAIN list : list[k].id \in 1..(t - 1) /\ list[k].born \in 1..(t - 1)
    /\ \A j, k \in DOMAIN list :
          j < k => list[j].born < list[k].born /\ list[j].id # list[k].id
Listed(list) == {list[k] : k \in DOMAIN list}

\* By their creation, the nodes of S are in that order.
Agree(order, S, t) ==
    \E list \in Seq(Node) : Sorted(list, t) /\ S = Listed(list) /\ order = IdsOf(list)

\* The storage lists them so.
LEMMA ListingAgrees ==
    ASSUME NEW t \in Nat, NEW order, Agree(order, nodes, t)
    PROVE  IdsOf(ListNodes) = order
  <1>1. PICK list \in Seq(Node) : Sorted(list, t) /\ nodes = Listed(list) /\ order = IdsOf(list)
    BY DEF Agree
  <1>2. PICK n \in Nat : list \in [1..n -> Node] /\ DOMAIN list = 1..n
    BY <1>1
  <1> DEFINE f == [k \in 1..n |-> list[k].born]
             S == {m.born : m \in nodes}
  <1>3. f \in [1..n -> Nat] /\ Lists(f, S)
    <2>1. \A k \in 1..n : f[k] = list[k].born /\ f[k] \in Nat
      BY <1>2 DEF Node
    <2>2. nodes = {list[k] : k \in 1..n}
      BY <1>1, <1>2 DEF Listed
    <2>3. \A j, k \in 1..n : j < k => f[j] < f[k]
      BY <1>1, <1>2 DEF Sorted
    <2>4. S = {f[k] : k \in 1..n}
      BY <2>1, <2>2
    <2> QED
      BY <2>1, <2>3, <2>4 DEF Lists
  <1>4. InOrder(S) = f
    <2> HIDE DEF f, S
    <2> QED BY <1>3, InOrderIs
  <1>5. ASSUME NEW k \in 1..n
        PROVE  (CHOOSE m \in nodes : m.born = f[k]) = list[k]
    <2>1. list[k] \in nodes /\ list[k].born = f[k]
      BY <1>1, <1>2 DEF Listed
    <2>2. ASSUME NEW m \in nodes, m.born = f[k]
          PROVE  m = list[k]
      <3>1. PICK j \in 1..n : m = list[j]
        BY <1>1, <1>2 DEF Listed
      <3>2. \A i \in 1..n : list[i].born \in Nat
        BY <1>2 DEF Node
      <3> QED
        BY <1>1, <1>2, <2>2, <3>1, <3>2 DEF Sorted
    <2> HIDE DEF f
    <2> QED BY <2>1, <2>2
  <1>6. ListNodes = [k \in 1..n |-> list[k]]
    <2>1. DOMAIN f = 1..n
      OBVIOUS
    <2> HIDE DEF f
    <2> QED BY <1>4, <1>5, <2>1 DEF ListNodes
  <1> QED
    BY <1>1, <1>2, <1>6 DEF IdsOf

\* The ids of a list.
LEMMA IdsAre ==
    ASSUME NEW list \in Seq(Node)
    PROVE  /\ IdsOf(list) \in Seq(Nat) /\ DOMAIN IdsOf(list) = DOMAIN list
           /\ \A k \in DOMAIN list : IdsOf(list)[k] = list[k].id /\ list[k].id \in Nat
  <1>1. PICK n \in Nat : list \in [1..n -> Node] /\ DOMAIN list = 1..n
    OBVIOUS
  <1>2. \A k \in 1..n : list[k].id \in Nat
    BY <1>1 DEF Node
  <1>3. IdsOf(list) = [k \in 1..n |-> list[k].id]
    BY <1>1 DEF IdsOf
  <1> QED
    BY <1>1, <1>2, <1>3

\* What is left of an order without id keeps its order.
Leaves(order, id, left) ==
    \E m \in Nat : \E g \in [1..m -> DOMAIN order] :
        /\ Lists(g, {k \in DOMAIN order : order[k] # id})
        /\ left = [j \in 1..m |-> order[g[j]]]

\* No order has a node twice, so that one place at most is left out.
LEMMA WithoutIs ==
    ASSUME NEW t \in Nat, NEW order \in OrdersBefore(t), NEW id
    PROVE  Leaves(order, id, Without(order, id))
  <1> DEFINE K == {k \in DOMAIN order : order[k] # id}
  <1>1. PICK n \in Nat : DOMAIN order = 1..n
    BY DEF OrdersBefore
  <1>2. \E m \in Nat : \E g \in [1..m -> 1..n] : Lists(g, K)
    <2>1. CASE \A k \in 1..n : order[k] # id
      <3> DEFINE g == [j \in 1..n |-> j]
      <3>1. g \in [1..n -> 1..n] /\ Lists(g, K)
        BY <1>1, <2>1 DEF Lists
      <3> QED BY <3>1
    <2>2. ASSUME NEW p \in 1..n, order[p] = id
          PROVE  \E m \in Nat : \E g \in [1..m -> 1..n] : Lists(g, K)
      <3> DEFINE g == [j \in 1..(n - 1) |-> IF j < p THEN j ELSE j + 1]
      <3>1. K = 1..n \ {p}
        BY <1>1, <2>2 DEF OrdersBefore
      <3>2. g \in [1..(n - 1) -> 1..n] /\ n - 1 \in Nat
        OBVIOUS
      <3>3. \A j, k \in 1..(n - 1) : j < k => g[j] < g[k]
        OBVIOUS
      <3>4. ASSUME NEW k \in 1..n \ {p}
            PROVE  \E j \in 1..(n - 1) : k = g[j]
        <4>1. CASE k < p
          <5>1. k \in 1..(n - 1) /\ g[k] = k
            BY <4>1
          <5> QED BY <5>1
        <4>2. CASE k > p
          <5>1. k - 1 \in 1..(n - 1) /\ g[k - 1] = k
            BY <4>2
          <5> QED BY <5>1
        <4> QED BY <4>1, <4>2
      <3>5. \A j \in 1..(n - 1) : g[j] \in 1..n \ {p}
        OBVIOUS
      <3>6. Lists(g, K)
        <4>1. DOMAIN g = 1..(n - 1)
          OBVIOUS
        <4> HIDE DEF g, K
        <4> QED BY <3>1, <3>3, <3>4, <3>5, <4>1 DEF Lists
      <3> HIDE DEF g, K
      <3> QED BY <3>2, <3>6
    <2> QED BY <2>1, <2>2
  <1>. PICK m \in Nat : \E g \in [1..m -> 1..n] : Lists(g, K)
    BY <1>2
  <1>3. PICK g \in [1..m -> 1..n] : Lists(g, K)
    OBVIOUS
  <1>4. InOrder(K) = g
    <2>1. g \in [1..m -> Nat]
      OBVIOUS
    <2> HIDE DEF K
    <2> QED BY <1>3, <2>1, InOrderIs
  <1> QED
    BY <1>1, <1>3, <1>4 DEF Without, Leaves

\* An order without a node is an order.
LEMMA WithoutIsOrder ==
    ASSUME NEW t \in Nat, NEW order \in OrdersBefore(t), NEW id
    PROVE  Without(order, id) \in OrdersBefore(t)
  <1>0. Leaves(order, id, Without(order, id))
    BY WithoutIs
  <1>. PICK m \in Nat : \E g \in [1..m -> DOMAIN order] :
           /\ Lists(g, {k \in DOMAIN order : order[k] # id})
           /\ Without(order, id) = [j \in 1..m |-> order[g[j]]]
    BY <1>0 DEF Leaves
  <1>1. PICK g \in [1..m -> DOMAIN order] :
           /\ Lists(g, {k \in DOMAIN order : order[k] # id})
           /\ Without(order, id) = [j \in 1..m |-> order[g[j]]]
    OBVIOUS
  <1>2. \A k \in DOMAIN order : k \in Nat /\ order[k] \in Nat /\ order[k] \in 1..(t - 1)
    BY DEF OrdersBefore
  <1>3. Without(order, id) \in Seq(Nat)
    BY <1>1, <1>2
  <1>4. \A j, k \in 1..m : order[g[j]] = order[g[k]] => j = k
    <2>1. \A j, k \in DOMAIN order : order[j] = order[k] => j = k
      BY DEF OrdersBefore
    <2>2. \A j, k \in 1..m : j < k => g[j] < g[k]
      BY <1>1 DEF Lists
    <2>3. \A j \in 1..m : g[j] \in DOMAIN order /\ g[j] \in Nat
      BY <1>2
    <2>4. \A j, k \in 1..m : order[g[j]] = order[g[k]] => g[j] = g[k]
      BY <2>1, <2>3
    <2>5. \A j, k \in 1..m : g[j] = g[k] => j = k
      BY <2>2, <2>3
    <2> QED
      BY <2>4, <2>5
  <1>5. \A j \in 1..m : Without(order, id)[j] = order[g[j]] /\ order[g[j]] \in 1..(t - 1)
    BY <1>1, <1>2
  <1>6. DOMAIN Without(order, id) = 1..m
    BY <1>1
  <1> QED
    BY <1>3, <1>4, <1>5, <1>6 DEF OrdersBefore

\* Such an order names each node once; the absent row is none.
LEMMA AgreeIsOrder ==
    ASSUME NEW t \in Nat, NEW order, NEW S, Agree(order, S, t)
    PROVE  order \in OrdersBefore(t) /\ order # NoRow
  <1>1. PICK list \in Seq(Node) : Sorted(list, t) /\ order = IdsOf(list)
    BY DEF Agree
  <1>2. order \in Seq(Nat) /\ \A k \in DOMAIN order : k \in DOMAIN list /\ order[k] = list[k].id
    BY <1>1, IdsAre
  <1>3. /\ \A k \in DOMAIN order : order[k] \in 1..(t - 1) /\ k \in Nat
        /\ \A j, k \in DOMAIN order : j < k => order[j] # order[k]
    <2>1. \A k \in DOMAIN list : list[k].id \in 1..(t - 1)
      BY <1>1 DEF Sorted
    <2>2. \A j, k \in DOMAIN list : j < k => list[j].id # list[k].id
      BY <1>1 DEF Sorted
    <2>3. \A k \in DOMAIN order : k \in Nat
      BY <1>2
    <2>4. \A k \in DOMAIN order : order[k] \in 1..(t - 1)
      BY <1>2, <2>1
    <2>5. \A j, k \in DOMAIN order : j < k => order[j] # order[k]
      BY <1>2, <2>2
    <2> QED
      BY <2>3, <2>4, <2>5
  <1>4. order \in OrdersBefore(t)
    BY <1>2, <1>3 DEF OrdersBefore
  <1>5. order # NoRow
    BY <1>3 DEF NoRow
  <1> QED
    BY <1>4, <1>5

\* delete_node leaves the others.
Others(S, id) == {n \in S : n.id # id}

\* A node that is deleted and left out of the order leaves both in agreement.
LEMMA WithoutAgrees ==
    ASSUME NEW t \in Nat, NEW order, NEW S, Agree(order, S, t), NEW id
    PROVE  Agree(Without(order, id), Others(S, id), t)
  <1>1. PICK list \in Seq(Node) : Sorted(list, t) /\ S = Listed(list) /\ order = IdsOf(list)
    BY DEF Agree
  <1>2. order \in OrdersBefore(t) /\ DOMAIN order = DOMAIN list
    BY <1>1, AgreeIsOrder DEF IdsOf
  <1>3. Leaves(order, id, Without(order, id))
    BY <1>2, WithoutIs
  <1>4. PICK m \in Nat : \E g \in [1..m -> DOMAIN order] :
           /\ Lists(g, {k \in DOMAIN order : order[k] # id})
           /\ Without(order, id) = [j \in 1..m |-> order[g[j]]]
    BY <1>3 DEF Leaves
  <1>5. PICK g \in [1..m -> DOMAIN order] :
           /\ Lists(g, {k \in DOMAIN order : order[k] # id})
           /\ Without(order, id) = [j \in 1..m |-> order[g[j]]]
    BY <1>4
  <1>6. PICK left : left = [j \in 1..m |-> list[g[j]]]
    OBVIOUS
  <1>7. \A j \in 1..m : /\ g[j] \in DOMAIN list /\ list[g[j]] \in Node
                        /\ left[j] = list[g[j]] /\ left[j] \in Node
    <2>1. \A k \in DOMAIN list : list[k] \in Node
      OBVIOUS
    <2>2. \A j \in 1..m : g[j] \in DOMAIN list
      BY <1>2
    <2> QED
      BY <1>6, <2>1, <2>2
  <1>8. left \in Seq(Node) /\ DOMAIN left = 1..m
    <2>1. DOMAIN left = 1..m /\ left = [j \in 1..m |-> left[j]]
      BY <1>6
    <2>2. \A j \in 1..m : left[j] \in Node
      BY <1>7
    <2>3. left \in [1..m -> Node]
      BY <2>1, <2>2
    <2> QED
      BY <2>1, <2>3
  <1>9. Sorted(left, t)
    <2>1. \A j, k \in 1..m : j < k => g[j] < g[k]
      BY <1>5 DEF Lists
    <2>2. \A j, k \in DOMAIN list :
             j < k => list[j].born < list[k].born /\ list[j].id # list[k].id
      BY <1>1 DEF Sorted
    <2>3. \A j, k \in 1..m :
             j < k => left[j].born < left[k].born /\ left[j].id # left[k].id
      BY <1>7, <2>1, <2>2
    <2>4. \A j \in 1..m : left[j].id \in 1..(t - 1) /\ left[j].born \in 1..(t - 1)
      BY <1>1, <1>7 DEF Sorted
    <2> QED
      BY <1>8, <2>3, <2>4 DEF Sorted
  <1>10. \A k \in DOMAIN list : list[k].id # id <=> \E j \in 1..m : k = g[j]
    <2>1. \A k \in DOMAIN list : order[k] = list[k].id
      BY <1>1 DEF IdsOf
    <2>2. {k \in DOMAIN order : order[k] # id} = {g[j] : j \in 1..m}
      BY <1>5 DEF Lists
    <2>3. \A k \in DOMAIN order : order[k] # id <=> \E j \in 1..m : k = g[j]
      BY <2>2
    <2> QED
      BY <1>2, <2>1, <2>3
  <1>11. Listed(left) = Others(S, id)
    <2>1. ASSUME NEW j \in 1..m
          PROVE  left[j] \in Others(S, id)
      <3>1. list[g[j]].id # id /\ list[g[j]] \in S
        BY <1>1, <1>7, <1>10 DEF Listed
      <3> QED
        BY <1>7, <3>1 DEF Others
    <2>2. ASSUME NEW n \in Others(S, id)
          PROVE  \E j \in 1..m : n = left[j]
      <3>1. PICK k \in DOMAIN list : n = list[k] /\ n.id # id
        BY <1>1 DEF Others, Listed
      <3>2. PICK j \in 1..m : k = g[j]
        BY <1>10, <3>1
      <3> QED
        BY <1>7, <3>1, <3>2
    <2> QED
      BY <1>8, <2>1, <2>2 DEF Listed
  <1>12. Without(order, id) = IdsOf(left)
    <2>1. \A j \in 1..m : order[g[j]] = left[j].id
      BY <1>1, <1>7 DEF IdsOf
    <2> QED
      BY <1>5, <1>8, <2>1 DEF IdsOf
  <1> QED
    BY <1>8, <1>9, <1>11, <1>12 DEF Agree

\* A new node comes last.
LEMMA AppendAgrees ==
    ASSUME NEW t \in Nat, NEW order, NEW S, Agree(order, S, t),
           NEW n \in Node, n.id = t, n.born = t, t > 0
    PROVE  Agree(Append(order, t), S \cup {n}, t + 1)
  <1>1. PICK list \in Seq(Node) : Sorted(list, t) /\ S = Listed(list) /\ order = IdsOf(list)
    BY DEF Agree
  <1>2. PICK m \in Nat : DOMAIN list = 1..m /\ Len(list) = m
    BY <1>1
  <1> DEFINE longer == Append(list, n)
  <1>3. /\ longer \in Seq(Node) /\ DOMAIN longer = 1..(m + 1)
        /\ longer[m + 1] = n /\ \A k \in 1..m : longer[k] = list[k]
    BY <1>2
  <1>4. Sorted(longer, t + 1)
    <2> HIDE DEF longer
    <2>1. \A k \in 1..m : list[k].id \in 1..(t - 1) /\ list[k].born \in 1..(t - 1)
      BY <1>1, <1>2 DEF Sorted
    <2>2. \A k \in 1..(m + 1) : longer[k].id \in 1..t /\ longer[k].born \in 1..t
      BY <1>3, <2>1
    <2> HIDE DEF longer
    <2>3. \A j, k \in 1..(m + 1) : j < k =>
             longer[j].born < longer[k].born /\ longer[j].id # longer[k].id
      <3>1. \A j, k \in 1..m : j < k =>
               longer[j].born < longer[k].born /\ longer[j].id # longer[k].id
        <4>1. \A j, k \in 1..m :
                 j < k => list[j].born < list[k].born /\ list[j].id # list[k].id
          BY <1>1, <1>2 DEF Sorted
        <4> QED
          BY <1>3, <4>1
      <3>2. \A j \in 1..m : longer[j].born < t /\ longer[j].id # t
        BY <1>3, <2>1
      <3> QED
        BY <1>3, <3>1, <3>2
    <2> QED BY <1>3, <2>2, <2>3 DEF Sorted
  <1>5. Listed(longer) = S \cup {n}
    <2> HIDE DEF longer
    <2> QED BY <1>1, <1>2, <1>3 DEF Listed
  <1>6. IdsOf(longer) = Append(order, t)
    <2>1. order \in Seq(Nat) /\ Len(order) = m /\ \A k \in 1..m : order[k] = list[k].id
      BY <1>1, <1>2, IdsAre
    <2>2. /\ Append(order, t) \in Seq(Nat) /\ DOMAIN Append(order, t) = 1..(m + 1)
          /\ Append(order, t)[m + 1] = t
          /\ \A k \in 1..m : Append(order, t)[k] = order[k]
      BY <2>1
    <2> HIDE DEF longer
    <2>3. \A k \in 1..(m + 1) : Append(order, t)[k] = longer[k].id
      <3>1. \A k \in 1..m : Append(order, t)[k] = longer[k].id
        BY <1>3, <2>1, <2>2
      <3>2. Append(order, t)[m + 1] = longer[m + 1].id
        BY <1>3, <2>2
      <3>3. \A k \in 1..(m + 1) : k \in 1..m \/ k = m + 1
        OBVIOUS
      <3> QED
        BY <3>1, <3>2, <3>3
    <2>4. /\ IdsOf(longer) \in Seq(Nat) /\ DOMAIN IdsOf(longer) = 1..(m + 1)
          /\ \A k \in 1..(m + 1) : IdsOf(longer)[k] = longer[k].id
      BY <1>3, IdsAre
    <2>5. ASSUME NEW s \in Seq(Nat), DOMAIN s = 1..(m + 1)
          PROVE  s \in [1..(m + 1) -> Nat]
      BY <2>5
    <2>6. /\ IdsOf(longer) \in [1..(m + 1) -> Nat] /\ Append(order, t) \in [1..(m + 1) -> Nat]
          /\ \A k \in 1..(m + 1) : IdsOf(longer)[k] = Append(order, t)[k]
      BY <2>2, <2>3, <2>4, <2>5
    <2>7. ASSUME NEW a \in [1..(m + 1) -> Nat], NEW b \in [1..(m + 1) -> Nat],
                 \A k \in 1..(m + 1) : a[k] = b[k]
          PROVE  a = b
      BY <2>7
    <2> QED
      BY <2>6, <2>7
  <1> HIDE DEF longer
  <1> QED
    BY <1>3, <1>4, <1>5, <1>6 DEF Agree

\* Time passes by orders and agreements.
LEMMA LaterOrders ==
    ASSUME NEW t \in Nat, NEW u \in Nat, t <= u
    PROVE  /\ OrdersBefore(t) \subseteq OrdersBefore(u)
           /\ \A order, S : Agree(order, S, t) => Agree(order, S, u)
  <1>1. OrdersBefore(t) \subseteq OrdersBefore(u)
    BY DEF OrdersBefore
  <1>2. ASSUME NEW list, Sorted(list, t)
        PROVE  Sorted(list, u)
    <2>1. \A k \in 1..(t - 1) : k \in 1..(u - 1)
      OBVIOUS
    <2> QED
      BY <1>2, <2>1 DEF Sorted
  <1> QED
    BY <1>1, <1>2 DEF Agree

\* upsert_node and delete_node, of any nodes.
Upserted(S, n) ==
    {m \in S : m.id # n.id} \cup
    {IF \E m \in S : m.id = n.id
     THEN [n EXCEPT !.born = (CHOOSE m \in S : m.id = n.id).born] ELSE n}
Changed(S, command) ==
    CASE command.cmd = "put node" -> Upserted(S, command.arg)
      [] command.cmd = "drop node" -> {n \in S : n.id # command.arg}
      [] OTHER -> S

\* To do it twice is to do it once.
LEMMA ChangedTwice ==
    ASSUME NEW S \in SUBSET Node, NEW command,
           command.cmd = "put node" => command.arg \in Node
    PROVE  Changed(Changed(S, command), command) = Changed(S, command)
  <1>1. CASE command.cmd = "put node"
    <2> PICK n \in Node : n = command.arg
      BY <1>1
    <2> PICK rest : rest = {m \in S : m.id # n.id}
      OBVIOUS
    <2>1. PICK x \in {n} \cup {[n EXCEPT !.born = (CHOOSE m \in S : m.id = n.id).born]} :
             Upserted(S, n) = rest \cup {x}
      BY DEF Upserted
    <2>2. x.id = n.id /\ [n EXCEPT !.born = x.born] = x
      BY <2>1 DEF Node
    <2>3. {m \in rest \cup {x} : m.id # n.id} = rest
      BY <2>2
    <2>4. (CHOOSE m \in rest \cup {x} : m.id = n.id) = x
      BY <2>2
    <2>5. Upserted(rest \cup {x}, n) = rest \cup {x}
      BY <2>2, <2>3, <2>4 DEF Upserted
    <2> QED
      BY <1>1, <2>1, <2>5 DEF Changed
  <1>2. CASE command.cmd # "put node"
    BY <1>2 DEF Changed
  <1> QED
    BY <1>1, <1>2

\* A node that is stored anew keeps its place.
LEMMA UpsertAgrees ==
    ASSUME NEW t \in Nat, NEW order, NEW S, Agree(order, S, t),
           NEW n \in Node, \E m \in S : m.id = n.id
    PROVE  Agree(order, Upserted(S, n), t)
  <1>1. PICK list \in Seq(Node) : Sorted(list, t) /\ S = Listed(list) /\ order = IdsOf(list)
    BY DEF Agree
  <1>2. PICK len \in Nat : DOMAIN list = 1..len /\ list \in [1..len -> Node]
    BY <1>1
  <1>3. PICK p \in 1..len : list[p].id = n.id
    BY <1>1, <1>2 DEF Listed
  <1>4. \A k \in 1..len : list[k].id = n.id => k = p
    <2>1. \A j, k \in 1..len : j < k => list[j].id # list[k].id
      BY <1>1, <1>2 DEF Sorted
    <2> QED
      BY <1>3, <2>1
  <1>5. (CHOOSE m \in S : m.id = n.id) = list[p]
    BY <1>1, <1>2, <1>3, <1>4 DEF Listed
  <1> DEFINE x == [n EXCEPT !.born = list[p].born]
             anew == [k \in 1..len |-> IF k = p THEN x ELSE list[k]]
  <1>6. x \in Node /\ x.id = list[p].id /\ x.born = list[p].born
    BY <1>2, <1>3 DEF Node
  <1>7. /\ anew \in Seq(Node) /\ DOMAIN anew = 1..len /\ anew[p] = x
        /\ \A k \in 1..len : anew[k].id = list[k].id /\ anew[k].born = list[k].born
        /\ \A k \in 1..len \ {p} : anew[k] = list[k]
    <2> HIDE DEF x
    <2> QED BY <1>2, <1>6
  <1>8. Sorted(anew, t)
    <2> HIDE DEF anew
    <2>1. \A k \in 1..len : list[k].id \in 1..(t - 1) /\ list[k].born \in 1..(t - 1)
      BY <1>1, <1>2 DEF Sorted
    <2>2. \A j, k \in 1..len :
             j < k => list[j].born < list[k].born /\ list[j].id # list[k].id
      BY <1>1, <1>2 DEF Sorted
    <2>3. \A k \in 1..len : anew[k].id = list[k].id /\ anew[k].born = list[k].born
      BY <1>7
    <2>4. \A k \in 1..len : anew[k].id \in 1..(t - 1) /\ anew[k].born \in 1..(t - 1)
      BY <2>1, <2>3
    <2>5. \A j, k \in 1..len :
             j < k => anew[j].born < anew[k].born /\ anew[j].id # anew[k].id
      BY <2>2, <2>3
    <2>6. anew \in Seq(Node) /\ DOMAIN anew = 1..len
      BY <1>7
    <2> QED BY <2>4, <2>5, <2>6 DEF Sorted
  <1>9. IdsOf(anew) = order
    <2> HIDE DEF anew
    <2>1. \A k \in 1..len : anew[k].id = list[k].id
      BY <1>7
    <2>2. IdsOf(anew) = [k \in 1..len |-> anew[k].id]
      BY <1>7 DEF IdsOf
    <2>3. order = [k \in 1..len |-> list[k].id]
      BY <1>1, <1>2 DEF IdsOf
    <2> QED BY <2>1, <2>2, <2>3
  <1>10. Listed(anew) = Upserted(S, n)
    <2>1. Upserted(S, n) = {m \in S : m.id # n.id} \cup {x}
      BY <1>5 DEF Upserted
    <2>2. Listed(anew) = {list[k] : k \in 1..len \ {p}} \cup {x}
      <3> HIDE DEF anew, x
      <3>1. Listed(anew) = {anew[k] : k \in 1..len}
        BY <1>7 DEF Listed
      <3>2. \A k \in 1..len \ {p} : anew[k] = list[k]
        BY <1>7
      <3>3. anew[p] = x
        BY <1>7
      <3> QED BY <3>1, <3>2, <3>3
    <2>3. {list[k] : k \in 1..len \ {p}} = {m \in S : m.id # n.id}
      BY <1>1, <1>2, <1>3, <1>4 DEF Listed
    <2> QED
      BY <2>1, <2>2, <2>3
  <1> HIDE DEF anew
  <1> QED
    BY <1>7, <1>8, <1>9, <1>10 DEF Agree

\* A node of a list is stored for the first time, or once more.
LEMMA UpsertListed ==
    ASSUME NEW t \in Nat, NEW list \in Seq(Node), Sorted(list, t),
           NEW S \in SUBSET Listed(list), NEW n \in Listed(list)
    PROVE  Upserted(S, n) = S \cup {n}
  <1>1. PICK len \in Nat : DOMAIN list = 1..len /\ list \in [1..len -> Node]
    OBVIOUS
  <1>2. \A j, k \in 1..len : list[j].id = list[k].id => j = k
    <2>1. \A j, k \in 1..len : j < k => list[j].id # list[k].id
      BY <1>1 DEF Sorted
    <2> QED BY <2>1
  <1>3. \A l, m \in Listed(list) : l.id = m.id => l = m
    BY <1>1, <1>2 DEF Listed
  <1>4. n \in Node /\ [n EXCEPT !.born = n.born] = n
    BY <1>1 DEF Listed, Node
  <1>5. (\E m \in S : m.id = n.id) => (CHOOSE m \in S : m.id = n.id) = n
    BY <1>3
  <1>6. {m \in S : m.id # n.id} \cup {n} = S \cup {n}
    BY <1>3
  <1> QED
    BY <1>4, <1>5, <1>6 DEF Upserted

\* What upsert_node and delete_node leave are nodes.
LEMMA ChangedIsTyped ==
    ASSUME NEW S \in SUBSET Node, IsFiniteSet(S), NEW command,
           command.cmd = "put node" => command.arg \in Node
    PROVE  Changed(S, command) \in SUBSET Node /\ IsFiniteSet(Changed(S, command))
  <1>1. CASE command.cmd = "put node"
    <2> PICK n \in Node : n = command.arg
      BY <1>1
    <2>1. PICK x : /\ Upserted(S, n) = {m \in S : m.id # n.id} \cup {x}
                   /\ x \in Node
      <3>1. CASE \E m \in S : m.id = n.id
        <4>1. PICK b : b = (CHOOSE m \in S : m.id = n.id).born /\ b \in Nat
          BY <3>1 DEF Node
        <4>2. [n EXCEPT !.born = b] \in Node
          BY <4>1 DEF Node
        <4> QED BY <3>1, <4>1, <4>2 DEF Upserted
      <3>2. CASE ~ \E m \in S : m.id = n.id
        BY <3>2 DEF Upserted
      <3> QED BY <3>1, <3>2
    <2>2. IsFiniteSet({m \in S : m.id # n.id})
      BY FS_Subset
    <2>3. IsFiniteSet({m \in S : m.id # n.id} \cup {x})
      BY <2>2, FS_AddElement
    <2> QED
      BY <1>1, <2>1, <2>3 DEF Changed
  <1>2. CASE command.cmd = "drop node"
    <2>1. IsFiniteSet({m \in S : m.id # command.arg})
      BY FS_Subset
    <2> QED
      BY <1>2, <2>1 DEF Changed
  <1>3. CASE command.cmd \notin {"put node", "drop node"}
    BY <1>3 DEF Changed
  <1> QED
    BY <1>1, <1>2, <1>3

------------------------------------------------------------------------------
(* What a handler that has the blueprint for itself has left to do.          *)

Commanded(todo) == {todo[j].cmd : j \in DOMAIN todo}
ToPut(todo) == {todo[j].arg : j \in {k \in DOMAIN todo : todo[k].cmd = "put node"}}

\* An update or a creation: the nodes of a list that is sorted, and their order.  As
\* long as they are still to be cleared, all are to be stored after that.
Fills(list, todo) ==
    /\ Sorted(list, clock)
    /\ Commanded(todo) \subseteq {"put row", "clear nodes", "put node", "reload"}
    /\ \A j \in DOMAIN todo : todo[j].cmd = "put row" => todo[j].arg = IdsOf(list)
    /\ row = IdsOf(list) \/ "put row" \in Commanded(todo)
    /\ \/ /\ "clear nodes" \notin Commanded(todo)
          /\ nodes \cup ToPut(todo) = Listed(list)
       \/ /\ ToPut(todo) = Listed(list)
          /\ \E c \in DOMAIN todo :
                /\ todo[c].cmd = "clear nodes"
                /\ \A j \in DOMAIN todo :
                      /\ j < c => todo[j].cmd # "put node"
                      /\ j > c => todo[j].cmd # "clear nodes"
Filling(todo) == \E list \in Seq(Node) : Fills(list, todo)

\* A deletion: in the end there is no row.
Deleting(todo) ==
    /\ Commanded(todo) \subseteq {"drop node", "drop row", "reload"}
    /\ row = NoRow \/ "drop row" \in Commanded(todo)

\* Any other change leads to an order and to nodes that agree, and an evaluation
\* finds them so.
Towards(order, S, todo) ==
    /\ Agree(order, S, clock)
    /\ row = order \/ "put order" \in Commanded(todo)
    /\ nodes = S \/ {"put node", "drop node"} \cap Commanded(todo) # {}
    /\ \A j \in DOMAIN todo :
          /\ todo[j].cmd = "put order" => todo[j].arg = order
          /\ todo[j].cmd \in {"put node", "drop node"} =>
                Changed(nodes, todo[j]) = S /\ Changed(S, todo[j]) = S
          /\ todo[j].cmd = "submit" => todo[j].arg = order /\ nodes = S
Editing(todo) ==
    /\ Commanded(todo) \subseteq {"put order", "put node", "drop node", "reload", "submit"}
    /\ IF row = NoRow THEN "submit" \notin Commanded(todo)
                      ELSE \E order, S : Towards(order, S, todo)

Edits == {"set node", "delete node", "add node", "update node", "evaluate"}
Ops == {"idle", "update", "other order", "create", "delete", "failed"} \cup Edits

\* What a handler is about, unless others or a failure get in its way.
HandlerInv(h) ==
    /\ doing[h].op = "update" /\ doing[h].alone => Filling(doing[h].todo)
    /\ disturbed = {} =>
          /\ doing[h].op \in {"idle", "update", "create", "delete"} \cup Edits
          /\ doing[h].op = "create" => Filling(doing[h].todo)
          /\ doing[h].op = "delete" => Deleting(doing[h].todo)
          /\ doing[h].op \in Edits => Editing(doing[h].todo)

\* No order has a node twice, or one that is yet to be named.
Sound(command, t) ==
    /\ command.cmd \in {"put row", "put order"} => command.arg \in OrdersBefore(t)
    /\ command.cmd = "put node" => command.arg \in Node
ApiTyped ==
    /\ clock \in Nat /\ clock > 0
    /\ row \in OrdersBefore(clock) \cup {NoRow}
    /\ nodes \in SUBSET Node /\ IsFiniteSet(nodes)
    /\ \E X : doing \in [Handler -> [op : Ops, todo : Seq(X), alone : BOOLEAN]]
    /\ \A h \in Handler : \A j \in DOMAIN doing[h].todo : Sound(doing[h].todo[j], clock)

\* OrderIsCreationOrder is not inductive: a handler must be on its way to it.
AloneIsAlone ==
    \A h \in Handler : Busy(h) /\ doing[h].alone => \A k \in Handler \ {h} : ~Busy(k)
UndisturbedIsAlone ==
    disturbed = {} => \A h \in Handler : Busy(h) => doing[h].alone
InOrderAtRest ==
    (\A h \in Handler : ~Busy(h)) /\ disturbed = {} /\ row # NoRow => Agree(row, nodes, clock)
ApiInv ==
    /\ ApiTyped
    /\ AloneIsAlone /\ UndisturbedIsAlone
    /\ \A h \in Handler : HandlerInv(h)
    /\ InOrderAtRest
    /\ ~misled

\* The first command and the others.
LEMMA TailIs ==
    ASSUME NEW X, NEW s \in Seq(X), s # <<>>
    PROVE  /\ Tail(s) \in Seq(X) /\ 1 \in DOMAIN s /\ Head(s) = s[1] /\ Head(s) \in X
           /\ \A j \in DOMAIN s : j \in Nat /\ (j = 1 \/ j - 1 \in DOMAIN Tail(s))
           /\ \A j \in DOMAIN Tail(s) :
                 j \in Nat /\ j >= 1 /\ j + 1 \in DOMAIN s /\ Tail(s)[j] = s[j + 1]
  OBVIOUS

\* What is left to do is what is done now, and the rest.
LEMMA RestIs ==
    ASSUME NEW X, NEW todo \in Seq(X), todo # <<>>
    PROVE  /\ Commanded(todo) = {Head(todo).cmd} \cup Commanded(Tail(todo))
           /\ Head(todo).cmd = "put node" =>
                 ToPut(todo) = {Head(todo).arg} \cup ToPut(Tail(todo))
           /\ Head(todo).cmd # "put node" => ToPut(todo) = ToPut(Tail(todo))
  <1>1. \A j \in DOMAIN todo :
           \/ todo[j] = Head(todo)
           \/ \E k \in DOMAIN Tail(todo) : todo[j] = Tail(todo)[k]
    <2>1. \A j \in DOMAIN todo : j = 1 \/ (j - 1 \in DOMAIN Tail(todo) /\ (j - 1) + 1 = j)
      BY TailIs
    <2> QED BY <2>1, TailIs
  <1>2. \A k \in DOMAIN Tail(todo) : \E j \in DOMAIN todo : todo[j] = Tail(todo)[k]
    BY TailIs
  <1>3. \E j \in DOMAIN todo : todo[j] = Head(todo)
    BY TailIs
  <1>4. Commanded(todo) = {Head(todo).cmd} \cup Commanded(Tail(todo))
    BY <1>1, <1>2, <1>3 DEF Commanded
  <1>5. \A x : x \in ToPut(todo) <=>
           \/ Head(todo).cmd = "put node" /\ x = Head(todo).arg
           \/ x \in ToPut(Tail(todo))
    <2> TAKE x
    <2>2. /\ x \in ToPut(todo) <=>
                \E j \in DOMAIN todo : todo[j].cmd = "put node" /\ x = todo[j].arg
          /\ x \in ToPut(Tail(todo)) <=>
                \E j \in DOMAIN Tail(todo) :
                   Tail(todo)[j].cmd = "put node" /\ x = Tail(todo)[j].arg
      BY DEF ToPut
    <2> HIDE DEF ToPut
    <2> QED
      BY <1>1, <1>2, <1>3, <2>2
  <1> QED
    BY <1>4, <1>5

\* What each command changes.
LEMMA ExecuteIs ==
    ASSUME NEW command, Execute(command)
    PROVE  /\ command.cmd \in {"put order", "drop node", "put node", "reload", "submit"} =>
                 nodes' = Changed(nodes, command)
           /\ command.cmd \in {"put row", "drop row", "reload", "submit"} => nodes' = nodes
           /\ command.cmd = "clear nodes" => nodes' = {}
           /\ command.cmd = "put row" => row' = command.arg
           /\ command.cmd = "drop row" => row' = NoRow
           /\ command.cmd = "put order" => row' = IF row = NoRow THEN NoRow ELSE command.arg
           /\ command.cmd \notin {"put row", "put order", "drop row"} => row' = row
  BY DEF Execute, Changed, Upserted, UpsertNode, HasNode

\* One command of a handler that has the blueprint for itself.
LEMMA FillStep ==
    ASSUME ApiTyped, NEW X, NEW todo \in Seq(X), todo # <<>>, Filling(todo),
           Execute(Head(todo)), UNCHANGED clock
    PROVE  Filling(Tail(todo))' /\ Head(todo).cmd # "submit"
  <1>1. PICK list \in Seq(Node) : Fills(list, todo)
    BY DEF Filling
  <1> PICK rest \in Seq(X) : rest = Tail(todo)
    BY TailIs
  <1> PICK command : command = Head(todo)
    OBVIOUS
  <1> PICK all : all = Listed(list)
    OBVIOUS
  <1>2. /\ Commanded(todo) = {command.cmd} \cup Commanded(rest)
        /\ command.cmd = "put node" => ToPut(todo) = {command.arg} \cup ToPut(rest)
        /\ command.cmd # "put node" => ToPut(todo) = ToPut(rest)
    BY RestIs
  <1>3. command.cmd \in {"put row", "clear nodes", "put node", "reload"}
    BY <1>1, <1>2 DEF Fills
  <1>4. /\ 1 \in DOMAIN todo /\ todo[1] = command
        /\ \A j \in DOMAIN rest : j \in Nat /\ j >= 1 /\ j + 1 \in DOMAIN todo /\ rest[j] = todo[j + 1]
        /\ \A j \in DOMAIN todo : j \in Nat /\ (j = 1 \/ j - 1 \in DOMAIN rest)
    BY TailIs
  <1>5. Sorted(list, clock')
    BY <1>1 DEF Fills
  <1>6. row' = IdsOf(list) \/ "put row" \in Commanded(rest)
    <2>1. command.cmd = "put row" => command.arg = IdsOf(list)
      BY <1>1, <1>4 DEF Fills
    <2>2. row = IdsOf(list) \/ command.cmd = "put row" \/ "put row" \in Commanded(rest)
      BY <1>1, <1>2 DEF Fills
    <2>3. /\ command.cmd = "put row" => row' = command.arg
          /\ command.cmd \in {"clear nodes", "put node", "reload"} => row' = row
      BY ExecuteIs
    <2> QED
      BY <1>3, <2>1, <2>2, <2>3
  <1>7. \/ /\ "clear nodes" \notin Commanded(rest)
           /\ nodes' \cup ToPut(rest) = all
        \/ /\ ToPut(rest) = all
           /\ \E c \in DOMAIN rest :
                 /\ rest[c].cmd = "clear nodes"
                 /\ \A j \in DOMAIN rest :
                       /\ j < c => rest[j].cmd # "put node"
                       /\ j > c => rest[j].cmd # "clear nodes"
    <2>1. CASE "clear nodes" \notin Commanded(todo) /\ nodes \cup ToPut(todo) = all
      <3>1. command.cmd = "put node" => nodes' = nodes \cup {command.arg}
        <4>1. ASSUME command.cmd = "put node"
              PROVE  nodes' = nodes \cup {command.arg}
          <5>1. command.arg \in all /\ nodes \subseteq all
            BY <1>2, <2>1, <4>1
          <5>2. Upserted(nodes, command.arg) = nodes \cup {command.arg}
            <6>1. Sorted(list, clock) /\ clock \in Nat
              BY <1>1 DEF ApiTyped, Fills
            <6> QED
              BY <5>1, <6>1, UpsertListed
          <5> QED
            BY <4>1, <5>2, ExecuteIs DEF Changed
        <4> QED BY <4>1
      <3>2. command.cmd \in {"put row", "reload"} => nodes' = nodes
        BY ExecuteIs
      <3> QED
        BY <1>2, <1>3, <2>1, <3>1, <3>2
    <2>2. ASSUME ToPut(todo) = all, NEW c \in DOMAIN todo, todo[c].cmd = "clear nodes",
                 \A j \in DOMAIN todo :
                    /\ j < c => todo[j].cmd # "put node"
                    /\ j > c => todo[j].cmd # "clear nodes"
          PROVE  <1>7!1 \/ <1>7!2
      <3>1. CASE c = 1
        <4>1. command.cmd = "clear nodes"
          BY <1>4, <2>2, <3>1
        <4>2. \A j \in DOMAIN rest : rest[j].cmd # "clear nodes"
          <5> TAKE j \in DOMAIN rest
          <5>1. j \in Nat /\ j >= 1 /\ j + 1 \in DOMAIN todo /\ rest[j] = todo[j + 1]
            BY <1>4
          <5>2. j + 1 > c
            BY <3>1, <5>1
          <5> QED BY <2>2, <5>1, <5>2
        <4>3. nodes' = {}
          BY <4>1, ExecuteIs
        <4> QED
          BY <1>2, <2>2, <4>1, <4>2, <4>3 DEF Commanded
      <3>2. CASE c # 1
        <4>1. c \in Nat /\ c - 1 \in DOMAIN rest /\ c > 1 /\ (c - 1) + 1 = c
          <5>1. c \in Nat /\ c - 1 \in DOMAIN rest
            BY <1>4, <2>2, <3>2
          <5>2. c - 1 >= 1
            BY <1>4, <5>1
          <5> QED BY <5>1, <5>2
        <4>2. rest[c - 1].cmd = "clear nodes"
          BY <1>4, <2>2, <4>1
        <4>3. command.cmd # "put node"
          BY <1>4, <2>2, <4>1
        <4>4. \A j \in DOMAIN rest :
                 /\ j < c - 1 => rest[j].cmd # "put node"
                 /\ j > c - 1 => rest[j].cmd # "clear nodes"
          <5> TAKE j \in DOMAIN rest
          <5>1. j \in Nat /\ j + 1 \in DOMAIN todo /\ rest[j] = todo[j + 1]
            BY <1>4
          <5>2. (j < c - 1 => j + 1 < c) /\ (j > c - 1 => j + 1 > c)
            BY <4>1, <5>1
          <5> QED BY <2>2, <5>1, <5>2
        <4> QED
          BY <1>2, <2>2, <4>1, <4>2, <4>3, <4>4
      <3> QED BY <3>1, <3>2
    <2> QED
      BY <1>1, <2>1, <2>2 DEF Fills
  <1>8. Fills(list, rest)'
    <2>1. Commanded(rest) \subseteq {"put row", "clear nodes", "put node", "reload"}
      BY <1>1, <1>2 DEF Fills
    <2>2. \A j \in DOMAIN rest : rest[j].cmd = "put row" => rest[j].arg = IdsOf(list)
      <3>1. \A j \in DOMAIN todo : todo[j].cmd = "put row" => todo[j].arg = IdsOf(list)
        BY <1>1 DEF Fills
      <3>2. \A j \in DOMAIN rest : \E k \in DOMAIN todo : rest[j] = todo[k]
        BY <1>4
      <3> QED
        BY <3>1, <3>2
    <2> QED
      BY <1>5, <1>6, <1>7, <2>1, <2>2 DEF Fills
  <1> QED
    BY <1>3, <1>8 DEF Filling

\* ... of a deletion,
LEMMA DeleteStep ==
    ASSUME NEW X, NEW todo \in Seq(X), todo # <<>>, Deleting(todo),
           Execute(Head(todo))
    PROVE  Deleting(Tail(todo))' /\ Head(todo).cmd # "submit"
  <1> PICK rest : rest = Tail(todo)
    OBVIOUS
  <1>1. Commanded(todo) = {Head(todo).cmd} \cup Commanded(rest)
    BY RestIs
  <1> QED
    BY <1>1, ExecuteIs DEF Deleting

\* ... and of any other change: an evaluation lists the nodes in their order.
LEMMA EditStep ==
    ASSUME ApiTyped, NEW X, NEW todo \in Seq(X), todo # <<>>, Editing(todo),
           Execute(Head(todo)), UNCHANGED clock
    PROVE  /\ Editing(Tail(todo))'
           /\ Head(todo).cmd = "submit" => IdsOf(ListNodes) = Head(todo).arg
  <1> PICK rest : rest = Tail(todo)
    OBVIOUS
  <1> PICK command : command = Head(todo)
    OBVIOUS
  <1>1. Commanded(todo) = {command.cmd} \cup Commanded(rest)
    BY RestIs
  <1>2. command.cmd \in {"put order", "put node", "drop node", "reload", "submit"}
    BY <1>1 DEF Editing
  <1>3. CASE row = NoRow
    BY <1>1, <1>2, <1>3, ExecuteIs DEF Editing
  <1>4. ASSUME row # NoRow, NEW order, NEW S, Towards(order, S, todo)
        PROVE  /\ row' # NoRow /\ Towards(order, S, rest)'
               /\ command.cmd = "submit" => IdsOf(ListNodes) = command.arg
    <2>1. \A j \in DOMAIN rest : \E k \in DOMAIN todo : rest[j] = todo[k]
      BY TailIs
    <2>2. \E k \in DOMAIN todo : command = todo[k]
      BY TailIs
    <2>3. order # NoRow
      BY <1>4, AgreeIsOrder DEF ApiTyped, Towards
    <2>4. row' = IF command.cmd = "put order" THEN order ELSE row
      BY <1>2, <1>4, <2>2, ExecuteIs DEF Towards
    <2>5. nodes' = IF command.cmd \in {"put node", "drop node"} THEN S ELSE nodes
      <3>1. command.cmd \in {"put node", "drop node"} => Changed(nodes, command) = S
        BY <1>4, <2>2 DEF Towards
      <3>2. command.cmd \notin {"put node", "drop node"} => Changed(nodes, command) = nodes
        BY DEF Changed
      <3> QED
        BY <1>2, <3>1, <3>2, ExecuteIs
    <2>6. ASSUME NEW j \in DOMAIN rest
          PROVE  /\ rest[j].cmd = "put order" => rest[j].arg = order
                 /\ rest[j].cmd \in {"put node", "drop node"} =>
                       Changed(nodes', rest[j]) = S /\ Changed(S, rest[j]) = S
                 /\ rest[j].cmd = "submit" => rest[j].arg = order /\ nodes' = S
      BY <1>4, <2>1, <2>5 DEF Towards
    <2>7. row' = order \/ "put order" \in Commanded(rest)
      BY <1>1, <1>4, <2>4 DEF Towards
    <2>8. nodes' = S \/ {"put node", "drop node"} \cap Commanded(rest) # {}
      BY <1>1, <1>4, <2>5 DEF Towards
    <2>9. Agree(order, S, clock')
      BY <1>4 DEF Towards
    <2>10. command.cmd = "submit" => IdsOf(ListNodes) = command.arg
      BY <1>4, <2>2, ListingAgrees DEF Towards, ApiTyped
    <2> QED
      BY <1>4, <2>3, <2>4, <2>6, <2>7, <2>8, <2>9, <2>10 DEF Towards, Changed
  <1> QED
    BY <1>1, <1>3, <1>4 DEF Editing

\* A command stays sound.
LEMMA LaterSound ==
    ASSUME NEW t \in Nat, NEW u \in Nat, t <= u, NEW command, Sound(command, t)
    PROVE  Sound(command, u)
  BY LaterOrders DEF Sound

\* A sound command leaves sound rows.
LEMMA ProceedTyped ==
    ASSUME ApiTyped, NEW command, Sound(command, clock), Execute(command), UNCHANGED clock
    PROVE  row' \in OrdersBefore(clock) \cup {NoRow} /\ nodes' \in SUBSET Node /\ IsFiniteSet(nodes')
  <1>1. row' \in OrdersBefore(clock) \cup {NoRow}
    BY DEF Execute, ApiTyped, Sound
  <1>2. nodes' \in {nodes, {}, Changed(nodes, command)}
    BY DEF Execute, Changed, Upserted, UpsertNode, HasNode
  <1>3. Changed(nodes, command) \in SUBSET Node /\ IsFiniteSet(Changed(nodes, command))
    BY ChangedIsTyped DEF ApiTyped, Sound
  <1> QED
    BY <1>1, <1>2, <1>3, FS_EmptySet DEF ApiTyped

\* While a handler has the blueprint for itself, all others are idle.
LEMMA OthersAreIdle ==
    ASSUME ApiInv, NEW h \in Handler, Busy(h), NEW k \in Handler \ {h}
    PROVE  /\ ~(doing[k].op = "update" /\ doing[k].alone)
           /\ disturbed = {} \/ doing[h].alone => ~Busy(k)
           /\ Busy(k) => ~doing[k].alone
  BY DEF ApiInv, AloneIsAlone, UndisturbedIsAlone, Busy

\* A command that succeeds brings its handler further.
LEMMA ProceedStep ==
    ASSUME ApiInv, NEW h \in Handler, Proceed(h)
    PROVE  ApiInv'
  <1>1. PICK X : doing \in [Handler -> [op : Ops, todo : Seq(X), alone : BOOLEAN]]
    BY DEF ApiInv, ApiTyped
  <1> PICK todo \in Seq(X) : todo = doing[h].todo
    BY <1>1
  <1> PICK rest \in Seq(X) : rest = Tail(todo)
    BY TailIs DEF Proceed
  <1> PICK command : command = Head(todo)
    OBVIOUS
  <1>2. todo # <<>> /\ Busy(h) /\ Execute(command) /\ clock' = clock /\ disturbed' = disturbed
    BY DEF Proceed
  <1>3. /\ doing' \in [Handler -> [op : Ops, todo : Seq(X), alone : BOOLEAN]]
        /\ doing'[h].op = doing[h].op /\ doing'[h].alone = doing[h].alone
        /\ doing'[h].todo = rest
        /\ \A k \in Handler \ {h} : doing'[k] = doing[k]
    BY <1>1 DEF Proceed
  <1>4. /\ \A k \in Handler : Busy(k)' <=> Busy(k)
        /\ \A k \in Handler : doing'[k].alone = doing[k].alone
    BY <1>3 DEF Busy
  <1>5. /\ \A j \in DOMAIN rest : \E k \in DOMAIN todo : rest[j] = todo[k]
        /\ \E k \in DOMAIN todo : command = todo[k]
    BY <1>2, TailIs
  <1>6. ApiTyped'
    <2>1. \A j \in DOMAIN todo : Sound(todo[j], clock)
      BY DEF ApiInv, ApiTyped
    <2>2. row' \in OrdersBefore(clock) \cup {NoRow} /\ nodes' \in SUBSET Node /\ IsFiniteSet(nodes')
      BY <1>2, <1>5, <2>1, ProceedTyped DEF ApiInv
    <2>3. ASSUME NEW k \in Handler, NEW j \in DOMAIN doing'[k].todo
          PROVE  Sound(doing'[k].todo[j], clock)
      <3>1. CASE k = h
        <4>1. doing'[k].todo = rest
          BY <1>3, <3>1
        <4>2. PICK i \in DOMAIN todo : rest[j] = todo[i]
          BY <1>5, <4>1
        <4> QED
          BY <2>1, <4>1, <4>2
      <3>2. CASE k # h
        BY <1>3, <3>2 DEF ApiInv, ApiTyped
      <3> QED BY <3>1, <3>2
    <2>4. clock \in Nat /\ clock > 0
      BY DEF ApiInv, ApiTyped
    <2> QED
      BY <1>2, <1>3, <2>2, <2>3, <2>4 DEF ApiTyped
  <1>7. AloneIsAlone' /\ UndisturbedIsAlone' /\ InOrderAtRest'
    BY <1>2, <1>4 DEF ApiInv, AloneIsAlone, UndisturbedIsAlone, InOrderAtRest
  <1>8. /\ doing[h].op = "update" /\ doing[h].alone =>
              Filling(rest)' /\ command.cmd # "submit"
        /\ disturbed = {} =>
              /\ doing[h].op = "update" => doing[h].alone
              /\ doing[h].op = "create" => Filling(rest)' /\ command.cmd # "submit"
              /\ doing[h].op = "delete" => Deleting(rest)' /\ command.cmd # "submit"
              /\ doing[h].op \in Edits =>
                    /\ Editing(rest)'
                    /\ command.cmd = "submit" => IdsOf(ListNodes) = command.arg
    <2>1. HandlerInv(h) /\ ApiTyped /\ (disturbed = {} => doing[h].alone)
      BY <1>2 DEF ApiInv, UndisturbedIsAlone
    <2>2. Filling(todo) => Filling(rest)' /\ command.cmd # "submit"
      BY <1>2, <2>1, FillStep
    <2>3. Deleting(todo) => Deleting(rest)' /\ command.cmd # "submit"
      BY <1>2, DeleteStep
    <2>4. Editing(todo) => /\ Editing(rest)'
                           /\ command.cmd = "submit" => IdsOf(ListNodes) = command.arg
      BY <1>2, <2>1, EditStep
    <2> QED
      BY <2>1, <2>2, <2>3, <2>4 DEF HandlerInv
  <1>9. ASSUME NEW k \in Handler
        PROVE  HandlerInv(k)'
    <2>1. CASE k = h
      <3>1. disturbed = {} =>
               doing[h].op \in {"idle", "update", "create", "delete"} \cup Edits
        BY DEF ApiInv, HandlerInv
      <3> QED
        BY <1>2, <1>3, <1>8, <2>1, <3>1 DEF HandlerInv
    <2>2. CASE k # h
      <3>1. ~(doing[k].op = "update" /\ doing[k].alone)
        BY <1>2, <2>2, OthersAreIdle
      <3>2. disturbed = {} => doing[k].op = "idle"
        BY <1>2, <2>2, OthersAreIdle DEF Busy
      <3> QED
        BY <1>2, <1>3, <2>2, <3>1, <3>2 DEF HandlerInv, Edits
    <2> QED BY <2>1, <2>2
  <1>10. ~misled'
    <2>1. ASSUME command.cmd = "submit", disturbed = {}
          PROVE  IdsOf(ListNodes) = command.arg
      <3>1. doing[h].op \in {"update", "create", "delete"} \cup Edits
        BY <1>2, <2>1 DEF ApiInv, HandlerInv, Busy
      <3> QED
        BY <1>8, <2>1, <3>1
    <2>2. ~misled
      BY DEF ApiInv
    <2>3. IF command.cmd = "submit" THEN Submit(command.arg) ELSE UNCHANGED misled
      BY DEF Proceed
    <2> QED
      BY <2>1, <2>2, <2>3 DEF Submit
  <1> QED
    BY <1>6, <1>7, <1>9, <1>10 DEF ApiInv

\* What a handler leaves when it has nothing left to do is in order.
LEMMA RespondStep ==
    ASSUME ApiInv, NEW h \in Handler, Respond(h)
    PROVE  ApiInv'
  <1>1. PICK X : doing \in [Handler -> [op : Ops, todo : Seq(X), alone : BOOLEAN]]
    BY DEF ApiInv, ApiTyped
  <1>2. /\ Busy(h) /\ doing[h].todo = <<>>
        /\ disturbed' = After(h)
        /\ row' = row /\ nodes' = nodes /\ clock' = clock /\ misled' = misled
    BY DEF Respond
  <1>3. /\ doing' \in [Handler -> [op : Ops, todo : Seq(X), alone : BOOLEAN]]
        /\ doing'[h] = Idle /\ Idle.op = "idle" /\ Idle.todo = <<>>
        /\ \A k \in Handler \ {h} : doing'[k] = doing[k]
    <2>1. /\ Idle \in [op : Ops, todo : Seq(X), alone : BOOLEAN]
          /\ Idle.op = "idle" /\ Idle.todo = <<>>
      <3>1. <<>> \in Seq(X)
        OBVIOUS
      <3> PICK nothing \in Seq(X) : nothing = <<>>
        BY <3>1
      <3>2. Idle = [op |-> "idle", todo |-> nothing, alone |-> TRUE]
        BY DEF Idle
      <3>3. Idle.op = "idle" /\ Idle.todo = <<>>
        BY <3>2
      <3>4. ASSUME NEW a \in BOOLEAN, NEW o \in Ops
            PROVE  [op |-> o, todo |-> nothing, alone |-> a]
                      \in [op : Ops, todo : Seq(X), alone : BOOLEAN]
        OBVIOUS
      <3>5. TRUE \in BOOLEAN /\ "idle" \in Ops
        BY DEF Ops
      <3> QED
        BY <3>2, <3>3, <3>4, <3>5
    <2>2. doing' = [doing EXCEPT ![h] = Idle]
      BY DEF Respond
    <2> QED
      BY <1>1, <2>1, <2>2
  <1>4. ApiTyped'
    <2>1. ASSUME NEW k \in Handler, NEW j \in DOMAIN doing'[k].todo
          PROVE  Sound(doing'[k].todo[j], clock)
      <3>1. CASE k = h
        <4>1. doing'[k].todo = <<>>
          BY <1>3, <3>1
        <4> QED BY <4>1
      <3>2. CASE k # h
        BY <1>3, <3>2 DEF ApiInv, ApiTyped
      <3> QED BY <3>1, <3>2
    <2> QED
      BY <1>2, <1>3, <2>1 DEF ApiInv, ApiTyped
  <1>5. ASSUME disturbed' = {}
        PROVE  /\ \A k \in Handler : ~Busy(k)' /\ doing'[k].op = "idle"
               /\ row # NoRow => Agree(row, nodes, clock)
    <2>1. disturbed = {} \/ (doing[h].op = "update" /\ doing[h].alone)
      BY <1>2, <1>5 DEF After
    <2>2. \A k \in Handler \ {h} : ~Busy(k)
      BY <1>2, <2>1, OthersAreIdle
    <2>3. HandlerInv(h) /\ (disturbed = {} => doing[h].alone)
      BY <1>2 DEF ApiInv, UndisturbedIsAlone
    <2>4. Commanded(<<>>) = {} /\ ToPut(<<>>) = {} /\ DOMAIN <<>> = {}
      BY DEF Commanded, ToPut
    <2>5. Filling(<<>>) => Agree(row, nodes, clock)
      BY <2>4 DEF Filling, Fills, Agree
    <2>6. Deleting(<<>>) => row = NoRow
      BY <2>4 DEF Deleting
    <2>7. Editing(<<>>) /\ row # NoRow => Agree(row, nodes, clock)
      BY <2>4 DEF Editing, Towards
    <2>8. row # NoRow => Agree(row, nodes, clock)
      BY <1>2, <2>1, <2>3, <2>5, <2>6, <2>7 DEF HandlerInv, Busy
    <2> QED
      BY <1>3, <2>2, <2>8 DEF Busy
  <1>6. InOrderAtRest'
    BY <1>2, <1>5 DEF InOrderAtRest
  <1>7. UndisturbedIsAlone'
    BY <1>5 DEF UndisturbedIsAlone
  <1>8. AloneIsAlone'
    BY <1>2, <1>3, OthersAreIdle DEF AloneIsAlone, Busy
  <1>9. ASSUME NEW k \in Handler
        PROVE  HandlerInv(k)'
    <2>1. ~(doing'[k].op = "update" /\ doing'[k].alone)
      BY <1>2, <1>3, OthersAreIdle
    <2> QED
      BY <1>5, <2>1 DEF HandlerInv, Edits
  <1> QED
    BY <1>2, <1>4, <1>6, <1>7, <1>8, <1>9 DEF ApiInv

\* A command that fails is an excuse from then on.
LEMMA FailStep ==
    ASSUME ApiInv, NEW h \in Handler, CommandFails(h)
    PROVE  ApiInv'
  <1>1. PICK X : doing \in [Handler -> [op : Ops, todo : Seq(X), alone : BOOLEAN]]
    BY DEF ApiInv, ApiTyped
  <1> PICK todo \in Seq(X) : todo = doing[h].todo
    BY <1>1
  <1> PICK cleanup : cleanup = Ignoring(DropRow)
    OBVIOUS
  <1> DEFINE Y == X \cup {cleanup}
  <1>2. /\ todo # <<>> /\ Busy(h)
        /\ disturbed' # {}
        /\ row' = row /\ nodes' = nodes /\ clock' = clock /\ misled' = misled
    BY DEF CommandFails
  <1>3. PICK left : /\ left \in {Tail(todo), <<cleanup>>, <<>>}
                    /\ doing' = [doing EXCEPT ![h].todo = left, ![h].op = "failed"]
    BY DEF CommandFails
  <1>4. left \in Seq(Y) /\ \A j \in DOMAIN left : Sound(left[j], clock)
    <2>1. CASE left = Tail(todo)
      <3>1. \A j \in DOMAIN todo : Sound(todo[j], clock)
        BY DEF ApiInv, ApiTyped
      <3>2. left \in Seq(X) /\ \A j \in DOMAIN left : \E k \in DOMAIN todo : left[j] = todo[k]
        BY <1>2, <2>1, TailIs
      <3>3. left \in Seq(Y)
        BY <3>2
      <3> HIDE DEF Y
      <3> QED BY <3>1, <3>2, <3>3
    <2>2. CASE left = <<cleanup>>
      <3>1. Sound(cleanup, clock)
        BY DEF Sound, Ignoring, DropRow, Command
      <3>2. left \in Seq(Y) /\ DOMAIN left = {1} /\ left[1] = cleanup
        BY <2>2
      <3> HIDE DEF Y
      <3> QED BY <3>1, <3>2
    <2>3. CASE left = <<>>
      BY <2>3
    <2> QED BY <1>3, <2>1, <2>2, <2>3
  <1>5. doing \in [Handler -> [op : Ops, todo : Seq(Y), alone : BOOLEAN]]
    <2>1. ASSUME NEW s \in Seq(X)
          PROVE  s \in Seq(Y)
      OBVIOUS
    <2> HIDE DEF Y
    <2> QED
      BY <1>1, <2>1
  <1> HIDE DEF Y
  <1>6. /\ doing' \in [Handler -> [op : Ops, todo : Seq(Y), alone : BOOLEAN]]
        /\ doing'[h].op = "failed" /\ doing'[h].todo = left
        /\ doing'[h].alone = doing[h].alone
        /\ \A k \in Handler \ {h} : doing'[k] = doing[k]
    <2>1. "failed" \in Ops
      BY DEF Ops
    <2> QED
      BY <1>3, <1>4, <1>5, <2>1
  <1>7. ApiTyped'
    <2>1. ASSUME NEW k \in Handler, NEW j \in DOMAIN doing'[k].todo
          PROVE  Sound(doing'[k].todo[j], clock)
      <3>1. CASE k = h
        BY <1>4, <1>6, <3>1
      <3>2. CASE k # h
        BY <1>6, <3>2 DEF ApiInv, ApiTyped
      <3> QED BY <3>1, <3>2
    <2> QED
      BY <1>2, <1>6, <2>1 DEF ApiInv, ApiTyped
  <1>8. InOrderAtRest' /\ UndisturbedIsAlone'
    BY <1>2 DEF InOrderAtRest, UndisturbedIsAlone
  <1>9. AloneIsAlone'
    <2>1. \A k \in Handler : (Busy(k)' <=> Busy(k)) /\ doing'[k].alone = doing[k].alone
      BY <1>2, <1>6 DEF Busy
    <2> QED
      BY <2>1 DEF ApiInv, AloneIsAlone
  <1>10. ASSUME NEW k \in Handler
         PROVE  HandlerInv(k)'
    <2>1. ~(doing'[k].op = "update" /\ doing'[k].alone)
      BY <1>2, <1>6, OthersAreIdle
    <2> QED
      BY <1>2, <2>1 DEF HandlerInv
  <1> QED
    BY <1>2, <1>7, <1>8, <1>9, <1>10 DEF ApiInv

\* A request: an update must be on its way, any other if nothing is in its way.
LEMMA SetOutStep ==
    ASSUME ApiInv, NEW h \in Handler, NEW op \in Ops \ {"idle"}, NEW X, NEW todo \in Seq(X),
           NEW why, SetOut(h, op, todo, why),
           clock' \in Nat, clock <= clock',
           \A j \in DOMAIN todo : Sound(todo[j], clock'),
           op = "update" => Filling(todo)',
           disturbed = {} /\ why = {} /\ (row # NoRow => Agree(row, nodes, clock))
             /\ (\A k \in Handler : ~Busy(k)) =>
                /\ op \in {"update", "create", "delete"} \cup Edits
                /\ op = "create" => Filling(todo)'
                /\ op = "delete" => Deleting(todo)'
                /\ op \in Edits => Editing(todo)'
    PROVE  ApiInv'
  <1>1. PICK Z : doing \in [Handler -> [op : Ops, todo : Seq(Z), alone : BOOLEAN]]
    BY DEF ApiInv, ApiTyped
  <1> PICK others \in BOOLEAN : others <=> \E k \in Handler \ {h} : Busy(k)
    OBVIOUS
  <1>2. /\ ~Busy(h)
        /\ others => disturbed' # {}
        /\ disturbed' = {} => disturbed = {} /\ why = {}
        /\ row' = row /\ nodes' = nodes /\ misled' = misled
    BY DEF SetOut
  <1>3. /\ doing'[h] = [op |-> op, todo |-> todo, alone |-> ~others]
        /\ \A k \in Handler \ {h} : doing'[k] = [doing[k] EXCEPT !.alone = FALSE]
        /\ doing' = [k \in Handler |-> doing'[k]]
    BY DEF SetOut
  <1> DEFINE Y == X \cup Z
  <1>4. /\ \A s \in Seq(X) : s \in Seq(Y)
        /\ \A s \in Seq(Z) : s \in Seq(Y)
    OBVIOUS
  <1> HIDE DEF Y
  <1>5. /\ doing'[h].op = op /\ doing'[h].todo = todo /\ doing'[h].alone = ~others
        /\ doing'[h] \in [op : Ops, todo : Seq(Y), alone : BOOLEAN]
    <2>1. (~others) \in BOOLEAN
      OBVIOUS
    <2>2. ASSUME NEW o \in Ops, NEW s \in Seq(Y), NEW a \in BOOLEAN
          PROVE  [op |-> o, todo |-> s, alone |-> a] \in [op : Ops, todo : Seq(Y), alone : BOOLEAN]
      OBVIOUS
    <2>3. todo \in Seq(Y)
      BY <1>4
    <2> QED
      BY <1>3, <2>1, <2>2, <2>3
  <1>6. ASSUME NEW k \in Handler \ {h}
        PROVE  /\ doing'[k].op = doing[k].op /\ doing'[k].todo = doing[k].todo
               /\ doing'[k].alone = FALSE
               /\ doing'[k] \in [op : Ops, todo : Seq(Y), alone : BOOLEAN]
    <2> PICK was : was = doing[k]
      OBVIOUS
    <2>1. was \in [op : Ops, todo : Seq(Y), alone : BOOLEAN]
      BY <1>1, <1>4
    <2>2. doing'[k] = [was EXCEPT !.alone = FALSE]
      BY <1>3
    <2> QED
      BY <2>1, <2>2
  <1>7. ApiTyped'
    <2>1. ASSUME NEW k \in Handler, NEW j \in DOMAIN doing'[k].todo
          PROVE  Sound(doing'[k].todo[j], clock')
      <3>1. CASE k = h
        BY <1>5, <3>1
      <3>2. CASE k # h
        BY <1>6, <3>2, LaterSound DEF ApiInv, ApiTyped
      <3> QED BY <3>1, <3>2
    <2>2. doing' \in [Handler -> [op : Ops, todo : Seq(Y), alone : BOOLEAN]]
      BY <1>3, <1>5, <1>6
    <2>3. row' \in OrdersBefore(clock') \cup {NoRow} /\ clock' > 0
      BY <1>2, LaterOrders DEF ApiInv, ApiTyped
    <2> QED
      BY <1>2, <2>1, <2>2, <2>3 DEF ApiInv, ApiTyped
  <1>8. /\ Busy(h)' /\ \A k \in Handler \ {h} : Busy(k)' <=> Busy(k)
        /\ doing'[h].alone => \A k \in Handler \ {h} : ~Busy(k)
    BY <1>5, <1>6 DEF Busy
  <1>9. ASSUME disturbed' = {}
        PROVE  /\ disturbed = {} /\ why = {} /\ doing'[h].alone
               /\ \A k \in Handler : ~Busy(k)
    BY <1>2, <1>5, <1>9
  <1>10. AloneIsAlone' /\ UndisturbedIsAlone' /\ InOrderAtRest'
    BY <1>6, <1>8, <1>9 DEF AloneIsAlone, UndisturbedIsAlone, InOrderAtRest
  <1>11. HandlerInv(h)'
    <2>1. disturbed' = {} => (row # NoRow => Agree(row, nodes, clock))
      BY <1>9 DEF ApiInv, InOrderAtRest
    <2> QED
      BY <1>5, <1>9, <2>1 DEF HandlerInv
  <1>12. ASSUME NEW k \in Handler \ {h}
         PROVE  HandlerInv(k)'
    <2>1. disturbed' = {} => doing'[k].op = "idle"
      BY <1>6, <1>9 DEF Busy
    <2> QED
      BY <1>6, <2>1 DEF HandlerInv, Edits
  <1> QED
    BY <1>2, <1>7, <1>10, <1>11, <1>12 DEF ApiInv

------------------------------------------------------------------------------
(* The requests.                                                             *)

\* Two sequences in a row.
Both(s, u) == s \o u

\* It holds what either holds.
LEMMA ConcatIs ==
    ASSUME NEW X, NEW s \in Seq(X), NEW u \in Seq(X)
    PROVE  Both(s, u) \in Seq(X) /\ Listed(Both(s, u)) = Listed(s) \cup Listed(u)
  <1> PICK m \in Nat : m = Len(s) /\ DOMAIN s = 1..m
    OBVIOUS
  <1> PICK n \in Nat : n = Len(u) /\ DOMAIN u = 1..n
    OBVIOUS
  <1> PICK both \in Seq(X) : both = s \o u
    <2>1. s \o u \in Seq(X)
      OBVIOUS
    <2> QED BY <2>1
  <1>2. /\ DOMAIN both = 1..(m + n)
        /\ \A k \in 1..m : both[k] = s[k]
        /\ \A k \in (m + 1)..(m + n) : both[k] = u[k - m]
    OBVIOUS
  <1>3. \A k \in 1..n : k + m \in (m + 1)..(m + n) /\ both[k + m] = u[k]
    BY <1>2
  <1>4. \A k \in 1..(m + n) : k \in 1..m \/ (k \in (m + 1)..(m + n) /\ k - m \in 1..n)
    OBVIOUS
  <1>5. Listed(both) \subseteq Listed(s) \cup Listed(u)
    BY <1>2, <1>4 DEF Listed
  <1>6. Listed(s) \subseteq Listed(both)
    BY <1>2 DEF Listed
  <1>7. Listed(u) \subseteq Listed(both)
    <2>1. \A k \in 1..n : k + m \in 1..(m + n) /\ both[k + m] = u[k]
      BY <1>3
    <2>2. \A x \in Listed(u) : \E k \in 1..n : x = u[k]
      BY DEF Listed
    <2>3. \A k \in 1..(m + n) : both[k] \in Listed(both)
      BY <1>2 DEF Listed
    <2>4. ASSUME NEW k \in 1..n
          PROVE  u[k] \in Listed(both)
      BY <2>1, <2>3
    <2> QED BY <2>2, <2>4
  <1> QED
    BY <1>5, <1>6, <1>7 DEF Both

\* What is commanded, by the commands.
LEMMA ListedIs ==
    ASSUME NEW s
    PROVE  /\ Commanded(s) = {c.cmd : c \in Listed(s)}
           /\ ToPut(s) = {c.arg : c \in {d \in Listed(s) : d.cmd = "put node"}}
           /\ \A j \in DOMAIN s : s[j] \in Listed(s)
  BY DEF Commanded, ToPut, Listed

\* The commands by their constructors.
LEMMA CommandsAre ==
    ASSUME NEW x
    PROVE  /\ PutRow(x).cmd = "put row" /\ PutRow(x).arg = x
           /\ PutOrder(x).cmd = "put order" /\ PutOrder(x).arg = x
           /\ DropRow.cmd = "drop row"
           /\ PutNode(x).cmd = "put node" /\ PutNode(x).arg = x
           /\ DropNode(x).cmd = "drop node" /\ DropNode(x).arg = x
           /\ ClearNodes.cmd = "clear nodes"
           /\ Reload.cmd = "reload"
           /\ Command("submit", x).cmd = "submit" /\ Command("submit", x).arg = x
           /\ CleaningUp(PutNode(x)).cmd = "put node" /\ CleaningUp(PutNode(x)).arg = x
           /\ Ignoring(PutOrder(x)).cmd = "put order" /\ Ignoring(PutOrder(x)).arg = x
  BY DEF PutRow, PutOrder, DropRow, PutNode, DropNode, ClearNodes, Reload, CleaningUp,
         Ignoring, Command

\* New nodes in the order of a request.
LEMMA NodesOfIs ==
    ASSUME ApiTyped, NEW types \in Shape, NEW n \in Nat, n = Len(types),
           NEW ids \in OrdersBefore(clock + n), Len(ids) = n
    PROVE  /\ NodesOf(ids, types) \in Seq(Node) /\ Sorted(NodesOf(ids, types), clock + n)
           /\ Len(NodesOf(ids, types)) = n
           /\ IdsOf(NodesOf(ids, types)) = ids
  <1>1. DOMAIN types = 1..n /\ \A k \in 1..n : types[k] \in Type
    BY ApiAssumption DEF Type
  <1>2. DOMAIN ids = 1..n /\ ids \in Seq(Nat) /\ clock \in Nat /\ clock > 0
    BY DEF OrdersBefore, ApiTyped
  <1> PICK list : list = NodesOf(ids, types)
    OBVIOUS
  <1>3. /\ list = [k \in 1..n |-> [id |-> ids[k], type |-> types[k], born |-> clock + k - 1]]
        /\ \A k \in 1..n : list[k].id = ids[k] /\ list[k].born = clock + k - 1
    BY <1>1 DEF NodesOf
  <1>4. \A k \in 1..n : [id |-> ids[k], type |-> types[k], born |-> clock + k - 1] \in Node
    BY <1>1, <1>2 DEF Node
  <1>5. list \in Seq(Node) /\ DOMAIN list = 1..n /\ Len(list) = n
    BY <1>3, <1>4
  <1>6. Sorted(list, clock + n)
    <2>1. \A k \in 1..n : list[k].id \in 1..(clock + n - 1) /\ list[k].born \in 1..(clock + n - 1)
      <3>1. \A k \in 1..n : ids[k] \in 1..(clock + n - 1)
        BY <1>2 DEF OrdersBefore
      <3>2. \A k \in 1..n : clock + k - 1 \in 1..(clock + n - 1)
        BY <1>2
      <3> QED BY <1>3, <3>1, <3>2
    <2>2. \A j, k \in 1..n : j < k => list[j].born < list[k].born /\ list[j].id # list[k].id
      <3>1. \A j, k \in 1..n : ids[j] = ids[k] => j = k
        BY <1>2 DEF OrdersBefore
      <3>2. \A j, k \in 1..n : j < k => clock + j - 1 < clock + k - 1
        BY <1>2
      <3>3. \A j, k \in 1..n : j < k => ids[j] # ids[k]
        BY <3>1
      <3> QED BY <1>3, <3>2, <3>3
    <2>3. list \in Seq(Node) /\ DOMAIN list = 1..n
      BY <1>5
    <2>4. \A k \in DOMAIN list :
             list[k].id \in 1..((clock + n) - 1) /\ list[k].born \in 1..((clock + n) - 1)
      <3>1. clock + n - 1 = (clock + n) - 1
        BY <1>2
      <3> QED BY <2>1, <2>3, <3>1
    <2>5. \A j, k \in DOMAIN list :
             j < k => list[j].born < list[k].born /\ list[j].id # list[k].id
      BY <2>2, <2>3
    <2> QED
      BY <2>3, <2>4, <2>5 DEF Sorted
  <1>7. IdsOf(list) = ids
    <2>1. IdsOf(list) = [k \in 1..n |-> list[k].id]
      BY <1>5 DEF IdsOf
    <2>2. ids = [k \in 1..n |-> ids[k]]
      BY <1>2
    <2> QED
      BY <1>3, <2>1, <2>2
  <1> QED
    BY <1>5, <1>6, <1>7

\* Fresh ids are an order.
LEMMA FreshAre ==
    ASSUME ApiTyped, NEW types \in Shape, NEW n \in Nat, n = Len(types)
    PROVE  FreshIds(types) \in OrdersBefore(clock + n) /\ Len(FreshIds(types)) = n
  <1>1. DOMAIN types = 1..n /\ clock \in Nat /\ clock > 0
    BY ApiAssumption DEF ApiTyped
  <1> PICK ids : ids = FreshIds(types)
    OBVIOUS
  <1>2. ids = [k \in 1..n |-> clock + k - 1]
    BY <1>1 DEF FreshIds
  <1>3. ids \in Seq(Nat) /\ DOMAIN ids = 1..n /\ Len(ids) = n
    BY <1>1, <1>2
  <1>4. \A k \in 1..n : ids[k] = clock + k - 1 /\ ids[k] \in 1..(clock + n - 1)
    BY <1>1, <1>2
  <1> QED
    BY <1>1, <1>3, <1>4 DEF OrdersBefore

\* So is one that a client turns around.
LEMMA ReverseIsOrder ==
    ASSUME NEW t \in Nat, NEW order \in OrdersBefore(t)
    PROVE  Reverse(order) \in OrdersBefore(t) /\ Len(Reverse(order)) = Len(order)
  <1> PICK n \in Nat : n = Len(order) /\ DOMAIN order = 1..n
    BY DEF OrdersBefore
  <1> PICK back : back = Reverse(order)
    OBVIOUS
  <1>1. order \in Seq(Nat) /\ \A k \in 1..n : order[k] \in 1..(t - 1) /\ order[k] \in Nat
    BY DEF OrdersBefore
  <1>2. back = [k \in 1..n |-> order[n - k + 1]]
    BY DEF Reverse
  <1>3. \A k \in 1..n : n - k + 1 \in 1..n /\ back[k] = order[n - k + 1]
    BY <1>2
  <1>4. back \in Seq(Nat) /\ DOMAIN back = 1..n /\ Len(back) = n
    BY <1>1, <1>2, <1>3
  <1>5. \A j, k \in 1..n : back[j] = back[k] => j = k
    <2> TAKE j, k \in 1..n
    <2>1. n - j + 1 \in 1..n /\ n - k + 1 \in 1..n
      OBVIOUS
    <2>2. order[n - j + 1] = order[n - k + 1] => n - j + 1 = n - k + 1
      BY <2>1 DEF OrdersBefore
    <2>3. n - j + 1 = n - k + 1 => j = k
      OBVIOUS
    <2>4. back[j] = order[n - j + 1] /\ back[k] = order[n - k + 1]
      BY <1>3
    <2> QED BY <2>2, <2>3, <2>4
  <1> QED
    BY <1>1, <1>3, <1>4, <1>5 DEF OrdersBefore

\* Three sequences in a row, the first of two elements, the last of one.
Joined(f, p, e) == f \o p \o e

\* What they hold, and where.
LEMMA JoinedIs ==
    ASSUME NEW X, NEW f \in Seq(X), Len(f) = 2, NEW p \in Seq(X), NEW e \in Seq(X), Len(e) = 1
    PROVE  /\ Joined(f, p, e) \in Seq(X)
           /\ Listed(Joined(f, p, e)) = {f[1], f[2], e[1]} \cup Listed(p)
           /\ 2 \in DOMAIN Joined(f, p, e) /\ Joined(f, p, e)[2] = f[2]
           /\ \A j \in DOMAIN Joined(f, p, e) :
                 /\ j < 2 => Joined(f, p, e)[j] = f[1]
                 /\ j > 2 => Joined(f, p, e)[j] \in {e[1]} \cup Listed(p)
  <1>1. PICK n \in Nat : n = Len(p) /\ DOMAIN p = 1..n
    OBVIOUS
  <1>2. PICK q : q = f \o p
    OBVIOUS
  <1>3. q \in Seq(X) /\ Len(q) = n + 2 /\ \A j \in 1..(n + 2) :
           q[j] = IF j <= 2 THEN f[j] ELSE p[j - 2]
    <2>1. /\ q \in Seq(X)
          /\ Len(q) = Len(f) + Len(p)
          /\ \A i \in 1..Len(f) + Len(p) : q[i] = IF i <= Len(f) THEN f[i] ELSE p[i - Len(f)]
      BY <1>2, ConcatProperties, Zenon
    <2>2. Len(f) + Len(p) = n + 2
      BY <1>1
    <2> QED BY <2>1, <2>2
  <1>4. PICK s : s = q \o e
    OBVIOUS
  <1>5. s \in Seq(X) /\ DOMAIN s = 1..(n + 3) /\ \A j \in 1..(n + 3) :
           s[j] = IF j <= n + 2 THEN q[j] ELSE e[j - (n + 2)]
    <2>1. /\ s \in Seq(X)
          /\ Len(s) = Len(q) + Len(e)
          /\ \A i \in 1..Len(q) + Len(e) : s[i] = IF i <= Len(q) THEN q[i] ELSE e[i - Len(q)]
      BY <1>3, <1>4, ConcatProperties, Zenon
    <2>2. Len(q) + Len(e) = n + 3 /\ Len(q) = n + 2
      BY <1>3
    <2> QED BY <2>1, <2>2
  <1>6. s = Joined(f, p, e)
    BY <1>2, <1>4 DEF Joined
  <1>7. s[2] = f[2] /\ s[1] = f[1] /\ s[n + 3] = e[1] /\ 2 \in 1..(n + 3)
    BY <1>3, <1>5
  <1>8. \A j \in 3..(n + 2) : j - 2 \in 1..n /\ s[j] = p[j - 2]
    BY <1>3, <1>5
  <1>9. Listed(p) = {p[j] : j \in 1..n} /\ Listed(s) = {s[j] : j \in 1..(n + 3)}
    BY <1>1, <1>5 DEF Listed
  <1>10. \A j \in 1..(n + 3) : j = 1 \/ j = 2 \/ j = n + 3 \/ j \in 3..(n + 2)
    OBVIOUS
  <1>11. \A j \in 1..n : j + 2 \in 3..(n + 2) /\ j + 2 \in 1..(n + 3) /\ (j + 2) - 2 = j
    OBVIOUS
  <1>12. \A j \in 1..n : s[j + 2] = p[j]
    BY <1>8, <1>11
  <1>13. Listed(s) \subseteq {f[1], f[2], e[1]} \cup Listed(p)
    BY <1>7, <1>8, <1>9, <1>10
  <1>14. Listed(p) \subseteq Listed(s)
    BY <1>9, <1>11, <1>12
  <1>15. {f[1], f[2], e[1]} \subseteq Listed(s)
    <2>1. 1 \in 1..(n + 3) /\ n + 3 \in 1..(n + 3)
      OBVIOUS
    <2> QED BY <1>7, <1>9, <2>1
  <1>16. \A j \in 1..(n + 3) : (j < 2 => j = 1) /\ (j > 2 => j = n + 3 \/ j \in 3..(n + 2))
    OBVIOUS
  <1>17. \A j \in 1..(n + 3) : /\ j < 2 => s[j] = f[1]
                               /\ j > 2 => s[j] \in {e[1]} \cup Listed(p)
    BY <1>7, <1>8, <1>9, <1>16
  <1> QED
    BY <1>5, <1>6, <1>7, <1>13, <1>14, <1>15, <1>17

\* The commands of an update.
Puts(list) == {PutNode(n) : n \in Listed(list)}

\* One for each node.
LEMMA PutsAre ==
    ASSUME NEW list
    PROVE  /\ \A m \in Puts(list) : m.cmd = "put node" /\ m.arg \in Listed(list)
           /\ \A m \in Listed(list) : \E p \in Puts(list) : p.arg = m
  <1>1. ASSUME NEW n \in Listed(list)
        PROVE  PutNode(n) \in Puts(list) /\ PutNode(n).arg = n
    BY DEF Puts, PutNode, Command
  <1>2. ASSUME NEW m \in Puts(list)
        PROVE  m.cmd = "put node" /\ m.arg \in Listed(list)
    <2>1. PICK n \in Listed(list) : m = PutNode(n)
      BY DEF Puts
    <2>2. PutNode(n).cmd = "put node" /\ PutNode(n).arg = n
      BY CommandsAre
    <2> QED
      BY <2>1, <2>2
  <1> QED
    BY <1>1, <1>2

Opening(order) == <<PutRow(order), ClearNodes>>
Ending == <<Reload>>
ToUpdate(order, list) == Joined(Opening(order), PutAll(list), Ending)

\* The commands of an update, and where among them the nodes are cleared.
LEMMA UpdateTodo ==
    ASSUME NEW order, NEW list \in Seq(Node), NEW todo, todo = ToUpdate(order, list)
    PROVE  /\ \E X : todo \in Seq(X)
           /\ Listed(todo) = {PutRow(order), ClearNodes, Reload} \cup Puts(list)
           /\ 2 \in DOMAIN todo /\ todo[2] = ClearNodes
           /\ \A j \in DOMAIN todo :
                 /\ j < 2 => todo[j] = PutRow(order)
                 /\ j > 2 => todo[j] \in {Reload} \cup Puts(list)
  <1>1. PICK n \in Nat : n = Len(list) /\ DOMAIN list = 1..n
    OBVIOUS
  <1>2. PICK puts : puts = PutAll(list)
    OBVIOUS
  <1>3. PICK f : f = Opening(order)
    OBVIOUS
  <1>4. PICK e : e = Ending
    OBVIOUS
  <1>5. PICK X : X = {PutRow(order), ClearNodes, Reload} \cup Puts(list)
    OBVIOUS
  <1>6. puts \in Seq(X) /\ Listed(puts) = Puts(list)
    <2>1. puts = [k \in 1..n |-> PutNode(list[k])] /\ Puts(list) = {PutNode(list[k]) : k \in 1..n}
      BY <1>1, <1>2 DEF PutAll, Puts, Listed
    <2>2. \A k \in 1..n : PutNode(list[k]) \in X
      BY <1>5, <2>1
    <2> QED
      BY <2>1, <2>2 DEF Listed
  <1>7. f \in Seq(X) /\ Len(f) = 2 /\ f[1] = PutRow(order) /\ f[2] = ClearNodes
    <2>1. PutRow(order) \in X /\ ClearNodes \in X
      BY <1>5
    <2> QED
      BY <1>3, <2>1 DEF Opening
  <1>8. e \in Seq(X) /\ Len(e) = 1 /\ e[1] = Reload
    <2>1. Reload \in X
      BY <1>5
    <2> QED
      BY <1>4, <2>1 DEF Ending
  <1>9. todo = Joined(f, puts, e)
    BY <1>2, <1>3, <1>4 DEF ToUpdate
  <1>10. /\ todo \in Seq(X)
         /\ Listed(todo) = {f[1], f[2], e[1]} \cup Listed(puts)
         /\ 2 \in DOMAIN todo /\ todo[2] = f[2]
         /\ \A j \in DOMAIN todo :
               /\ j < 2 => todo[j] = f[1]
               /\ j > 2 => todo[j] \in {e[1]} \cup Listed(puts)
    <2>1. f \in Seq(X) /\ Len(f) = 2 /\ puts \in Seq(X) /\ e \in Seq(X) /\ Len(e) = 1
      BY <1>6, <1>7, <1>8
    <2>2. /\ Joined(f, puts, e) \in Seq(X)
          /\ Listed(Joined(f, puts, e)) = {f[1], f[2], e[1]} \cup Listed(puts)
          /\ 2 \in DOMAIN Joined(f, puts, e) /\ Joined(f, puts, e)[2] = f[2]
          /\ \A j \in DOMAIN Joined(f, puts, e) :
                /\ j < 2 => Joined(f, puts, e)[j] = f[1]
                /\ j > 2 => Joined(f, puts, e)[j] \in {e[1]} \cup Listed(puts)
      BY <2>1, JoinedIs
    <2> QED
      BY <1>9, <2>2
  <1> QED
    BY <1>6, <1>7, <1>8, <1>10

\* They are sound, and fill the blueprint if the client's order is that of its nodes.
LEMMA UpdateIs ==
    ASSUME NEW t \in Nat, NEW order \in OrdersBefore(t), NEW list \in Seq(Node), Sorted(list, t),
           clock' = t, NEW todo, todo = ToUpdate(order, list)
    PROVE  /\ \E X : todo \in Seq(X)
           /\ \A j \in DOMAIN todo : Sound(todo[j], t)
           /\ order = IdsOf(list) => Filling(todo)'
  <1>9. /\ Listed(todo) = {PutRow(order), ClearNodes, Reload} \cup Puts(list)
        /\ 2 \in DOMAIN todo /\ todo[2] = ClearNodes
        /\ \A j \in DOMAIN todo :
              /\ j < 2 => todo[j] = PutRow(order)
              /\ j > 2 => todo[j] \in {Reload} \cup Puts(list)
    BY UpdateTodo
  <1>10. /\ \A m \in Puts(list) : m.cmd = "put node" /\ m.arg \in Listed(list)
         /\ \A m \in Listed(list) : \E p \in Puts(list) : p.arg = m
    BY PutsAre
  <1> PICK put : put = PutRow(order)
    OBVIOUS
  <1> PICK clear : clear = ClearNodes
    OBVIOUS
  <1> PICK reload : reload = Reload
    OBVIOUS
  <1>7. put.cmd = "put row" /\ put.arg = order /\ clear.cmd = "clear nodes"
        /\ reload.cmd = "reload"
    BY CommandsAre
  <1> PICK puts : puts = Puts(list)
    OBVIOUS
  <1>12. /\ \A j \in DOMAIN todo : todo[j] \in {put, clear, reload} \cup puts
         /\ Listed(todo) = {put, clear, reload} \cup puts
         /\ \A m \in puts : m.cmd = "put node" /\ m.arg \in Listed(list)
    BY <1>9, <1>10, ListedIs
  <1>16. \A j \in DOMAIN todo : Sound(todo[j], t)
    <2>1. Listed(list) \subseteq Node
      BY DEF Listed
    <2> QED
      BY <1>7, <1>12, <2>1 DEF Sound
  <1>13. order = IdsOf(list) => Filling(todo)'
    <2>1. Commanded(todo) \subseteq {"put row", "clear nodes", "put node", "reload"}
      BY <1>7, <1>12 DEF Commanded
    <2>2. \A j \in DOMAIN todo : todo[j].cmd = "put row" => todo[j].arg = order
      BY <1>7, <1>12
    <2>3. "put row" \in Commanded(todo)
      <3>1. put \in Listed(todo)
        BY <1>12
      <3>2. PICK j \in DOMAIN todo : put = todo[j]
        BY <3>1 DEF Listed
      <3>3. todo[j].cmd = "put row"
        BY <1>7, <3>2
      <3> QED
        BY <3>3 DEF Commanded
    <2>4. ToPut(todo) = Listed(list)
      <3>1. ToPut(todo) \subseteq Listed(list)
        BY <1>7, <1>12 DEF ToPut
      <3>2. Listed(list) \subseteq ToPut(todo)
        <4>1. \A p \in puts : p \in Listed(todo) /\ p.cmd = "put node"
          BY <1>12
        <4>2. \A p \in puts : p.arg \in ToPut(todo)
          BY <4>1, ListedIs
        <4> QED BY <1>10, <4>2
      <3> QED BY <3>1, <3>2
    <2>5. /\ todo[2].cmd = "clear nodes"
          /\ \A j \in DOMAIN todo :
                /\ j < 2 => todo[j].cmd # "put node"
                /\ j > 2 => todo[j].cmd # "clear nodes"
      BY <1>7, <1>9, <1>12
    <2>6. ASSUME order = IdsOf(list)
          PROVE  Fills(list, todo)'
      BY <1>9, <2>1, <2>2, <2>3, <2>4, <2>5, <2>6 DEF Fills
    <2> QED BY <2>6 DEF Filling
  <1>17. \E X : todo \in Seq(X)
    BY UpdateTodo
  <1> QED
    BY <1>13, <1>16, <1>17

\* handle_update_blueprint sets out to fill the blueprint.
LEMMA UpdateStep ==
    ASSUME ApiInv, NEW h \in Handler, UpdateBlueprint(h)
    PROVE  ApiInv'
  <1>1. ApiTyped
    BY DEF ApiInv
  <1> DEFINE Known(types) == {FreshIds(types)} \cup (IF Len(row) = Len(types) /\ row # NoRow
                                                   THEN {row, Reverse(row)} ELSE {})
             Asked(types, ids, order) ==
                SetOut(h, IF order = ids THEN "update" ELSE "other order",
                       ToUpdate(order, NodesOf(ids, types)),
                       IF order = ids THEN {} ELSE {"order"})
  <1>2. PICK types \in Shape :
           /\ \E ids \in Known(types) : \E order \in {ids, Reverse(ids)} :
                 Asked(types, ids, order)
           /\ clock' = clock + Len(types)
    BY DEF UpdateBlueprint, Born, ToUpdate, Joined, Opening, Ending
  <1> PICK n \in Nat : n = Len(types)
    BY ApiAssumption
  <1>3. PICK ids \in Known(types) : \E order \in {ids, Reverse(ids)} : Asked(types, ids, order)
    BY <1>2
  <1>4. PICK order \in {ids, Reverse(ids)} : Asked(types, ids, order)
    BY <1>3
  <1> HIDE DEF Asked, Known
  <1>5. clock \in Nat /\ clock' = clock + n /\ clock' \in Nat /\ clock <= clock'
    <2>1. clock \in Nat /\ clock' = clock + n
      BY <1>1, <1>2 DEF ApiTyped
    <2> QED BY <2>1
  <1>6. ids \in OrdersBefore(clock + n) /\ Len(ids) = n
    <2>1. CASE ids = FreshIds(types)
      BY <1>1, <2>1, FreshAre
    <2>2. CASE Len(row) = n /\ row # NoRow /\ ids \in {row, Reverse(row)}
      <3>1. row \in OrdersBefore(clock + n)
        BY <1>1, <1>5, <2>2, LaterOrders DEF ApiTyped
      <3> QED
        BY <1>5, <2>2, <3>1, ReverseIsOrder
    <2> QED
      BY <1>3, <2>1, <2>2 DEF Known
  <1>7. order \in OrdersBefore(clock')
    BY <1>4, <1>5, <1>6, ReverseIsOrder
  <1> PICK list \in Seq(Node) : list = NodesOf(ids, types)
    BY <1>1, <1>6, NodesOfIs
  <1>8. Sorted(list, clock') /\ IdsOf(list) = ids
    BY <1>1, <1>5, <1>6, NodesOfIs
  <1> PICK todo : todo = ToUpdate(order, list)
    OBVIOUS
  <1>9. /\ \E X : todo \in Seq(X)
        /\ \A j \in DOMAIN todo : Sound(todo[j], clock')
        /\ order = IdsOf(list) => Filling(todo)'
    BY <1>5, <1>7, <1>8, UpdateIs
  <1> PICK X : todo \in Seq(X)
    BY <1>9
  <1>14. CASE order = ids
    <2>1. SetOut(h, "update", todo, {})
      BY <1>4, <1>14 DEF Asked
    <2>2. "update" \in Ops \ {"idle"} /\ "update" \notin Edits
      BY DEF Ops, Edits
    <2> QED
      BY <1>5, <1>8, <1>9, <1>14, <2>1, <2>2, SetOutStep
  <1>15. CASE order # ids
    <2>1. SetOut(h, "other order", todo, {"order"})
      BY <1>4, <1>15 DEF Asked
    <2>2. "other order" \in Ops \ {"idle"}
      BY DEF Ops, Edits
    <2> QED
      BY <1>5, <1>9, <2>1, <2>2, SetOutStep
  <1> QED
    BY <1>14, <1>15

\* The commands of a creation.
Cautious(list) == [k \in DOMAIN list |-> CleaningUp(PutNode(list[k]))]
ToCreate(x, puts) == <<x>> \o puts \o <<Reload>>
ToCreateOnly(x, puts) == <<x>> \o puts

\* What they hold.
LEMMA CreateTodo ==
    ASSUME NEW x, NEW P, NEW puts \in Seq(P), NEW s, s \in {ToCreate(x, puts), ToCreateOnly(x, puts)}
    PROVE  /\ \E X : s \in Seq(X)
           /\ Listed(s) \in {{x} \cup Listed(puts), {x, Reload} \cup Listed(puts)}
  <1>1. PICK f : f = <<x>>
    OBVIOUS
  <1>2. PICK e : e = <<Reload>>
    OBVIOUS
  <1>3. PICK X : X = {x, Reload} \cup P
    OBVIOUS
  <1>4. x \in X /\ Reload \in X
    BY <1>3
  <1>5. f \in Seq(X) /\ Listed(f) = {x}
    BY <1>1, <1>4 DEF Listed
  <1>6. e \in Seq(X) /\ Listed(e) = {Reload}
    BY <1>2, <1>4 DEF Listed
  <1>7. puts \in Seq(X)
    <2>1. \A y \in P : y \in X
      BY <1>3
    <2> QED
      BY <2>1
  <1>8. PICK q : q = Both(f, puts)
    OBVIOUS
  <1>9. q \in Seq(X) /\ Listed(q) = Listed(f) \cup Listed(puts)
    BY <1>5, <1>7, <1>8, ConcatIs
  <1>10. PICK r : r = Both(q, e)
    OBVIOUS
  <1>11. r \in Seq(X) /\ Listed(r) = Listed(q) \cup Listed(e)
    BY <1>6, <1>9, <1>10, ConcatIs
  <1>12. ToCreate(x, puts) = r /\ ToCreateOnly(x, puts) = q
    BY <1>1, <1>2, <1>8, <1>10 DEF ToCreate, ToCreateOnly, Both
  <1> QED
    BY <1>5, <1>6, <1>9, <1>11, <1>12

\* They are sound, and fill a blueprint that has no nodes yet.
LEMMA CreateIs ==
    ASSUME NEW t \in Nat, NEW list \in Seq(Node), Sorted(list, t), IdsOf(list) \in OrdersBefore(t),
           clock' = t, nodes' = {},
           NEW puts, puts \in {PutAll(list), Cautious(list)},
           NEW todo, todo \in {ToCreate(PutRow(IdsOf(list)), puts),
                              ToCreateOnly(PutRow(IdsOf(list)), puts)}
    PROVE  /\ \E X : todo \in Seq(X)
           /\ \A j \in DOMAIN todo : Sound(todo[j], t)
           /\ Filling(todo)'
  <1>1. PICK n \in Nat : n = Len(list) /\ DOMAIN list = 1..n
    OBVIOUS
  <1>2. PICK P : P = Listed(puts)
    OBVIOUS
  <1>3. DOMAIN puts = 1..n /\ \A k \in 1..n : puts[k].cmd = "put node" /\ puts[k].arg = list[k]
    <2>1. CASE puts = PutAll(list)
      <3>1. DOMAIN puts = 1..n /\ \A k \in 1..n : puts[k] = PutNode(list[k])
        BY <1>1, <2>1 DEF PutAll
      <3>2. \A k \in 1..n : PutNode(list[k]).cmd = "put node" /\ PutNode(list[k]).arg = list[k]
        BY CommandsAre, Zenon
      <3> QED BY <3>1, <3>2
    <2>2. CASE puts = Cautious(list)
      <3>1. DOMAIN puts = 1..n /\ \A k \in 1..n : puts[k] = CleaningUp(PutNode(list[k]))
        BY <1>1, <2>2 DEF Cautious
      <3>2. \A k \in 1..n : /\ CleaningUp(PutNode(list[k])).cmd = "put node"
                             /\ CleaningUp(PutNode(list[k])).arg = list[k]
        BY CommandsAre, Zenon
      <3> QED BY <3>1, <3>2
    <2> QED BY <2>1, <2>2
  <1>4. puts \in Seq(P)
    <2>1. puts = [k \in 1..n |-> puts[k]] /\ \A k \in 1..n : puts[k] \in P
      BY <1>1, <1>2, <1>3 DEF Listed, PutAll, Cautious
    <2> QED BY <2>1
  <1>5. PICK put : put = PutRow(IdsOf(list))
    OBVIOUS
  <1>6. put.cmd = "put row" /\ put.arg = IdsOf(list) /\ Reload.cmd = "reload"
    BY <1>5, CommandsAre
  <1>7. /\ \E X : todo \in Seq(X)
        /\ Listed(todo) \in {{put} \cup P, {put, Reload} \cup P}
    <2>1. todo \in {ToCreate(put, puts), ToCreateOnly(put, puts)}
      BY <1>5
    <2> QED
      BY <1>2, <1>4, <2>1, CreateTodo
  <1>8. /\ \A m \in P : m.cmd = "put node" /\ m.arg \in Listed(list) /\ m.arg \in Node
        /\ \A m \in Listed(list) : \E p \in P : p.arg = m
    <2>1. P = {puts[k] : k \in 1..n} /\ Listed(list) = {list[k] : k \in 1..n}
      BY <1>1, <1>2, <1>3 DEF Listed
    <2>2. \A k \in 1..n : list[k] \in Node
      BY <1>1
    <2> QED
      BY <1>3, <2>1, <2>2
  <1>9. ASSUME NEW j \in DOMAIN todo
        PROVE  /\ Sound(todo[j], t)
               /\ todo[j].cmd \in {"put row", "put node", "reload"}
               /\ todo[j].cmd = "put row" => todo[j].arg = IdsOf(list)
    <2>1. todo[j] \in Listed(todo)
      BY DEF Listed
    <2>2. PICK c : c = todo[j] /\ (c = put \/ c = Reload \/ c \in P)
      BY <1>7, <2>1
    <2> QED
      BY <1>6, <1>8, <2>2 DEF Sound
  <1>10. Commanded(todo) \subseteq {"put row", "put node", "reload"} /\ "put row" \in Commanded(todo)
    <2>1. Commanded(todo) \subseteq {"put row", "put node", "reload"}
      BY <1>9 DEF Commanded
    <2>2. put \in Listed(todo)
      BY <1>7
    <2>3. PICK j \in DOMAIN todo : put = todo[j]
      BY <2>2 DEF Listed
    <2>4. todo[j].cmd = "put row"
      BY <1>6, <2>3
    <2> QED
      BY <2>1, <2>4 DEF Commanded
  <1>11. ToPut(todo) = Listed(list)
    <2>1. \A c \in Listed(todo) : c.cmd = "put node" => c \in P
      BY <1>6, <1>7
    <2>2. P \subseteq Listed(todo)
      BY <1>7
    <2>3. ToPut(todo) = {c.arg : c \in P}
      <3>1. {d \in Listed(todo) : d.cmd = "put node"} = P
        BY <1>8, <2>1, <2>2
      <3> QED BY <3>1, ListedIs
    <2> QED
      BY <1>8, <2>3
  <1>12. Fills(list, todo)'
    BY <1>9, <1>10, <1>11 DEF Fills
  <1> QED
    BY <1>7, <1>9, <1>12 DEF Filling

\* Both handlers that create a blueprint set out to fill it.
LEMMA CreateStep ==
    ASSUME ApiInv, NEW h \in Handler, CreateBlueprint(h) \/ DashboardCreate(h)
    PROVE  ApiInv'
  <1>1. ApiTyped /\ nodes = {}
    BY DEF ApiInv, CreateBlueprint, DashboardCreate
  <1> DEFINE Asked(list, puts, todo) ==
                /\ puts \in {PutAll(list), Cautious(list)}
                /\ todo \in {ToCreate(PutRow(IdsOf(list)), puts),
                            ToCreateOnly(PutRow(IdsOf(list)), puts)}
                /\ SetOut(h, "create", todo, {})
  <1>2. \E types \in Shape :
           /\ clock' = clock + Len(types)
           /\ \E puts, todo : Asked(NodesOf(FreshIds(types), types), puts, todo)
    <2>1. CASE CreateBlueprint(h)
      <3>1. PICK types \in Shape :
               /\ clock' = clock + Len(types)
               /\ SetOut(h, "create",
                         ToCreate(PutRow(IdsOf(NodesOf(FreshIds(types), types))),
                                  Cautious(NodesOf(FreshIds(types), types))), {})
        BY <2>1 DEF CreateBlueprint, Born, ToCreate, Cautious
      <3> QED BY <3>1
    <2>2. CASE DashboardCreate(h)
      <3>1. PICK types \in Shape :
               /\ clock' = clock + Len(types)
               /\ SetOut(h, "create",
                         ToCreateOnly(PutRow(IdsOf(NodesOf(FreshIds(types), types))),
                                      PutAll(NodesOf(FreshIds(types), types))), {})
        BY <2>2 DEF DashboardCreate, Born, ToCreateOnly
      <3> QED BY <3>1
    <2> QED BY <2>1, <2>2
  <1> HIDE DEF Asked
  <1>3. PICK types \in Shape :
           /\ clock' = clock + Len(types)
           /\ \E puts, todo : Asked(NodesOf(FreshIds(types), types), puts, todo)
    BY <1>2
  <1>4. PICK n \in Nat : n = Len(types)
    BY ApiAssumption
  <1>5. PICK t \in Nat : t = clock + n /\ clock <= t /\ clock' = t
    <2>1. clock \in Nat /\ clock' = clock + n
      BY <1>1, <1>3, <1>4 DEF ApiTyped
    <2> QED BY <2>1
  <1>6. PICK ids : ids = FreshIds(types)
    OBVIOUS
  <1>7. ids \in OrdersBefore(t) /\ Len(ids) = n
    BY <1>1, <1>4, <1>5, <1>6, FreshAre
  <1>8. PICK list \in Seq(Node) : list = NodesOf(ids, types) /\ Sorted(list, t) /\ IdsOf(list) = ids
    BY <1>1, <1>4, <1>5, <1>7, NodesOfIs
  <1>9. PICK puts, todo : Asked(list, puts, todo)
    BY <1>3, <1>6, <1>8
  <1>10. /\ puts \in {PutAll(list), Cautious(list)}
         /\ todo \in {ToCreate(PutRow(IdsOf(list)), puts), ToCreateOnly(PutRow(IdsOf(list)), puts)}
         /\ SetOut(h, "create", todo, {})
    BY <1>9 DEF Asked
  <1>11. nodes' = {}
    BY <1>1, <1>10 DEF SetOut
  <1>12. /\ \E X : todo \in Seq(X)
         /\ \A j \in DOMAIN todo : Sound(todo[j], t)
         /\ Filling(todo)'
    BY <1>5, <1>7, <1>8, <1>10, <1>11, CreateIs
  <1>13. "create" \in Ops \ {"idle"} /\ "create" \notin Edits
    BY DEF Ops, Edits
  <1> QED
    BY <1>5, <1>10, <1>12, <1>13, SetOutStep

\* A deletion.
One(a) == <<a>>
Two(a, b) == <<a, b>>
Three(a, b, c) == <<a, b, c>>

\* What they hold.
LEMMA ShortIs ==
    ASSUME NEW a, NEW b, NEW c
    PROVE  /\ (\E X : One(a) \in Seq(X)) /\ Listed(One(a)) = {a}
           /\ (\E X : Two(a, b) \in Seq(X)) /\ Listed(Two(a, b)) = {a, b}
           /\ (\E X : Three(a, b, c) \in Seq(X)) /\ Listed(Three(a, b, c)) = {a, b, c}
  <1>1. (\E X : One(a) \in Seq(X)) /\ Listed(One(a)) = {a}
    <2>1. One(a) \in Seq({a}) /\ Listed(One(a)) = {a}
      BY DEF One, Listed
    <2> QED BY <2>1
  <1>2. (\E X : Two(a, b) \in Seq(X)) /\ Listed(Two(a, b)) = {a, b}
    <2>1. Two(a, b) \in Seq({a, b}) /\ Listed(Two(a, b)) = {a, b}
      BY DEF Two, Listed
    <2> QED BY <2>1
  <1>3. (\E X : Three(a, b, c) \in Seq(X)) /\ Listed(Three(a, b, c)) = {a, b, c}
    <2>1. Three(a, b, c) \in Seq({a, b, c}) /\ Listed(Three(a, b, c)) = {a, b, c}
      BY DEF Three, Listed
    <2> QED BY <2>1
  <1> QED
    BY <1>1, <1>2, <1>3

Drops(list) == [k \in DOMAIN list |-> DropNode(list[k].id)]

\* The dashboard drops the nodes it has listed.
LEMMA DropsAre ==
    ASSUME ApiTyped
    PROVE  \E X : /\ Drops(ListNodes) \in Seq(X)
                  /\ \A c \in Listed(Drops(ListNodes)) : c.cmd = "drop node"
  <1>1. PICK times : times = {n.born : n \in nodes}
    OBVIOUS
  <1>2. IsFiniteSet(times)
    <2>1. PICK f : f = [n \in nodes |-> n.born]
      OBVIOUS
    <2>2. f \in Surjection(nodes, times)
      BY <1>1, <2>1 DEF Surjection
    <2> QED
      BY <2>2, FS_Surjection DEF ApiTyped
  <1>3. PICK len \in Nat : len = Cardinality(times)
    BY <1>2, FS_CardinalityType
  <1>4. DOMAIN ListNodes = 1..len
    <2>1. DOMAIN InOrder(times) = 1..len
      BY <1>3 DEF InOrder
    <2> QED
      BY <1>1, <2>1 DEF ListNodes
  <1>5. PICK drops : drops = Drops(ListNodes)
    OBVIOUS
  <1>6. drops = [k \in 1..len |-> DropNode(ListNodes[k].id)]
    BY <1>4, <1>5 DEF Drops
  <1>7. DOMAIN drops = 1..len /\ drops \in Seq(Listed(drops))
    <2>1. DOMAIN drops = 1..len
      BY <1>6
    <2>2. \A k \in 1..len : drops[k] \in Listed(drops)
      BY <2>1 DEF Listed
    <2>3. drops = [k \in 1..len |-> drops[k]]
      BY <1>6
    <2> QED
      BY <2>1, <2>2, <2>3
  <1>8. \A k \in 1..len : drops[k].cmd = "drop node"
    <2>1. \A k \in 1..len : DropNode(ListNodes[k].id).cmd = "drop node"
      BY CommandsAre, Zenon
    <2> QED
      BY <1>6, <2>1
  <1> QED
    BY <1>5, <1>7, <1>8 DEF Listed

\* For UNCHANGED clock.
LEMMA NotLater ==
    \A t \in Nat : t <= t
  OBVIOUS

\* With nothing but deletions the row goes.
LEMMA DeleteRequest ==
    ASSUME ApiInv, NEW h \in Handler, NEW X, NEW todo \in Seq(X), SetOut(h, "delete", todo, {}),
           UNCHANGED clock, DropRow \in Listed(todo),
           \A c \in Listed(todo) : c.cmd \in {"drop node", "drop row", "reload"}
    PROVE  ApiInv'
  <1>1. \A j \in DOMAIN todo : todo[j].cmd \in {"drop node", "drop row", "reload"}
    BY DEF Listed
  <1>2. \A j \in DOMAIN todo : Sound(todo[j], clock)
    BY <1>1 DEF Sound
  <1>3. Deleting(todo)'
    <2>1. "drop row" \in Commanded(todo)
      <3>1. PICK j \in DOMAIN todo : DropRow = todo[j]
        BY DEF Listed
      <3>2. todo[j].cmd = "drop row"
        BY <3>1, CommandsAre
      <3> QED BY <3>2 DEF Commanded
    <2>2. Commanded(todo) \subseteq {"drop node", "drop row", "reload"}
      BY <1>1 DEF Commanded
    <2> QED
      BY <2>1, <2>2 DEF Deleting
  <1>4. "delete" \in Ops \ {"idle"} /\ "delete" \notin Edits
    BY DEF Ops, Edits
  <1>5. clock \in Nat /\ clock' = clock /\ clock <= clock'
    <2>1. clock \in Nat /\ clock' = clock
      BY DEF ApiInv, ApiTyped
    <2> QED
      BY <2>1, NotLater, Zenon
  <1> QED
    BY <1>2, <1>3, <1>4, <1>5, SetOutStep

\* Both handlers that delete a blueprint set out to drop its row.
LEMMA DeleteBlueprintStep ==
    ASSUME ApiInv, NEW h \in Handler, DeleteBlueprint(h) \/ DashboardDelete(h)
    PROVE  ApiInv'
  <1>1. DropRow.cmd = "drop row" /\ Reload.cmd = "reload"
    BY CommandsAre
  <1>2. PICK last : last = Two(DropRow, Reload)
    OBVIOUS
  <1>3. (\E X : last \in Seq(X)) /\ Listed(last) = {DropRow, Reload}
    BY <1>2, ShortIs
  <1>4. CASE DeleteBlueprint(h)
    <2>1. SetOut(h, "delete", last, {}) /\ UNCHANGED clock
      BY <1>2, <1>4 DEF DeleteBlueprint, Two
    <2> QED
      BY <1>1, <1>3, <2>1, DeleteRequest
  <1>5. CASE DashboardDelete(h)
    <2>1. PICK drops : drops = Drops(ListNodes)
      OBVIOUS
    <2>2. PICK X : drops \in Seq(X) /\ \A c \in Listed(drops) : c.cmd = "drop node"
      BY <2>1, DropsAre DEF ApiInv
    <2>3. PICK todo : todo = Both(drops, last)
      OBVIOUS
    <2>4. SetOut(h, "delete", todo, {}) /\ UNCHANGED clock
      BY <1>2, <1>5, <2>1, <2>3 DEF DashboardDelete, Drops, Both, Two
    <2>5. PICK Y : last \in Seq(Y)
      BY <1>3
    <2>6. PICK Z : Z = X \cup Y
      OBVIOUS
    <2>7. drops \in Seq(Z) /\ last \in Seq(Z)
      <3>1. (\A x \in X : x \in Z) /\ (\A y \in Y : y \in Z)
        BY <2>6
      <3>2. \A s \in Seq(X) : s \in Seq(Z)
        BY <3>1
      <3>3. \A s \in Seq(Y) : s \in Seq(Z)
        BY <3>1
      <3> QED
        BY <2>2, <2>5, <3>2, <3>3, Zenon
    <2>8. todo \in Seq(Z) /\ Listed(todo) = Listed(drops) \cup Listed(last)
      BY <2>3, <2>7, ConcatIs
    <2>9. DropRow \in Listed(todo)
      BY <1>3, <2>8
    <2>10. \A c \in Listed(todo) : c.cmd \in {"drop node", "drop row", "reload"}
      BY <1>1, <1>3, <2>2, <2>8
    <2> QED
      BY <2>4, <2>8, <2>9, <2>10, DeleteRequest
  <1> QED
    BY <1>4, <1>5

\* Any other change: the order and the nodes that it leads to.
Leading(order, S, t, commands) ==
    /\ Agree(order, S, t)
    /\ row = order \/ \E c \in commands : c.cmd = "put order"
    /\ nodes = S \/ \E c \in commands : c.cmd \in {"put node", "drop node"}
    /\ \A c \in commands :
          /\ c.cmd = "put order" => c.arg = order
          /\ c.cmd \in {"put node", "drop node"} => Changed(nodes, c) = S /\ Changed(S, c) = S
          /\ c.cmd = "submit" => c.arg = order /\ nodes = S

EditCommand(c, t) ==
    Sound(c, t) /\ c.cmd \in {"put order", "put node", "drop node", "reload", "submit"}
Leads(t, commands) == \E order, S : Leading(order, S, t, commands)

\* A request whose commands lead to such an order and such nodes is on its way.
LEMMA EditRequest ==
    ASSUME ApiInv, NEW h \in Handler, NEW op \in Edits, NEW todo, \E X : todo \in Seq(X),
           NEW commands, Listed(todo) = commands, NEW why, SetOut(h, op, todo, why),
           NEW t \in Nat, clock' = t, clock <= t,
           \A c \in commands : EditCommand(c, t),
           row = NoRow => \A c \in commands : c.cmd # "submit",
           row # NoRow /\ why = {} /\ Agree(row, nodes, clock) => Leads(t, commands)
    PROVE  ApiInv'
  <1> USE DEF EditCommand, Leads
  <1> PICK X : todo \in Seq(X)
    OBVIOUS
  <1>1. row' = row /\ nodes' = nodes
    BY DEF SetOut
  <1>2. \A j \in DOMAIN todo : todo[j] \in Listed(todo)
    BY DEF Listed
  <1>3. \A c \in Listed(todo) : c.cmd \in Commanded(todo)
    BY DEF Listed, Commanded
  <1>4. Commanded(todo) \subseteq {"put order", "put node", "drop node", "reload", "submit"}
    BY <1>2 DEF Commanded
  <1>5. row = NoRow => "submit" \notin Commanded(todo)
    BY <1>2 DEF Commanded
  <1>6. ASSUME NEW order, NEW S, Leading(order, S, t, Listed(todo))
        PROVE  Towards(order, S, todo)'
    <2>1. row = order \/ "put order" \in Commanded(todo)
      BY <1>3, <1>6 DEF Leading
    <2>2. nodes = S \/ {"put node", "drop node"} \cap Commanded(todo) # {}
      BY <1>3, <1>6 DEF Leading
    <2>3. \A j \in DOMAIN todo :
             /\ todo[j].cmd = "put order" => todo[j].arg = order
             /\ todo[j].cmd \in {"put node", "drop node"} =>
                   Changed(nodes, todo[j]) = S /\ Changed(S, todo[j]) = S
             /\ todo[j].cmd = "submit" => todo[j].arg = order /\ nodes = S
      BY <1>2, <1>6 DEF Leading
    <2>4. Agree(order, S, clock')
      BY <1>6 DEF Leading
    <2> QED
      BY <1>1, <2>1, <2>2, <2>3, <2>4 DEF Towards
  <1>7. why = {} /\ (row # NoRow => Agree(row, nodes, clock)) => Editing(todo)'
    <2>1. CASE row = NoRow
      BY <1>1, <1>4, <1>5, <2>1 DEF Editing
    <2>2. CASE row # NoRow
      BY <1>1, <1>4, <1>6, <2>2 DEF Editing
    <2> QED BY <2>1, <2>2
  <1>8. op \in Ops \ {"idle"} /\ op \notin {"update", "create", "delete"}
    BY DEF Ops, Edits
  <1> QED
    BY <1>2, <1>7, <1>8, SetOutStep

\* A request creates one node, or none.
LEMMA ClockIs ==
    ASSUME ApiTyped, NEW n \in {0, 1}, clock' = clock + n
    PROVE  \E t \in Nat : t = clock + n /\ clock' = t /\ clock <= t
  <1>1. clock \in Nat
    BY DEF ApiTyped
  <1> PICK c \in Nat : c = clock
    BY <1>1
  <1>2. c + n \in Nat /\ c <= c + n
    OBVIOUS
  <1> QED
    BY <1>2

\* What is put into a node that is there.
LEMMA ExistingIs ==
    ASSUME ApiTyped, NEW t \in Nat, clock <= t, Agree(row, nodes, clock), NEW c, NEW S,
           c.cmd = "put node", c.arg \in Node, \E m \in nodes : m.id = c.arg.id,
           S = Changed(nodes, c)
    PROVE  Agree(row, S, t) /\ Changed(S, c) = S
  <1>1. S = Upserted(nodes, c.arg)
    BY DEF Changed
  <1>2. clock \in Nat /\ nodes \in SUBSET Node
    BY DEF ApiTyped
  <1>3. Agree(row, S, clock)
    BY <1>1, <1>2, UpsertAgrees
  <1>4. Agree(row, S, t)
    BY <1>2, <1>3, LaterOrders
  <1>5. Changed(Changed(nodes, c), c) = Changed(nodes, c)
    BY <1>2, ChangedTwice
  <1> QED
    BY <1>4, <1>5

\* And what is left without one.
LEMMA DroppedIs ==
    ASSUME ApiTyped, Agree(row, nodes, clock), NEW id, NEW c, NEW S,
           c.cmd = "drop node", c.arg = id, S = Changed(nodes, c)
    PROVE  Agree(Without(row, id), S, clock) /\ Changed(S, c) = S
  <1>1. S = Others(nodes, id)
    BY DEF Changed, Others
  <1>2. clock \in Nat /\ nodes \in SUBSET Node
    BY DEF ApiTyped
  <1>3. Agree(Without(row, id), S, clock)
    BY <1>1, <1>2, WithoutAgrees
  <1>4. Changed(Changed(nodes, c), c) = Changed(nodes, c)
    BY <1>2, ChangedTwice
  <1> QED
    BY <1>3, <1>4

\* The types that the requests of the model use.
LEMMA TypesAre ==
    {"webhook_entry", "condition", "debug_action"} \subseteq Type
  BY DEF Type, NodeTypes, EntryTypes, ActionTypes

\* handle_set_node stores a node that is there anew, or has the excuse of a new one.
LEMMA SetNodeStep ==
    ASSUME ApiInv, NEW h \in Handler, SetNode(h)
    PROVE  ApiInv'
  <1>1. ApiTyped
    BY DEF ApiInv
  <1> DEFINE Why(id) == IF HasNode(id) THEN {} ELSE {"set node"}
  <1>2. PICK type \in {"webhook_entry", "condition", "debug_action"},
             id \in {clock} \cup {n.id : n \in nodes} :
           /\ SetOut(h, "set node", One(PutNode([id |-> id, type |-> type, born |-> clock])), Why(id))
           /\ clock' = clock + 1
    BY DEF SetNode, One, Born
  <1>3. PICK n : n = [id |-> id, type |-> type, born |-> clock]
    OBVIOUS
  <1>4. n \in Node /\ n.id = id
    <2>1. type \in Type
      BY TypesAre
    <2>2. clock \in Nat /\ id \in Nat
      BY <1>1 DEF ApiTyped, Node
    <2> QED
      BY <1>3, <2>1, <2>2 DEF Node
  <1>5. PICK t \in Nat : t = clock + 1 /\ clock' = t /\ clock <= t
    BY <1>1, <1>2, ClockIs
  <1>6. PICK c : c = PutNode(n)
    OBVIOUS
  <1>7. c.cmd = "put node" /\ c.arg = n
    BY <1>6, CommandsAre
  <1>8. PICK todo : todo = One(c)
    OBVIOUS
  <1>9. (\E X : todo \in Seq(X)) /\ Listed(todo) = {c}
    BY <1>8, ShortIs
  <1>10. PICK why : why = Why(id)
    OBVIOUS
  <1>11. SetOut(h, "set node", todo, why)
    BY <1>2, <1>3, <1>6, <1>8, <1>10
  <1>12. \A x \in {c} : EditCommand(x, t) /\ x.cmd # "submit"
    BY <1>4, <1>7 DEF Sound, EditCommand
  <1>13. ASSUME why = {}, Agree(row, nodes, clock)
         PROVE  Leads(t, {c})
    <2>1. \E m \in nodes : m.id = n.id
      BY <1>4, <1>10, <1>13 DEF HasNode
    <2>2. PICK S : S = Changed(nodes, c)
      OBVIOUS
    <2>3. Agree(row, S, t) /\ Changed(S, c) = S
      BY <1>1, <1>4, <1>5, <1>7, <1>13, <2>1, <2>2, ExistingIs
    <2>4. Leading(row, S, t, {c})
      BY <1>7, <2>2, <2>3 DEF Leading
    <2> QED BY <2>4 DEF Leads
  <1>14. "set node" \in Edits
    BY DEF Edits
  <1> QED
    BY <1>5, <1>9, <1>11, <1>12, <1>13, <1>14, EditRequest

\* handle_update_node of the dashboard leaves the order as it is.
LEMMA UpdateNodeStep ==
    ASSUME ApiInv, NEW h \in Handler, DashboardUpdateNode(h)
    PROVE  ApiInv'
  <1>1. ApiTyped /\ row # NoRow
    BY DEF ApiInv, DashboardUpdateNode
  <1>2. PICK m \in nodes, type \in {"webhook_entry", "condition", "debug_action"} :
           /\ SetOut(h, "update node", Two(PutNode([m EXCEPT !.type = type]), Reload), {})
           /\ clock' = clock
    BY DEF DashboardUpdateNode, Two
  <1>3. PICK n : n = [m EXCEPT !.type = type]
    OBVIOUS
  <1>4. n \in Node /\ m.id = n.id
    <2>1. type \in Type
      BY TypesAre
    <2>2. m \in Node
      BY <1>1 DEF ApiTyped
    <2> QED
      BY <1>3, <2>1, <2>2 DEF Node
  <1>5. PICK t \in Nat : t = clock /\ clock' = t /\ clock <= t
    <2>1. clock' = clock
      BY <1>2
    <2>2. clock + 0 = clock
      BY <1>1 DEF ApiTyped
    <2> QED
      BY <1>1, <2>1, <2>2, ClockIs
  <1>6. PICK c : c = PutNode(n)
    OBVIOUS
  <1>7. c.cmd = "put node" /\ c.arg = n /\ Reload.cmd = "reload"
    BY <1>6, CommandsAre
  <1>8. PICK todo : todo = Two(c, Reload)
    OBVIOUS
  <1>9. (\E X : todo \in Seq(X)) /\ Listed(todo) = {c, Reload}
    BY <1>8, ShortIs
  <1>11. SetOut(h, "update node", todo, {})
    BY <1>2, <1>3, <1>6, <1>8
  <1>12. \A x \in {c, Reload} : EditCommand(x, t)
    BY <1>4, <1>7 DEF Sound, EditCommand
  <1>13. ASSUME Agree(row, nodes, clock)
         PROVE  Leads(t, {c, Reload})
    <2>2. PICK S : S = Changed(nodes, c)
      OBVIOUS
    <2>3. Agree(row, S, t) /\ Changed(S, c) = S
      BY <1>1, <1>4, <1>5, <1>7, <1>13, <2>2, ExistingIs
    <2>4. Leading(row, S, t, {c, Reload})
      BY <1>7, <2>2, <2>3 DEF Leading
    <2> QED BY <2>4 DEF Leads
  <1>14. "update node" \in Edits
    BY DEF Edits
  <1> QED
    BY <1>1, <1>5, <1>9, <1>11, <1>12, <1>13, <1>14, EditRequest

\* An evaluation is submitted with the order that was read.
LEMMA EvaluateStep ==
    ASSUME ApiInv, NEW h \in Handler, EvaluateBlueprint(h)
    PROVE  ApiInv'
  <1>1. ApiTyped /\ row # NoRow
    BY DEF ApiInv, EvaluateBlueprint
  <1>2. PICK c : c = Command("submit", row)
    OBVIOUS
  <1>3. c.cmd = "submit" /\ c.arg = row
    BY <1>2, CommandsAre
  <1>4. PICK todo : todo = One(c)
    OBVIOUS
  <1>5. (\E X : todo \in Seq(X)) /\ Listed(todo) = {c}
    BY <1>4, ShortIs
  <1>6. SetOut(h, "evaluate", todo, {}) /\ clock' = clock
    BY <1>2, <1>4 DEF EvaluateBlueprint, One
  <1>7. PICK t \in Nat : t = clock /\ clock' = t /\ clock <= t
    <2>1. clock' = clock
      BY <1>6
    <2>2. clock + 0 = clock
      BY <1>1 DEF ApiTyped
    <2> QED
      BY <1>1, <2>1, <2>2, ClockIs
  <1>8. \A x \in {c} : EditCommand(x, t)
    BY <1>3 DEF Sound, EditCommand
  <1>9. ASSUME Agree(row, nodes, clock)
        PROVE  Leads(t, {c})
    <2>1. Leading(row, nodes, t, {c})
      BY <1>3, <1>7, <1>9 DEF Leading
    <2> QED BY <2>1 DEF Leads
  <1>10. "evaluate" \in Edits
    BY DEF Edits
  <1> QED
    BY <1>1, <1>5, <1>6, <1>7, <1>8, <1>9, <1>10, EditRequest

\* handle_delete_node of the API: the order first.
LEMMA DeleteNodeStep ==
    ASSUME ApiInv, NEW h \in Handler, DeleteNode(h)
    PROVE  ApiInv'
  <1>1. ApiTyped /\ clock' = clock
    BY DEF ApiInv, DeleteNode
  <1> DEFINE Asked(id, readable) ==
                SetOut(h, "delete node",
                       (IF row # NoRow /\ readable THEN One(Ignoring(PutOrder(Without(row, id))))
                                                   ELSE <<>>) \o One(DropNode(id)),
                       IF readable THEN {} ELSE {"failed"})
  <1>2. PICK id \in {n.id : n \in nodes}, readable \in BOOLEAN : Asked(id, readable)
    BY DEF DeleteNode, One
  <1>3. PICK t \in Nat : t = clock /\ clock' = t /\ clock <= t
    <2>1. clock + 0 = clock
      BY <1>1 DEF ApiTyped
    <2> QED
      BY <1>1, <2>1, ClockIs
  <1>4. PICK drop : drop = DropNode(id)
    OBVIOUS
  <1>5. PICK put : put = Ignoring(PutOrder(Without(row, id)))
    OBVIOUS
  <1>6. /\ drop.cmd = "drop node" /\ drop.arg = id
        /\ put.cmd = "put order" /\ put.arg = Without(row, id)
    BY <1>4, <1>5, CommandsAre
  <1>7. PICK why : why = IF readable THEN {} ELSE {"failed"}
    OBVIOUS
  <1>8. "delete node" \in Edits
    BY DEF Edits
  <1>9. EditCommand(drop, t)
    BY <1>6 DEF Sound, EditCommand
  <1>10. CASE row # NoRow /\ readable
    <2>1. PICK todo : todo = Both(One(put), One(drop))
      OBVIOUS
    <2>2. (\E X : todo \in Seq(X)) /\ Listed(todo) = {put, drop}
      <3>1. PICK X : X = {put, drop}
        OBVIOUS
      <3>2. put \in X /\ drop \in X
        BY <3>1
      <3>3. One(put) \in Seq(X) /\ One(drop) \in Seq(X)
        BY <3>2 DEF One
      <3>4. todo \in Seq(X) /\ Listed(todo) = Listed(One(put)) \cup Listed(One(drop))
        BY <2>1, <3>3, ConcatIs
      <3>5. Listed(One(put)) = {put} /\ Listed(One(drop)) = {drop}
        BY ShortIs
      <3> QED
        BY <3>4, <3>5
    <2>3. SetOut(h, "delete node", todo, why)
      <3>1. One(put) \o One(drop) = todo
        BY <2>1 DEF Both
      <3> QED
        BY <1>2, <1>4, <1>5, <1>7, <1>10, <3>1
    <2>4. \A x \in {put, drop} : EditCommand(x, t)
      <3>1. row \in OrdersBefore(clock) /\ clock \in Nat
        BY <1>1, <1>10 DEF ApiTyped
      <3>2. Without(row, id) \in OrdersBefore(clock)
        BY <3>1, WithoutIsOrder
      <3>3. EditCommand(put, t)
        BY <1>3, <1>6, <3>2 DEF Sound, EditCommand
      <3> QED
        BY <1>9, <3>3
    <2>5. ASSUME Agree(row, nodes, clock)
          PROVE  Leads(t, {put, drop})
      <3>1. PICK S : S = Changed(nodes, drop)
        OBVIOUS
      <3>2. Agree(Without(row, id), S, clock) /\ Changed(S, drop) = S
        <4>1. ApiTyped /\ Agree(row, nodes, clock) /\ drop.cmd = "drop node" /\ drop.arg = id
          BY <1>1, <1>6, <2>5
        <4> QED
          BY <3>1, <4>1, DroppedIs
      <3>3. Leading(Without(row, id), S, t, {put, drop})
        BY <1>3, <1>6, <3>1, <3>2 DEF Leading
      <3> QED BY <3>3 DEF Leads
    <2> QED
      BY <1>3, <1>8, <1>10, <2>2, <2>3, <2>4, <2>5, EditRequest
  <1>11. CASE ~(row # NoRow /\ readable)
    <2>1. PICK todo : todo = One(drop)
      OBVIOUS
    <2>2. (\E X : todo \in Seq(X)) /\ Listed(todo) = {drop}
      BY <2>1, ShortIs
    <2>3. SetOut(h, "delete node", todo, why)
      <3>1. <<>> \o One(drop) = todo
        BY <2>1 DEF One
      <3> QED
        BY <1>2, <1>4, <1>7, <1>11, <3>1
    <2>4. row = NoRow \/ why # {}
      BY <1>7, <1>11
    <2>5. \A x \in {drop} : EditCommand(x, t) /\ x.cmd # "submit"
      BY <1>6, <1>9
    <2> QED
      BY <1>3, <1>8, <2>2, <2>3, <2>4, <2>5, EditRequest
  <1> QED
    BY <1>10, <1>11

\* handle_delete_node of the dashboard: the node first.
LEMMA DashboardDeleteNodeStep ==
    ASSUME ApiInv, NEW h \in Handler, DashboardDeleteNode(h)
    PROVE  ApiInv'
  <1>1. ApiTyped /\ clock' = clock /\ row # NoRow
    BY DEF ApiInv, DashboardDeleteNode
  <1>2. PICK id : SetOut(h, "delete node",
                         Three(DropNode(id), PutOrder(Without(row, id)), Reload), {})
    BY DEF DashboardDeleteNode, Three
  <1>3. PICK t \in Nat : t = clock /\ clock' = t /\ clock <= t
    <2>1. clock + 0 = clock
      BY <1>1 DEF ApiTyped
    <2> QED
      BY <1>1, <2>1, ClockIs
  <1>4. PICK drop : drop = DropNode(id)
    OBVIOUS
  <1>5. PICK put : put = PutOrder(Without(row, id))
    OBVIOUS
  <1>6. /\ drop.cmd = "drop node" /\ drop.arg = id
        /\ put.cmd = "put order" /\ put.arg = Without(row, id) /\ Reload.cmd = "reload"
    BY <1>4, <1>5, CommandsAre
  <1>7. PICK todo : todo = Three(drop, put, Reload)
    OBVIOUS
  <1>8. (\E X : todo \in Seq(X)) /\ Listed(todo) = {drop, put, Reload}
    BY <1>7, ShortIs
  <1>9. SetOut(h, "delete node", todo, {})
    BY <1>2, <1>4, <1>5, <1>7
  <1>10. \A x \in {drop, put, Reload} : EditCommand(x, t)
    <2>1. row \in OrdersBefore(clock) /\ clock \in Nat
      BY <1>1 DEF ApiTyped
    <2>2. Without(row, id) \in OrdersBefore(clock)
      BY <2>1, WithoutIsOrder
    <2> QED
      BY <1>3, <1>6, <2>2 DEF Sound, EditCommand
  <1>11. ASSUME Agree(row, nodes, clock)
         PROVE  Leads(t, {drop, put, Reload})
    <2>1. PICK S : S = Changed(nodes, drop)
      OBVIOUS
    <2>2. Agree(Without(row, id), S, clock) /\ Changed(S, drop) = S
      <3>1. ApiTyped /\ Agree(row, nodes, clock) /\ drop.cmd = "drop node" /\ drop.arg = id
        BY <1>1, <1>6, <1>11
      <3> QED
        BY <2>1, <3>1, DroppedIs
    <2>3. Leading(Without(row, id), S, t, {drop, put, Reload})
      BY <1>3, <1>6, <2>1, <2>2 DEF Leading
    <2> QED BY <2>3 DEF Leads
  <1>12. "delete node" \in Edits
    BY DEF Edits
  <1> QED
    BY <1>1, <1>3, <1>8, <1>9, <1>10, <1>11, <1>12, EditRequest

\* A new node does not stand in the order yet.
LEMMA AppendIsOrder ==
    ASSUME NEW t \in Nat, t > 0, NEW order \in OrdersBefore(t), NEW u \in Nat, u = t + 1
    PROVE  Append(order, t) \in OrdersBefore(u)
  <1>1. PICK n \in Nat : DOMAIN order = 1..n /\ Len(order) = n
    BY DEF OrdersBefore
  <1>2. PICK longer : longer = Append(order, t)
    OBVIOUS
  <1>3. /\ longer \in Seq(Nat) /\ DOMAIN longer = 1..(n + 1)
        /\ longer[n + 1] = t /\ \A k \in 1..n : longer[k] = order[k]
    <2>1. order \in Seq(Nat)
      BY DEF OrdersBefore
    <2> QED
      BY <1>1, <1>2, <2>1
  <1>4. \A k \in 1..n : order[k] \in 1..(t - 1) /\ order[k] # t /\ order[k] \in 1..(u - 1)
    <2>1. \A x \in 1..(t - 1) : x # t /\ x \in 1..(u - 1)
      OBVIOUS
    <2> QED
      BY <1>1, <2>1 DEF OrdersBefore
  <1>5. t \in 1..(u - 1) /\ \A k \in 1..(n + 1) : k \in 1..n \/ k = n + 1
    OBVIOUS
  <1>6. \A k \in 1..(n + 1) : longer[k] \in 1..(u - 1)
    BY <1>3, <1>4, <1>5
  <1>7. \A j, k \in 1..(n + 1) : longer[j] = longer[k] => j = k
    <2>1. \A j, k \in 1..n : order[j] = order[k] => j = k
      BY <1>1 DEF OrdersBefore
    <2> QED
      BY <1>3, <1>4, <1>5, <2>1
  <1> QED
    BY <1>2, <1>3, <1>6, <1>7 DEF OrdersBefore

\* handle_add_node of the dashboard puts the new node last in both.
LEMMA AddNodeStep ==
    ASSUME ApiInv, NEW h \in Handler, DashboardAdd(h)
    PROVE  ApiInv'
  <1>1. ApiTyped /\ row # NoRow
    BY DEF ApiInv, DashboardAdd
  <1>2. PICK type \in {"webhook_entry", "condition", "debug_action"} :
           /\ SetOut(h, "add node",
                     Three(PutNode([id |-> clock, type |-> type, born |-> clock]),
                           PutOrder(Append(row, clock)), Reload), {})
           /\ clock' = clock + 1
    BY DEF DashboardAdd, Three, Born
  <1>3. PICK n : n = [id |-> clock, type |-> type, born |-> clock]
    OBVIOUS
  <1>4. n \in Node /\ n.id = clock /\ n.born = clock
    <2>1. type \in Type
      BY TypesAre
    <2>2. clock \in Nat
      BY <1>1 DEF ApiTyped
    <2> QED
      BY <1>3, <2>1, <2>2 DEF Node
  <1>5. PICK t \in Nat : t = clock + 1 /\ clock' = t /\ clock <= t
    BY <1>1, <1>2, ClockIs
  <1>6. PICK longer : longer = Append(row, clock)
    OBVIOUS
  <1>7. PICK c : c = PutNode(n)
    OBVIOUS
  <1>8. PICK put : put = PutOrder(longer)
    OBVIOUS
  <1>9. /\ c.cmd = "put node" /\ c.arg = n
        /\ put.cmd = "put order" /\ put.arg = longer /\ Reload.cmd = "reload"
    BY <1>7, <1>8, CommandsAre
  <1>10. PICK todo : todo = Three(c, put, Reload)
    OBVIOUS
  <1>11. (\E X : todo \in Seq(X)) /\ Listed(todo) = {c, put, Reload}
    BY <1>10, ShortIs
  <1>12. SetOut(h, "add node", todo, {})
    BY <1>2, <1>3, <1>6, <1>7, <1>8, <1>10
  <1>13. \A x \in {c, put, Reload} : EditCommand(x, t)
    <2>1. row \in OrdersBefore(clock) /\ clock \in Nat /\ clock > 0
      BY <1>1 DEF ApiTyped
    <2>2. longer \in OrdersBefore(t)
      BY <1>5, <1>6, <2>1, AppendIsOrder
    <2> QED
      BY <1>4, <1>9, <2>2 DEF Sound, EditCommand
  <1>14. ASSUME Agree(row, nodes, clock)
         PROVE  Leads(t, {c, put, Reload})
    <2>1. PICK S : S = nodes \cup {n}
      OBVIOUS
    <2>2. clock \in Nat /\ clock > 0 /\ nodes \in SUBSET Node
      BY <1>1 DEF ApiTyped
    <2>3. Agree(longer, S, t)
      <3>1. Agree(Append(row, clock), nodes \cup {n}, clock + 1)
        BY <1>4, <1>14, <2>2, AppendAgrees
      <3> QED
        BY <1>5, <1>6, <2>1, <3>1, Zenon
    <2>4. \A m \in nodes : m.id # n.id
      <3>1. PICK list \in Seq(Node) : Sorted(list, clock) /\ nodes = Listed(list)
        BY <1>14 DEF Agree
      <3>2. \A k \in DOMAIN list : list[k].id \in 1..(clock - 1)
        BY <3>1 DEF Sorted
      <3>3. \A x \in 1..(clock - 1) : x # clock
        BY <2>2
      <3> QED
        BY <1>4, <3>1, <3>2, <3>3 DEF Listed
    <2>5. Changed(nodes, c) = S
      <3>1. {m \in nodes : m.id # n.id} = nodes
        BY <2>4
      <3>2. Upserted(nodes, n) = nodes \cup {n}
        BY <2>4, <3>1 DEF Upserted
      <3> QED
        BY <1>9, <2>1, <3>2 DEF Changed
    <2>6. Changed(S, c) = S
      <3>1. Changed(Changed(nodes, c), c) = Changed(nodes, c)
        BY <1>4, <1>9, <2>2, ChangedTwice
      <3> QED BY <2>5, <3>1
    <2>7. Leading(longer, S, t, {c, put, Reload})
      BY <1>9, <2>3, <2>5, <2>6 DEF Leading
    <2> QED BY <2>7 DEF Leads
  <1>15. "add node" \in Edits
    BY DEF Edits
  <1> QED
    BY <1>1, <1>5, <1>11, <1>12, <1>13, <1>14, <1>15, EditRequest

------------------------------------------------------------------------------
\* There is no blueprint, or one in order.
LEMMA ApiInitial ==
    ApiInit => ApiInv
  <1> SUFFICES ASSUME ApiInit PROVE ApiInv
    OBVIOUS
  <1>1. PICK none : none = <<>>
    OBVIOUS
  <1>2. none \in Seq({}) /\ DOMAIN none = {}
    BY <1>1
  <1>3. Idle = [op |-> "idle", todo |-> none, alone |-> TRUE]
    BY <1>1 DEF Idle
  <1>4. \A h \in Handler : doing[h].op = "idle" /\ doing[h].todo = none /\ ~Busy(h)
    BY <1>3 DEF ApiInit, Busy
  <1>5. doing \in [Handler -> [op : Ops, todo : Seq({}), alone : BOOLEAN]]
    <2>1. "idle" \in Ops /\ TRUE \in BOOLEAN
      BY DEF Ops
    <2>2. Idle \in [op : Ops, todo : Seq({}), alone : BOOLEAN]
      BY <1>2, <1>3, <2>1
    <2> QED
      BY <2>2 DEF ApiInit
  <1>6. disturbed = {} /\ misled = FALSE
    BY DEF ApiInit
  <1>7. /\ clock \in Nat /\ clock > 0
        /\ row \in OrdersBefore(clock) \cup {NoRow}
        /\ nodes \in SUBSET Node /\ IsFiniteSet(nodes)
        /\ row # NoRow => Agree(row, nodes, clock)
    <2>1. CASE row = NoRow /\ nodes = {} /\ clock = 1
      BY <2>1, FS_EmptySet
    <2>2. CASE /\ row = <<1, 2>> /\ clock = 3
               /\ nodes = {[id |-> 1, type |-> "webhook_entry", born |-> 1],
                           [id |-> 2, type |-> "debug_action", born |-> 2]}
      <3>1. PICK a : a = [id |-> 1, type |-> "webhook_entry", born |-> 1]
        OBVIOUS
      <3>2. PICK b : b = [id |-> 2, type |-> "debug_action", born |-> 2]
        OBVIOUS
      <3>3. /\ a \in Node /\ a.id = 1 /\ a.born = 1
            /\ b \in Node /\ b.id = 2 /\ b.born = 2
        BY <3>1, <3>2, TypesAre DEF Node
      <3>4. PICK list : list = <<a, b>>
        OBVIOUS
      <3>5. /\ list \in Seq(Node) /\ DOMAIN list = 1..2 /\ list[1] = a /\ list[2] = b
            /\ Len(list) = 2
        BY <3>3, <3>4
      <3>6. \A k \in 1..2 : k = 1 \/ k = 2
        OBVIOUS
      <3>7. Sorted(list, 3)
        BY <3>3, <3>5, <3>6 DEF Sorted
      <3>8. Listed(list) = {a, b}
        BY <3>5, <3>6 DEF Listed
      <3>9. IdsOf(list) = <<1, 2>>
        BY <3>3, <3>5, <3>6 DEF IdsOf
      <3>10. nodes = {a, b} /\ row = <<1, 2>> /\ clock = 3
        BY <2>2, <3>1, <3>2
      <3>11. Agree(row, nodes, clock)
        BY <3>5, <3>7, <3>8, <3>9, <3>10 DEF Agree
      <3>12. row \in OrdersBefore(clock)
        BY <3>10, <3>11, AgreeIsOrder
      <3>13. nodes \in SUBSET Node
        BY <3>3, <3>10
      <3>14. IsFiniteSet(nodes)
        <4>1. IsFiniteSet({a}) /\ IsFiniteSet({b})
          BY FS_Singleton
        <4>2. IsFiniteSet({a} \cup {b})
          BY <4>1, FS_Union
        <4>3. {a} \cup {b} = nodes
          BY <3>10
        <4> QED BY <4>2, <4>3
      <3> QED
        BY <3>10, <3>11, <3>12, <3>13, <3>14
    <2> QED
      BY <2>1, <2>2 DEF ApiInit
  <1>8. ApiTyped
    <2>1. \A h \in Handler : \A j \in DOMAIN doing[h].todo : Sound(doing[h].todo[j], clock)
      BY <1>2, <1>4
    <2> QED
      BY <1>5, <1>7, <2>1 DEF ApiTyped
  <1>9. AloneIsAlone /\ UndisturbedIsAlone /\ InOrderAtRest
    BY <1>4, <1>7 DEF AloneIsAlone, UndisturbedIsAlone, InOrderAtRest
  <1>10. \A h \in Handler : HandlerInv(h)
    BY <1>4 DEF HandlerInv, Edits
  <1> QED
    BY <1>6, <1>8, <1>9, <1>10 DEF ApiInv

\* A step that changes nothing keeps everything.
LEMMA ApiStutters ==
    ASSUME ApiInv, UNCHANGED apiVars
    PROVE  ApiInv'
  <1>1. /\ row' = row /\ nodes' = nodes /\ clock' = clock /\ doing' = doing
        /\ disturbed' = disturbed /\ misled' = misled
    BY DEF apiVars
  <1>2. ApiTyped'
    BY <1>1 DEF ApiInv, ApiTyped
  <1>3. AloneIsAlone' /\ UndisturbedIsAlone' /\ InOrderAtRest'
    BY <1>1 DEF ApiInv, AloneIsAlone, UndisturbedIsAlone, InOrderAtRest, Busy
  <1>4. ASSUME NEW h \in Handler
        PROVE  HandlerInv(h)'
    <2>1. Filling(doing[h].todo) => Filling(doing[h].todo)'
      BY <1>1 DEF Filling, Fills
    <2>2. Deleting(doing[h].todo) => Deleting(doing[h].todo)'
      BY <1>1 DEF Deleting
    <2>3. Editing(doing[h].todo) => Editing(doing[h].todo)'
      <3>1. PICK todo : todo = doing[h].todo /\ todo = doing'[h].todo
        BY <1>1
      <3>2. ASSUME NEW order, NEW S, Towards(order, S, todo)
            PROVE  Towards(order, S, todo)'
        BY <1>1, <3>2 DEF Towards
      <3>3. Editing(todo) => Editing(todo)'
        BY <1>1, <3>2 DEF Editing
      <3> QED
        BY <3>1, <3>3
    <2>4. HandlerInv(h)
      BY DEF ApiInv
    <2> QED
      BY <1>1, <2>1, <2>2, <2>3, <2>4 DEF HandlerInv
  <1> QED
    BY <1>1, <1>2, <1>3, <1>4 DEF ApiInv

\* Types, and the inductive invariant of the handlers: one that has the blueprint for
\* itself is on its way to an order and nodes that agree, whatever commands are left.
THEOREM HandlersLeadToOrder == ApiSpec => []ApiInv
  <1>1. ApiInit => ApiInv
    BY ApiInitial
  <1>2. ApiInv /\ [ApiNext]_apiVars => ApiInv'
    <2> SUFFICES ASSUME ApiInv, [ApiNext]_apiVars
                 PROVE  ApiInv'
      OBVIOUS
    <2>1. ASSUME NEW h \in Handler, UpdateBlueprint(h)
          PROVE  ApiInv'
      BY <2>1, UpdateStep
    <2>2. ASSUME NEW h \in Handler, CreateBlueprint(h) \/ DashboardCreate(h)
          PROVE  ApiInv'
      BY <2>2, CreateStep
    <2>3. ASSUME NEW h \in Handler, DeleteBlueprint(h) \/ DashboardDelete(h)
          PROVE  ApiInv'
      BY <2>3, DeleteBlueprintStep
    <2>4. ASSUME NEW h \in Handler, SetNode(h) \/ DeleteNode(h)
          PROVE  ApiInv'
      BY <2>4, SetNodeStep, DeleteNodeStep
    <2>5. ASSUME NEW h \in Handler,
                 DashboardAdd(h) \/ DashboardDeleteNode(h) \/ DashboardUpdateNode(h)
          PROVE  ApiInv'
      BY <2>5, AddNodeStep, DashboardDeleteNodeStep, UpdateNodeStep
    <2>6. ASSUME NEW h \in Handler, EvaluateBlueprint(h)
          PROVE  ApiInv'
      BY <2>6, EvaluateStep
    <2>7. ASSUME NEW h \in Handler, Proceed(h) \/ Respond(h) \/ CommandFails(h)
          PROVE  ApiInv'
      BY <2>7, ProceedStep, RespondStep, FailStep
    <2>8. CASE UNCHANGED apiVars
      BY <2>8, ApiStutters
    <2> QED
      BY <2>1, <2>2, <2>3, <2>4, <2>5, <2>6, <2>7, <2>8 DEF ApiNext
  <1> QED
    BY <1>1, <1>2, PTL DEF ApiSpec

\* Evaluation never sees node_order and the nodes' order differ without an excuse, for
\* any number of handlers and requests, any nodes, and any place where one stops.
THEOREM OrdersAgree == ApiSpec => []OrderIsCreationOrder
  <1>1. ApiInv => OrderIsCreationOrder
    <2> SUFFICES ASSUME ApiInv PROVE OrderIsCreationOrder
      OBVIOUS
    <2>1. ASSUME \A h \in Handler : ~Busy(h), disturbed = {}, row # NoRow
          PROVE  row = IdsOf(ListNodes)
      <3>1. Agree(row, nodes, clock) /\ clock \in Nat
        BY <2>1 DEF ApiInv, InOrderAtRest, ApiTyped
      <3> QED
        BY <3>1, ListingAgrees
    <2>2. ~misled
      BY DEF ApiInv
    <2> QED
      BY <2>1, <2>2 DEF OrderIsCreationOrder
  <1> QED
    BY <1>1, HandlersLeadToOrder, PTL

===============================================================================
