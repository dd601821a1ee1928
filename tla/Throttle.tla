------------------------------- MODULE Throttle -------------------------------
(***************************************************************************)
(* src/throttle.rs: how often the blueprints of one authority, and each    *)
(* blueprint, may be evaluated.  A call counts itself in Redis under a key *)
(* made of the end of the current window and of the authority, then of the *)
(* AT-URI; the first to count gives the key its time to live.  Each        *)
(* command may fail, and the calls of several workers interleave.          *)
(***************************************************************************)
EXTENDS Naturals, FiniteSets

CONSTANTS Caller,     \* workers and handlers that ask the throttler
          Uri,        \* AT-URIs of one authority
          Authority,  \* that authority
          Limits,     \* [authority, aturi |-> [limit, window]]; a limit of 0: none
          MaxTime,    \* bound on the minutes
          MaxCalls    \* bound on the calls

\* RedisBlueprintThrottler::new takes a limit with its window, both positive, or
\* neither; RedisPerIdentityBlueprintThrottler::new takes defaults for all four.
GoodLimit(l) == l.limit = 0 \/ (l.limit > 0 /\ l.window > 0)
GoodLimits(perIdentity) ==
    /\ GoodLimit(Limits.authority) /\ GoodLimit(Limits.aturi)
    /\ perIdentity => Limits.authority.limit > 0 /\ Limits.aturi.limit > 0

\* A DID is no AT-URI.
ASSUME ThrottleAssumption ==
    /\ IsFiniteSet(Caller)
    /\ Authority \notin Uri
    /\ Limits \in [authority : [limit : Nat, window : Nat],
                  aturi : [limit : Nat, window : Nat]]
    /\ GoodLimits(FALSE)
    /\ MaxTime \in Nat \ {0} /\ MaxCalls \in Nat

VARIABLES minute,    \* minutes
          counter,   \* the keys of Redis with their counts
          expires,   \* when they expire; 0 is never
          call,      \* what each caller awaits
          calls,     \* (bound) calls so far
          admitted   \* (history) calls admitted within the window they counted in

throttleVars == <<minute, counter, expires, call, calls, admitted>>

NoCall == [step |-> "idle", uri |-> Authority, at |-> 0]
Value == Uri \cup {Authority}
LimitFor(value) == IF value = Authority THEN Limits.authority ELSE Limits.aturi
LimitedValues == {v \in Value : LimitFor(v).limit > 0}

\* round_up_to_minutes.
RoundUp(at, window) == ((at + window - 1) \div window) * window

\* create_redis_key.
Key(at, value) == <<RoundUp(at, LimitFor(value).window), value>>
Keys == {Key(at, v) : at \in 1..MaxTime, v \in LimitedValues}

\* The value a call is to count: the authority first.
Counted(c) == IF call[c].step \in {"authority", "expire authority"}
              THEN Authority ELSE call[c].uri
KeyOf(c) == Key(call[c].at, Counted(c))

Becomes(c, step) == call' = [call EXCEPT ![c].step = step]

\* What comes after the authority, and after the AT-URI.
AfterAuthority == IF Limits.aturi.limit = 0 THEN "admit" ELSE "aturi"

\* throttle(): the time is taken once, for both keys.
CallThrottle(c, uri) ==
    /\ call[c].step = "idle" /\ calls < MaxCalls
    /\ calls' = calls + 1
    /\ call' = [call EXCEPT ![c] =
          [step |-> IF Limits.authority.limit = 0 THEN AfterAuthority ELSE "authority",
           uri |-> uri, at |-> minute]]
    /\ UNCHANGED <<minute, counter, expires, admitted>>

\* Over the limit is refused; under it the next limit is looked at.
Verdict(c, n) == IF n > LimitFor(Counted(c)).limit THEN "refuse"
                 ELSE IF Counted(c) = Authority THEN AfterAuthority ELSE "admit"

\* INCR creates the key if there is none; the first to count sets the time to
\* live, the window's length from now.
Increment(c) ==
    /\ call[c].step \in {"authority", "aturi"}
    /\ LET n == counter[KeyOf(c)] + 1
       IN  /\ counter' = [counter EXCEPT ![KeyOf(c)] = n]
           /\ Becomes(c, IF n = 1
                         THEN IF Counted(c) = Authority THEN "expire authority"
                                                        ELSE "expire aturi"
                         ELSE Verdict(c, n))
    /\ UNCHANGED <<minute, expires, calls, admitted>>

\* (Mutant) the time to live is what is left of the window, rounded down.
ExpireSoon(c) ==
    /\ call[c].step \in {"expire authority", "expire aturi"}
    /\ expires' = [expires EXCEPT ![KeyOf(c)] = KeyOf(c)[1]]
    /\ Becomes(c, Verdict(c, 1))
    /\ UNCHANGED <<minute, counter, calls, admitted>>

Expire(c) ==
    /\ call[c].step \in {"expire authority", "expire aturi"}
    /\ expires' = [expires EXCEPT ![KeyOf(c)] =
          minute + LimitFor(Counted(c)).window]
    /\ Becomes(c, Verdict(c, 1))
    /\ UNCHANGED <<minute, counter, calls, admitted>>

\* A command fails: what was counted stays counted, and a key may be left that
\* never expires.  The processor skips the blueprint as if it was refused.
Fail(c) ==
    /\ call[c].step \notin {"idle", "admit", "refuse"}
    /\ Becomes(c, "refuse")
    /\ UNCHANGED <<minute, counter, expires, calls, admitted>>

\* The webhook handler submits it as if there was no limit.
ProceedAnyway(c) ==
    /\ call[c].step \notin {"idle", "admit", "refuse"}
    /\ call' = [call EXCEPT ![c] = NoCall]
    /\ UNCHANGED <<minute, counter, expires, calls, admitted>>

\* The keys whose window a call counted in, for a window that is not over.
WindowsOf(c) == { key \in {Key(call[c].at, v) : v \in {Authority, call[c].uri} \cap LimitedValues} :
                      minute <= key[1] }

Finish(c) ==
    /\ call[c].step \in {"admit", "refuse"}
    /\ admitted' = [key \in Keys |->
          IF call[c].step = "admit" /\ key \in WindowsOf(c) THEN admitted[key] + 1
          ELSE admitted[key]]
    /\ call' = [call EXCEPT ![c] = NoCall]
    /\ UNCHANGED <<minute, counter, expires, calls>>

\* A minute passes; Redis drops what has expired.
PassMinute ==
    /\ minute < MaxTime
    /\ minute' = minute + 1
    /\ LET gone == {key \in Keys : expires[key] # 0 /\ expires[key] <= minute + 1}
       IN  /\ counter' = [key \in Keys |-> IF key \in gone THEN 0 ELSE counter[key]]
           /\ expires' = [key \in Keys |-> IF key \in gone THEN 0 ELSE expires[key]]
    /\ UNCHANGED <<call, calls, admitted>>

ThrottleInit ==
    /\ minute = 1
    /\ counter = [key \in Keys |-> 0]
    /\ expires = [key \in Keys |-> 0]
    /\ call = [c \in Caller |-> NoCall] /\ calls = 0
    /\ admitted = [key \in Keys |-> 0]

ThrottleNext ==
    \/ PassMinute
    \/ \E c \in Caller :
          \/ Increment(c) \/ Expire(c) \/ Fail(c) \/ ProceedAnyway(c) \/ Finish(c)
          \/ \E uri \in Uri : CallThrottle(c, uri)

ThrottleSpec == ThrottleInit /\ [][ThrottleNext]_throttleVars

------------------------------------------------------------------------------
\* Within a window no authority and no blueprint is admitted more often than its
\* limit, however the calls of the workers interleave, fail or are delayed: a
\* count is not forgotten before its window is over (src/throttle.rs:145-230).
\* (A webhook whose check fails is evaluated without being admitted.)
LimitsHold ==
    \A key \in Keys : admitted[key] > 0 => admitted[key] <= LimitFor(key[2]).limit
==============================================================================
