----------------------------- MODULE ServiceToken -----------------------------
(***************************************************************************)
(* ServiceAccessTokenManager (src/atproto/auth.rs): one access token of    *)
(* the service, shared by all evaluations that publish a record.  A caller *)
(* of auth() makes sure that the token is valid, as far as the manager     *)
(* knows, refreshes it under a mutex if not, and exchanges it for a        *)
(* session; if the token is refused it refreshes it and tries once more.   *)
(*                                                                         *)
(* The server (external) refuses a token exactly when it is over.          *)
(***************************************************************************)
EXTENDS Integers

CONSTANTS Publisher,   \* callers of auth()
          Lifetimes,   \* expires_in of a token, any of them
          Margin,      \* 300 s, taken off what the server says ...
          Floor,       \* ... but the token is kept for 216000 s at least
          Early,       \* 60 s: it is refreshed that long before
          Hurried,     \* 10 s: and again when it is about to be used
          MaxRetries,  \* MAX_RETRIES
          MaxClock     \* bound on the time

\* The floor is far above the time a token is refreshed early.
ASSUME TokenAssumption ==
    /\ Lifetimes \subseteq Nat
    /\ \E n \in Lifetimes : \A m \in Lifetimes : n <= m
    /\ {Margin, Floor, Early, Hurried} \subseteq Nat
    /\ Floor > Early
    /\ MaxRetries \in Nat /\ MaxRetries >= 2
    /\ MaxClock \in Nat

VARIABLES time,
          token,    \* the state: when the token ends, for the server and for us
          auth,     \* what each caller does next, and the token it holds
          lock,     \* who holds refresh_mutex, or nobody
          elapsed,  \* (history) how long the present call of each has taken,
                   \* up to LongCall
          blame     \* (history) what has gone wrong in it

tokenVars == <<time, token, auth, lock, elapsed, blame>>

Unlocked == "unlocked"
NotCalling == [step |-> "idle", attempt |-> 0, ends |-> 0, kept |-> FALSE]

\* What is stored: 300 s before the end, but never less than 216000 s from now.
Larger(m, n) == IF m > n THEN m ELSE n
KeptUntil(lifetime) == time + Larger(lifetime - Margin, Floor)

\* A call is long when a new token may end during it, and so do the margins.
NewTokenLasts ==
    CHOOSE n \in Lifetimes \cup {Floor - Hurried} :
        \A m \in Lifetimes \cup {Floor - Hurried} : n <= m

LongCall == Larger(NewTokenLasts, Early + Margin + 1)

NewToken(lifetime) ==
    [ends |-> time + lifetime, until |-> KeptUntil(lifetime)]

Does(p, step) == auth' = [auth EXCEPT ![p].step = step]
Blames(p, why) == blame' = [blame EXCEPT ![p] = @ \cup why]

------------------------------------------------------------------------------
(* auth(); init() has stored a token before anybody calls it.               *)

CallAuth(p) ==
    /\ auth[p].step = "idle"
    /\ auth' = [auth EXCEPT ![p] = [NotCalling EXCEPT !.step = "ensure", !.attempt = 1]]
    /\ blame' = [blame EXCEPT ![p] = {}]
    /\ UNCHANGED <<time, token, lock, elapsed>>

\* ensure_valid_token: the first look is without the mutex.
EnsureValid(p) ==
    /\ auth[p].step = "ensure"
    /\ Does(p, IF time >= token.until - Early THEN "wait to ensure" ELSE "take")
    /\ UNCHANGED <<time, token, lock, elapsed, blame>>

\* The second look, with it, is for a token kept for another 216000 s.
LockToEnsure(p) ==
    /\ auth[p].step = "wait to ensure" /\ lock = Unlocked
    /\ \/ /\ time >= token.until - Floor
          /\ lock' = p
          /\ Does(p, "refresh and take")
       \/ /\ time < token.until - Floor
          /\ Does(p, "take")
          /\ UNCHANGED lock
    /\ UNCHANGED <<time, token, elapsed, blame>>

\* The token that is about to end is refreshed first, at the cost of an attempt.
TakeToken(p) ==
    /\ auth[p].step = "take"
    /\ \/ /\ time >= token.until - Hurried
          /\ Does(p, "wait to refresh")
       \/ /\ time < token.until - Hurried
          /\ auth' = [auth EXCEPT ![p].step = "exchange", ![p].ends = token.ends,
                                ![p].kept = token.until > token.ends - Margin]
    /\ UNCHANGED <<time, token, lock, elapsed, blame>>

\* refresh_token takes the mutex and does not look again.
LockToRefresh(p) ==
    /\ auth[p].step = "wait to refresh" /\ lock = Unlocked
    /\ lock' = p
    /\ Does(p, "refresh and retry")
    /\ UNCHANGED <<time, token, elapsed, blame>>

\* (Mutant) one attempt is all.
RetryNever(p) == auth' = [auth EXCEPT ![p].step = "failed"]

\* The next attempt, if there is one left.
Retry(p) ==
    auth' = [auth EXCEPT ![p].step = IF auth[p].attempt < MaxRetries THEN "ensure"
                                     ELSE "failed",
                         ![p].attempt = @ + 1]

\* refresh_token_internal: the service asks for a token and stores it, or fails,
\* and so does the call.
Refresh(p) ==
    /\ auth[p].step \in {"refresh and take", "refresh and retry"}
    /\ lock' = Unlocked
    /\ \/ /\ \E lifetime \in Lifetimes : token' = NewToken(lifetime)
          /\ IF auth[p].step = "refresh and take" THEN Does(p, "take") ELSE Retry(p)
          /\ UNCHANGED blame
       \/ /\ Does(p, "failed")
          /\ Blames(p, {"request"})
          /\ UNCHANGED token
    /\ UNCHANGED <<time, elapsed>>

\* session_exchange_with_options: a session, a refusal, or another error, which
\* ends the call.
Exchange(p) ==
    /\ auth[p].step = "exchange"
    /\ \/ /\ time < auth[p].ends
          /\ Does(p, "session")
          /\ UNCHANGED blame
       \/ /\ time >= auth[p].ends
          /\ Does(p, "wait to refresh")
          /\ Blames(p, {IF auth[p].kept THEN "floor" ELSE "refused"})
       \/ /\ Does(p, "failed")
          /\ Blames(p, {"request"})
    /\ UNCHANGED <<time, token, lock, elapsed>>

EndCall(p) ==
    /\ auth[p].step \in {"session", "failed"}
    /\ auth' = [auth EXCEPT ![p] = NotCalling]
    /\ blame' = [blame EXCEPT ![p] = {}]
    /\ elapsed' = [elapsed EXCEPT ![p] = 0]
    /\ UNCHANGED <<time, token, lock>>

PassHours ==
    /\ time < MaxClock
    /\ time' = time + 1
    /\ elapsed' = [p \in Publisher |->
          IF auth[p].step = "idle" THEN 0
          ELSE IF elapsed[p] < LongCall THEN elapsed[p] + 1 ELSE LongCall]
    /\ UNCHANGED <<token, auth, lock, blame>>

TokenInit ==
    /\ time = 0
    /\ \E lifetime \in Lifetimes :
          token = [ends |-> lifetime, until |-> Larger(lifetime - Margin, Floor)]
    /\ auth = [p \in Publisher |-> NotCalling]
    /\ lock = Unlocked
    /\ elapsed = [p \in Publisher |-> 0]
    /\ blame = [p \in Publisher |-> {}]

TokenNext ==
    \/ PassHours
    \/ \E p \in Publisher :
          \/ CallAuth(p) \/ EnsureValid(p) \/ LockToEnsure(p) \/ TakeToken(p)
          \/ LockToRefresh(p) \/ Refresh(p) \/ Exchange(p) \/ EndCall(p)

TokenSpec == TokenInit /\ [][TokenNext]_tokenVars

------------------------------------------------------------------------------
\* A call gets its session unless a request of its own fails, whatever the others
\* refresh meanwhile: only a call that takes longer than a new token lasts can
\* lose both attempts.  A token is refused only if the exchange comes later than
\* the margins by which it is refreshed, unless it was the floor that kept it in
\* use beyond the first of them (auth.rs:121).
AuthGetsThrough ==
    \A p \in Publisher :
        /\ auth[p].step = "failed" => "request" \in blame[p] \/ elapsed[p] >= NewTokenLasts
        /\ "refused" \in blame[p] => elapsed[p] > Early + Margin
==============================================================================
