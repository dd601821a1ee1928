------------------------------- MODULE Sessions -------------------------------
(***************************************************************************)
(* Who is asking: the login by the identity provider (src/http/            *)
(* handle_auth.rs), the rows of oauth_requests and sessions, the cookie of *)
(* one browser, and the provider's tokens that API clients bring (src/     *)
(* http/auth.rs), which are remembered for five minutes.  The provider is  *)
(* external: a code is good for one exchange, and a token until it is      *)
(* revoked.  No handler deletes a session, nor what has expired.           *)
(*                                                                         *)
(* The requests are those of a browser or those of a client; one that      *)
(* brings a cookie and a token is answered as either would be.             *)
(***************************************************************************)
EXTENDS Naturals, FiniteSets

CONSTANTS Login,         \* states drawn by the login handler
          Visit,         \* requests to the callback
          Checker,       \* other requests
          RequestLife,   \* expires_in of the provider's answer to a login
          TokenLives,    \* expires_in of a token, any of them
          CookieMargin,  \* 60 s, taken off the cookie's age
          Remembered,    \* 5 minutes
          MaxReply,      \* the time-out of http_client
          MaxMoment      \* bound on the time

ASSUME SessionAssumption ==
    /\ TokenLives \subseteq Nat
    /\ {RequestLife, CookieMargin, MaxReply, MaxMoment} \subseteq Nat
    /\ Remembered \in Nat \ {0}

VARIABLES party,       \* whose requests these are: "browser" or "client"
          moment,
          oauthRow,    \* when the row of each login expires; 0: there is none
          code,        \* the provider's: none, open or used
          visit,       \* the callbacks: step, login, life of the token, when stored
          session,     \* the row a callback makes: when it ends; 0: there is none
          jar,         \* the cookie of the browser: whose session, until when, and
                       \* (history) whether its response took longer than the margin
          revoked,     \* when the provider revoked the client's token; 0: it is good
          tokenCache,  \* AIP_TOKEN_CACHE: until when the token is remembered
          check,       \* what other requests await
          reply        \* (history) by what the last step knew who was asking

sessionVars == <<party, moment, oauthRow, code, visit, session, jar, revoked, tokenCache,
                 check, reply>>
loginVars == <<oauthRow, code, visit, session>>
clientVars == <<revoked, tokenCache, check>>

NoVisit == [step |-> "idle", login |-> CHOOSE l \in Login : TRUE, life |-> 0, at |-> 0]
NobodyIn == [visit |-> CHOOSE v \in Visit : TRUE, until |-> 0, late |-> FALSE]
NoCheck == [step |-> "idle", since |-> 0]

Visits(v, step) == visit' = [visit EXCEPT ![v].step = step]
IsOver(v) == visit' = [visit EXCEPT ![v] =
    [NoVisit EXCEPT !.step = "over", !.login = visit[v].login]]

------------------------------------------------------------------------------
(* Logging in.                                                              *)

\* The row of a login, which the browser must come back for in time.
InsertRequest(l) == oauthRow' = [oauthRow EXCEPT ![l] = moment + RequestLife]

\* handle_aip_login: the row is stored once the provider has taken the request;
\* whatever fails before leaves nothing behind.  The user consents, and is sent
\* back with a code.
BeginLogin(l) ==
    /\ party = "browser" /\ code[l] = "none"
    /\ InsertRequest(l)
    /\ code' = [code EXCEPT ![l] = "open"]
    /\ reply' = "none"
    /\ UNCHANGED <<party, moment, visit, session, jar, clientVars>>

\* The browser asks for the callback, maybe more than once.  (Without code and
\* state, or with an error, nothing is done.)
Callback(v, l) ==
    /\ visit[v].step = "idle" /\ code[l] # "none"
    /\ visit' = [visit EXCEPT ![v].step = "find", ![v].login = l]
    /\ reply' = "none"
    /\ UNCHANGED <<party, moment, oauthRow, code, session, jar, clientVars>>

\* get_oauth_request_by_state.
FindRequest(v) ==
    /\ visit[v].step = "find"
    /\ IF oauthRow[visit[v].login] > moment THEN Visits(v, "exchange") ELSE IsOver(v)
    /\ reply' = "none"
    /\ UNCHANGED <<party, moment, oauthRow, code, session, jar, clientVars>>

\* oauth_complete; then the DID is asked for and resolved.  Each of these may
\* fail, before or after the code is used up.
ExchangeCode(v) ==
    /\ visit[v].step = "exchange"
    /\ \/ /\ code[visit[v].login] = "open"
          /\ \E life \in TokenLives :
                visit' = [visit EXCEPT ![v].step = "store", ![v].life = life]
          /\ code' = [code EXCEPT ![visit[v].login] = "used"]
       \/ /\ IsOver(v)
          /\ code' \in {code, [code EXCEPT ![visit[v].login] = "used"]}
    /\ reply' = "none"
    /\ UNCHANGED <<party, moment, oauthRow, session, jar, clientVars>>

\* upsert_session, under a new id.
StoreSession(v) ==
    /\ visit[v].step = "store"
    /\ session' = [session EXCEPT ![v] = moment + visit[v].life]
    /\ visit' = [visit EXCEPT ![v].step = "clean up", ![v].at = moment]
    /\ reply' = "none"
    /\ UNCHANGED <<party, moment, oauthRow, code, jar, clientVars>>

\* The row of the login is deleted; a failure is logged.
CleanUp(v) ==
    /\ visit[v].step = "clean up"
    /\ oauthRow' \in {oauthRow, [oauthRow EXCEPT ![visit[v].login] = 0]}
    /\ Visits(v, "respond")
    /\ reply' = "none"
    /\ UNCHANGED <<party, moment, code, session, jar, clientVars>>

\* (Mutant) the cookie may stay as long as the session.
SessionAge(life) == life

\* set_max_age.
CookieAge(life) == IF life > CookieMargin THEN life - CookieMargin ELSE 0

\* The browser has the response, and counts the age of the cookie from now; one
\* without any is as good as deleted.
SetCookie(v) ==
    /\ visit[v].step = "respond"
    /\ jar' = [visit |-> v, until |-> moment + CookieAge(visit[v].life),
               late |-> moment - visit[v].at > CookieMargin]
    /\ IsOver(v)
    /\ reply' = "none"
    /\ UNCHANGED <<party, moment, oauthRow, code, session, clientVars>>

\* The storage or the connection fails.
VisitFails(v) ==
    /\ visit[v].step \in {"find", "store", "respond"}
    /\ IsOver(v)
    /\ reply' = "none"
    /\ UNCHANGED <<party, moment, oauthRow, code, session, jar, clientVars>>

\* handle_logout removes the cookie and leaves the session.
Logout ==
    /\ jar # NobodyIn
    /\ jar' = NobodyIn
    /\ reply' = "none"
    /\ UNCHANGED <<party, moment, loginVars, clientVars>>

------------------------------------------------------------------------------
(* Being logged in.                                                         *)

\* The browser sends its cookie while it lasts; get_session, for a row that has
\* not ended.
CookieLasts == jar.until > moment
SessionFound == CookieLasts /\ session[jar.visit] > moment

\* require_auth, before the handlers of the dashboard; otherwise it redirects.
RequireAuth(k) ==
    /\ check[k].step = "idle" /\ SessionFound
    /\ check' = [check EXCEPT ![k].step = "page"]
    /\ reply' = "none"
    /\ UNCHANGED <<party, moment, loginVars, jar, revoked, tokenCache>>

\* get_session_from_cookie, in these handlers: it looks again.
GetSession(k) ==
    /\ check[k].step = "page"
    /\ reply' = IF SessionFound THEN "cookie" ELSE "none"
    /\ check' = [check EXCEPT ![k] = NoCheck]
    /\ UNCHANGED <<party, moment, loginVars, jar, revoked, tokenCache>>

\* get_authenticated_did looks for a session first, and if there is none or the
\* storage fails, for a token.
GetAuthenticatedDid(k) ==
    /\ check[k].step = "idle"
    /\ \/ /\ SessionFound
          /\ reply' = "cookie"
          /\ UNCHANGED check
       \/ /\ party = "client"
          /\ check' = [check EXCEPT ![k].step = "token"]
          /\ reply' = "none"
    /\ UNCHANGED <<party, moment, loginVars, jar, revoked, tokenCache>>

\* (Mutant) an entry is good as long as it is there.
StillThere == tokenCache # 0

RememberedToken == tokenCache > moment

\* validate_aip_access_token: the cache is looked at, the provider asked without
\* the lock.  (A Bearer token is never accepted.)
LookForToken(k) ==
    /\ check[k].step = "token"
    /\ \/ /\ RememberedToken
          /\ reply' = "token"
          /\ check' = [check EXCEPT ![k] = NoCheck]
       \/ /\ ~RememberedToken
          /\ reply' = "none"
          /\ check' = [check EXCEPT ![k] = [step |-> "ask", since |-> moment]]
    /\ UNCHANGED <<party, moment, loginVars, jar, revoked, tokenCache>>

\* The provider says who the token is for, or it refuses, or fails.
AskProvider(k) ==
    /\ check[k].step = "ask"
    /\ \/ /\ revoked = 0
          /\ check' = [check EXCEPT ![k].step = "remember"]
       \/ check' = [check EXCEPT ![k] = NoCheck]
    /\ reply' = "none"
    /\ UNCHANGED <<party, moment, loginVars, jar, revoked, tokenCache>>

\* When the answer has come it is remembered from then on.
RememberToken(k) ==
    /\ check[k].step = "remember"
    /\ tokenCache' = moment + Remembered
    /\ check' = [check EXCEPT ![k] = NoCheck]
    /\ reply' = "token"
    /\ UNCHANGED <<party, moment, loginVars, jar, revoked>>

RevokeToken ==
    /\ party = "client" /\ revoked = 0 /\ moment > 0
    /\ revoked' = moment
    /\ reply' = "none"
    /\ UNCHANGED <<party, moment, loginVars, jar, tokenCache, check>>

PassMoment ==
    /\ moment < MaxMoment
    /\ \A k \in Checker : check[k].step \in {"ask", "remember"} =>
          moment - check[k].since < MaxReply
    /\ moment' = moment + 1
    /\ reply' = "none"
    /\ UNCHANGED <<party, loginVars, jar, clientVars>>

SessionInit ==
    /\ party \in {"browser", "client"}
    /\ moment = 0
    /\ oauthRow = [l \in Login |-> 0]
    /\ code = [l \in Login |-> "none"]
    /\ visit = [v \in Visit |-> NoVisit]
    /\ session = [v \in Visit |-> 0]
    /\ jar = NobodyIn
    /\ revoked = 0 /\ tokenCache = 0
    /\ check = [k \in Checker |-> NoCheck]
    /\ reply = "none"

SessionNext ==
    \/ PassMoment \/ RevokeToken \/ Logout
    \/ \E l \in Login : BeginLogin(l) \/ \E v \in Visit : Callback(v, l)
    \/ \E v \in Visit :
          \/ FindRequest(v) \/ ExchangeCode(v) \/ StoreSession(v) \/ CleanUp(v)
          \/ SetCookie(v) \/ VisitFails(v)
    \/ \E k \in Checker :
          \/ RequireAuth(k) \/ GetSession(k) \/ GetAuthenticatedDid(k)
          \/ LookForToken(k) \/ AskProvider(k) \/ RememberToken(k)

SessionSpec == SessionInit /\ [][SessionNext]_sessionVars

------------------------------------------------------------------------------
\* Whoever is logged in stays so, and nobody else is: a cookie that lasts finds
\* its session, unless its response took longer than the margin; callbacks that
\* come twice make one session of one login; and a client's token is accepted no
\* longer after the provider has revoked it than it is remembered, and one request
\* to the provider lasts: the five minutes count from when the answer is stored.
WhoAsksIsKnown ==
    /\ CookieLasts => SessionFound \/ jar.late
    /\ \A l \in Login :
          Cardinality({v \in Visit : session[v] # 0 /\ visit[v].login = l}) <= 1
    /\ reply = "token" /\ revoked # 0 => moment - revoked < Remembered + MaxReply
==============================================================================
