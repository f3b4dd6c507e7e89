------------------------------ MODULE RestClient ------------------------------
(***************************************************************************)
(* The asyncio REST client: AsyncBaseClient.request with its retry loop,   *)
(* AsyncKiwoomAuth with its token cache and asyncio.Lock, and the login    *)
(* and logout of AsyncKiwoomAPI, run by any number of concurrent tasks     *)
(* against a Kiwoom server that issues, expires and revokes tokens.        *)
(*                                                                         *)
(* One step is the code between two awaits.  A call is one invocation of   *)
(* request(), login() or logout().  Waiting for the rate limiter or for a  *)
(* back-off sleep is waiting at "send" or at "start": how long is the      *)
(* subject of RateLimiter.                                                 *)
(***************************************************************************)
EXTENDS Naturals

CONSTANTS
    Requests,    \* calls of request()
    Logins,      \* calls of login()
    Logouts,     \* calls of logout()
    NoCall,      \* the holder of a free lock
    MaxRetries,  \* max_retries of the client
    MaxTokens    \* bound: how many tokens the server ever issues

Calls  == Requests \cup Logins \cup Logouts
Tokens == 1..MaxTokens
None   == 0      \* no token

ASSUME CallsAssumption ==
    /\ Requests \cap Logins = {}
    /\ Requests \cap Logouts = {}
    /\ Logins \cap Logouts = {}
    /\ NoCall \notin Calls
ASSUME BoundsAssumption == MaxRetries \in Nat /\ MaxTokens \in Nat

VARIABLES
    token,        \* _TokenCache._token
    expiryKnown,  \* _TokenCache._expires_at is not None
    lock,         \* the call inside "async with self._lock", or NoCall
    accessToken,  \* AsyncBaseClient._access_token
    pc,           \* where each call is
    attempt,      \* the loop variable of request()
    refreshed,    \* token_refreshed of request()
    header,       \* the token in the headers built, or being revoked
    grant,        \* the token the server's answer to an OAuth call carries
    result,       \* the reply being handled; when done, how the call ended
    issued,       \* server: tokens 1..issued have been issued
    valid,        \* server: the tokens it accepts
    near,         \* the tokens within expiry_margin of their expiry, or past it
    executed,     \* history: how often the server carried out each request
    excused       \* history: requests with a token lost since their refresh

authVars   == <<token, expiryKnown, lock>>
callVars   == <<pc, attempt, refreshed, header, grant, result>>
serverVars == <<issued, valid, near>>
ghosts     == <<executed, excused>>
vars == <<authVars, accessToken, callVars, serverVars, ghosts>>

-----------------------------------------------------------------------------
(* The replies to a request and what the caller can be told.               *)

\* Mutant: a server error is retried like a throttled request.
ThrottledOrFailed == {"429", "rc5", "500"}

Throttled     == {"429", "rc5"}    \* over the limit, by status or payload
TokenRejected == {"401", "rc3"}    \* bad token, by status or payload
Refusals      == Throttled \cup TokenRejected \cup {"rc_error"}
Replies       == Refusals \cup {"ok", "500"}
\* other_error: an exception that names no outcome, of httpx or over a reply with status
\* 200 that is no JSON object.
Endings == {"other_error", "auth_error", "cancelled", "runtime_error",
            "not_logged_in", "logged_in", "revoked"}

InOAuth == {"getting", "refreshing", "login", "logout"}
Places  == InOAuth \cup {"idle", "start", "send", "replied", "refresh", "done"}

Init ==
    /\ token = None /\ expiryKnown = FALSE /\ lock = NoCall
    /\ accessToken = None
    /\ pc        = [c \in Calls |-> "idle"]
    /\ attempt   = [c \in Calls |-> 0]
    /\ refreshed = [c \in Calls |-> FALSE]
    /\ header    = [c \in Calls |-> None]
    /\ grant     = [c \in Calls |-> None]
    /\ result    = [c \in Calls |-> "none"]
    /\ issued = 0 /\ valid = {} /\ near = {}
    /\ executed = [r \in Requests |-> 0]
    /\ excused  = {}

\* _is_expiring: an unknown expiry never counts as expiring.
IsExpiring == expiryKnown /\ token \in near

Go(c, place) == pc' = [pc EXCEPT ![c] = place]

\* The call is over: it returned, or raised what "how" names.
End(c, how) ==
    /\ Go(c, "done")
    /\ result' = [result EXCEPT ![c] = how]
    /\ header' = [header EXCEPT ![c] = None]
    /\ grant'  = [grant EXCEPT ![c] = None]

\* Mutant: an exception leaves the lock held.
NoRelease(c) == c \in Calls /\ UNCHANGED lock

\* Leaving "async with self._lock", by return or by exception.
Release(c) == lock' = IF lock = c THEN NoCall ELSE lock

Clear == token' = None /\ expiryKnown' = FALSE

\* _store: the response may carry an expiry that parses, or none.
Store(t) == token' = t /\ expiryKnown' \in BOOLEAN

\* "continue": the next attempt, or out of the range and past the loop.
NextAttempt(c) ==
    IF attempt[c] < MaxRetries
    THEN /\ attempt' = [attempt EXCEPT ![c] = @ + 1]
         /\ Go(c, "start")
         /\ result' = [result EXCEPT ![c] = "none"]
    ELSE /\ Go(c, "done")
         /\ result' = [result EXCEPT ![c] = "runtime_error"]
         /\ UNCHANGED attempt

-----------------------------------------------------------------------------
(* request(): the headers and the token they need (_current_token).        *)

StartRequest(r) ==
    /\ pc[r] = "idle"
    /\ Go(r, "start")
    /\ UNCHANGED <<authVars, accessToken, attempt, refreshed, header, grant,
                   result, serverVars, ghosts>>

\* get_valid_token finds a cached token that is not about to expire.
UseCachedToken(r) ==
    /\ pc[r] = "start" /\ lock = NoCall
    /\ token # None /\ ~IsExpiring
    /\ header' = [header EXCEPT ![r] = token]
    /\ Go(r, "send")
    /\ UNCHANGED <<authVars, accessToken, attempt, refreshed, grant, result,
                   serverVars, ghosts>>

\* get_valid_token has to issue one and keeps the lock meanwhile.
BeginIssue(r) ==
    /\ pc[r] = "start" /\ lock = NoCall
    /\ token = None \/ IsExpiring
    /\ lock' = r
    /\ Go(r, "getting")
    /\ UNCHANGED <<token, expiryKnown, accessToken, attempt, refreshed, header,
                   grant, result, serverVars, ghosts>>

\* issue_token returned inside get_valid_token: build the headers with it.
IssueStored(r) ==
    /\ pc[r] = "getting" /\ grant[r] # None
    /\ Store(grant[r])
    /\ Release(r)
    /\ header' = [header EXCEPT ![r] = grant[r]]
    /\ grant'  = [grant EXCEPT ![r] = None]
    /\ Go(r, "send")
    /\ UNCHANGED <<accessToken, attempt, refreshed, result, serverVars, ghosts>>

-----------------------------------------------------------------------------
(* request(): what the loop does with the reply.                           *)

\* Mutant: a throttled request is tried again without limit.
BackOffUnlimited(r) ==
    /\ pc[r] = "replied" /\ result[r] \in Throttled
    /\ header'  = [header EXCEPT ![r] = None]
    /\ attempt' = [attempt EXCEPT ![r] = @ + 1]
    /\ result'  = [result EXCEPT ![r] = "none"]
    /\ Go(r, "start")
    /\ UNCHANGED <<authVars, accessToken, refreshed, grant, serverVars, ghosts>>

\* HTTP 429 or return_code 5 with attempts left: back off and try again.
BackOff(r) ==
    /\ pc[r] = "replied" /\ result[r] \in Throttled
    /\ attempt[r] < MaxRetries
    /\ header' = [header EXCEPT ![r] = None]
    /\ NextAttempt(r)
    /\ UNCHANGED <<authVars, accessToken, refreshed, grant, serverVars, ghosts>>

\* Mutant: a refresh on the last attempt too.
MayRefreshOnLast(r) == result[r] \in TokenRejected /\ ~refreshed[r]

\* Mutant: return_code 3 is not recognised as a bad token.
MayRefreshOn401(r) ==
    result[r] = "401" /\ ~refreshed[r] /\ attempt[r] < MaxRetries

MayRefresh(r) ==
    /\ result[r] \in TokenRejected
    /\ ~refreshed[r]
    /\ attempt[r] < MaxRetries

\* HTTP 401 or return_code 3, once per request: ask for a fresh token.
WantRefresh(r) ==
    /\ pc[r] = "replied" /\ MayRefresh(r)
    /\ refreshed' = [refreshed EXCEPT ![r] = TRUE]
    /\ header' = [header EXCEPT ![r] = None]
    /\ Go(r, "refresh")
    /\ UNCHANGED <<authVars, accessToken, attempt, grant, result, serverVars,
                   ghosts>>

\* Mutant: refresh_token trusts a cached token that has not aged.
RefreshReusesToken(r) ==
    /\ pc[r] = "refresh" /\ lock = NoCall
    /\ IF token # None /\ ~IsExpiring
       THEN NextAttempt(r) /\ UNCHANGED <<token, expiryKnown, lock>>
       ELSE Clear /\ lock' = r /\ Go(r, "refreshing") /\ UNCHANGED <<attempt, result>>
    /\ UNCHANGED <<accessToken, refreshed, header, grant, serverVars, ghosts>>

\* refresh_token: discard the cached token, then issue.
BeginRefresh(r) ==
    /\ pc[r] = "refresh" /\ lock = NoCall
    /\ Clear
    /\ lock' = r
    /\ Go(r, "refreshing")
    /\ UNCHANGED <<accessToken, attempt, refreshed, header, grant, result,
                   serverVars, ghosts>>

RefreshStored(r) ==
    /\ pc[r] = "refreshing" /\ grant[r] # None
    /\ Store(grant[r])
    /\ Release(r)
    /\ grant' = [grant EXCEPT ![r] = None]
    /\ NextAttempt(r)
    /\ UNCHANGED <<accessToken, refreshed, header, serverVars, ghosts>>

\* Mutant: the payload is returned without a look at its return_code.
FinishUnchecked(r) ==
    /\ pc[r] = "replied"
    /\ ~(result[r] \in Throttled /\ attempt[r] < MaxRetries)
    /\ ~MayRefresh(r)
    /\ End(r, IF result[r] \in {"rc3", "rc5", "rc_error"} THEN "ok" ELSE result[r])
    /\ UNCHANGED <<authVars, accessToken, attempt, refreshed, serverVars, ghosts>>

\* Anything else ends the call: raise_for_status raises, _check_return_code
\* raises, or the payload is returned.
Finish(r) ==
    /\ pc[r] = "replied"
    /\ ~(result[r] \in Throttled /\ attempt[r] < MaxRetries)
    /\ ~MayRefresh(r)
    /\ End(r, result[r])
    /\ UNCHANGED <<authVars, accessToken, attempt, refreshed, serverVars, ghosts>>

\* Mutant: a transport error is retried like a throttled request.
TransportRetried(r) ==
    /\ pc[r] \in {"send", "replied"}
    /\ header' = [header EXCEPT ![r] = None]
    /\ IF attempt[r] < MaxRetries THEN NextAttempt(r) /\ UNCHANGED grant
       ELSE End(r, "other_error") /\ UNCHANGED attempt
    /\ UNCHANGED <<authVars, accessToken, refreshed, serverVars, ghosts>>

\* httpx raises (timeout, connection lost), before or after the server acted, or the reply
\* cannot be decoded.
TransportFails(r) ==
    /\ pc[r] \in {"send", "replied"}
    /\ End(r, "other_error")
    /\ UNCHANGED <<authVars, accessToken, attempt, refreshed, serverVars, ghosts>>

-----------------------------------------------------------------------------
(* login() and logout(): neither takes the lock.                           *)

StartLogin(c) ==
    /\ pc[c] = "idle"
    /\ Go(c, "login")
    /\ UNCHANGED <<authVars, accessToken, attempt, refreshed, header, grant,
                   result, serverVars, ghosts>>

\* Requests that have refreshed and must now expect a rejection again.
Excuse == excused' = excused \cup {r \in Requests : refreshed[r]}

LoginStored(c) ==
    /\ pc[c] = "login" /\ grant[c] # None
    /\ Store(grant[c])
    /\ accessToken' = grant[c]
    /\ End(c, "logged_in")
    /\ Excuse
    /\ UNCHANGED <<lock, attempt, refreshed, serverVars, executed>>

StartLogout(c) ==
    /\ pc[c] = "idle" /\ token # None
    /\ header' = [header EXCEPT ![c] = token]
    /\ Go(c, "logout")
    /\ UNCHANGED <<authVars, accessToken, attempt, refreshed, grant, result,
                   serverVars, ghosts>>

LogoutRefused(c) ==
    /\ pc[c] = "idle" /\ token = None
    /\ End(c, "not_logged_in")
    /\ UNCHANGED <<authVars, accessToken, attempt, refreshed, serverVars, ghosts>>

\* Mutant: revoke_token forgets whatever is cached by now.
LogoutClearsAnything(c) ==
    /\ pc[c] = "logout" /\ grant[c] # None
    /\ Clear
    /\ accessToken' = None
    /\ End(c, "revoked")
    /\ UNCHANGED <<lock, attempt, refreshed, serverVars, ghosts>>

\* revoke_token forgets the cached token only if it is still the revoked one.
LogoutDone(c) ==
    /\ pc[c] = "logout" /\ grant[c] # None
    /\ IF token = header[c] THEN Clear ELSE UNCHANGED <<token, expiryKnown>>
    /\ accessToken' = None
    /\ End(c, "revoked")
    /\ UNCHANGED <<lock, attempt, refreshed, serverVars, ghosts>>

\* issue_token and revoke_token raise: KiwoomAuthError for an HTTP failure, before or after
\* the server acted, or a response without a token; and what they do not catch, the
\* ValueError or AttributeError of a response with status 200 that is no JSON object.
OAuthFails(c) ==
    /\ pc[c] \in InOAuth
    /\ Release(c)
    /\ \E how \in {"auth_error", "other_error"} : End(c, how)
    /\ UNCHANGED <<token, expiryKnown, accessToken, attempt, refreshed,
                   serverVars, ghosts>>

\* The caller cancels the task at an await (asyncio.timeout, Task.cancel).
Cancel(c) ==
    /\ pc[c] \notin {"idle", "done"}
    /\ Release(c)
    /\ End(c, "cancelled")
    /\ UNCHANGED <<token, expiryKnown, accessToken, attempt, refreshed,
                   serverVars, ghosts>>

-----------------------------------------------------------------------------
(* The server (external).                                                  *)

Answer(r, reply) ==
    /\ pc[r] = "send"
    /\ result' = [result EXCEPT ![r] = reply]
    /\ Go(r, "replied")
    /\ UNCHANGED <<authVars, accessToken, attempt, refreshed, header, grant,
                   serverVars, excused>>

\* A request over the limit is refused whatever its token.
ServerThrottles(r) ==
    \E reply \in Throttled : Answer(r, reply) /\ UNCHANGED executed

ServerRejectsToken(r) ==
    /\ header[r] \notin valid
    /\ \E reply \in TokenRejected : Answer(r, reply) /\ UNCHANGED executed

\* A refused order (another return_code) has no effect; a 500 may have one.
ServerProcesses(r) ==
    /\ header[r] \in valid
    /\ \E reply \in {"ok", "rc_error", "500"}, effect \in {0, 1} :
          /\ reply = "ok" => effect = 1
          /\ reply = "rc_error" => effect = 0
          /\ Answer(r, reply)
          /\ executed' = [executed EXCEPT ![r] = @ + effect]

\* Within its validity Kiwoom hands the same token out again; other servers
\* (a mock) issue a new one and leave the old one valid.
ServerIssues(c) ==
    /\ pc[c] \in {"getting", "refreshing", "login"} /\ grant[c] = None
    /\ \E t \in Tokens :
          /\ t \in valid \/ t = issued + 1
          /\ grant'  = [grant EXCEPT ![c] = t]
          /\ valid'  = valid \cup {t}
          /\ issued' = IF t > issued THEN t ELSE issued
    /\ excused' = IF pc[c] = "refreshing" THEN excused \ {c} ELSE excused
    /\ UNCHANGED <<authVars, accessToken, pc, attempt, refreshed, header, result,
                   near, executed>>

\* The answer to a revocation names the revoked token.
ServerRevokes(c) ==
    /\ pc[c] = "logout" /\ grant[c] = None
    /\ valid' = valid \ {header[c]}
    /\ grant' = [grant EXCEPT ![c] = header[c]]
    /\ Excuse
    /\ UNCHANGED <<authVars, accessToken, pc, attempt, refreshed, header, result,
                   issued, near, executed>>

\* Time passes: a token comes within the margin of its expiry.
TokenAges(t) ==
    /\ t \in valid \ near
    /\ near' = near \cup {t}
    /\ UNCHANGED <<authVars, accessToken, callVars, issued, valid, ghosts>>

\* It expires, or another process revokes it, while the bound leaves another.
TokenDies(t) ==
    /\ t \in valid /\ issued < MaxTokens
    /\ valid' = valid \ {t}
    /\ Excuse
    /\ UNCHANGED <<authVars, accessToken, callVars, issued, near, executed>>

-----------------------------------------------------------------------------

RequestStep(r) ==
    \/ StartRequest(r) \/ UseCachedToken(r) \/ BeginIssue(r) \/ IssueStored(r)
    \/ BackOff(r) \/ WantRefresh(r) \/ BeginRefresh(r) \/ RefreshStored(r)
    \/ Finish(r) \/ TransportFails(r)

LoginStep(c)  == StartLogin(c) \/ LoginStored(c)
LogoutStep(c) == StartLogout(c) \/ LogoutRefused(c) \/ LogoutDone(c)

ServerAnswers(r) ==
    ServerThrottles(r) \/ ServerRejectsToken(r) \/ ServerProcesses(r)

Next ==
    \/ \E r \in Requests : RequestStep(r) \/ ServerAnswers(r)
    \/ \E c \in Logins : LoginStep(c)
    \/ \E c \in Logouts : LogoutStep(c) \/ ServerRevokes(c)
    \/ \E c \in Requests \cup Logins : ServerIssues(c)
    \/ \E c \in Calls : OAuthFails(c) \/ Cancel(c)
    \/ \E t \in Tokens : TokenAges(t) \/ TokenDies(t)

Spec == Init /\ [][Next]_vars

\* What has begun goes on: the event loop runs every ready task, and httpx's
\* 30 s timeout turns a missing answer into an exception.  Calls need not
\* start, tasks need not be cancelled, tokens need not age or die.
Going(c) ==
    \/ c \in Requests /\ pc[c] # "idle" /\ (RequestStep(c) \/ ServerAnswers(c))
    \/ c \in Logins /\ pc[c] # "idle" /\ LoginStep(c)
    \/ c \in Logouts /\ pc[c] # "idle" /\ (LogoutStep(c) \/ ServerRevokes(c))
    \/ c \in Requests \cup Logins /\ ServerIssues(c)
    \/ OAuthFails(c)

Fairness == \A c \in Calls : WF_vars(Going(c))

-----------------------------------------------------------------------------
(* Properties.                                                             *)

\* Every variable has its type.
TypeOK ==
    /\ token \in {None} \cup Tokens
    /\ expiryKnown \in BOOLEAN
    /\ lock \in Requests \cup {NoCall}
    /\ accessToken \in {None} \cup Tokens
    /\ pc \in [Calls -> Places]
    /\ attempt \in [Calls -> 0..MaxRetries]
    /\ refreshed \in [Calls -> BOOLEAN]
    /\ header \in [Calls -> {None} \cup Tokens]
    /\ grant \in [Calls -> {None} \cup Tokens]
    /\ result \in [Calls -> Replies \cup Endings \cup {"none"}]
    /\ issued \in 0..MaxTokens
    /\ valid \in SUBSET Tokens
    /\ near \in SUBSET Tokens
    /\ executed \in [Requests -> Nat]
    /\ excused \in SUBSET Requests

\* The retry loop of request() never makes the server carry out a request (an
\* order) twice: only refusals are retried, a 5xx or a timeout never is.
AtMostOnce == \A r \in Requests : executed[r] <= 1

\* What request() tells its caller is true of the server: a payload returned
\* means it was carried out exactly once; a 429, a 401, a KiwoomAPIError or a
\* KiwoomAuthError means it was not, on any of the attempts made.
HonestOutcome ==
    \A r \in Requests : pc[r] = "done" =>
        /\ result[r] = "ok" => executed[r] = 1
        /\ result[r] \in Refusals \cup {"auth_error"} => executed[r] = 0

\* request()'s loop never runs past its range: "Unreachable: the final attempt
\* either returns, raises KiwoomAPIError, or raise_for_status() raises".
LoopNeverFallsThrough == \A r \in Requests : result[r] # "runtime_error"

\* The auth lock is held exactly by the one task that is inside
\* get_valid_token or refresh_token with an issuance in flight, whatever
\* exception or cancellation ended the others.
LockDiscipline ==
    \A r \in Requests : pc[r] \in {"getting", "refreshing"} <=> lock = r

\* A token rejection reaches the caller of request() for one of two reasons.
\* Without a refresh: the retries were spent.  After a refresh: since it was
\* served a token was revoked or expired, or a login() stored one of its own.
\* A request never fails on the token it had before its refresh, nor on one
\* that another task put back.
RejectionIsEarned ==
    \A r \in Requests :
        pc[r] = "done" /\ result[r] \in {"401", "rc3"}
        => IF refreshed[r] THEN r \in excused ELSE attempt[r] = MaxRetries

\* A cached token the server still accepts is thrown away only by a refresh
\* that takes the lock: logout() clears the cache only of the token it revoked,
\* never of one issued since.
LiveTokenDroppedOnlyByRefresh ==
    [][(token \in valid /\ token' = None)
        => (\E r \in Requests : lock' = r /\ pc[r] = "refresh")]_vars

\* What the caller of each request has been told of it.
Told ==
    [r \in Requests |->
        IF pc[r] # "done" THEN "nothing"
        ELSE IF result[r] = "ok" THEN "success"
        ELSE IF result[r] \in Refusals \cup {"auth_error"} THEN "refused"
        ELSE "unknown"]

Promise == INSTANCE PlaceOnce WITH told <- Told

\* request() keeps the promise of PlaceOnce with its retries, refreshes, concurrent
\* calls and cancellations: the loop never has a request carried out again after
\* a first time, and its caller is told the truth about it, once.
KeepsThePromise == Promise!Spec

\* Every call that has begun comes to an end, whatever fails and whoever is
\* cancelled: nobody waits for ever on the auth lock.
EveryCallEnds == \A c \in Calls : pc[c] # "idle" ~> pc[c] = "done"
=============================================================================
