------------------------------- MODULE ThreadAuth -------------------------------
(***************************************************************************)
(* KiwoomAuth shared by threads: get_valid_token() and refresh_token()     *)
(* hold the lock, the login() and logout() of KiwoomAPI do not.  One step  *)
(* is one statement that touches the cache, since a thread may be switched *)
(* between any two of them; under asyncio they are steps of RestClient.    *)
(***************************************************************************)
EXTENDS Naturals

CONSTANTS
    Getters,     \* calls of get_valid_token()
    Refreshers,  \* calls of refresh_token()
    Logins,      \* calls of KiwoomAPI.login()
    Logouts,     \* calls of KiwoomAPI.logout()
    NoCall,      \* the holder of a free lock
    MaxTokens    \* bound: how many different tokens the server hands out

Locked   == Getters \cup Refreshers
Unlocked == Logins \cup Logouts
Calls    == Locked \cup Unlocked
Tokens   == 1..MaxTokens
None     == 0

ASSUME CallsAssumption ==
    /\ Getters \cap Refreshers = {} /\ Logins \cap Logouts = {}
    /\ Locked \cap Unlocked = {} /\ NoCall \notin Calls
ASSUME BoundAssumption == MaxTokens \in Nat

VARIABLES
    token,        \* _token
    expiry,       \* the token whose expiry _expires_at holds, or None
    lock,         \* the call inside "with self._lock", or NoCall
    accessToken,  \* BaseClient._access_token
    pc,           \* the statement each call is about to run
    grant,        \* the token of the response, or the one being revoked
    returned,     \* what each call returned
    result,       \* how it ended
    near,         \* the tokens within expiry_margin of their expiry
    disturbed,    \* history: calls under whose lock login() or logout() wrote
    emptied,      \* history: those of them under whose lock logout() wrote
    mixed         \* history: a login() or logout() and another call wrote at once

cache  == <<token, expiry>>
ends   == <<returned, result>>
ghosts == <<disturbed, emptied, mixed>>
vars   == <<cache, lock, accessToken, pc, grant, ends, near, ghosts>>

\* Between the two writes of _store or of _clear.
MidWrite == {"store_expiry", "clear_expiry"}
Holding  == {"check", "look", "compare", "assert", "return"}
Places   == MidWrite \cup Holding \cup
    {"idle", "issue", "store", "clear", "publish", "revoke", "forget", "unpublish", "done"}
\* bad_reply: a ValueError or an AttributeError.
Results  == {"none", "returned", "auth_error", "bad_reply", "assertion_error", "type_error",
             "not_logged_in"}

Init ==
    /\ token = None /\ expiry = None
    /\ lock = NoCall /\ accessToken = None
    /\ pc       = [c \in Calls |-> "idle"]
    /\ grant    = [c \in Calls |-> None]
    /\ returned = [c \in Calls |-> None]
    /\ result   = [c \in Calls |-> "none"]
    /\ near = {}
    /\ disturbed = {} /\ emptied = {} /\ mixed = FALSE

At(c, place) == pc[c] = place
Go(c, place) == pc' = [pc EXCEPT ![c] = place]

\* Mutant: an exception leaves the lock held.
NoRelease(c) == c \in Calls /\ UNCHANGED lock

Release(c) == lock' = IF lock = c THEN NoCall ELSE lock

\* The call returns t or raises; leaving "with self._lock" frees it.
End(c, how, t) ==
    /\ Go(c, "done")
    /\ result'   = [result EXCEPT ![c] = how]
    /\ returned' = [returned EXCEPT ![c] = t]
    /\ Release(c)

\* The bookkeeping of the history variables at a write to the cache.
Writes(c) ==
    /\ disturbed' = IF c \in Unlocked THEN disturbed \cup ({lock} \ {NoCall}) ELSE disturbed
    /\ emptied' = IF c \in Logouts THEN emptied \cup ({lock} \ {NoCall}) ELSE emptied
    /\ mixed' = (mixed \/ \E d \in Calls \ {c} :
                              pc[d] \in MidWrite /\ {c, d} \cap Unlocked # {})

-----------------------------------------------------------------------------
(* get_valid_token() and refresh_token().                                  *)

\* Mutant: get_valid_token does without the lock.
EnterGetUnlocked(c) ==
    /\ At(c, "idle") /\ lock = NoCall
    /\ lock' = IF c \in Refreshers THEN c ELSE lock
    /\ Go(c, IF c \in Getters THEN "check" ELSE "clear")
    /\ UNCHANGED <<cache, accessToken, grant, ends, near, ghosts>>

Enter(c) ==
    /\ At(c, "idle") /\ lock = NoCall
    /\ lock' = c
    /\ Go(c, IF c \in Getters THEN "check" ELSE "clear")
    /\ UNCHANGED <<cache, accessToken, grant, ends, near, ghosts>>

\* self._token is not None
CheckToken(c) ==
    /\ At(c, "check")
    /\ Go(c, IF token # None THEN "look" ELSE "issue")
    /\ UNCHANGED <<cache, lock, accessToken, grant, ends, near, ghosts>>

\* _is_expiring: self._expires_at is None
LookAtExpiry(c) ==
    /\ At(c, "look")
    /\ Go(c, IF expiry = None THEN "return" ELSE "compare")
    /\ UNCHANGED <<cache, lock, accessToken, grant, ends, near, ghosts>>

\* time.time() >= self._expires_at - self.expiry_margin
CompareExpiry(c) ==
    /\ At(c, "compare")
    /\ \/ expiry = None /\ End(c, "type_error", None)
       \/ expiry \in near /\ Go(c, "issue") /\ UNCHANGED <<lock, ends>>
       \/ expiry \notin near \cup {None} /\ Go(c, "return") /\ UNCHANGED <<lock, ends>>
    /\ UNCHANGED <<cache, accessToken, grant, near, ghosts>>

\* assert self._token is not None
AssertStored(c) ==
    /\ At(c, "assert")
    /\ \/ token = None /\ End(c, "assertion_error", None)
       \/ token # None /\ Go(c, "return") /\ UNCHANGED <<lock, ends>>
    /\ UNCHANGED <<cache, accessToken, grant, near, ghosts>>

\* return self._token, which is read once more.
ReturnToken(c) ==
    /\ At(c, "return")
    /\ End(c, "returned", token)
    /\ UNCHANGED <<cache, accessToken, grant, near, ghosts>>

-----------------------------------------------------------------------------
(* issue_token(), _store() and _clear(): each writes twice.                *)

\* The response: a token issued before, within its validity, or a new one.
ServerIssues(c) ==
    /\ At(c, "issue")
    /\ \E t \in Tokens : grant' = [grant EXCEPT ![c] = t]
    /\ Go(c, "store")
    /\ UNCHANGED <<cache, lock, accessToken, ends, near, ghosts>>

\* An HTTP error or a reply without a token is a KiwoomAuthError; a reply with status 200
\* that is no JSON, or no object where a token is looked for, raises what it raises.
OAuthFails(c) ==
    /\ pc[c] \in {"issue", "revoke"}
    /\ \E how \in {"auth_error", "bad_reply"} : End(c, how, None)
    /\ UNCHANGED <<cache, accessToken, grant, near, ghosts>>

StoreToken(c) ==
    /\ At(c, "store")
    /\ token' = grant[c]
    /\ Writes(c)
    /\ Go(c, "store_expiry")
    /\ UNCHANGED <<expiry, lock, accessToken, grant, ends, near>>

\* Mutant: an expiry is stored only when the response has one.
StoreKnownExpiry(c) ==
    /\ At(c, "store_expiry")
    /\ expiry' \in {expiry, grant[c]}
    /\ Writes(c)
    /\ Go(c, IF c \in Logins THEN "publish" ELSE "assert")
    /\ UNCHANGED <<token, lock, accessToken, grant, ends, near>>

\* _parse_expiry: the response may carry none that parses.
StoreExpiry(c) ==
    /\ At(c, "store_expiry")
    /\ expiry' \in {None, grant[c]}
    /\ Writes(c)
    /\ Go(c, IF c \in Logins THEN "publish" ELSE "assert")
    /\ UNCHANGED <<token, lock, accessToken, grant, ends, near>>

ClearToken(c) ==
    /\ At(c, "clear")
    /\ token' = None
    /\ Writes(c)
    /\ Go(c, "clear_expiry")
    /\ UNCHANGED <<expiry, lock, accessToken, grant, ends, near>>

\* Mutant: refresh_token() holds the lock for the clearing only.
ClearExpiryAndRelease(c) ==
    /\ At(c, "clear_expiry")
    /\ expiry' = None
    /\ Writes(c)
    /\ Go(c, IF c \in Logouts THEN "unpublish" ELSE "issue")
    /\ Release(c)
    /\ UNCHANGED <<token, accessToken, grant, ends, near>>

ClearExpiry(c) ==
    /\ At(c, "clear_expiry")
    /\ expiry' = None
    /\ Writes(c)
    /\ Go(c, IF c \in Logouts THEN "unpublish" ELSE "issue")
    /\ UNCHANGED <<token, lock, accessToken, grant, ends, near>>

-----------------------------------------------------------------------------
(* login() and logout().                                                   *)

BeginLogin(c) ==
    /\ At(c, "idle")
    /\ Go(c, "issue")
    /\ UNCHANGED <<cache, lock, accessToken, grant, ends, near, ghosts>>

\* access_token = self._auth.token, whosever that is by now.
Publish(c) ==
    /\ At(c, "publish")
    /\ accessToken' = token
    /\ End(c, "returned", grant[c])
    /\ UNCHANGED <<cache, grant, near, ghosts>>

BeginLogout(c) ==
    /\ At(c, "idle")
    /\ IF token = None
       THEN End(c, "not_logged_in", None) /\ UNCHANGED grant
       ELSE /\ grant' = [grant EXCEPT ![c] = token]
            /\ Go(c, "revoke")
            /\ UNCHANGED <<lock, ends>>
    /\ UNCHANGED <<cache, accessToken, near, ghosts>>

ServerRevokes(c) ==
    /\ At(c, "revoke")
    /\ Go(c, "forget")
    /\ UNCHANGED <<cache, lock, accessToken, grant, ends, near, ghosts>>

\* if token == self._token
Forget(c) ==
    /\ At(c, "forget")
    /\ Go(c, IF token = grant[c] THEN "clear" ELSE "unpublish")
    /\ UNCHANGED <<cache, lock, accessToken, grant, ends, near, ghosts>>

Unpublish(c) ==
    /\ At(c, "unpublish")
    /\ accessToken' = None
    /\ End(c, "returned", grant[c])
    /\ UNCHANGED <<cache, grant, near, ghosts>>

\* Time passes.
TokenAges(t) ==
    /\ t \notin near
    /\ near' = near \cup {t}
    /\ UNCHANGED <<cache, lock, accessToken, pc, grant, ends, ghosts>>

-----------------------------------------------------------------------------

\* What a call does once it has begun.
Step(c) ==
    \/ CheckToken(c) \/ LookAtExpiry(c) \/ CompareExpiry(c) \/ AssertStored(c)
    \/ ReturnToken(c) \/ ServerIssues(c) \/ OAuthFails(c) \/ StoreToken(c)
    \/ StoreExpiry(c) \/ ClearToken(c) \/ ClearExpiry(c) \/ Publish(c)
    \/ ServerRevokes(c) \/ Forget(c) \/ Unpublish(c)

Next ==
    \/ \E c \in Calls : Step(c)
    \/ \E c \in Locked : Enter(c)
    \/ \E c \in Logins : BeginLogin(c)
    \/ \E c \in Logouts : BeginLogout(c)
    \/ \E t \in Tokens : TokenAges(t)

Spec == Init /\ [][Next]_vars

\* The system schedules every thread, httpx has a timeout of 30 s, and a lock
\* that is free is given to one of the threads that wait for it.
Fairness ==
    /\ \A c \in Calls : WF_vars(Step(c))
    /\ \A c \in Locked : WF_vars(Enter(c))

-----------------------------------------------------------------------------
(* Properties.                                                             *)

Types ==
    /\ token \in {None} \cup Tokens /\ expiry \in {None} \cup Tokens
    /\ lock \in Locked \cup {NoCall}
    /\ accessToken \in {None} \cup Tokens
    /\ pc \in [Calls -> Places]
    /\ grant \in [Calls -> {None} \cup Tokens]
    /\ returned \in [Calls -> {None} \cup Tokens]
    /\ result \in [Calls -> Results]
    /\ near \in SUBSET Tokens
    /\ disturbed \in SUBSET Locked /\ emptied \in SUBSET Locked /\ mixed \in BOOLEAN

LockHeld == \A c \in Locked : pc[c] \notin {"idle", "done"} <=> lock = c

\* Every variable has its type, and the lock is held by the one call of get_valid_token()
\* or refresh_token() that is under way, from its first statement to its last.
TypeOK == Types /\ LockHeld

\* What issue_token() lets through: its docstring names KiwoomAuthError only.
Refused(c) == result[c] \in {"auth_error", "bad_reply"}

\* "Return a currently-valid token, issuing or reissuing as needed": a call returns a token,
\* the one it was issued if it asked for one, or raises what the request for a token raised,
\* whatever the other getters and refreshers do.  A login() that writes to the cache under
\* the call's lock may make it return another token, or lose the expiry while it compares
\* (a TypeError); only a logout() that clears the cache under its lock makes it
\* return None or its assertion fail.
PromiseKept ==
    \A c \in Locked : pc[c] = "done" =>
        \/ Refused(c)
        \/ /\ result[c] = "returned" /\ returned[c] # None
           /\ c \notin disturbed /\ grant[c] # None => returned[c] = grant[c]
        \/ c \in disturbed /\ result[c] = "type_error"
        \/ c \in emptied

\* "The issued token is cached together with its expiry": unless a login() or logout() and
\* another call wrote at once, _expires_at is never the expiry of another token than _token.
CacheConsistent ==
    ~mixed /\ (\A c \in Calls : pc[c] \notin MidWrite) => expiry \in {None, token}

\* Every call of get_valid_token() and refresh_token() ends: nobody waits for
\* ever on the lock, even after an exception under it.
EveryCallEnds == \A c \in Locked : <>(pc[c] = "done")
=============================================================================
