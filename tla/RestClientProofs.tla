--------------------------- MODULE RestClientProofs ---------------------------
(***************************************************************************)
(* Proofs about RestClient, for any number of concurrent requests, logins  *)
(* and logouts, any max_retries and any number of tokens.                  *)
(***************************************************************************)
EXTENDS RestClient, TLAPS

\* A refresh is under way only while the loop has an attempt left for it.
LoopInv ==
    \A r \in Requests :
        /\ pc[r] \in {"refresh", "refreshing"} => attempt[r] < MaxRetries
        /\ result[r] # "runtime_error"

\* Until a reply is in, the server has carried out nothing for this request;
\* the reply then tells.
ExecutedInv ==
    \A r \in Requests :
        /\ executed[r] \in {0, 1}
        /\ pc[r] \notin {"replied", "done"} => executed[r] = 0
        /\ pc[r] = "replied" =>
              /\ result[r] \in Replies
              /\ result[r] \in Refusals => executed[r] = 0
              /\ result[r] = "ok" => executed[r] = 1

SafeInv == TypeOK /\ LockDiscipline /\ LoopInv /\ ExecutedInv /\ HonestOutcome

\* Requests are calls, and are neither logins nor logouts.
LEMMA CallsDisjoint ==
    /\ Requests \subseteq Calls /\ Logins \subseteq Calls /\ Logouts \subseteq Calls
    /\ Requests \cap Logins = {} /\ Requests \cap Logouts = {}
    /\ NoCall \notin Requests
  BY CallsAssumption DEF Calls

-----------------------------------------------------------------------------
(* Type correctness.                                                       *)

LEMMA InitTypeOK == Init => TypeOK
  <1> SUFFICES ASSUME Init PROVE TypeOK
    OBVIOUS
  <1>1. pc \in [Calls -> Places] /\ refreshed \in [Calls -> BOOLEAN]
    BY DEF Init, Places
  <1>2. attempt \in [Calls -> 0..MaxRetries] /\ issued \in 0..MaxTokens
    BY BoundsAssumption DEF Init
  <1>3. /\ header \in [Calls -> {None} \cup Tokens]
        /\ grant \in [Calls -> {None} \cup Tokens]
        /\ result \in [Calls -> Replies \cup Endings \cup {"none"}]
        /\ executed \in [Requests -> Nat]
    BY DEF Init
  <1> QED
    BY <1>1, <1>2, <1>3 DEF Init, TypeOK

LEMMA RequestTypeOK ==
    ASSUME TypeOK, NEW r \in Requests, RequestStep(r)
    PROVE  TypeOK'
  <1>0. r \in Calls
    BY CallsDisjoint
  <1> USE <1>0, BoundsAssumption
      DEF TypeOK, Go, End, Places, InOAuth, Replies, Refusals, Throttled,
          TokenRejected, Endings, authVars, callVars, serverVars, ghosts
  <1>1. CASE StartRequest(r)
    BY <1>1 DEF StartRequest
  <1>2. CASE UseCachedToken(r)
    BY <1>2 DEF UseCachedToken
  <1>3. CASE BeginIssue(r)
    BY <1>3 DEF BeginIssue
  <1>4. CASE IssueStored(r)
    BY <1>4 DEF IssueStored, Store, Release
  <1>5. CASE BackOff(r)
    BY <1>5 DEF BackOff, NextAttempt
  <1>6. CASE WantRefresh(r)
    BY <1>6 DEF WantRefresh
  <1>7. CASE BeginRefresh(r)
    BY <1>7 DEF BeginRefresh, Clear
  <1>8. CASE RefreshStored(r)
    BY <1>8 DEF RefreshStored, Store, Release, NextAttempt
  <1>9. CASE Finish(r)
    BY <1>9 DEF Finish
  <1>10. CASE TransportFails(r)
    BY <1>10 DEF TransportFails
  <1> QED
    BY <1>1, <1>2, <1>3, <1>4, <1>5, <1>6, <1>7, <1>8, <1>9, <1>10 DEF RequestStep

LEMMA AnswerTypeOK ==
    ASSUME TypeOK, NEW r \in Requests, ServerAnswers(r)
    PROVE  TypeOK'
  <1>0. r \in Calls
    BY CallsDisjoint
  <1> USE <1>0
      DEF TypeOK, Go, Answer, Places, InOAuth, Replies, Refusals, Throttled,
          TokenRejected, Endings, authVars, callVars, serverVars, ghosts
  <1>1. CASE ServerThrottles(r)
    BY <1>1 DEF ServerThrottles
  <1>2. CASE ServerRejectsToken(r)
    BY <1>2 DEF ServerRejectsToken
  <1>3. CASE ServerProcesses(r)
    BY <1>3 DEF ServerProcesses
  <1> QED
    BY <1>1, <1>2, <1>3 DEF ServerAnswers

LEMMA SessionTypeOK ==
    ASSUME TypeOK, NEW c \in Calls,
           \/ c \in Logins /\ LoginStep(c)
           \/ c \in Logouts /\ (LogoutStep(c) \/ ServerRevokes(c))
           \/ ServerIssues(c) \/ OAuthFails(c) \/ Cancel(c)
    PROVE  TypeOK'
  <1> USE BoundsAssumption
      DEF TypeOK, Go, End, Places, InOAuth, Replies, Refusals, Throttled,
          TokenRejected, Endings, authVars, callVars, serverVars, ghosts
  <1>1. CASE StartLogin(c) \/ LoginStored(c)
    BY <1>1 DEF StartLogin, LoginStored, Store, Excuse
  <1>2. CASE StartLogout(c) \/ LogoutRefused(c) \/ LogoutDone(c)
    BY <1>2 DEF StartLogout, LogoutRefused, LogoutDone, Clear
  <1>3. CASE ServerRevokes(c)
    BY <1>3 DEF ServerRevokes, Excuse
  <1>4. CASE ServerIssues(c)
    BY <1>4 DEF ServerIssues, Tokens
  <1>5. CASE OAuthFails(c) \/ Cancel(c)
    BY <1>5 DEF OAuthFails, Cancel, Release
  <1> QED
    BY <1>1, <1>2, <1>3, <1>4, <1>5 DEF LoginStep, LogoutStep

LEMMA StepTypeOK == TypeOK /\ [Next]_vars => TypeOK'
  <1> SUFFICES ASSUME TypeOK, [Next]_vars PROVE TypeOK'
    OBVIOUS
  <1>1. ASSUME NEW t \in Tokens, TokenAges(t) \/ TokenDies(t) PROVE TypeOK'
    BY <1>1 DEF TypeOK, TokenAges, TokenDies, Excuse, authVars, callVars, ghosts
  <1>2. CASE UNCHANGED vars
    BY <1>2 DEF TypeOK, vars, authVars, callVars, serverVars, ghosts
  <1> QED
    BY <1>1, <1>2, RequestTypeOK, AnswerTypeOK, SessionTypeOK, CallsDisjoint
       DEF Next

-----------------------------------------------------------------------------
(* The auth lock, the loop's range, and what the server carried out.       *)

LEMMA InitSafe == Init => LockDiscipline /\ LoopInv /\ ExecutedInv /\ HonestOutcome
  BY CallsDisjoint DEF Init, LockDiscipline, LoopInv, ExecutedInv, HonestOutcome

\* What one request does to its own part of the safety invariant; no step of
\* its loop changes what the server carried out or the place of another call.
LEMMA RequestSafe ==
    ASSUME SafeInv, NEW r \in Requests, RequestStep(r)
    PROVE  LockDiscipline' /\ LoopInv' /\ ExecutedInv' /\ HonestOutcome'
  <1>0. r \in Calls /\ Requests \subseteq Calls /\ NoCall \notin Requests
    BY CallsDisjoint
  <1>a. /\ pc \in [Calls -> Places] /\ result \in [Calls -> Replies \cup Endings \cup {"none"}]
        /\ attempt \in [Calls -> 0..MaxRetries]
        /\ LockDiscipline /\ LoopInv /\ ExecutedInv /\ HonestOutcome
    BY DEF SafeInv, TypeOK
  <1> USE <1>0, <1>a, BoundsAssumption
      DEF LockDiscipline, LoopInv, ExecutedInv, HonestOutcome, Go, End, Release,
          ghosts, Refusals, Throttled, TokenRejected, Replies
  <1>1. CASE StartRequest(r)
    BY <1>1 DEF StartRequest, authVars
  <1>2. CASE UseCachedToken(r)
    BY <1>2 DEF UseCachedToken, authVars
  <1>3. CASE BeginIssue(r)
    BY <1>3 DEF BeginIssue
  <1>4. CASE IssueStored(r)
    BY <1>4 DEF IssueStored
  <1>5. CASE BackOff(r)
    BY <1>5 DEF BackOff, NextAttempt, authVars
  <1>6. CASE WantRefresh(r)
    BY <1>6 DEF WantRefresh, MayRefresh, authVars
  <1>7. CASE BeginRefresh(r)
    BY <1>7 DEF BeginRefresh
  <1>8. CASE RefreshStored(r)
    BY <1>8 DEF RefreshStored, NextAttempt
  <1>9. CASE Finish(r)
    BY <1>9 DEF Finish, authVars
  <1>10. CASE TransportFails(r)
    BY <1>10 DEF TransportFails, authVars
  <1> QED
    BY <1>1, <1>2, <1>3, <1>4, <1>5, <1>6, <1>7, <1>8, <1>9, <1>10 DEF RequestStep

LEMMA AnswerSafe ==
    ASSUME SafeInv, NEW r \in Requests, ServerAnswers(r)
    PROVE  LockDiscipline' /\ LoopInv' /\ ExecutedInv' /\ HonestOutcome'
  <1>0. r \in Calls /\ Requests \subseteq Calls
    BY CallsDisjoint
  <1>a. /\ pc \in [Calls -> Places] /\ result \in [Calls -> Replies \cup Endings \cup {"none"}]
        /\ executed \in [Requests -> Nat]
        /\ LockDiscipline /\ LoopInv /\ ExecutedInv /\ HonestOutcome
    BY DEF SafeInv, TypeOK
  <1> USE <1>0, <1>a
      DEF LockDiscipline, LoopInv, ExecutedInv, HonestOutcome, Go, Answer, authVars,
          Refusals, Throttled, TokenRejected, Replies
  <1>1. CASE ServerThrottles(r)
    BY <1>1 DEF ServerThrottles
  <1>2. CASE ServerRejectsToken(r)
    BY <1>2 DEF ServerRejectsToken
  <1>3. CASE ServerProcesses(r)
    BY <1>3 DEF ServerProcesses
  <1> QED
    BY <1>1, <1>2, <1>3 DEF ServerAnswers

LEMMA SessionSafe ==
    ASSUME SafeInv, NEW c \in Calls,
           \/ c \in Logins /\ LoginStep(c)
           \/ c \in Logouts /\ (LogoutStep(c) \/ ServerRevokes(c))
           \/ ServerIssues(c) \/ OAuthFails(c) \/ Cancel(c)
    PROVE  LockDiscipline' /\ LoopInv' /\ ExecutedInv' /\ HonestOutcome'
  <1>a. /\ pc \in [Calls -> Places] /\ result \in [Calls -> Replies \cup Endings \cup {"none"}]
        /\ LockDiscipline /\ LoopInv /\ ExecutedInv /\ HonestOutcome
    BY DEF SafeInv, TypeOK
  <1> USE <1>a, CallsDisjoint
      DEF LockDiscipline, LoopInv, ExecutedInv, HonestOutcome, Go, End, authVars,
          ghosts, Refusals, Throttled, TokenRejected, Replies
  <1>1. CASE c \in Logins /\ (StartLogin(c) \/ LoginStored(c))
    BY <1>1 DEF StartLogin, LoginStored
  <1>2. CASE c \in Logouts /\ (StartLogout(c) \/ LogoutRefused(c) \/ LogoutDone(c))
    BY <1>2 DEF StartLogout, LogoutRefused, LogoutDone
  <1>3. CASE ServerRevokes(c) \/ ServerIssues(c)
    BY <1>3 DEF ServerRevokes, ServerIssues
  <1>4. CASE OAuthFails(c) \/ Cancel(c)
    BY <1>4 DEF OAuthFails, Cancel, Release, InOAuth
  <1> QED
    BY <1>1, <1>2, <1>3, <1>4 DEF LoginStep, LogoutStep

LEMMA StepSafe == SafeInv /\ [Next]_vars => SafeInv'
  <1> SUFFICES ASSUME SafeInv, [Next]_vars PROVE SafeInv'
    OBVIOUS
  <1>0. TypeOK'
    BY StepTypeOK DEF SafeInv
  <1>1. CASE UNCHANGED <<pc, lock, attempt, result, executed>>
    BY <1>0, <1>1
       DEF SafeInv, LockDiscipline, LoopInv, ExecutedInv, HonestOutcome
  <1>2. ASSUME NEW t \in Tokens, TokenAges(t) \/ TokenDies(t)
        PROVE  UNCHANGED <<pc, lock, attempt, result, executed>>
    BY <1>2 DEF TokenAges, TokenDies, authVars, callVars, ghosts
  <1> QED
    BY <1>0, <1>1, <1>2, RequestSafe, AnswerSafe, SessionSafe, CallsDisjoint
       DEF Next, SafeInv, vars, authVars, callVars, ghosts

-----------------------------------------------------------------------------
(* Where tokens can be.                                                    *)

\* No token is anywhere before the server has issued it.
SupplyInv ==
    /\ token <= issued
    /\ \A t \in valid : t <= issued
    /\ \A c \in Calls : grant[c] <= issued /\ header[c] <= issued

\* A token a logout has had revoked stays dead: the server never reissues it.
LogoutInv ==
    \A c \in Logouts : grant[c] # None => pc[c] = "logout" /\ header[c] \notin valid

\* The answer to an issuance is waited for inside the auth lock.
GrantInv ==
    \A r \in Requests :
        /\ grant[r] # None => pc[r] \in {"getting", "refreshing"}
        /\ pc[r] \notin {"login", "logout"}

TokenInv == SupplyInv /\ LogoutInv /\ GrantInv

LEMMA InitTokenInv == Init => TokenInv
  BY CallsDisjoint, BoundsAssumption
     DEF Init, TokenInv, SupplyInv, LogoutInv, GrantInv, None

LEMMA RequestTokenInv ==
    ASSUME TypeOK, TokenInv, NEW r \in Requests, RequestStep(r)
    PROVE  TokenInv'
  <1>0. r \in Calls /\ Requests \subseteq Calls /\ r \notin Logouts /\ Logouts \subseteq Calls
    BY CallsDisjoint
  <1>a. /\ pc \in [Calls -> Places] /\ token \in {None} \cup Tokens
        /\ header \in [Calls -> {None} \cup Tokens]
        /\ grant \in [Calls -> {None} \cup Tokens]
        /\ issued \in 0..MaxTokens
        /\ SupplyInv /\ LogoutInv /\ GrantInv
    BY DEF TypeOK, TokenInv
  <1> USE <1>0, <1>a, BoundsAssumption
      DEF SupplyInv, LogoutInv, GrantInv, TokenInv, Go, End, serverVars, None, Tokens
  <1>1. CASE StartRequest(r)
    BY <1>1 DEF StartRequest, authVars
  <1>2. CASE UseCachedToken(r)
    BY <1>2 DEF UseCachedToken, authVars
  <1>3. CASE BeginIssue(r)
    BY <1>3 DEF BeginIssue
  <1>4. CASE IssueStored(r)
    BY <1>4 DEF IssueStored, Store
  <1>5. CASE BackOff(r)
    BY <1>5 DEF BackOff, NextAttempt, authVars
  <1>6. CASE WantRefresh(r)
    BY <1>6 DEF WantRefresh, authVars
  <1>7. CASE BeginRefresh(r)
    BY <1>7 DEF BeginRefresh, Clear
  <1>8. CASE RefreshStored(r)
    BY <1>8 DEF RefreshStored, Store, NextAttempt
  <1>9. CASE Finish(r)
    BY <1>9 DEF Finish, authVars
  <1>10. CASE TransportFails(r)
    BY <1>10 DEF TransportFails, authVars
  <1> QED
    BY <1>1, <1>2, <1>3, <1>4, <1>5, <1>6, <1>7, <1>8, <1>9, <1>10 DEF RequestStep

LEMMA SessionTokenInv ==
    ASSUME TypeOK, TokenInv, NEW c \in Calls,
           \/ c \in Logins /\ LoginStep(c)
           \/ c \in Logouts /\ (LogoutStep(c) \/ ServerRevokes(c))
           \/ c \in Requests \cup Logins /\ ServerIssues(c)
           \/ OAuthFails(c) \/ Cancel(c)
    PROVE  TokenInv'
  <1>a. /\ pc \in [Calls -> Places] /\ token \in {None} \cup Tokens
        /\ header \in [Calls -> {None} \cup Tokens]
        /\ grant \in [Calls -> {None} \cup Tokens]
        /\ issued \in 0..MaxTokens /\ valid \in SUBSET Tokens
        /\ SupplyInv /\ LogoutInv /\ GrantInv
        /\ Logins \cap Logouts = {}
    BY CallsAssumption DEF TypeOK, TokenInv
  <1> USE <1>a, CallsDisjoint, BoundsAssumption
      DEF SupplyInv, LogoutInv, GrantInv, TokenInv, Go, End, serverVars, None, Tokens
  <1>1. CASE c \in Logins /\ StartLogin(c)
    BY <1>1 DEF StartLogin, authVars
  <1>2. CASE c \in Logins /\ LoginStored(c)
    BY <1>2 DEF LoginStored, Store
  <1>3. CASE c \in Logouts /\ StartLogout(c)
    <2>1. /\ header' = [header EXCEPT ![c] = token] /\ pc[c] = "idle"
          /\ pc' = [pc EXCEPT ![c] = "logout"]
          /\ UNCHANGED <<token, grant, issued, valid>>
      BY <1>3 DEF StartLogout, authVars
    <2>2. SupplyInv' /\ GrantInv'
      BY <1>3, <2>1
    <2>3. LogoutInv'
      BY <1>3, <2>1
    <2> QED
      BY <2>2, <2>3
  <1>4. CASE c \in Logouts /\ (LogoutRefused(c) \/ LogoutDone(c))
    <2>1. /\ pc' = [pc EXCEPT ![c] = "done"]
          /\ header' = [header EXCEPT ![c] = None] /\ grant' = [grant EXCEPT ![c] = None]
          /\ token' = token \/ token' = None
          /\ UNCHANGED <<issued, valid>>
      BY <1>4 DEF LogoutRefused, LogoutDone, Clear, authVars
    <2>2. SupplyInv'
      BY <2>1
    <2>3. LogoutInv'
      BY <2>1
    <2>4. GrantInv'
      BY <2>1
    <2> QED
      BY <2>2, <2>3, <2>4
  <1>5. CASE c \in Logouts /\ ServerRevokes(c)
    BY <1>5 DEF ServerRevokes, authVars
  <1>6. CASE c \in Requests \cup Logins /\ ServerIssues(c)
    <2>1. PICK t \in Tokens :
            /\ t \in valid \/ t = issued + 1
            /\ grant' = [grant EXCEPT ![c] = t] /\ valid' = valid \cup {t}
            /\ issued' = IF t > issued THEN t ELSE issued
      BY <1>6 DEF ServerIssues
    <2>2. issued' >= issued /\ t <= issued' /\ issued' \in Nat
      BY <2>1
    <2>3. UNCHANGED <<token, pc, header>>
      BY <1>6 DEF ServerIssues, authVars
    <2>4. SupplyInv'
      BY <2>1, <2>2, <2>3
    <2>5. LogoutInv'
      BY <1>6, <2>1, <2>3
    <2>6. GrantInv'
      BY <1>6, <2>1, <2>3 DEF ServerIssues
    <2> QED
      BY <2>4, <2>5, <2>6
  <1>7. CASE OAuthFails(c) \/ Cancel(c)
    <2>1. /\ pc' = [pc EXCEPT ![c] = "done"]
          /\ header' = [header EXCEPT ![c] = None] /\ grant' = [grant EXCEPT ![c] = None]
          /\ UNCHANGED <<token, issued, valid>>
      BY <1>7 DEF OAuthFails, Cancel
    <2>2. SupplyInv'
      BY <2>1
    <2>3. LogoutInv'
      BY <2>1
    <2>4. GrantInv'
      BY <2>1
    <2> QED
      BY <2>2, <2>3, <2>4
  <1> QED
    BY <1>1, <1>2, <1>3, <1>4, <1>5, <1>6, <1>7 DEF LoginStep, LogoutStep

LEMMA StepTokenInv == TypeOK /\ TokenInv /\ [Next]_vars => TokenInv'
  <1> SUFFICES ASSUME TypeOK, TokenInv, [Next]_vars PROVE TokenInv'
    OBVIOUS
  <1>1. ASSUME NEW r \in Requests, ServerAnswers(r) PROVE TokenInv'
    <2>0. r \in Calls /\ r \notin Logouts
      BY CallsDisjoint
    <2>1. /\ UNCHANGED <<token, header, grant, issued, valid>>
          /\ pc' = [pc EXCEPT ![r] = "replied"] /\ pc[r] = "send"
      BY <1>1 DEF ServerAnswers, ServerThrottles, ServerRejectsToken, ServerProcesses,
                  Answer, Go, authVars, serverVars
    <2> QED
      BY <2>0, <2>1 DEF TokenInv, SupplyInv, LogoutInv, GrantInv, TypeOK
  <1>2. ASSUME NEW t \in Tokens, TokenAges(t) \/ TokenDies(t) PROVE TokenInv'
    BY <1>2
       DEF TokenAges, TokenDies, authVars, callVars, TokenInv, SupplyInv, LogoutInv,
           GrantInv
  <1>3. CASE UNCHANGED vars
    BY <1>3 DEF vars, authVars, callVars, serverVars, TokenInv, SupplyInv, LogoutInv,
                GrantInv
  <1> QED
    BY <1>1, <1>2, <1>3, RequestTokenInv, SessionTokenInv, CallsDisjoint DEF Next

-----------------------------------------------------------------------------
(* A rejection after a refresh is earned.                                  *)

\* What the place of a request says of its headers and of its refresh.
PlaceInv(r) ==
    /\ pc[r] = "idle" => ~refreshed[r]
    /\ pc[r] \in {"refresh", "refreshing"} => header[r] = None
    /\ pc[r] = "send" => header[r] # None

\* Once its refresh has been served and until it is excused, a request meets
\* live tokens only: in its own answer, then in the cache, in the answers on
\* their way to the cache under the lock, and in its headers.
FreshInv(r) ==
    refreshed[r] /\ r \notin excused =>
        /\ pc[r] = "refreshing" /\ grant[r] # None => grant[r] \in valid
        /\ pc[r] \in {"start", "getting", "send", "replied"} =>
              /\ token # None => token \in valid
              /\ \A q \in Requests : grant[q] # None => grant[q] \in valid
              /\ header[r] # None => header[r] \in valid
        /\ pc[r] \in {"replied", "done"} => result[r] \notin {"401", "rc3"}

\* A request that ended on a rejection without a refresh had no attempt left.
SpentInv(r) ==
    pc[r] = "done" /\ result[r] \in {"401", "rc3"} /\ ~refreshed[r]
        => attempt[r] = MaxRetries

EarnedInv == \A r \in Requests : PlaceInv(r) /\ FreshInv(r) /\ SpentInv(r)

IInv == SafeInv /\ TokenInv /\ EarnedInv

LEMMA InitEarned == Init => EarnedInv
  BY CallsDisjoint DEF Init, EarnedInv, PlaceInv, FreshInv, SpentInv

\* A step of a request's own loop.
LEMMA OwnStepEarned ==
    ASSUME IInv, NEW r \in Requests, RequestStep(r)
    PROVE  PlaceInv(r)' /\ FreshInv(r)' /\ SpentInv(r)'
  <1>0. r \in Calls /\ Requests \subseteq Calls
    BY CallsDisjoint
  <1>a. /\ pc \in [Calls -> Places] /\ token \in {None} \cup Tokens
        /\ header \in [Calls -> {None} \cup Tokens]
        /\ grant \in [Calls -> {None} \cup Tokens]
        /\ refreshed \in [Calls -> BOOLEAN] /\ attempt \in [Calls -> 0..MaxRetries]
        /\ result \in [Calls -> Replies \cup Endings \cup {"none"}]
        /\ LockDiscipline /\ GrantInv /\ PlaceInv(r) /\ FreshInv(r) /\ SpentInv(r)
    BY DEF IInv, SafeInv, TypeOK, TokenInv, EarnedInv
  <1> USE <1>0, <1>a, BoundsAssumption
      DEF PlaceInv, FreshInv, SpentInv, Go, End, serverVars, ghosts
  <1>1. CASE StartRequest(r)
    BY <1>1 DEF StartRequest, authVars
  <1>2. CASE UseCachedToken(r)
    BY <1>2 DEF UseCachedToken, authVars
  <1>3. CASE BeginIssue(r)
    BY <1>3 DEF BeginIssue
  <1>4. CASE IssueStored(r)
    BY <1>4 DEF IssueStored, Store
  <1>5. CASE BackOff(r)
    BY <1>5 DEF BackOff, NextAttempt, authVars
  <1>6. CASE WantRefresh(r)
    BY <1>6 DEF WantRefresh, authVars
  <1>7. CASE BeginRefresh(r)
    BY <1>7 DEF BeginRefresh, Clear, GrantInv
  <1>8. CASE RefreshStored(r)
    <2>1. \A q \in Requests : q # r => grant[q] = None
      BY <1>8 DEF RefreshStored, LockDiscipline, GrantInv
    <2> QED
      BY <1>8, <2>1 DEF RefreshStored, Store, NextAttempt
  <1>9. CASE Finish(r)
    BY <1>9 DEF Finish, MayRefresh, TokenRejected, authVars
  <1>10. CASE TransportFails(r)
    BY <1>10 DEF TransportFails, authVars
  <1> QED
    BY <1>1, <1>2, <1>3, <1>4, <1>5, <1>6, <1>7, <1>8, <1>9, <1>10 DEF RequestStep

\* What a request sees of a step that is not its own: the cache keeps its
\* token, loses it, or takes over an answer that was waiting for it.
Elsewhere(r) ==
    /\ pc'[r] = pc[r] /\ header'[r] = header[r] /\ result'[r] = result[r]
    /\ refreshed'[r] = refreshed[r] /\ attempt'[r] = attempt[r]
    /\ grant'[r] = grant[r] /\ valid' = valid /\ excused \subseteq excused'
    /\ \A q \in Requests : grant'[q] \in {grant[q], None}
    /\ \/ token' \in {token, None}
       \/ \E q \in Requests : token' = grant[q]

LEMMA ElsewhereEarned ==
    ASSUME IInv, NEW r \in Requests, Elsewhere(r)
    PROVE  PlaceInv(r)' /\ FreshInv(r)' /\ SpentInv(r)'
  <1>1. PlaceInv(r) /\ FreshInv(r) /\ SpentInv(r)
    BY DEF IInv, EarnedInv
  <1> QED
    BY <1>1 DEF Elsewhere, PlaceInv, FreshInv, SpentInv

\* A step of another request's loop.
LEMMA OtherStepEarned ==
    ASSUME IInv, NEW r \in Requests, NEW q \in Requests, q # r, RequestStep(q)
    PROVE  Elsewhere(r)
  <1>0. r \in Calls /\ q \in Calls /\ Requests \subseteq Calls
    BY CallsDisjoint
  <1>a. TypeOK
    BY DEF IInv, SafeInv
  <1> USE <1>0, <1>a DEF TypeOK, Elsewhere, Go, End, serverVars, ghosts
  <1>1. CASE StartRequest(q) \/ UseCachedToken(q) \/ BeginIssue(q)
    BY <1>1 DEF StartRequest, UseCachedToken, BeginIssue, authVars
  <1>2. CASE IssueStored(q)
    BY <1>2 DEF IssueStored, Store
  <1>3. CASE BackOff(q) \/ WantRefresh(q)
    BY <1>3 DEF BackOff, WantRefresh, NextAttempt, authVars
  <1>4. CASE BeginRefresh(q)
    BY <1>4 DEF BeginRefresh, Clear
  <1>5. CASE RefreshStored(q)
    BY <1>5 DEF RefreshStored, Store, NextAttempt
  <1>6. CASE Finish(q) \/ TransportFails(q)
    BY <1>6 DEF Finish, TransportFails, authVars
  <1> QED
    BY <1>1, <1>2, <1>3, <1>4, <1>5, <1>6 DEF RequestStep

\* The server answers this request: never a rejection of a live token.
LEMMA AnswerEarned ==
    ASSUME IInv, NEW r \in Requests, ServerAnswers(r)
    PROVE  PlaceInv(r)' /\ FreshInv(r)' /\ SpentInv(r)'
  <1>0. r \in Calls
    BY CallsDisjoint
  <1>a. /\ pc \in [Calls -> Places]
        /\ result \in [Calls -> Replies \cup Endings \cup {"none"}]
        /\ PlaceInv(r) /\ FreshInv(r) /\ SpentInv(r)
    BY DEF IInv, SafeInv, TypeOK, EarnedInv
  <1> USE <1>0, <1>a DEF PlaceInv, FreshInv, SpentInv, Answer, Go, authVars, serverVars
  <1>1. CASE ServerThrottles(r)
    BY <1>1 DEF ServerThrottles, Throttled
  <1>2. CASE ServerRejectsToken(r)
    BY <1>2 DEF ServerRejectsToken
  <1>3. CASE ServerProcesses(r)
    BY <1>3 DEF ServerProcesses
  <1> QED
    BY <1>1, <1>2, <1>3 DEF ServerAnswers

\* The server serves an issuance, possibly the refresh of this request.
LEMMA IssueEarned ==
    ASSUME IInv, NEW r \in Requests, NEW c \in Requests \cup Logins, ServerIssues(c)
    PROVE  PlaceInv(r)' /\ FreshInv(r)' /\ SpentInv(r)'
  <1>0. r \in Calls /\ c \in Calls /\ Requests \subseteq Calls
    BY CallsDisjoint
  <1>a. /\ grant \in [Calls -> {None} \cup Tokens]
        /\ PlaceInv(r) /\ FreshInv(r) /\ SpentInv(r)
    BY DEF IInv, SafeInv, TypeOK, EarnedInv
  <1>1. PICK t \in Tokens :
          grant' = [grant EXCEPT ![c] = t] /\ valid' = valid \cup {t}
    BY DEF ServerIssues
  <1>2. UNCHANGED <<token, pc, header, result, refreshed, attempt>>
    BY DEF ServerIssues, authVars
  <1>3. r \in excused /\ r \notin excused' => c = r /\ pc[r] = "refreshing"
    BY DEF ServerIssues
  <1>4. FreshInv(r)'
    BY <1>0, <1>a, <1>1, <1>2, <1>3 DEF FreshInv
  <1> QED
    BY <1>a, <1>2, <1>4 DEF PlaceInv, SpentInv

\* This request fails in an OAuth call or is cancelled.
LEMMA EndEarned ==
    ASSUME IInv, NEW r \in Requests, OAuthFails(r) \/ Cancel(r)
    PROVE  PlaceInv(r)' /\ FreshInv(r)' /\ SpentInv(r)'
  <1>0. r \in Calls
    BY CallsDisjoint
  <1>1. pc'[r] = "done" /\ result'[r] \in {"auth_error", "other_error", "cancelled"}
    BY <1>0 DEF OAuthFails, Cancel, End, Go, IInv, SafeInv, TypeOK
  <1> QED
    BY <1>1 DEF PlaceInv, FreshInv, SpentInv

\* Everything that excuses a request that has refreshed.
LEMMA ExcusedEarned ==
    ASSUME IInv, NEW r \in Requests, Excuse,
           UNCHANGED <<refreshed, attempt>>,
           pc'[r] = pc[r], header'[r] = header[r], result'[r] = result[r]
    PROVE  PlaceInv(r)' /\ FreshInv(r)' /\ SpentInv(r)'
  BY DEF IInv, EarnedInv, PlaceInv, FreshInv, SpentInv, Excuse

LEMMA StepEarned == IInv /\ [Next]_vars => EarnedInv'
  <1> SUFFICES ASSUME IInv, [Next]_vars, NEW r \in Requests
               PROVE  PlaceInv(r)' /\ FreshInv(r)' /\ SpentInv(r)'
    BY DEF EarnedInv
  <1> DEFINE Goal == PlaceInv(r)' /\ FreshInv(r)' /\ SpentInv(r)'
  <1>0. r \in Calls /\ TypeOK /\ r \notin Logins /\ r \notin Logouts
    BY CallsDisjoint DEF IInv, SafeInv
  <1>1. ASSUME NEW q \in Requests, RequestStep(q) \/ ServerAnswers(q) PROVE Goal
    <2>1. CASE q = r
      BY <1>1, <2>1, OwnStepEarned, AnswerEarned
    <2>2. CASE q # r /\ RequestStep(q)
      BY <2>2, OtherStepEarned, ElsewhereEarned
    <2>3. CASE q # r /\ ServerAnswers(q)
      <3>1. Elsewhere(r)
        BY <1>0, <2>3, CallsDisjoint
           DEF TypeOK, Elsewhere, ServerAnswers, ServerThrottles, ServerRejectsToken,
               ServerProcesses, Answer, Go, authVars, serverVars
      <3> QED
        BY <3>1, ElsewhereEarned
    <2> QED
      BY <1>1, <2>1, <2>2, <2>3
  <1>2. ASSUME NEW c \in Logins, LoginStep(c) PROVE Goal
    <2>1. CASE StartLogin(c)
      <3>1. Elsewhere(r)
        BY <1>0, <2>1, CallsDisjoint
           DEF TypeOK, Elsewhere, StartLogin, Go, authVars, serverVars, ghosts
      <3> QED
        BY <3>1, ElsewhereEarned
    <2>2. CASE LoginStored(c)
      BY <1>0, <2>2, CallsDisjoint, ExcusedEarned DEF TypeOK, LoginStored, End, Go
    <2> QED
      BY <1>2, <2>1, <2>2 DEF LoginStep
  <1>3. ASSUME NEW c \in Logouts, LogoutStep(c) PROVE Goal
    <2>1. Elsewhere(r)
      BY <1>0, <1>3, CallsDisjoint
         DEF TypeOK, Elsewhere, LogoutStep, StartLogout, LogoutRefused, LogoutDone,
             Clear, End, Go, authVars, serverVars, ghosts
    <2> QED
      BY <2>1, ElsewhereEarned
  <1>4. ASSUME NEW c \in Logouts, ServerRevokes(c) PROVE Goal
    BY <1>4, ExcusedEarned DEF ServerRevokes
  <1>5. ASSUME NEW c \in Requests \cup Logins, ServerIssues(c) PROVE Goal
    BY <1>5, IssueEarned
  <1>6. ASSUME NEW c \in Calls, OAuthFails(c) \/ Cancel(c) PROVE Goal
    <2>1. CASE c = r
      BY <1>6, <2>1, EndEarned
    <2>2. CASE c # r
      <3>1. Elsewhere(r)
        BY <1>0, <1>6, <2>2, CallsDisjoint
           DEF TypeOK, Elsewhere, OAuthFails, Cancel, End, Go, serverVars, ghosts
      <3> QED
        BY <3>1, ElsewhereEarned
    <2> QED
      BY <2>1, <2>2
  <1>7. ASSUME NEW t \in Tokens, TokenDies(t) PROVE Goal
    BY <1>7, ExcusedEarned DEF TokenDies, callVars
  <1>8. ASSUME NEW t \in Tokens, TokenAges(t) PROVE Goal
    <2>1. Elsewhere(r)
      BY <1>8 DEF Elsewhere, TokenAges, authVars, callVars, ghosts
    <2> QED
      BY <2>1, ElsewhereEarned
  <1>9. ASSUME UNCHANGED vars PROVE Goal
    <2>1. Elsewhere(r)
      BY <1>9 DEF Elsewhere, vars, authVars, callVars, serverVars, ghosts
    <2> QED
      BY <2>1, ElsewhereEarned
  <1>10. Goal
    <2> HIDE DEF Goal
    <2> QED
      BY <1>1, <1>2, <1>3, <1>4, <1>5, <1>6, <1>7, <1>8, <1>9 DEF Next
  <1> QED
    BY <1>10

-----------------------------------------------------------------------------
(* The theorems.                                                           *)

\* IInv holds in every reachable state.
THEOREM Inductive == Spec => []IInv
  <1>1. Init => IInv
    BY InitTypeOK, InitSafe, InitTokenInv, InitEarned DEF IInv, SafeInv
  <1>2. IInv /\ [Next]_vars => IInv'
    BY StepSafe, StepTokenInv, StepEarned DEF IInv, SafeInv
  <1> QED
    BY <1>1, <1>2, PTL DEF Spec

\* Every variable keeps its type in every interleaving.
THEOREM TypeCorrect == Spec => []TypeOK
  BY Inductive, PTL DEF IInv, SafeInv

\* No retry of request() makes the server carry out a request twice, for any
\* max_retries, any number of concurrent requests and any server behaviour.
THEOREM ExecutedAtMostOnce == Spec => []AtMostOnce
  <1>1. IInv => AtMostOnce
    <2> SUFFICES ASSUME IInv, NEW r \in Requests PROVE executed[r] <= 1
      BY DEF AtMostOnce
    <2>1. executed[r] = 0 \/ executed[r] = 1
      BY DEF IInv, SafeInv, ExecutedInv
    <2> QED
      BY <2>1
  <1> QED
    BY <1>1, Inductive, PTL

\* The caller of request() is told what the server did.
THEOREM OutcomeIsHonest == Spec => []HonestOutcome
  BY Inductive, PTL DEF IInv, SafeInv

\* The statement after the loop of request() is unreachable.
THEOREM LoopEnds == Spec => []LoopNeverFallsThrough
  <1>1. IInv => LoopNeverFallsThrough
    BY DEF IInv, SafeInv, LoopInv, LoopNeverFallsThrough
  <1> QED
    BY <1>1, Inductive, PTL

\* The auth lock is held by exactly the request that is issuing a token.
THEOREM LockHeldByIssuer == Spec => []LockDiscipline
  BY Inductive, PTL DEF IInv, SafeInv

\* After its refresh a request is told its token is bad only if a token was
\* lost, or a login() interfered, since the refresh was served.
THEOREM RejectionEarned == Spec => []RejectionIsEarned
  <1>1. IInv => RejectionIsEarned
    BY DEF IInv, EarnedInv, FreshInv, SpentInv, RejectionIsEarned
  <1> QED
    BY <1>1, Inductive, PTL

\* A token the server accepts leaves the cache only for a refresh.
THEOREM LiveTokenKept == Spec => LiveTokenDroppedOnlyByRefresh
  <1> DEFINE Kept == (token \in valid /\ token' = None)
                       => (\E r \in Requests : lock' = r /\ pc[r] = "refresh")
  <1>1. ASSUME IInv, [Next]_vars, token \in valid, token' = None
        PROVE  \E r \in Requests : lock' = r /\ pc[r] = "refresh"
    <2>0. token # None
      BY <1>1 DEF IInv, SafeInv, TypeOK, Tokens, None
    <2>1. ASSUME NEW r \in Requests, RequestStep(r)
          PROVE  \E q \in Requests : lock' = q /\ pc[q] = "refresh"
      <3>1. CASE BeginRefresh(r)
        BY <3>1 DEF BeginRefresh
      <3>2. CASE ~BeginRefresh(r)
        BY <1>1, <2>0, <2>1, <3>2
           DEF RequestStep, StartRequest, UseCachedToken, BeginIssue, IssueStored,
               BackOff, WantRefresh, RefreshStored, Finish, TransportFails, Store,
               authVars
      <3> QED
        BY <3>1, <3>2
    <2>2. ASSUME NEW c \in Logouts, LogoutStep(c) PROVE FALSE
      BY <1>1, <2>0, <2>2
         DEF LogoutStep, StartLogout, LogoutRefused, LogoutDone, authVars,
             IInv, TokenInv, LogoutInv
    <2>3. token' = token \/ (\E c \in Logins : LoginStored(c))
            \/ (\E r \in Requests : RequestStep(r)) \/ (\E c \in Logouts : LogoutStep(c))
      BY <1>1
         DEF Next, ServerAnswers, ServerThrottles, ServerRejectsToken, ServerProcesses,
             Answer, LoginStep, StartLogin, ServerRevokes, ServerIssues, OAuthFails,
             Cancel, TokenAges, TokenDies, authVars, vars
    <2>4. ASSUME NEW c \in Logins, LoginStored(c) PROVE FALSE
      BY <1>1, <2>4 DEF LoginStored, Store
    <2> QED
      BY <1>1, <2>0, <2>1, <2>2, <2>3, <2>4
  <1>2. IInv /\ [Next]_vars => [Kept]_vars
    BY <1>1
  <1> QED
    BY <1>2, Inductive, PTL DEF Spec, LiveTokenDroppedOnlyByRefresh

-----------------------------------------------------------------------------
(* RestClient implements PlaceOnce.                                        *)

\* The calls a step leaves alone keep what they were told.
Aside(c) ==
    \A q \in Requests : q # c => pc'[q] = pc[q] /\ result'[q] = result[q]

\* A step of one call that is not over, in which the server carries out nothing.
LEMMA QuietStepPromised ==
    ASSUME IInv, IInv', NEW c \in Calls, Aside(c), pc[c] # "done", UNCHANGED executed
    PROVE  [Promise!Next]_<<executed, Told>>
  <1>1. CASE c \in Requests /\ pc'[c] = "done"
    <2> DEFINE verdict == Told'[c]
    <2>1. Told[c] = "nothing" /\ verdict \in Promise!Verdicts
      BY <1>1 DEF Told, Promise!Verdicts
    <2>2. /\ verdict = "success" => executed[c] = 1
          /\ verdict = "refused" => executed[c] = 0
      <3>1. /\ result'[c] = "ok" => executed'[c] = 1
            /\ result'[c] \in Refusals \cup {"auth_error"} => executed'[c] = 0
        BY <1>1 DEF IInv, SafeInv, HonestOutcome
      <3>2. /\ verdict = "success" => result'[c] = "ok"
            /\ verdict = "refused" => result'[c] \in Refusals \cup {"auth_error"}
        BY <1>1 DEF Told
      <3> QED
        BY <3>1, <3>2
    <2>3. Told' = [Told EXCEPT ![c] = verdict]
      BY <1>1 DEF Told, Aside
    <2> HIDE DEF verdict
    <2>4. Promise!Tell(c, verdict)
      BY <2>1, <2>2, <2>3 DEF Promise!Tell
    <2> QED
      BY <1>1, <2>1, <2>4 DEF Promise!Next
  <1>2. CASE ~(c \in Requests /\ pc'[c] = "done")
    <2>1. Told' = Told
      BY <1>2 DEF Told, Aside
    <2> QED
      BY <2>1
  <1> QED
    BY <1>1, <1>2

\* The server carries out a request: only one that waits for its answer.
LEMMA ServerStepPromised ==
    ASSUME IInv, NEW r \in Requests, ServerProcesses(r)
    PROVE  [Promise!Next]_<<executed, Told>>
  <1>0. r \in Calls /\ Requests \subseteq Calls
    BY CallsDisjoint
  <1>1. /\ pc[r] = "send" /\ executed[r] = 0
        /\ pc \in [Calls -> Places] /\ executed \in [Requests -> Nat]
        /\ result \in [Calls -> Replies \cup Endings \cup {"none"}]
    BY DEF ServerProcesses, Answer, IInv, SafeInv, ExecutedInv, TypeOK
  <1>2. PICK effect \in {0, 1} : executed' = [executed EXCEPT ![r] = @ + effect]
    BY DEF ServerProcesses
  <1>3. pc' = [pc EXCEPT ![r] = "replied"]
    BY DEF ServerProcesses, Answer, Go
  <1>4. \A q \in Requests : q # r => result'[q] = result[q]
    BY <1>0, <1>1 DEF ServerProcesses, Answer
  <1>5. Told' = Told
    BY <1>0, <1>1, <1>3, <1>4 DEF Told
  <1>6. Told[r] = "nothing"
    BY <1>1 DEF Told
  <1>7. CASE effect = 1
    <2>1. executed' = [executed EXCEPT ![r] = 1]
      BY <1>1, <1>2, <1>7
    <2>2. Promise!Execute(r)
      BY <1>1, <1>5, <1>6, <2>1 DEF Promise!Execute
    <2> QED
      BY <2>2 DEF Promise!Next
  <1>8. CASE effect = 0
    <2>1. executed' = executed
      BY <1>1, <1>2, <1>8
    <2> QED
      BY <1>5, <2>1
  <1> QED
    BY <1>7, <1>8

\* Every other step is one call's, and quiet.
LEMMA RequestStepQuiet ==
    ASSUME IInv, NEW c \in Requests, RequestStep(c)
    PROVE  Aside(c) /\ pc[c] # "done" /\ UNCHANGED executed
  <1> USE CallsDisjoint DEF IInv, SafeInv, TypeOK, Aside, Go, End, ghosts
  <1>1. CASE StartRequest(c) \/ UseCachedToken(c) \/ BeginIssue(c)
    BY <1>1 DEF StartRequest, UseCachedToken, BeginIssue
  <1>2. CASE IssueStored(c) \/ WantRefresh(c) \/ BeginRefresh(c)
    BY <1>2 DEF IssueStored, WantRefresh, BeginRefresh
  <1>3. CASE BackOff(c) \/ RefreshStored(c)
    BY <1>3 DEF BackOff, RefreshStored, NextAttempt
  <1>4. CASE Finish(c) \/ TransportFails(c)
    BY <1>4 DEF Finish, TransportFails
  <1> QED
    BY <1>1, <1>2, <1>3, <1>4 DEF RequestStep

LEMMA OtherStepQuiet ==
    ASSUME IInv, NEW c \in Calls,
           \/ c \in Logins /\ LoginStep(c)
           \/ c \in Logouts /\ (LogoutStep(c) \/ ServerRevokes(c))
           \/ ServerIssues(c) \/ OAuthFails(c) \/ Cancel(c)
           \/ c \in Requests /\ (ServerThrottles(c) \/ ServerRejectsToken(c))
    PROVE  Aside(c) /\ pc[c] # "done" /\ UNCHANGED executed
  <1> USE CallsDisjoint DEF IInv, SafeInv, TypeOK, Aside, Go, End, ghosts, Excuse
  <1>1. CASE c \in Logins /\ LoginStep(c)
    BY <1>1 DEF LoginStep, StartLogin, LoginStored
  <1>2. CASE c \in Logouts /\ (LogoutStep(c) \/ ServerRevokes(c))
    BY <1>2 DEF LogoutStep, StartLogout, LogoutRefused, LogoutDone, ServerRevokes
  <1>3. CASE ServerIssues(c)
    BY <1>3 DEF ServerIssues
  <1>4. CASE OAuthFails(c) \/ Cancel(c)
    BY <1>4 DEF OAuthFails, Cancel, InOAuth
  <1>5. CASE c \in Requests /\ (ServerThrottles(c) \/ ServerRejectsToken(c))
    BY <1>5 DEF ServerThrottles, ServerRejectsToken, Answer
  <1> QED
    BY <1>1, <1>2, <1>3, <1>4, <1>5

LEMMA StepPromised ==
    ASSUME IInv, IInv', [Next]_vars
    PROVE  [Promise!Next]_<<executed, Told>>
  <1>1. ASSUME NEW t \in Tokens, TokenAges(t) \/ TokenDies(t)
        PROVE  UNCHANGED <<executed, pc, result>>
    BY <1>1 DEF TokenAges, TokenDies, callVars, ghosts
  <1>2. CASE UNCHANGED <<executed, pc, result>>
    BY <1>2 DEF Told
  <1>3. UNCHANGED vars => UNCHANGED <<executed, pc, result>>
    BY DEF vars, callVars, ghosts
  <1>4. ASSUME NEW r \in Requests, RequestStep(r) \/ ServerAnswers(r)
        PROVE  [Promise!Next]_<<executed, Told>>
    <2>1. CASE ServerProcesses(r)
      BY <2>1, ServerStepPromised
    <2>2. CASE RequestStep(r) \/ ServerThrottles(r) \/ ServerRejectsToken(r)
      BY <2>2, CallsDisjoint, RequestStepQuiet, OtherStepQuiet, QuietStepPromised
    <2> QED
      BY <1>4, <2>1, <2>2 DEF ServerAnswers
  <1>5. ASSUME NEW c \in Calls,
               \/ c \in Logins /\ LoginStep(c)
               \/ c \in Logouts /\ (LogoutStep(c) \/ ServerRevokes(c))
               \/ ServerIssues(c) \/ OAuthFails(c) \/ Cancel(c)
        PROVE  [Promise!Next]_<<executed, Told>>
    BY <1>5, OtherStepQuiet, QuietStepPromised
  <1> QED
    BY <1>1, <1>2, <1>3, <1>4, <1>5, CallsDisjoint DEF Next

\* request() implements PlaceOnce: for every number of concurrent calls and retries
\* a request is carried out at most once and its caller is told the truth.
THEOREM PromiseKept == Spec => KeepsThePromise
  <1>1. Init => Promise!Init
    BY CallsDisjoint DEF Init, Promise!Init, Told
  <1>2. IInv /\ IInv' /\ [Next]_vars => [Promise!Next]_<<executed, Told>>
    BY StepPromised
  <1> QED
    BY <1>1, <1>2, Inductive, PTL DEF Spec, KeepsThePromise, Promise!Spec
=============================================================================
