---------------------------- MODULE ThreadAuthProofs ----------------------------
(***************************************************************************)
(* Proofs about ThreadAuth: the lock is exact, and what is read and        *)
(* written under it is not disturbed unless a login() or logout() writes.  *)
(***************************************************************************)
EXTENDS ThreadAuth, TLAPS

\* Which statements the calls of each kind run.
PlaceInv ==
    /\ \A c \in Getters : pc[c] \notin {"clear", "clear_expiry"}
    /\ \A c \in Locked : pc[c] \notin {"publish", "revoke", "forget", "unpublish"}
    /\ \A c \in Logins : pc[c] \in {"idle", "issue", "store", "store_expiry", "publish", "done"}
    /\ \A c \in Logouts : pc[c] \in {"idle", "revoke", "forget", "clear", "clear_expiry",
                                     "unpublish", "done"}

\* What an undisturbed call knows of the cache at each of its statements.
HoldInv ==
    \A c \in Locked \ disturbed :
        /\ pc[c] \in {"idle", "check", "look", "compare", "clear", "clear_expiry", "issue"}
              => grant[c] = None
        /\ pc[c] \in {"store", "store_expiry", "assert"} => grant[c] # None
        /\ pc[c] \in {"look", "compare", "return"} => token # None
        /\ pc[c] = "compare" => expiry # None
        /\ pc[c] \in {"store_expiry", "assert"} => token = grant[c]
        /\ pc[c] = "return" /\ grant[c] # None => token = grant[c]

\* What a call that no logout() disturbed knows of it: there is a token wherever it will be
\* looked for.
TokenInv ==
    /\ \A c \in Calls : pc[c] = "store" => grant[c] # None
    /\ \A c \in Locked \ emptied :
          pc[c] \in {"look", "compare", "return", "store_expiry", "assert"} => token # None

\* The two parts of PromiseKept: how an undisturbed call ends,
OwnToken ==
    \A c \in Locked \ disturbed : pc[c] = "done" =>
        \/ Refused(c)
        \/ /\ result[c] = "returned" /\ returned[c] # None
           /\ grant[c] # None => returned[c] = grant[c]

\* and how one does whose cache no logout() cleared.
NoneOnlyAfterLogout ==
    \A c \in Locked \ emptied : pc[c] = "done" =>
        \/ Refused(c) \/ result[c] = "type_error"
        \/ result[c] = "returned" /\ returned[c] # None

IInv == Types /\ PlaceInv /\ LockHeld /\ HoldInv /\ OwnToken
EInv == TokenInv /\ NoneOnlyAfterLogout

\* Between two writes of one call, while nobody else writes, the token is the
\* one it stored; otherwise the expiry is the token's.
MixInv ==
    ~mixed =>
        /\ \A c \in Calls : pc[c] = "store_expiry" => token = grant[c]
        /\ (\A c \in Calls : pc[c] \notin MidWrite) => expiry \in {None, token}

-----------------------------------------------------------------------------

\* Every variable keeps its type, and each kind of call stays at its places.
LEMMA TypeStep == ASSUME Types, PlaceInv, [Next]_vars PROVE Types' /\ PlaceInv'
<1> USE DEF Types, PlaceInv, Calls, Locked, Unlocked, Places, MidWrite, Holding, Results,
            None, cache, ends, ghosts, At, Go, End, Release
<1> USE CallsAssumption
<1>1. ASSUME NEW c \in Calls, Step(c) PROVE Types' /\ PlaceInv'
  <2>1. CASE CheckToken(c) BY <2>1 DEF CheckToken
  <2>2. CASE LookAtExpiry(c) BY <2>2 DEF LookAtExpiry
  <2>3. CASE CompareExpiry(c) BY <2>3 DEF CompareExpiry
  <2>4. CASE AssertStored(c) BY <2>4 DEF AssertStored
  <2>5. CASE ReturnToken(c) BY <2>5 DEF ReturnToken
  <2>6. CASE ServerIssues(c) BY <2>6 DEF ServerIssues
  <2>7. CASE OAuthFails(c) BY <2>7 DEF OAuthFails
  <2>8. CASE StoreToken(c) BY <2>8 DEF StoreToken, Writes
  <2>9. CASE StoreExpiry(c) BY <2>9 DEF StoreExpiry, Writes
  <2>10. CASE ClearToken(c) BY <2>10 DEF ClearToken, Writes
  <2>11. CASE ClearExpiry(c) BY <2>11 DEF ClearExpiry, Writes
  <2>12. CASE Publish(c) BY <2>12 DEF Publish
  <2>13. CASE ServerRevokes(c) BY <2>13 DEF ServerRevokes
  <2>14. CASE Forget(c) BY <2>14 DEF Forget
  <2>15. CASE Unpublish(c) BY <2>15 DEF Unpublish
  <2> QED BY <1>1, <2>1, <2>2, <2>3, <2>4, <2>5, <2>6, <2>7, <2>8, <2>9, <2>10, <2>11,
             <2>12, <2>13, <2>14, <2>15 DEF Step
<1>2. ASSUME NEW c \in Locked, Enter(c) PROVE Types' /\ PlaceInv'
  BY <1>2 DEF Enter
<1>3. ASSUME NEW c \in Logins, BeginLogin(c) PROVE Types' /\ PlaceInv'
  BY <1>3 DEF BeginLogin
<1>4. ASSUME NEW c \in Logouts, BeginLogout(c) PROVE Types' /\ PlaceInv'
  BY <1>4 DEF BeginLogout
<1>5. ASSUME NEW t \in Tokens, TokenAges(t) PROVE Types' /\ PlaceInv'
  BY <1>5 DEF TokenAges
<1>6. CASE UNCHANGED vars BY <1>6 DEF vars
<1> QED BY <1>1, <1>2, <1>3, <1>4, <1>5, <1>6 DEF Next

\* The lock is taken on entering and given back on every way out.
LEMMA LockStep ==
    ASSUME Types, PlaceInv, LockHeld, [Next]_vars
    PROVE  LockHeld'
<1> USE CallsAssumption DEF Types, PlaceInv, LockHeld, Calls, Locked, Unlocked, cache, ends,
            ghosts, At, Go, End, Release
<1>1. ASSUME NEW c \in Calls, Step(c) PROVE LockHeld'
  <2>1. CASE CheckToken(c) BY <2>1 DEF CheckToken
  <2>2. CASE LookAtExpiry(c) BY <2>2 DEF LookAtExpiry
  <2>3. CASE CompareExpiry(c) BY <2>3 DEF CompareExpiry
  <2>4. CASE AssertStored(c) BY <2>4 DEF AssertStored
  <2>5. CASE ReturnToken(c) BY <2>5 DEF ReturnToken
  <2>6. CASE ServerIssues(c) BY <2>6 DEF ServerIssues
  <2>7. CASE OAuthFails(c) BY <2>7 DEF OAuthFails
  <2>8. CASE StoreToken(c) BY <2>8 DEF StoreToken, Writes
  <2>9. CASE StoreExpiry(c) BY <2>9 DEF StoreExpiry, Writes
  <2>10. CASE ClearToken(c) BY <2>10 DEF ClearToken, Writes
  <2>11. CASE ClearExpiry(c) BY <2>11 DEF ClearExpiry, Writes
  <2>12. CASE Publish(c) BY <2>12 DEF Publish
  <2>13. CASE ServerRevokes(c) BY <2>13 DEF ServerRevokes
  <2>14. CASE Forget(c) BY <2>14 DEF Forget
  <2>15. CASE Unpublish(c) BY <2>15 DEF Unpublish
  <2> QED BY <1>1, <2>1, <2>2, <2>3, <2>4, <2>5, <2>6, <2>7, <2>8, <2>9, <2>10, <2>11,
             <2>12, <2>13, <2>14, <2>15 DEF Step
<1>2. ASSUME NEW c \in Locked, Enter(c) PROVE LockHeld'
  BY <1>2 DEF Enter
<1>3. ASSUME NEW c \in Logins, BeginLogin(c) PROVE LockHeld'
  BY <1>3 DEF BeginLogin
<1>4. ASSUME NEW c \in Logouts, BeginLogout(c) PROVE LockHeld'
  BY <1>4 DEF BeginLogout
<1>5. ASSUME NEW t \in Tokens, TokenAges(t) PROVE LockHeld'
  BY <1>5 DEF TokenAges
<1>6. CASE UNCHANGED vars BY <1>6 DEF vars
<1> QED BY <1>1, <1>2, <1>3, <1>4, <1>5, <1>6 DEF Next

\* Only the holder of the lock, or a login() or logout(), writes.
LEMMA HoldStep ==
    ASSUME IInv, LockHeld', [Next]_vars
    PROVE  HoldInv' /\ OwnToken'
<1> USE CallsAssumption DEF IInv, Types, PlaceInv, LockHeld, HoldInv, OwnToken, Refused, Calls, Locked,
            Unlocked, Tokens, None, cache, ends, ghosts, At, Go, End, Release
<1>1. ASSUME NEW c \in Calls, Step(c) PROVE HoldInv' /\ OwnToken'
  <2>1. CASE CheckToken(c) BY <2>1 DEF CheckToken
  <2>2. CASE LookAtExpiry(c) BY <2>2 DEF LookAtExpiry
  <2>3. CASE CompareExpiry(c) BY <2>3 DEF CompareExpiry
  <2>4. CASE AssertStored(c) BY <2>4 DEF AssertStored
  <2>5. CASE ReturnToken(c) BY <2>5 DEF ReturnToken
  <2>6. CASE ServerIssues(c) BY <2>6 DEF ServerIssues
  <2>7. CASE OAuthFails(c) BY <2>7 DEF OAuthFails
  <2>8. CASE StoreToken(c) BY <2>8 DEF StoreToken, Writes
  <2>9. CASE StoreExpiry(c) BY <2>9 DEF StoreExpiry, Writes
  <2>10. CASE ClearToken(c) BY <2>10 DEF ClearToken, Writes
  <2>11. CASE ClearExpiry(c) BY <2>11 DEF ClearExpiry, Writes
  <2>12. CASE Publish(c) BY <2>12 DEF Publish
  <2>13. CASE ServerRevokes(c) BY <2>13 DEF ServerRevokes
  <2>14. CASE Forget(c) BY <2>14 DEF Forget
  <2>15. CASE Unpublish(c) BY <2>15 DEF Unpublish
  <2> QED BY <1>1, <2>1, <2>2, <2>3, <2>4, <2>5, <2>6, <2>7, <2>8, <2>9, <2>10, <2>11,
             <2>12, <2>13, <2>14, <2>15 DEF Step
<1>2. ASSUME NEW c \in Locked, Enter(c) PROVE HoldInv' /\ OwnToken'
  BY <1>2 DEF Enter
<1>3. ASSUME NEW c \in Logins, BeginLogin(c) PROVE HoldInv' /\ OwnToken'
  BY <1>3 DEF BeginLogin
<1>4. ASSUME NEW c \in Logouts, BeginLogout(c) PROVE HoldInv' /\ OwnToken'
  BY <1>4 DEF BeginLogout
<1>5. ASSUME NEW t \in Tokens, TokenAges(t) PROVE HoldInv' /\ OwnToken'
  BY <1>5 DEF TokenAges
<1>6. CASE UNCHANGED vars BY <1>6 DEF vars
<1> QED BY <1>1, <1>2, <1>3, <1>4, <1>5, <1>6 DEF Next

\* Only a logout() that clears under the lock takes the token away from its holder.
LEMMA TokenStep ==
    ASSUME IInv, LockHeld', EInv, [Next]_vars
    PROVE  EInv'
<1> USE CallsAssumption DEF IInv, Types, PlaceInv, LockHeld, EInv, TokenInv, NoneOnlyAfterLogout, Refused, Calls, Locked,
            Unlocked, Tokens, None, cache, ends, ghosts, At, Go, End, Release
<1>1. ASSUME NEW c \in Calls, Step(c) PROVE EInv'
  <2>1. CASE CheckToken(c) BY <2>1 DEF CheckToken
  <2>2. CASE LookAtExpiry(c) BY <2>2 DEF LookAtExpiry
  <2>3. CASE CompareExpiry(c) BY <2>3 DEF CompareExpiry
  <2>4. CASE AssertStored(c) BY <2>4 DEF AssertStored
  <2>5. CASE ReturnToken(c) BY <2>5 DEF ReturnToken
  <2>6. CASE ServerIssues(c) BY <2>6 DEF ServerIssues
  <2>7. CASE OAuthFails(c) BY <2>7 DEF OAuthFails
  <2>8. CASE StoreToken(c) BY <2>8 DEF StoreToken, Writes
  <2>9. CASE StoreExpiry(c) BY <2>9 DEF StoreExpiry, Writes
  <2>10. CASE ClearToken(c) BY <2>10 DEF ClearToken, Writes
  <2>11. CASE ClearExpiry(c) BY <2>11 DEF ClearExpiry, Writes
  <2>12. CASE Publish(c) BY <2>12 DEF Publish
  <2>13. CASE ServerRevokes(c) BY <2>13 DEF ServerRevokes
  <2>14. CASE Forget(c) BY <2>14 DEF Forget
  <2>15. CASE Unpublish(c) BY <2>15 DEF Unpublish
  <2> QED BY <1>1, <2>1, <2>2, <2>3, <2>4, <2>5, <2>6, <2>7, <2>8, <2>9, <2>10, <2>11,
             <2>12, <2>13, <2>14, <2>15 DEF Step
<1>2. ASSUME NEW c \in Locked, Enter(c) PROVE EInv'
  BY <1>2 DEF Enter
<1>3. ASSUME NEW c \in Logins, BeginLogin(c) PROVE EInv'
  BY <1>3 DEF BeginLogin
<1>4. ASSUME NEW c \in Logouts, BeginLogout(c) PROVE EInv'
  BY <1>4 DEF BeginLogout
<1>5. ASSUME NEW t \in Tokens, TokenAges(t) PROVE EInv'
  BY <1>5 DEF TokenAges
<1>6. CASE UNCHANGED vars BY <1>6 DEF vars
<1> QED BY <1>1, <1>2, <1>3, <1>4, <1>5, <1>6 DEF Next

\* While nobody writes between the two writes of another, they agree.
LEMMA MixStep ==
    ASSUME Types, PlaceInv, LockHeld, MixInv, [Next]_vars
    PROVE  MixInv'
<1> USE CallsAssumption DEF Types, PlaceInv, MixInv, MidWrite, Calls, Locked, Unlocked, Tokens,
            None, cache, ends, ghosts, At, Go, End, LockHeld
<1>1. ASSUME NEW c \in Calls, Step(c) PROVE MixInv'
  <2>1. CASE CheckToken(c) BY <2>1 DEF CheckToken
  <2>2. CASE LookAtExpiry(c) BY <2>2 DEF LookAtExpiry
  <2>3. CASE CompareExpiry(c) BY <2>3 DEF CompareExpiry
  <2>4. CASE AssertStored(c) BY <2>4 DEF AssertStored
  <2>5. CASE ReturnToken(c) BY <2>5 DEF ReturnToken
  <2>6. CASE ServerIssues(c) BY <2>6 DEF ServerIssues
  <2>7. CASE OAuthFails(c) BY <2>7 DEF OAuthFails
  <2>8. CASE StoreToken(c) BY <2>8 DEF StoreToken, Writes
  <2>9. CASE StoreExpiry(c) BY <2>9 DEF StoreExpiry, Writes
  <2>10. CASE ClearToken(c) BY <2>10 DEF ClearToken, Writes
  <2>11. CASE ClearExpiry(c) BY <2>11 DEF ClearExpiry, Writes
  <2>12. CASE Publish(c) BY <2>12 DEF Publish
  <2>13. CASE ServerRevokes(c) BY <2>13 DEF ServerRevokes
  <2>14. CASE Forget(c) BY <2>14 DEF Forget
  <2>15. CASE Unpublish(c) BY <2>15 DEF Unpublish
  <2> QED BY <1>1, <2>1, <2>2, <2>3, <2>4, <2>5, <2>6, <2>7, <2>8, <2>9, <2>10, <2>11,
             <2>12, <2>13, <2>14, <2>15 DEF Step
<1>2. ASSUME NEW c \in Locked, Enter(c) PROVE MixInv'
  BY <1>2 DEF Enter
<1>3. ASSUME NEW c \in Logins, BeginLogin(c) PROVE MixInv'
  BY <1>3 DEF BeginLogin
<1>4. ASSUME NEW c \in Logouts, BeginLogout(c) PROVE MixInv'
  BY <1>4 DEF BeginLogout
<1>5. ASSUME NEW t \in Tokens, TokenAges(t) PROVE MixInv'
  BY <1>5 DEF TokenAges
<1>6. CASE UNCHANGED vars BY <1>6 DEF vars
<1> QED BY <1>1, <1>2, <1>3, <1>4, <1>5, <1>6 DEF Next

-----------------------------------------------------------------------------

\* The invariant holds at first.
LEMMA InitIInv == Init => IInv /\ EInv /\ MixInv
  BY CallsAssumption, BoundAssumption
  DEF Init, IInv, Types, PlaceInv, LockHeld, HoldInv, OwnToken, Refused, EInv, TokenInv,
      NoneOnlyAfterLogout, MixInv, Calls, Locked,
      Unlocked, Tokens, None, Places, MidWrite, Holding, Results

\* The invariant is inductive, for any number of threads of each kind.
THEOREM Inductive == Spec => [](IInv /\ EInv /\ MixInv)
<1>1. IInv /\ EInv /\ MixInv /\ [Next]_vars => (IInv /\ EInv /\ MixInv)'
  <2> SUFFICES ASSUME IInv, EInv, MixInv, [Next]_vars PROVE (IInv /\ EInv /\ MixInv)'
    OBVIOUS
  <2>1. Types' /\ PlaceInv' BY TypeStep DEF IInv
  <2>2. LockHeld' BY LockStep DEF IInv
  <2>3. HoldInv' /\ OwnToken' BY <2>2, HoldStep
  <2>4. EInv' BY <2>2, TokenStep
  <2>5. MixInv' BY MixStep DEF IInv
  <2> QED BY <2>1, <2>2, <2>3, <2>4, <2>5 DEF IInv
<1> QED BY InitIInv, <1>1, PTL DEF Spec

\* Every variable keeps its type.
THEOREM TypeCorrect == Spec => []TypeOK
<1>1. IInv => TypeOK BY DEF IInv, TypeOK
<1> QED BY Inductive, <1>1, PTL

\* A call of get_valid_token() or refresh_token() that no login() or logout() disturbed
\* returned a token, its own if it was issued one, or raised what the request for a token
\* raised, whatever the other threads that take the lock did; one that a login() disturbed
\* returned some token, or met the TypeError of an expiry lost under it.
THEOREM PromiseIsKept == Spec => []PromiseKept
<1>1. IInv /\ EInv => PromiseKept
  BY DEF IInv, EInv, OwnToken, NoneOnlyAfterLogout, PromiseKept
<1> QED BY Inductive, <1>1, PTL

\* The expiry cached is the cached token's unless a login() or logout() and another call
\* wrote at once.
THEOREM CacheIsConsistent == Spec => []CacheConsistent
<1>1. MixInv => CacheConsistent BY DEF MixInv, CacheConsistent
<1> QED BY Inductive, <1>1, PTL
=============================================================================
