--------------------------- MODULE RateLimiterProofs ---------------------------
(***************************************************************************)
(* Proofs about RateLimiter, for every set of tasks and keys, every rate,  *)
(* every capacity and every bound.  The clock never runs backwards and a   *)
(* sleep never ends early; a sleep may end arbitrarily late.               *)
(***************************************************************************)
EXTENDS RateLimiter, TLAPS

\* The manager's lock is held exactly by the task between get and create.
ManagerInv == \A t \in Tasks : mlock = t <=> pc[t] = "found"

\* What a task read of the dictionary is still true: it has the lock.
LookupInv ==
    \A t \in Tasks :
        /\ pc[t] # "idle" => key[t] \in Keys
        /\ pc[t] = "found" => bucket[t] = bucketOf[key[t]]

\* The bucket of a key is locked while one caller sleeps on it, and no longer.
SleepersExclude ==
    \A t \in Tasks : \A b \in Buckets :
        held[b] = t <=> pc[t] = "sleep" /\ bucket[t] = b

\* A bucket serves one key only.
NameInv == \A k \in Keys : bucketOf[k] # NoBucket => bucketOf[k][2] = k

\* No bucket was refilled in the future; a sleeper waits for what was missing
\* when it filled its bucket up, at the time the bucket remembers.
ClockInv ==
    /\ \A b \in Buckets : last[b] <= now
    /\ \A t \in Tasks : pc[t] = "sleep" =>
          until[t] + level[bucket[t]] = last[bucket[t]] + Cost

\* What a bucket is worth at this moment, whether or not it was topped up.
Worth(b) ==
    LET sum == level[b] + (now - last[b]) IN IF sum < Burst THEN sum ELSE Burst

\* What the window has been granted and what is left in the bucket are paid
\* for by the burst and by the refill since the window began.
WindowInv ==
    /\ watched = NoKey => granted = 0
    /\ watched # NoKey =>
        /\ since <= now
        /\ IF bucketOf[watched] = NoBucket
           THEN granted = 0
           ELSE granted + Worth(bucketOf[watched]) <= Burst + (now - since)

LockInv == ManagerInv /\ LookupInv /\ NameInv /\ OneBucketPerKey /\ SleepersExclude
IInv == TypeOK /\ LockInv /\ ClockInv /\ WindowInv

-----------------------------------------------------------------------------
(* Lemmas about the bucket.                                                *)

\* A refill stays between empty and full.
LEMMA RefilledType ==
    ASSUME TypeOK, NEW b \in Buckets, last[b] <= now
    PROVE  Refilled(b) \in 0..Full
  BY RateAssumption DEF TypeOK, Refilled

\* The burst is a natural number, no less than a token and a full bucket.
LEMMA BurstType == Burst \in Nat /\ Cost <= Burst /\ Full <= Burst
  BY RateAssumption DEF Burst

\* The task between get and create, or past it, has a key of its own.
LEMMA InHand ==
    ASSUME IInv, NEW t \in Tasks
    PROVE  /\ pc[t] # "idle" => key[t] \in Keys
           /\ pc[t] \in {"bucket", "sleep"} =>
                 /\ bucket[t] \in Buckets
                 /\ bucket[t] = bucketOf[key[t]]
           /\ pc[t] = "found" => <<t, key[t]>> \in Buckets
  BY DEF IInv, TypeOK, LockInv, LookupInv, OneBucketPerKey, Buckets

-----------------------------------------------------------------------------
(* Type correctness.                                                       *)

LEMMA InitTypeOK == Init => TypeOK
  BY RateAssumption, BoundAssumption DEF Init, TypeOK, Places

LEMMA StepTypeOK == IInv /\ [Next]_vars => TypeOK'
  <1> SUFFICES ASSUME IInv, [Next]_vars PROVE TypeOK'
    OBVIOUS
  <1> USE DEF TypeOK, Places
  <1>0. TypeOK
    BY DEF IInv
  <1>1. ASSUME NEW t \in Tasks, NEW k \in Keys, Call(t, k) PROVE TypeOK'
    BY <1>0, <1>1 DEF Call, managerVars, bucketVars, window
  <1>2. ASSUME NEW t \in Tasks, LookUp(t) PROVE TypeOK'
    <2>1. bucketOf[key[t]] \in Buckets \cup {NoBucket}
      BY <1>0, <1>2, InHand DEF LookUp
    <2> QED
      BY <1>0, <1>2, <2>1 DEF LookUp, bucketVars, window
  <1>3. ASSUME NEW t \in Tasks, Create(t) PROVE TypeOK'
    <2>1. <<t, key[t]>> \in Buckets
      BY <1>3, InHand DEF Create
    <2> DEFINE b == <<t, key[t]>>
    <2>2. /\ bucketOf' = [bucketOf EXCEPT ![key[t]] = b]
          /\ bucket' = [bucket EXCEPT ![t] = b]
          /\ level' = [level EXCEPT ![b] = Full]
          /\ last' = [last EXCEPT ![b] = now]
      BY <1>3 DEF Create
    <2>3. b \in Buckets
      BY <2>1
    <2> HIDE DEF b
    <2>4. /\ level' \in [Buckets -> 0..Full] /\ last' \in [Buckets -> Nat]
          /\ bucketOf' \in [Keys -> Buckets \cup {NoBucket}]
          /\ bucket' \in [Tasks -> Buckets \cup {NoBucket}]
      <3>1. Full \in 0..Full
        BY RateAssumption
      <3>2. level' \in [Buckets -> 0..Full]
        BY <1>0, <2>2, <2>3, <3>1
      <3>3. last' \in [Buckets -> Nat]
        BY <1>0, <2>2, <2>3
      <3>4. bucketOf' \in [Keys -> Buckets \cup {NoBucket}]
        BY <1>0, <2>2, <2>3
      <3>5. bucket' \in [Tasks -> Buckets \cup {NoBucket}]
        BY <1>0, <2>2, <2>3
      <3> QED
        BY <3>2, <3>3, <3>4, <3>5
    <2>5. /\ mlock' = NoTask /\ pc' = [pc EXCEPT ![t] = "bucket"]
          /\ UNCHANGED <<now, held, key, until, left, window>>
      BY <1>3 DEF Create
    <2> QED
      BY <1>0, <2>4, <2>5 DEF window
  <1>4. ASSUME NEW t \in Tasks, Reuse(t) PROVE TypeOK'
    BY <1>0, <1>4 DEF Reuse, bucketVars, window
  <1>5. ASSUME NEW t \in Tasks, Take(t) PROVE TypeOK'
    <2>1. bucket[t] \in Buckets /\ Refilled(bucket[t]) \in 0..Full
      BY <1>0, <1>5, InHand, RefilledType DEF Take, IInv, ClockInv
    <2>2. level' \in [Buckets -> 0..Full]
      BY <1>0, <1>5, <2>1, RateAssumption DEF Take
    <2> QED
      BY <1>0, <1>5, <2>1, <2>2, RateAssumption DEF Take, Granted, Leave, managerVars
  <1>6. ASSUME NEW t \in Tasks, Sleep(t) PROVE TypeOK'
    <2>1. bucket[t] \in Buckets /\ Refilled(bucket[t]) \in 0..Full
      BY <1>0, <1>6, InHand, RefilledType DEF Sleep, IInv, ClockInv
    <2>2. now + (Cost - Refilled(bucket[t])) \in Nat
      BY <1>0, <1>6, <2>1, RateAssumption DEF Sleep
    <2> QED
      BY <1>0, <1>6, <2>1, <2>2 DEF Sleep, managerVars, window
  <1>7. ASSUME NEW t \in Tasks, Wake(t) PROVE TypeOK'
    <2>1. bucket[t] \in Buckets
      BY <1>7, InHand DEF Wake
    <2> QED
      BY <1>0, <1>7, <2>1, RateAssumption DEF Wake, Granted, Leave, managerVars
  <1>8. ASSUME NEW t \in Tasks, Cancel(t) PROVE TypeOK'
    <2>1. pc[t] = "sleep" => bucket[t] \in Buckets
      BY InHand
    <2> QED
      BY <1>0, <1>8, <2>1 DEF Cancel, Leave, managerVars, window
  <1>9. ASSUME NEW k \in Keys, Observe(k) PROVE TypeOK'
    BY <1>0, <1>9 DEF Observe, managerVars, bucketVars, taskVars, window
  <1>10. CASE Tick
    BY <1>0, <1>10 DEF Tick, managerVars, bucketVars, taskVars, window
  <1>11. CASE UNCHANGED vars
    BY <1>0, <1>11 DEF vars, managerVars, bucketVars, taskVars, window
  <1> QED
    BY <1>1, <1>2, <1>3, <1>4, <1>5, <1>6, <1>7, <1>8, <1>9, <1>10, <1>11
       DEF Next, AcquireStep

-----------------------------------------------------------------------------
(* The locks.                                                              *)

LEMMA InitLockInv == Init => LockInv
  BY NullAssumption
     DEF Init, LockInv, ManagerInv, LookupInv, NameInv, OneBucketPerKey,
         SleepersExclude, Buckets

LEMMA StepManagerInv == IInv /\ [Next]_vars => ManagerInv'
  <1> SUFFICES ASSUME IInv, [Next]_vars PROVE ManagerInv'
    OBVIOUS
  <1>0. TypeOK /\ ManagerInv
    BY DEF IInv, LockInv
  <1> USE <1>0, NullAssumption DEF TypeOK, ManagerInv
  <1>1. ASSUME NEW t \in Tasks, LookUp(t) \/ Create(t) \/ Reuse(t)
        PROVE  ManagerInv'
    BY <1>1 DEF LookUp, Create, Reuse
  <1>2. ASSUME NEW t \in Tasks, Take(t) \/ Sleep(t) \/ Wake(t) \/ Cancel(t)
        PROVE  ManagerInv'
    BY <1>2 DEF Take, Sleep, Wake, Cancel, Granted, Leave, managerVars
  <1>3. ASSUME NEW t \in Tasks, NEW k \in Keys, Call(t, k) PROVE ManagerInv'
    BY <1>3 DEF Call, managerVars
  <1>4. CASE UNCHANGED <<managerVars, pc>>
    BY <1>4 DEF managerVars
  <1> QED
    BY <1>1, <1>2, <1>3, <1>4
       DEF Next, AcquireStep, Tick, Observe, taskVars, vars

LEMMA StepLookupInv == IInv /\ [Next]_vars => LookupInv'
  <1> SUFFICES ASSUME IInv, [Next]_vars PROVE LookupInv'
    OBVIOUS
  <1>0. TypeOK /\ ManagerInv /\ LookupInv
    BY DEF IInv, LockInv
  <1> USE <1>0 DEF TypeOK, LookupInv
  <1>1. ASSUME NEW t \in Tasks, NEW k \in Keys, Call(t, k) PROVE LookupInv'
    BY <1>1 DEF Call, managerVars
  <1>2. ASSUME NEW t \in Tasks, LookUp(t) PROVE LookupInv'
    BY <1>2 DEF LookUp
  <1>3. ASSUME NEW t \in Tasks, Create(t) PROVE LookupInv'
    <2>1. \A u \in Tasks : pc'[u] = "found" => u # t /\ pc[u] = "found"
      BY <1>3 DEF Create
    <2>2. \A u \in Tasks : pc'[u] # "found"
      BY <1>3, <2>1 DEF Create, ManagerInv
    <2> QED
      BY <1>3, <2>2 DEF Create
  <1>4. ASSUME NEW t \in Tasks, Reuse(t) PROVE LookupInv'
    BY <1>4 DEF Reuse
  <1>5. ASSUME NEW t \in Tasks, Take(t) \/ Wake(t) \/ Cancel(t) PROVE LookupInv'
    BY <1>5 DEF Take, Wake, Cancel, Granted, Leave, managerVars
  <1>6. ASSUME NEW t \in Tasks, Sleep(t) PROVE LookupInv'
    BY <1>6 DEF Sleep, managerVars
  <1>7. CASE UNCHANGED <<managerVars, taskVars>>
    BY <1>7 DEF managerVars, taskVars
  <1> QED
    BY <1>1, <1>2, <1>3, <1>4, <1>5, <1>6, <1>7
       DEF Next, AcquireStep, Tick, Observe, vars

\* Only Create writes the dictionary.
LEMMA DictionaryStep ==
    [Next]_vars => UNCHANGED bucketOf \/ \E t \in Tasks : Create(t)
  BY DEF Next, AcquireStep, Call, LookUp, Reuse, Take, Sleep, Wake, Cancel, Observe,
         Tick, managerVars, vars

LEMMA StepNameInv == IInv /\ [Next]_vars => NameInv'
  <1> SUFFICES ASSUME IInv, [Next]_vars PROVE NameInv'
    OBVIOUS
  <1>0. TypeOK /\ NameInv
    BY DEF IInv, LockInv
  <1>1. ASSUME NEW t \in Tasks, Create(t) PROVE NameInv'
    <2>1. bucketOf' = [bucketOf EXCEPT ![key[t]] = <<t, key[t]>>]
      BY <1>1 DEF Create
    <2>2. \A k \in Keys : bucketOf'[k] = bucketOf[k] \/ bucketOf'[k] = <<t, k>>
      BY <1>0, <2>1 DEF TypeOK
    <2> QED
      BY <1>0, <2>2 DEF NameInv
  <1>2. CASE UNCHANGED bucketOf
    BY <1>0, <1>2 DEF NameInv
  <1> QED
    BY <1>1, <1>2, DictionaryStep

LEMMA StepOneBucketPerKey == IInv /\ [Next]_vars => OneBucketPerKey'
  <1> SUFFICES ASSUME IInv, [Next]_vars PROVE OneBucketPerKey'
    OBVIOUS
  <1>0. TypeOK /\ LookupInv /\ OneBucketPerKey
    BY DEF IInv, LockInv
  <1> USE <1>0 DEF TypeOK, OneBucketPerKey
  <1>1. ASSUME NEW t \in Tasks, Create(t) PROVE OneBucketPerKey'
    <2> DEFINE b == <<t, key[t]>>
    <2>1. /\ bucketOf' = [bucketOf EXCEPT ![key[t]] = b]
          /\ bucket' = [bucket EXCEPT ![t] = b]
          /\ pc' = [pc EXCEPT ![t] = "bucket"]
          /\ key' = key
          /\ bucketOf[key[t]] = NoBucket
          /\ key[t] \in Keys
      BY <1>1 DEF Create, LookupInv
    <2>2. b # NoBucket
      BY <1>1, InHand, NullAssumption DEF Create
    <2> HIDE DEF b
    <2>3. SUFFICES ASSUME NEW u \in Tasks, pc'[u] \in {"bucket", "sleep"}
                   PROVE  bucket'[u] = bucketOf'[key'[u]] /\ bucket'[u] # NoBucket
      OBVIOUS
    <2>4. CASE u = t
      BY <2>1, <2>2, <2>4
    <2>5. CASE u # t
      BY <2>1, <2>3, <2>5 DEF LookupInv
    <2> QED
      BY <2>4, <2>5
  <1>2. ASSUME NEW t \in Tasks, Reuse(t) PROVE OneBucketPerKey'
    BY <1>2 DEF Reuse, LookupInv
  <1>3. ASSUME NEW t \in Tasks, LookUp(t) PROVE OneBucketPerKey'
    BY <1>3 DEF LookUp
  <1>4. ASSUME NEW t \in Tasks, NEW k \in Keys, Call(t, k) PROVE OneBucketPerKey'
    BY <1>4 DEF Call, managerVars
  <1>5. ASSUME NEW t \in Tasks, Take(t) \/ Wake(t) \/ Cancel(t)
        PROVE  OneBucketPerKey'
    BY <1>5 DEF Take, Wake, Cancel, Granted, Leave, managerVars
  <1>6. ASSUME NEW t \in Tasks, Sleep(t) PROVE OneBucketPerKey'
    BY <1>6 DEF Sleep, managerVars
  <1>7. CASE UNCHANGED <<managerVars, taskVars>>
    BY <1>7 DEF managerVars, taskVars
  <1> QED
    BY <1>1, <1>2, <1>3, <1>4, <1>5, <1>6, <1>7
       DEF Next, AcquireStep, Tick, Observe, vars

LEMMA StepSleepersExclude == IInv /\ [Next]_vars => SleepersExclude'
  <1> SUFFICES ASSUME IInv, [Next]_vars PROVE SleepersExclude'
    OBVIOUS
  <1>0. TypeOK /\ SleepersExclude
    BY DEF IInv, LockInv
  <1> USE <1>0, NullAssumption DEF TypeOK, SleepersExclude
  <1>1. ASSUME NEW t \in Tasks, Create(t) PROVE SleepersExclude'
    <2>1. /\ held' = held /\ pc[t] = "found"
          /\ pc' = [pc EXCEPT ![t] = "bucket"]
          /\ \A u \in Tasks \ {t} : bucket'[u] = bucket[u]
      BY <1>1 DEF Create
    <2> QED
      BY <2>1
  <1>2. ASSUME NEW t \in Tasks, LookUp(t) \/ Reuse(t) PROVE SleepersExclude'
    BY <1>2 DEF LookUp, Reuse, bucketVars
  <1>3. ASSUME NEW t \in Tasks, NEW k \in Keys, Call(t, k) PROVE SleepersExclude'
    BY <1>3 DEF Call, bucketVars
  <1>4. ASSUME NEW t \in Tasks, Take(t) PROVE SleepersExclude'
    BY <1>4 DEF Take, Granted, Leave
  <1>5. ASSUME NEW t \in Tasks, Sleep(t) PROVE SleepersExclude'
    <2>1. bucket[t] \in Buckets
      BY <1>5, InHand DEF Sleep
    <2> QED
      BY <1>5, <2>1 DEF Sleep
  <1>6. ASSUME NEW t \in Tasks, Wake(t) \/ (Cancel(t) /\ pc[t] = "sleep")
        PROVE  SleepersExclude'
    <2>1. bucket[t] \in Buckets /\ held[bucket[t]] = t
      BY <1>6, InHand DEF Wake, Cancel
    <2> QED
      BY <1>6, <2>1 DEF Wake, Cancel, Granted, Leave
  <1>7. ASSUME NEW t \in Tasks, Cancel(t), pc[t] # "sleep" PROVE SleepersExclude'
    BY <1>7 DEF Cancel, Leave
  <1>8. CASE UNCHANGED <<held, taskVars>>
    BY <1>8 DEF taskVars
  <1> QED
    BY <1>1, <1>2, <1>3, <1>4, <1>5, <1>6, <1>7, <1>8
       DEF Next, AcquireStep, Tick, Observe, bucketVars, vars

-----------------------------------------------------------------------------
(* Buckets of different keys are different, and so is a new one.           *)

LEMMA BucketsDiffer ==
    ASSUME IInv, NEW k \in Keys, NEW l \in Keys, k # l, bucketOf[k] # NoBucket
    PROVE  bucketOf[k] # bucketOf[l]
  BY DEF IInv, LockInv, NameInv

LEMMA CreatedIsNew ==
    ASSUME IInv, NEW t \in Tasks, Create(t), NEW k \in Keys
    PROVE  bucketOf[k] # <<t, key[t]>>
  <1>1. key[t] \in Keys /\ bucketOf[key[t]] = NoBucket /\ <<t, key[t]>> \in Buckets
    BY InHand DEF Create, IInv, LockInv, LookupInv
  <1>2. SUFFICES ASSUME bucketOf[k] = <<t, key[t]>> PROVE FALSE
    OBVIOUS
  <1>3. bucketOf[k] # NoBucket
    BY <1>1, <1>2, NullAssumption
  <1>4. k = key[t]
    BY <1>2, <1>3 DEF IInv, LockInv, NameInv
  <1> QED
    BY <1>1, <1>3, <1>4

\* A step leaves alone the bucket of a key unless a caller of that very key
\* takes from it, goes to sleep on it or wakes up from it.
LEMMA BucketFrame ==
    ASSUME IInv, NEW k \in Keys, bucketOf[k] # NoBucket, NEW t \in Tasks,
           \/ Create(t)
           \/ (Take(t) \/ Sleep(t) \/ Wake(t)) /\ key[t] # k
    PROVE  /\ bucketOf'[k] = bucketOf[k]
           /\ level'[bucketOf[k]] = level[bucketOf[k]]
           /\ last'[bucketOf[k]] = last[bucketOf[k]]
  <1> DEFINE b == bucketOf[k]
  <1>0. TypeOK /\ b \in Buckets
    BY DEF IInv, TypeOK
  <1>1. CASE Create(t)
    <2> DEFINE c == <<t, key[t]>>
    <2>1. /\ bucketOf' = [bucketOf EXCEPT ![key[t]] = c]
          /\ level' = [level EXCEPT ![c] = Full]
          /\ last' = [last EXCEPT ![c] = now]
          /\ bucketOf[key[t]] = NoBucket
      BY <1>1 DEF Create, IInv, LockInv, LookupInv
    <2>2. b # c
      BY <1>1, CreatedIsNew
    <2> HIDE DEF c
    <2> QED
      BY <1>0, <2>1, <2>2 DEF TypeOK
  <1>2. CASE (Take(t) \/ Sleep(t) \/ Wake(t)) /\ key[t] # k
    <2>1. bucket[t] = bucketOf[key[t]] /\ key[t] \in Keys
      BY <1>2, InHand DEF Take, Sleep, Wake
    <2>2. bucket[t] # b
      BY <1>2, <2>1, BucketsDiffer
    <2> QED
      BY <1>0, <1>2, <2>2 DEF TypeOK, Take, Sleep, Wake, managerVars
  <1> QED
    BY <1>1, <1>2

-----------------------------------------------------------------------------
(* The clock.                                                              *)

LEMMA InitClockInv == Init => ClockInv
  BY DEF Init, ClockInv

LEMMA StepLast == IInv /\ [Next]_vars => \A b \in Buckets : last'[b] <= now'
  <1> SUFFICES ASSUME IInv, [Next]_vars, NEW b \in Buckets PROVE last'[b] <= now'
    OBVIOUS
  <1>0. now \in Nat /\ last \in [Buckets -> Nat] /\ last[b] <= now
    BY DEF IInv, TypeOK, ClockInv
  <1>1. ASSUME NEW t \in Tasks, Create(t) PROVE last'[b] <= now'
    <2> DEFINE c == <<t, key[t]>>
    <2>1. last' = [last EXCEPT ![c] = now] /\ now' = now
      BY <1>1 DEF Create
    <2> HIDE DEF c
    <2> QED
      BY <1>0, <2>1
  <1>2. ASSUME NEW t \in Tasks, Take(t) \/ Sleep(t) \/ Wake(t)
        PROVE  last'[b] <= now'
    BY <1>0, <1>2 DEF Take, Sleep, Wake
  <1>3. CASE UNCHANGED last /\ (UNCHANGED now \/ now' = now + 1)
    BY <1>0, <1>3
  <1> QED
    BY <1>1, <1>2, <1>3
       DEF Next, AcquireStep, Call, LookUp, Reuse, Cancel, Tick, Observe, bucketVars,
           vars

LEMMA StepClockInv == IInv /\ [Next]_vars => ClockInv'
  <1> SUFFICES ASSUME IInv, [Next]_vars, NEW u \in Tasks, pc'[u] = "sleep"
               PROVE  until'[u] + level'[bucket'[u]] = last'[bucket'[u]] + Cost
    BY StepLast DEF ClockInv
  <1>0. TypeOK /\ ClockInv
    BY DEF IInv
  <1> DEFINE Same ==
        /\ pc[u] = "sleep" /\ until'[u] = until[u] /\ bucket'[u] = bucket[u]
        /\ level'[bucket[u]] = level[bucket[u]] /\ last'[bucket[u]] = last[bucket[u]]
  <1> DEFINE Goal == until'[u] + level'[bucket'[u]] = last'[bucket'[u]] + Cost
  <1>1. Same => Goal
    BY <1>0 DEF ClockInv
  <1>2. ASSUME NEW t \in Tasks, Sleep(t), t = u PROVE Goal
    <2>1. bucket[t] \in Buckets /\ Refilled(bucket[t]) \in 0..Full
      BY <1>0, <1>2, InHand, RefilledType DEF Sleep, ClockInv
    <2>2. /\ level'[bucket[t]] = Refilled(bucket[t]) /\ last'[bucket[t]] = now
          /\ until'[t] = now + (Cost - Refilled(bucket[t]))
          /\ bucket' = bucket
      BY <1>0, <1>2, <2>1 DEF Sleep, TypeOK
    <2> QED
      BY <1>0, <1>2, <2>1, <2>2, RateAssumption DEF TypeOK
  <1>3. ASSUME NEW t \in Tasks, Take(t) \/ Wake(t) \/ (Sleep(t) /\ t # u) PROVE Same
    <2>1. /\ t # u /\ pc[u] = "sleep" /\ until'[u] = until[u]
          /\ bucket'[u] = bucket[u]
      BY <1>0, <1>3 DEF TypeOK, Take, Wake, Sleep, Granted, Leave
    <2>2. bucket[u] \in Buckets /\ held[bucket[u]] = u
      BY <2>1, InHand DEF IInv, LockInv, SleepersExclude
    <2>3. bucket[t] # bucket[u]
      BY <1>3, <2>1, <2>2, InHand, NullAssumption
         DEF Take, Wake, Sleep, IInv, LockInv, SleepersExclude
    <2> QED
      BY <1>0, <1>3, <2>1, <2>2, <2>3 DEF TypeOK, Take, Wake, Sleep
  <1>4. ASSUME NEW t \in Tasks, Create(t) PROVE Same
    <2>1. /\ t # u /\ pc[u] = "sleep" /\ until'[u] = until[u]
          /\ bucket'[u] = bucket[u]
      BY <1>0, <1>4 DEF TypeOK, Create
    <2>2. bucket[u] = bucketOf[key[u]] /\ key[u] \in Keys /\ bucket[u] # NoBucket
      BY <2>1, InHand DEF IInv, LockInv, OneBucketPerKey
    <2> QED
      BY <1>4, <2>1, <2>2, BucketFrame
  <1>5. ASSUME NEW t \in Tasks, NEW k \in Keys, Call(t, k) PROVE Same
    BY <1>0, <1>5 DEF TypeOK, Call, bucketVars
  <1>6. ASSUME NEW t \in Tasks, LookUp(t) \/ Reuse(t) \/ Cancel(t) PROVE Same
    BY <1>0, <1>6 DEF TypeOK, LookUp, Reuse, Cancel, Leave, bucketVars
  <1>7. ASSUME UNCHANGED <<level, last, taskVars>> PROVE Same
    BY <1>7 DEF taskVars
  <1>8. Same \/ Goal
    <2> HIDE DEF Same, Goal
    <2> QED
      BY <1>1, <1>2, <1>3, <1>4, <1>5, <1>6, <1>7
         DEF Next, AcquireStep, Tick, Observe, bucketVars, vars
  <1> QED
    BY <1>1, <1>8

-----------------------------------------------------------------------------
(* The window.                                                             *)

\* Worth is a natural number between what a refill would give and the burst.
LEMMA WorthBounds ==
    ASSUME IInv, NEW b \in Buckets
    PROVE  Worth(b) \in 0..Burst /\ Refilled(b) \in 0..Full /\ Refilled(b) <= Worth(b)
  <1>1. last[b] <= now /\ now \in Nat /\ last[b] \in Nat /\ level[b] \in 0..Full
    BY DEF IInv, TypeOK, ClockInv
  <1> QED
    BY <1>1, BurstType, RateAssumption DEF Worth, Refilled

LEMMA InitWindowInv == Init => WindowInv
  BY DEF Init, WindowInv

\* A step of the bucket that the observed key is using.
LEMMA StepObserved ==
    ASSUME IInv, NEW t \in Tasks, Take(t) \/ Sleep(t) \/ Wake(t), key[t] = watched
    PROVE  WindowInv'
  <1>0. PICK b \in Buckets : b = bucket[t]
    BY InHand DEF Take, Sleep, Wake
  <1>1. /\ b = bucketOf[watched] /\ b # NoBucket
        /\ watched \in Keys /\ watched # NoKey
    BY <1>0, InHand, NullAssumption
       DEF Take, Sleep, Wake, IInv, LockInv, OneBucketPerKey
  <1>2. /\ since <= now /\ granted + Worth(b) <= Burst + (now - since)
        /\ now \in Nat /\ since \in Nat /\ granted \in Nat
        /\ last[b] \in Nat /\ last[b] <= now /\ level[b] \in 0..Full
    BY <1>1 DEF IInv, WindowInv, TypeOK, ClockInv
  <1>3. Worth(b) \in 0..Burst /\ Refilled(b) \in 0..Full /\ Refilled(b) <= Worth(b)
    BY <1>1, WorthBounds
  <1>4. /\ bucketOf' = bucketOf /\ watched' = watched /\ since' = since /\ now' = now
        /\ level \in [Buckets -> 0..Full] /\ last \in [Buckets -> Nat]
    BY DEF Take, Sleep, Wake, Granted, window, managerVars, IInv, TypeOK
  <1>5. granted' + Worth(b)' <= Burst + (now - since)
    <2>1. CASE Take(t)
      <3>1. /\ level'[b] = Refilled(b) - Cost /\ last'[b] = now
            /\ granted' = granted + Cost /\ Refilled(b) >= Cost
        BY <1>0, <1>1, <1>4, <2>1 DEF Take, Granted
      <3>2. Worth(b)' = Refilled(b) - Cost
        BY <1>3, <1>4, <1>2, <3>1, BurstType, RateAssumption DEF Worth
      <3> QED
        BY <1>2, <1>3, <3>1, <3>2, BurstType, RateAssumption
    <2>2. CASE Sleep(t)
      <3>1. level'[b] = Refilled(b) /\ last'[b] = now /\ granted' = granted
        BY <1>0, <1>1, <1>4, <2>2 DEF Sleep, window
      <3>2. Worth(b)' = Refilled(b)
        BY <1>3, <1>4, <1>2, <3>1, BurstType, RateAssumption DEF Worth
      <3> QED
        BY <1>2, <1>3, <3>1, <3>2, BurstType
    <2>3. CASE Wake(t)
      <3>1. /\ level'[b] = 0 /\ last'[b] = now /\ granted' = granted + Cost
            /\ now >= until[t] /\ until[t] + level[b] = last[b] + Cost
            /\ until[t] \in Nat
        BY <1>0, <1>1, <1>4, <2>3 DEF Wake, Granted, IInv, ClockInv, TypeOK
      <3>2. Worth(b)' = 0
        BY <1>4, <1>2, <3>1, BurstType DEF Worth
      <3>3. Worth(b) >= Cost
        BY <1>2, <3>1, BurstType, RateAssumption DEF Worth
      <3> QED
        BY <1>2, <1>3, <3>1, <3>2, <3>3, BurstType, RateAssumption
    <2> QED
      BY <2>1, <2>2, <2>3
  <1> QED
    BY <1>1, <1>2, <1>4, <1>5 DEF WindowInv, Burst

\* A new bucket for the observed key begins full, and nothing was granted yet.
LEMMA StepCreated ==
    ASSUME IInv, NEW t \in Tasks, Create(t), key[t] = watched
    PROVE  WindowInv'
  <1>0. PICK b \in Buckets : b = <<t, key[t]>>
    BY InHand DEF Create
  <1>1. /\ bucketOf' = [bucketOf EXCEPT ![watched] = b]
        /\ level' = [level EXCEPT ![b] = Full]
        /\ last' = [last EXCEPT ![b] = now]
        /\ UNCHANGED <<now, window>>
        /\ bucketOf[watched] = NoBucket /\ watched \in Keys
    BY <1>0, InHand DEF Create, IInv, LockInv, LookupInv
  <1>2. /\ watched # NoKey /\ b # NoBucket /\ since <= now /\ granted = 0
        /\ now \in Nat /\ since \in Nat
    BY <1>1, NullAssumption DEF IInv, WindowInv, TypeOK
  <1>3. bucketOf'[watched] = b /\ level'[b] = Full /\ last'[b] = now
    BY <1>1 DEF IInv, TypeOK
  <1>4. Worth(b)' <= Burst
    BY <1>1, <1>2, <1>3, BurstType, RateAssumption DEF Worth
  <1>5. Worth(b)' \in Nat /\ Burst \in Nat
    BY <1>1, <1>2, <1>3, BurstType, RateAssumption DEF Worth
  <1> QED
    BY <1>1, <1>2, <1>3, <1>4, <1>5 DEF WindowInv, window, Burst

\* A step of a caller of another key, or one that touches no bucket.
LEMMA StepUnobserved ==
    ASSUME IInv, UNCHANGED <<now, window>>,
           watched # NoKey =>
              /\ bucketOf'[watched] = bucketOf[watched]
              /\ bucketOf[watched] # NoBucket =>
                    /\ level'[bucketOf[watched]] = level[bucketOf[watched]]
                    /\ last'[bucketOf[watched]] = last[bucketOf[watched]]
    PROVE  WindowInv'
  <1>1. CASE watched = NoKey \/ bucketOf[watched] = NoBucket
    BY <1>1 DEF IInv, WindowInv, window
  <1>2. CASE watched # NoKey /\ bucketOf[watched] # NoBucket
    <2>1. PICK b \in Buckets : b = bucketOf[watched]
      BY <1>2 DEF IInv, TypeOK
    <2>2. Worth(b)' = Worth(b)
      BY <1>2, <2>1 DEF Worth, Burst
    <2>3. /\ granted + Worth(b) <= Burst + (now - since) /\ since <= now
          /\ bucketOf'[watched'] = b /\ b # NoBucket /\ watched' # NoKey
      BY <1>2, <2>1 DEF IInv, WindowInv, window
    <2> QED
      BY <2>2, <2>3 DEF WindowInv, Burst, window
  <1> QED
    BY <1>1, <1>2

LEMMA StepTick == IInv /\ Tick => WindowInv'
  <1> SUFFICES ASSUME IInv, Tick PROVE WindowInv'
    OBVIOUS
  <1>1. /\ now' = now + 1 /\ UNCHANGED <<bucketOf, level, last, watched, since, granted>>
        /\ now \in Nat /\ since \in Nat /\ granted \in Nat
    BY DEF Tick, managerVars, bucketVars, window, IInv, TypeOK
  <1>2. CASE watched = NoKey \/ bucketOf[watched] = NoBucket
    BY <1>1, <1>2 DEF IInv, WindowInv
  <1>3. CASE watched # NoKey /\ bucketOf[watched] # NoBucket
    <2>1. PICK b \in Buckets : b = bucketOf[watched]
      BY <1>3 DEF IInv, TypeOK
    <2>2. granted + Worth(b) <= Burst + (now - since) /\ since <= now
      BY <1>3, <2>1 DEF IInv, WindowInv
    <2>3. last[b] \in Nat /\ last[b] <= now /\ level[b] \in 0..Full
      BY DEF IInv, TypeOK, ClockInv
    <2>4. Worth(b)' <= Worth(b) + 1 /\ Worth(b) \in Nat /\ Worth(b)' \in Nat
      BY <1>1, <2>3, BurstType, RateAssumption DEF Worth
    <2>5. granted' + Worth(b)' <= Burst + (now' - since') /\ since' <= now'
      BY <1>1, <2>2, <2>4, BurstType
    <2> QED
      BY <1>1, <1>3, <2>1, <2>5 DEF WindowInv, Burst
  <1> QED
    BY <1>2, <1>3

LEMMA StepObserve ==
    ASSUME IInv, NEW k \in Keys, Observe(k)
    PROVE  WindowInv'
  <1>1. /\ watched' = k /\ since' = now /\ granted' = 0
        /\ UNCHANGED <<now, bucketOf, level, last>>
        /\ now \in Nat /\ k # NoKey
    BY NullAssumption
       DEF Observe, managerVars, bucketVars, IInv, WindowInv, TypeOK
  <1>2. CASE bucketOf[k] = NoBucket
    BY <1>1, <1>2 DEF WindowInv
  <1>3. CASE bucketOf[k] # NoBucket
    <2>1. PICK b \in Buckets : b = bucketOf[k]
      BY <1>3 DEF IInv, TypeOK
    <2>2. Worth(b) \in 0..Burst
      BY WorthBounds
    <2>3. Worth(b)' = Worth(b)
      BY <1>1 DEF Worth, Burst
    <2> QED
      BY <1>1, <1>3, <2>1, <2>2, <2>3, BurstType DEF WindowInv, Burst
  <1> QED
    BY <1>2, <1>3

LEMMA StepWindowInv == IInv /\ [Next]_vars => WindowInv'
  <1> SUFFICES ASSUME IInv, [Next]_vars PROVE WindowInv'
    OBVIOUS
  <1>0. watched # NoKey => watched \in Keys
    BY DEF IInv, TypeOK
  <1>1. ASSUME NEW t \in Tasks, Take(t) \/ Sleep(t) \/ Wake(t) PROVE WindowInv'
    <2>1. CASE key[t] = watched
      BY <1>1, <2>1, StepObserved
    <2>2. CASE key[t] # watched
      <3>1. UNCHANGED <<now, window, bucketOf>>
        BY <1>1, <2>2 DEF Take, Sleep, Wake, Granted, window, managerVars
      <3> QED
        BY <1>0, <1>1, <2>2, <3>1, BucketFrame, StepUnobserved
    <2> QED
      BY <2>1, <2>2
  <1>2. ASSUME NEW t \in Tasks, Create(t) PROVE WindowInv'
    <2>1. CASE key[t] = watched
      BY <1>2, <2>1, StepCreated
    <2>2. CASE key[t] # watched
      <3>1. /\ UNCHANGED <<now, window>>
            /\ bucketOf' = [bucketOf EXCEPT ![key[t]] = <<t, key[t]>>]
        BY <1>2 DEF Create
      <3>2. watched # NoKey => bucketOf'[watched] = bucketOf[watched]
        BY <1>0, <2>2, <3>1 DEF IInv, TypeOK
      <3> QED
        BY <1>0, <1>2, <3>1, <3>2, BucketFrame, StepUnobserved
    <2> QED
      BY <2>1, <2>2
  <1>3. CASE Tick
    BY <1>3, StepTick
  <1>4. ASSUME NEW k \in Keys, Observe(k) PROVE WindowInv'
    BY <1>4, StepObserve
  <1>5. CASE UNCHANGED <<now, window, bucketOf, level, last>>
    BY <1>5, StepUnobserved
  <1> QED
    BY <1>1, <1>2, <1>3, <1>4, <1>5
       DEF Next, AcquireStep, Call, LookUp, Reuse, Cancel, managerVars, bucketVars,
           vars

-----------------------------------------------------------------------------
(* The theorems.                                                           *)

\* IInv holds in every reachable state.
THEOREM Inductive == Spec => []IInv
  <1>1. Init => IInv
    BY InitTypeOK, InitLockInv, InitClockInv, InitWindowInv DEF IInv
  <1>2. IInv /\ [Next]_vars => IInv'
    BY StepTypeOK, StepManagerInv, StepLookupInv, StepNameInv, StepOneBucketPerKey,
       StepSleepersExclude, StepClockInv, StepWindowInv
       DEF IInv, LockInv
  <1> QED
    BY <1>1, <1>2, PTL DEF Spec

\* Every variable keeps its type, whatever the threads or tasks do.
THEOREM TypeCorrect == Spec => []TypeOK
  BY Inductive, PTL DEF IInv

\* Concurrent first calls for an api_id never create two buckets for it.
THEOREM OneBucket == Spec => []OneBucketPerKey
  BY Inductive, PTL DEF IInv, LockInv

\* In any window of time a key is granted at most its burst plus the refill,
\* for every rate, capacity, number of callers and of keys.
THEOREM RateBound == Spec => []WindowBound
  <1>1. IInv => WindowBound
    <2> SUFFICES ASSUME IInv, watched # NoKey
                 PROVE  granted <= Burst + (now - since)
      BY DEF WindowBound
    <2>1. now \in Nat /\ since \in Nat /\ granted \in Nat /\ since <= now
      BY DEF IInv, TypeOK, WindowInv
    <2>2. CASE bucketOf[watched] = NoBucket
      BY <2>1, <2>2, BurstType DEF IInv, WindowInv
    <2>3. CASE bucketOf[watched] # NoBucket
      <3>1. PICK b \in Buckets : b = bucketOf[watched]
        BY <2>3 DEF IInv, TypeOK
      <3>2. Worth(b) \in 0..Burst
        BY WorthBounds
      <3> QED
        BY <2>1, <2>3, <3>1, <3>2, BurstType DEF IInv, WindowInv
    <2> QED
      BY <2>2, <2>3
  <1> QED
    BY <1>1, Inductive, PTL

\* A caller asleep for one api_id never delays a caller of another.
THEOREM SleepIsPrivate == Spec => []SleeperDelaysOnlyItsKey
  <1>1. IInv => SleeperDelaysOnlyItsKey
    <2> SUFFICES ASSUME IInv, NEW s \in Tasks, pc[s] = "sleep"
                 PROVE  /\ mlock # s
                        /\ \A t \in Tasks : pc[t] = "bucket" /\ held[bucket[t]] = s
                              => key[t] = key[s]
      BY DEF SleeperDelaysOnlyItsKey
    <2>1. mlock # s
      BY DEF IInv, LockInv, ManagerInv
    <2>2. ASSUME NEW t \in Tasks, pc[t] = "bucket", held[bucket[t]] = s
          PROVE  key[t] = key[s]
      <3>1. /\ bucket[t] \in Buckets /\ bucket[t] = bucketOf[key[t]]
            /\ bucket[s] = bucketOf[key[s]] /\ key[t] \in Keys /\ key[s] \in Keys
        BY <2>2, InHand
      <3>2. bucket[s] = bucket[t]
        BY <2>2, <3>1 DEF IInv, LockInv, SleepersExclude
      <3> QED
        BY <2>2, <3>1, <3>2, BucketsDiffer DEF IInv, LockInv, OneBucketPerKey
    <2> QED
      BY <2>1, <2>2
  <1> QED
    BY <1>1, Inductive, PTL
=============================================================================
