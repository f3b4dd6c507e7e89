------------------------------ MODULE RateLimiter ------------------------------
(***************************************************************************)
(* PerKeyRateLimiter / AsyncPerKeyRateLimiter and their token buckets.     *)
(* Concurrent callers acquire tokens for keys (api_ids): under the manager *)
(* lock each finds or creates its key's bucket, then under that bucket's   *)
(* own lock it takes a token, or sleeps until one has been refilled.       *)
(*                                                                         *)
(* Time and tokens are counted in ticks: a bucket is refilled by one tick  *)
(* per tick of the clock, a token costs Cost ticks (rate = 1/Cost tokens   *)
(* per tick) and a full bucket holds Full ticks (capacity = Full/Cost).    *)
(***************************************************************************)
EXTENDS Naturals

CONSTANTS
    Tasks,      \* the callers: threads or asyncio tasks
    Keys,       \* the api_ids
    Cost,       \* ticks it takes to refill one token
    Full,       \* ticks a full bucket holds
    Acquires,   \* bound: how often each task calls acquire
    Horizon,    \* bound: the time when the clock stops unless a sleeper needs it
    NoTask, NoBucket, NoKey

\* A bucket is named by the task that created it and the key it is for.
Buckets == Tasks \X Keys

ASSUME RateAssumption  == Cost \in Nat \ {0} /\ Full \in Nat
ASSUME BoundAssumption == Acquires \in Nat /\ Horizon \in Nat
ASSUME NullAssumption ==
    NoTask \notin Tasks /\ NoBucket \notin Buckets /\ NoKey \notin Keys

VARIABLES
    now,       \* time.monotonic()
    mlock,     \* the task holding the manager's _lock, or NoTask
    bucketOf,  \* _buckets: key -> bucket, or NoBucket
    level,     \* RateLimiter._tokens of each bucket, in ticks
    last,      \* RateLimiter._last_refill of each bucket
    held,      \* the task holding each bucket's _lock, or NoTask
    pc,        \* where each task is
    key,       \* the key each task is acquiring a token for
    bucket,    \* the bucket each task has in hand, or NoBucket
    until,     \* when each sleeping task may wake up
    left,      \* bound: the calls each task still makes
    watched,   \* history: the key under observation, or NoKey
    since,     \* history: when the observation began
    granted    \* history: the ticks' worth of tokens granted to it since

managerVars == <<mlock, bucketOf>>
bucketVars  == <<level, last, held>>
taskVars    == <<pc, key, bucket, until, left>>
window      == <<watched, since, granted>>
vars == <<now, managerVars, bucketVars, taskVars, window>>

Places == {"idle", "lookup", "found", "bucket", "sleep"}

Init ==
    /\ now = 0
    /\ mlock = NoTask
    /\ bucketOf = [k \in Keys |-> NoBucket]
    /\ level = [b \in Buckets |-> 0]
    /\ last  = [b \in Buckets |-> 0]
    /\ held  = [b \in Buckets |-> NoTask]
    /\ pc     = [t \in Tasks |-> "idle"]
    /\ key    = [t \in Tasks |-> NoKey]
    /\ bucket = [t \in Tasks |-> NoBucket]
    /\ until  = [t \in Tasks |-> 0]
    /\ left   = [t \in Tasks |-> Acquires]
    /\ watched = NoKey /\ since = 0 /\ granted = 0

-----------------------------------------------------------------------------
(* The manager: get or create the bucket of the key.                       *)

Call(t, k) ==
    /\ pc[t] = "idle" /\ left[t] > 0
    /\ left' = [left EXCEPT ![t] = @ - 1]
    /\ key'  = [key EXCEPT ![t] = k]
    /\ pc'   = [pc EXCEPT ![t] = "lookup"]
    /\ UNCHANGED <<now, managerVars, bucketVars, bucket, until, window>>

\* Mutant: the lookup does not wait for the manager lock.
LookUpUnlocked(t) ==
    /\ pc[t] = "lookup"
    /\ mlock' = t
    /\ bucket' = [bucket EXCEPT ![t] = bucketOf[key[t]]]
    /\ pc' = [pc EXCEPT ![t] = "found"]
    /\ UNCHANGED <<now, bucketOf, bucketVars, key, until, left, window>>

\* with self._lock: bucket = self._buckets.get(key)
LookUp(t) ==
    /\ pc[t] = "lookup" /\ mlock = NoTask
    /\ mlock' = t
    /\ bucket' = [bucket EXCEPT ![t] = bucketOf[key[t]]]
    /\ pc' = [pc EXCEPT ![t] = "found"]
    /\ UNCHANGED <<now, bucketOf, bucketVars, key, until, left, window>>

\* Mutant: the manager lock is kept while the bucket is acquired.
KeepManagerLock(t) ==
    /\ pc[t] = "found"
    /\ LET b == IF bucket[t] = NoBucket THEN <<t, key[t]>> ELSE bucket[t] IN
          /\ bucketOf' = [bucketOf EXCEPT ![key[t]] = b]
          /\ bucket' = [bucket EXCEPT ![t] = b]
          /\ level' = IF bucket[t] = NoBucket THEN [level EXCEPT ![b] = Full] ELSE level
          /\ last'  = IF bucket[t] = NoBucket THEN [last EXCEPT ![b] = now] ELSE last
    /\ pc' = [pc EXCEPT ![t] = "bucket"]
    /\ UNCHANGED <<now, mlock, held, key, until, left, window>>

\* A missing bucket is created full; then the manager lock is released.
Create(t) ==
    /\ pc[t] = "found" /\ bucket[t] = NoBucket
    /\ LET b == <<t, key[t]>> IN
          /\ bucketOf' = [bucketOf EXCEPT ![key[t]] = b]
          /\ bucket' = [bucket EXCEPT ![t] = b]
          /\ level' = [level EXCEPT ![b] = Full]
          /\ last'  = [last EXCEPT ![b] = now]
    /\ mlock' = NoTask
    /\ pc' = [pc EXCEPT ![t] = "bucket"]
    /\ UNCHANGED <<now, held, key, until, left, window>>

Reuse(t) ==
    /\ pc[t] = "found" /\ bucket[t] # NoBucket
    /\ mlock' = NoTask
    /\ pc' = [pc EXCEPT ![t] = "bucket"]
    /\ UNCHANGED <<now, bucketOf, bucketVars, key, bucket, until, left, window>>

-----------------------------------------------------------------------------
(* A bucket: RateLimiter.acquire / AsyncRateLimiter.acquire.               *)

\* Mutant: the refill is not capped at the capacity.
Uncapped(b) == level[b] + (now - last[b])

\* min(capacity, tokens + elapsed * rate)
Refilled(b) ==
    LET sum == level[b] + (now - last[b]) IN IF sum < Full THEN sum ELSE Full

\* acquire is over: its locals are gone.
Leave(t) ==
    /\ pc' = [pc EXCEPT ![t] = "idle"]
    /\ key'    = [key EXCEPT ![t] = NoKey]
    /\ bucket' = [bucket EXCEPT ![t] = NoBucket]
    /\ until'  = [until EXCEPT ![t] = 0]

\* It returned: the observer counts the token if it watches the key.
Granted(t) ==
    /\ Leave(t)
    /\ granted' = IF watched = key[t] THEN granted + Cost ELSE granted
    /\ UNCHANGED <<watched, since>>

\* A token is there: take it.
Take(t) ==
    /\ pc[t] = "bucket"
    /\ LET b == bucket[t] IN
          /\ held[b] = NoTask
          /\ Refilled(b) >= Cost
          /\ level' = [level EXCEPT ![b] = Refilled(b) - Cost]
          /\ last'  = [last EXCEPT ![b] = now]
    /\ Granted(t)
    /\ UNCHANGED <<now, managerVars, held, left>>

\* No token: sleep for what is missing, keeping the bucket's lock.
Sleep(t) ==
    /\ pc[t] = "bucket"
    /\ LET b == bucket[t] IN
          /\ held[b] = NoTask
          /\ Refilled(b) < Cost
          /\ level' = [level EXCEPT ![b] = Refilled(b)]
          /\ last'  = [last EXCEPT ![b] = now]
          /\ held'  = [held EXCEPT ![b] = t]
          /\ until' = [until EXCEPT ![t] = now + (Cost - Refilled(b))]
    /\ pc' = [pc EXCEPT ![t] = "sleep"]
    /\ UNCHANGED <<now, managerVars, key, bucket, left, window>>

\* Mutant: the sleeper leaves _last_refill at the time it went to sleep.
WakeKeepsLast(t) ==
    /\ pc[t] = "sleep" /\ now >= until[t]
    /\ LET b == bucket[t] IN
          /\ level' = [level EXCEPT ![b] = 0]
          /\ held'  = [held EXCEPT ![b] = NoTask]
    /\ Granted(t)
    /\ UNCHANGED <<now, managerVars, last, left>>

\* The sleep is over, on time or late: the bucket is empty as of now.
Wake(t) ==
    /\ pc[t] = "sleep" /\ now >= until[t]
    /\ LET b == bucket[t] IN
          /\ level' = [level EXCEPT ![b] = 0]
          /\ last'  = [last EXCEPT ![b] = now]
          /\ held'  = [held EXCEPT ![b] = NoTask]
    /\ Granted(t)
    /\ UNCHANGED <<now, managerVars, left>>

\* Mutant: a cancelled sleeper leaves its bucket locked.
CancelKeepsLock(t) ==
    /\ pc[t] \in {"lookup", "bucket", "sleep"}
    /\ Leave(t)
    /\ UNCHANGED <<now, managerVars, bucketVars, left, window>>

\* An asyncio caller is cancelled at an await; "async with" frees the lock.
Cancel(t) ==
    /\ pc[t] \in {"lookup", "bucket", "sleep"}
    /\ held' = IF pc[t] = "sleep" THEN [held EXCEPT ![bucket[t]] = NoTask] ELSE held
    /\ Leave(t)
    /\ UNCHANGED <<now, managerVars, level, last, left, window>>

-----------------------------------------------------------------------------
(* The clock and the observer.                                             *)

Tick ==
    /\ now < Horizon \/ \E t \in Tasks : pc[t] = "sleep" /\ now < until[t]
    /\ now' = now + 1
    /\ UNCHANGED <<managerVars, bucketVars, taskVars, window>>

\* Begin to count what is granted for k: at any time, for any key.
Observe(k) ==
    /\ watched = NoKey
    /\ watched' = k /\ since' = now
    /\ UNCHANGED <<now, managerVars, bucketVars, taskVars, granted>>

-----------------------------------------------------------------------------

AcquireStep(t) ==
    \/ LookUp(t) \/ Create(t) \/ Reuse(t) \/ Take(t) \/ Sleep(t) \/ Wake(t)

Next ==
    \/ \E t \in Tasks, k \in Keys : Call(t, k)
    \/ \E t \in Tasks : AcquireStep(t) \/ Cancel(t)
    \/ \E k \in Keys : Observe(k)
    \/ Tick

Spec == Init /\ [][Next]_vars

\* Runnable threads and tasks run, a free lock is given to one that waits for
\* it (the calls are finite, so weak fairness is enough), and time passes.
Fairness == WF_vars(Tick) /\ \A t \in Tasks : WF_vars(AcquireStep(t))

-----------------------------------------------------------------------------
(* Properties.                                                             *)

\* Every variable has its type.
TypeOK ==
    /\ now \in Nat
    /\ mlock \in Tasks \cup {NoTask}
    /\ bucketOf \in [Keys -> Buckets \cup {NoBucket}]
    /\ level \in [Buckets -> 0..Full]
    /\ last  \in [Buckets -> Nat]
    /\ held  \in [Buckets -> Tasks \cup {NoTask}]
    /\ pc     \in [Tasks -> Places]
    /\ key    \in [Tasks -> Keys \cup {NoKey}]
    /\ bucket \in [Tasks -> Buckets \cup {NoBucket}]
    /\ until  \in [Tasks -> Nat]
    /\ left   \in [Tasks -> Nat]
    /\ watched \in Keys \cup {NoKey}
    /\ since \in Nat /\ granted \in Nat

\* A caller that may take a token of its key takes it from the key's one
\* bucket: two callers that meet a new key at once do not create two.
OneBucketPerKey ==
    \A t \in Tasks : pc[t] \in {"bucket", "sleep"} =>
        bucket[t] = bucketOf[key[t]] /\ bucket[t] # NoBucket

\* The most a bucket can be worth: a capacity below 1 still lets one through.
Burst == IF Full < Cost THEN Cost ELSE Full

\* "~1 req/s sustained, burst of 2" per TR: in any window of time, whenever it
\* begins, the callers of a key are granted at most the burst plus what the
\* rate refills in the window, however they interleave, oversleep or cancel.
WindowBound ==
    watched # NoKey => granted <= Burst + (now - since)

\* "Sleep (if needed) outside the manager lock": a sleeper delays only callers
\* of its own key, never the lookup of another or the bucket of another.
SleeperDelaysOnlyItsKey ==
    \A s \in Tasks : pc[s] = "sleep" =>
        /\ mlock # s
        /\ \A t \in Tasks : pc[t] = "bucket" /\ held[bucket[t]] = s => key[t] = key[s]

\* Every caller of acquire comes back, with a token or cancelled.
EveryCallerReturns == \A t \in Tasks : pc[t] = "lookup" ~> pc[t] = "idle"
=============================================================================
