------------------------- MODULE KiwoomWebSocketProofs -------------------------
(***************************************************************************)
(* Proofs about KiwoomWebSocket, for any number of connections and         *)
(* registrations: what ends listen(), and that a reconnection restores     *)
(* what the subscribe() and unsubscribe() calls have left.  The second     *)
(* rests on what the two folds over _subscriptions compute, which          *)
(* ReplayAll and ForgetOne prove for a list of any length.                 *)
(***************************************************************************)
EXTENDS KiwoomWebSocket, FoldLemmas, TLAPS

\* The part of TypeOK that is not about registrations.
LinkTypeOK ==
    /\ ws \in 0..made /\ via \in 0..made /\ made \in 0..MaxConns
    /\ running \in BOOLEAN
    /\ opener \in {"new", "connecting", "login", "up", "failed"}
    /\ listener \in ListenPlaces \cup Stops
    /\ closer \in {"idle", "closing", "done"}
    /\ open \in SUBSET (1..made)
    /\ reply \in [Conns -> {"none", "accepted", "refused", "odd"}]
    /\ frame \in FrameKinds

\* Once listen() has begun, only disconnect() clears _running or _ws; the listener has a
\* connection until it ends, and a login that is under way is that of _ws.
ListenerInv ==
    /\ listener # "idle" =>
          /\ opener = "up"
          /\ closer = "idle" => running
          /\ ws = NoConn => closer = "done"
    /\ listener \notin {"idle", "ended"} => via # NoConn
    /\ listener = "login" => via = ws \/ closer = "done"

IInv == LinkTypeOK /\ ListenerInv /\ ListenEndsForAReason

LEMMA InitInv == Init => IInv
  <1> SUFFICES ASSUME Init PROVE IInv
    OBVIOUS
  <1>1. LinkTypeOK
    <2>1. ws \in 0..made /\ via \in 0..made /\ made \in 0..MaxConns
      BY BoundsAssumption DEF Init, NoConn
    <2>2. open \in SUBSET (1..made) /\ reply \in [Conns -> {"none", "accepted", "refused", "odd"}]
      BY DEF Init
    <2> QED
      BY <2>1, <2>2 DEF Init, LinkTypeOK, ListenPlaces, FrameKinds
  <1> QED
    BY <1>1 DEF Init, IInv, ListenerInv, ListenEndsForAReason

-----------------------------------------------------------------------------
(* The steps.                                                              *)

\* connect(), and the tasks that call subscribe() and unsubscribe().
LEMMA CallerStep ==
    ASSUME IInv, OpenerStep \/ \E p \in Payloads : Subscribe(p) \/ Unsubscribe(p)
    PROVE  IInv'
  <1> USE DEF IInv, client, tasks, server
  <1>1. CASE Connected
    <2>1. listener = "idle" /\ UNCHANGED <<listener, closer, frame, reply, running>>
      BY <1>1 DEF Connected, ListenerInv
    <2>2. LinkTypeOK'
      BY <1>1, BoundsAssumption DEF Connected, Established, LinkTypeOK, ListenPlaces, Stops
    <2> QED
      BY <2>1, <2>2 DEF ListenerInv, ListenEndsForAReason
  <1>2. CASE \/ Connect \/ ConnectDone \/ ConnectFails
    BY <1>2
       DEF Connect, ConnectDone, ConnectFails, LinkTypeOK, ListenerInv, ListenEndsForAReason,
           LoggedIn, LoginRaises
  <1>3. CASE \E p \in Payloads : Subscribe(p) \/ Unsubscribe(p)
    <2>1. UNCHANGED <<ws, running, opener, listener, closer, via, frame, made, open, reply>>
      BY <1>3 DEF Subscribe, Unsubscribe
    <2> QED
      BY <2>1 DEF LinkTypeOK, ListenerInv, ListenEndsForAReason, LoggedIn, LoginRaises
  <1> QED
    BY <1>1, <1>2, <1>3 DEF OpenerStep

\* listen(), where it moves without a new connection.
LEMMA ListeningStep ==
    ASSUME IInv,
           \/ Listen \/ Dispatched \/ ConnectionLost \/ PauseOver
           \/ ReconnectFails \/ Restore \/ ListenerCancelled
           \/ \E kind \in Frames : Receive(kind)
    PROVE  IInv'
  <1> USE DEF IInv, client, tasks, server
  <1>1. UNCHANGED <<ws, opener, closer, made, open, reply>>
    BY DEF Listen, Receive, Dispatched, ConnectionLost, PauseOver, ReconnectFails, Restore,
           ListenerCancelled
  <1>2. CASE Listen
    BY <1>1, <1>2
       DEF Listen, LinkTypeOK, ListenerInv, ListenEndsForAReason, ListenPlaces, Stops
  <1>3. CASE ListenerCancelled \/ \E kind \in Frames : Receive(kind)
    BY <1>1, <1>3, FramesAssumption
       DEF Receive, ListenerCancelled, LinkTypeOK, ListenerInv, ListenEndsForAReason,
           ListenPlaces, Stops
  <1>4. CASE ConnectionLost \/ PauseOver \/ ReconnectFails
    BY <1>1, <1>4
       DEF ConnectionLost, PauseOver, ReconnectFails, Proceed, LinkTypeOK, ListenerInv,
           ListenEndsForAReason, ListenPlaces, Stops
  <1>5. CASE Dispatched \/ Restore
    <2>1. listener # "idle" /\ NextFrame /\ running' = running /\ frame' = frame
      BY <1>5 DEF Dispatched, Restore
    <2>2. CASE running /\ ws = NoConn
      <3>1. listener' = "crashed" /\ via' = via
        BY <2>1, <2>2 DEF NextFrame
      <3>2. closer # "idle"
        BY <2>1, <2>2 DEF ListenerInv
      <3>3. via # NoConn
        BY <1>5, <2>2 DEF Dispatched, Restore, ListenerInv
      <3> QED
        BY <1>1, <2>1, <2>2, <3>1, <3>2, <3>3
           DEF LinkTypeOK, ListenerInv, ListenEndsForAReason, Stops
    <2>3. CASE running /\ ws # NoConn
      <3>1. listener' = "recv" /\ via' = ws
        BY <2>1, <2>3 DEF NextFrame, Proceed
      <3> QED
        BY <1>1, <2>1, <2>3, <3>1
           DEF LinkTypeOK, ListenerInv, ListenEndsForAReason, ListenPlaces
    <2>4. CASE ~running
      <3>1. listener' = "ended" /\ via' = ws
        BY <2>1, <2>4 DEF NextFrame, Proceed
      <3> QED
        BY <1>1, <2>1, <2>4, <3>1
           DEF LinkTypeOK, ListenerInv, ListenEndsForAReason, Stops
    <2> QED
      BY <2>2, <2>3, <2>4 DEF LinkTypeOK
  <1> QED
    BY <1>2, <1>3, <1>4, <1>5

\* listen(), with a new connection, or where it raises.
LEMMA ReconnectingStep ==
    ASSUME IInv, Reconnected \/ RestoreRaises \/ ReconnectRaises \/ DispatchRaises
    PROVE  IInv'
  <1> USE DEF IInv, client, tasks, server
  <1>1. CASE Reconnected
    <2>1. /\ listener = "connecting" /\ listener' = "login"
          /\ UNCHANGED <<opener, closer, frame, reply, running>>
      BY <1>1 DEF Reconnected
    <2>2. LinkTypeOK'
      <3>1. /\ made < MaxConns /\ made' = made + 1
            /\ ws' = made + 1 /\ via' = made + 1
            /\ open' = open \cup {made + 1}
        BY <1>1 DEF Reconnected, Established
      <3>2. ws' \in 0..made' /\ via' \in 0..made' /\ made' \in 0..MaxConns
        BY <3>1, BoundsAssumption DEF LinkTypeOK
      <3>3. open' \in SUBSET (1..made')
        BY <3>1, BoundsAssumption DEF LinkTypeOK
      <3> QED
        BY <2>1, <3>2, <3>3 DEF LinkTypeOK, ListenPlaces
    <2>3. ws' = via' /\ via' # NoConn
      BY <1>1, BoundsAssumption DEF Reconnected, Established, LinkTypeOK, NoConn
    <2> QED
      BY <2>1, <2>2, <2>3 DEF ListenerInv, ListenEndsForAReason
  <1>2. CASE RestoreRaises \/ ReconnectRaises \/ DispatchRaises
    BY <1>2
       DEF RestoreRaises, ReconnectRaises, DispatchRaises, LinkTypeOK, ListenerInv,
           ListenEndsForAReason, ListenPlaces, Stops, LoggedIn, LoginRaises
  <1> QED
    BY <1>1, <1>2

\* disconnect(), the server and the network.
LEMMA OtherStep ==
    ASSUME IInv,
           \/ Disconnect \/ Disconnected
           \/ \E c \in Conns : ServerAccepts(c) \/ ServerRefuses(c) \/ ConnectionDies(c)
    PROVE  IInv'
  <1> USE DEF IInv, client, tasks, server
  <1>1. CASE Disconnect \/ Disconnected
    <2>1. /\ UNCHANGED <<opener, listener, via, frame, made, reply>>
          /\ closer' \in {"closing", "done"}
          /\ ws' = ws \/ (ws' = NoConn /\ closer' = "done")
          /\ closer = "done" => closer' = "done"
      BY <1>1 DEF Disconnect, Disconnected
    <2>2. LinkTypeOK'
      <3>1. ws' \in 0..made
        BY <2>1, BoundsAssumption DEF LinkTypeOK, NoConn
      <3>2. open' \in SUBSET (1..made) /\ running' \in BOOLEAN
        BY <1>1 DEF Disconnect, Disconnected, LinkTypeOK
      <3> QED
        BY <2>1, <3>1, <3>2 DEF LinkTypeOK
    <2> QED
      BY <2>1, <2>2 DEF ListenerInv, ListenEndsForAReason
  <1>2. ASSUME NEW c \in Conns, ServerAccepts(c) \/ ServerRefuses(c) PROVE IInv'
    <2>1. /\ UNCHANGED <<ws, running, opener, listener, closer, via, frame, made, open>>
          /\ reply' \in [Conns -> {"none", "accepted", "refused", "odd"}]
      BY <1>2, FramesAssumption DEF ServerAccepts, ServerRefuses, LinkTypeOK, FrameKinds
    <2>2. via # NoConn => (LoggedIn => LoggedIn') /\ (LoginRaises => LoginRaises')
      <3>1. via # NoConn => via \in Conns
        BY BoundsAssumption DEF LinkTypeOK, NoConn, Conns
      <3> QED
        BY <1>2, <2>1, <3>1
           DEF ServerAccepts, ServerRefuses, LoggedIn, LoginRaises, LinkTypeOK
    <2> QED
      BY <2>1, <2>2 DEF LinkTypeOK, ListenerInv, ListenEndsForAReason
  <1>3. ASSUME NEW c \in Conns, ConnectionDies(c) PROVE IInv'
    <2>1. /\ UNCHANGED <<ws, running, opener, listener, closer, via, frame, made, reply>>
          /\ open' = open \ {c}
      BY <1>3 DEF ConnectionDies
    <2> QED
      BY <2>1 DEF LinkTypeOK, ListenerInv, ListenEndsForAReason, LoggedIn, LoginRaises
  <1> QED
    BY <1>1, <1>2, <1>3

LEMMA StepInv == IInv /\ [Next]_vars => IInv'
  <1> SUFFICES ASSUME IInv, [Next]_vars PROVE IInv'
    OBVIOUS
  <1>1. CASE UNCHANGED vars
    BY <1>1
       DEF vars, client, tasks, server, IInv, LinkTypeOK, ListenerInv, ListenEndsForAReason,
           LoggedIn, LoginRaises
  <1> QED
    BY <1>1, CallerStep, ListeningStep, ReconnectingStep, OtherStep DEF Next, ListenerStep

-----------------------------------------------------------------------------
(* What the folds over _subscriptions compute.                             *)

ItemsOf(subs) == UNION {subs[i].data : i \in DOMAIN subs}

\* What k registrations leave when they are made one after the other: the items of each
\* that no later one has replaced.
KeptOf(subs, k) ==
    {i \in Items : \E m \in 1..k :
                       /\ i \in subs[m].data
                       /\ \A j \in 1..k : j > m => subs[j].refresh = "1"}

Kept(subs) == KeptOf(subs, Len(subs))

LEMMA PayloadData == \A p \in Payloads : p.data \in SUBSET Items
  BY DEF Items

LEMMA RegisterType ==
    ASSUME NEW items \in SUBSET Items, NEW p \in Payloads
    PROVE  Register(items, p) \in SUBSET Items /\ Unregister(items, p) \in SUBSET Items
  BY PayloadData DEF Register, Unregister

\* Restoring registers one payload after the other.
LEMMA ReplaySteps ==
    ASSUME subscriptions \in Seq(Payloads), NEW items \in SUBSET Items
    PROVE  \E r \in [0..Len(subscriptions) -> SUBSET Items] :
              /\ r[0] = items
              /\ \A i \in 1..Len(subscriptions) : r[i] = Register(r[i - 1], subscriptions[i])
              /\ Replay(items) = r[Len(subscriptions)]
  <1> DEFINE n == Len(subscriptions)
             A == SUBSET Items
             F == [x \in A \X (1..n) |-> Register(x[1], subscriptions[x[2]])]
             iter == CHOOSE iter : iter = [s \in SUBSET DOMAIN subscriptions |->
                        IF s = {} THEN items
                        ELSE Register(iter[s \ {Max(s)}], subscriptions[Max(s)])]
  <1>1. n \in Nat /\ DOMAIN subscriptions = 1..n /\ \A i \in 1..n : subscriptions[i] \in Payloads
    OBVIOUS
  <1>2. F \in [A \X (1..n) -> A]
    BY <1>1, RegisterType
  <1>3. PICK g \in [SUBSET (1..n) -> A] : Folds(g, n, items, F)
    <2>1. items \in A /\ n \in Nat
      OBVIOUS
    <2> HIDE DEF F, n, A, iter
    <2> QED
      BY <1>2, <2>1, FoldExists
  <1>4. \A s \in SUBSET (1..n) : s # {} =>
            F[<<g[s \ {Max(s)}], Max(s)>>] = Register(g[s \ {Max(s)}], subscriptions[Max(s)])
    <2> SUFFICES ASSUME NEW s \in SUBSET (1..n), s # {}
                 PROVE  F[<<g[s \ {Max(s)}], Max(s)>>]
                            = Register(g[s \ {Max(s)}], subscriptions[Max(s)])
      OBVIOUS
    <2>1. Max(s) \in 1..n
      BY <1>3 DEF Folds
    <2>2. g[s \ {Max(s)}] \in A
      OBVIOUS
    <2> QED
      BY <2>1, <2>2
  <1>5. g = [s \in SUBSET DOMAIN subscriptions |->
                IF s = {} THEN items ELSE Register(g[s \ {Max(s)}], subscriptions[Max(s)])]
    BY <1>1, <1>3, <1>4 DEF Folds
  <1>6. iter = [s \in SUBSET DOMAIN subscriptions |->
                IF s = {} THEN items
                ELSE Register(iter[s \ {Max(s)}], subscriptions[Max(s)])]
    BY <1>5
  <1>7. Replay(items) = iter[1..n]
    BY <1>1 DEF Replay, FoldLeft, MapThenFoldSet
  <1> HIDE DEF iter
  <1>8. FoldsWithin(iter, n, A, items, F)
    <2>1. iter[{}] = items
      BY <1>1, <1>6
    <2>2. ASSUME NEW s \in SUBSET (1..n), s # {}, iter[s \ {Max(s)}] \in A
          PROVE  iter[s] = F[<<iter[s \ {Max(s)}], Max(s)>>]
      <3>1. Max(s) \in 1..n
        BY <1>3, <2>2 DEF Folds
      <3> QED
        BY <1>1, <1>6, <2>2, <3>1
    <2> QED
      BY <2>1, <2>2 DEF FoldsWithin
  <1>9. PICK r \in [0..n -> A] : Runs(r, n, items, F, iter)
    <2>1. items \in A /\ n \in Nat
      OBVIOUS
    <2> HIDE DEF F, n, A
    <2> QED
      BY <1>2, <1>8, <2>1, FoldRuns
  <1>10. \A i \in 1..n : r[i] = Register(r[i - 1], subscriptions[i])
    <2> SUFFICES ASSUME NEW i \in 1..n PROVE r[i] = Register(r[i - 1], subscriptions[i])
      OBVIOUS
    <2>1. r[i - 1] \in A
      BY <1>1
    <2> QED
      BY <1>9, <2>1 DEF Runs
  <1>11. r[0] = items /\ r[n] = iter[1..n]
    BY <1>9 DEF Runs
  <1> HIDE DEF F
  <1> QED
    BY <1>7, <1>9, <1>10, <1>11

\* One more registration adds its items, and keeps or replaces the others.
LEMMA KeptNext ==
    ASSUME NEW subs \in Seq(Payloads), NEW k \in Nat, k < Len(subs)
    PROVE  KeptOf(subs, k + 1) = Register(KeptOf(subs, k), subs[k + 1])
  <1>1. /\ k + 1 \in 1..Len(subs) /\ subs[k + 1] \in Payloads
        /\ 1..(k + 1) = (1..k) \cup {k + 1}
        /\ \A j \in 1..k : k + 1 > j /\ ~(j > k + 1)
    OBVIOUS
  <1>2. /\ subs[k + 1].data \subseteq Items
        /\ subs[k + 1].refresh \in {"0", "1"}
    BY <1>1, PayloadData, PayloadsAssumption
  <1>3. ASSUME NEW i \in Items
        PROVE  i \in KeptOf(subs, k + 1) <=>
                  \/ i \in subs[k + 1].data
                  \/ subs[k + 1].refresh = "1" /\ i \in KeptOf(subs, k)
    <2>1. ~(k + 1 > k + 1)
      OBVIOUS
    <2> QED
      BY <1>1, <1>2, <2>1 DEF KeptOf
  <1>4. KeptOf(subs, k) \subseteq Items /\ KeptOf(subs, k + 1) \subseteq Items
    BY DEF KeptOf
  <1> QED
    BY <1>2, <1>3, <1>4 DEF Register

\* A registration that is made is the last one of the list.
LEMMA KeptAppend ==
    ASSUME NEW subs \in Seq(Payloads), NEW p \in Payloads
    PROVE  Kept(Append(subs, p)) = Register(Kept(subs), p)
  <1> DEFINE n == Len(subs)
             longer == Append(subs, p)
  <1>1. /\ n \in Nat /\ longer \in Seq(Payloads) /\ Len(longer) = n + 1 /\ longer[n + 1] = p
        /\ \A j \in 1..n : longer[j] = subs[j]
    OBVIOUS
  <1>2. KeptOf(longer, n) = KeptOf(subs, n)
    <2> HIDE DEF longer, n
    <2> QED
      BY <1>1 DEF KeptOf
  <1>3. KeptOf(longer, n + 1) = Register(KeptOf(longer, n), p)
    <2> HIDE DEF longer
    <2>1. n < Len(longer)
      BY <1>1
    <2> QED
      BY <1>1, <2>1, KeptNext
  <1> QED
    BY <1>1, <1>2, <1>3 DEF Kept

\* Restoring gives all that the registrations leave, and nothing but what they name in
\* addition to what there is.
LEMMA ReplayAll ==
    ASSUME subscriptions \in Seq(Payloads), NEW items \in SUBSET Items
    PROVE  /\ Replay(items) \in SUBSET Items
           /\ Kept(subscriptions) \subseteq Replay(items)
           /\ Replay(items) \subseteq items \cup ItemsOf(subscriptions)
  <1> DEFINE n == Len(subscriptions)
             all == items \cup ItemsOf(subscriptions)
  <1>1. PICK r \in [0..n -> SUBSET Items] :
              /\ r[0] = items
              /\ \A i \in 1..n : r[i] = Register(r[i - 1], subscriptions[i])
              /\ Replay(items) = r[n]
    BY ReplaySteps
  <1>2. /\ n \in Nat /\ DOMAIN subscriptions = 1..n
        /\ \A i \in 1..n : subscriptions[i] \in Payloads /\ subscriptions[i].data \subseteq all
    BY DEF ItemsOf
  <1> DEFINE S == {k \in 0..n : KeptOf(subscriptions, k) \subseteq r[k] /\ r[k] \subseteq all}
  <1> HIDE DEF all
  <1>3. 0 \in S
    <2>1. 1..0 = {} /\ 0 \in 0..n /\ items \subseteq all
      BY <1>2 DEF all
    <2> QED
      BY <1>1, <2>1 DEF KeptOf
  <1>4. ASSUME NEW k \in 0..n, k < n, k \in S
        PROVE  k + 1 \in S
    <2>1. k + 1 \in 1..n /\ k + 1 \in 0..n /\ (k + 1) - 1 = k
      BY <1>2, <1>4
    <2>2. r[k + 1] = Register(r[k], subscriptions[k + 1])
      BY <1>1, <2>1
    <2>3. KeptOf(subscriptions, k + 1) = Register(KeptOf(subscriptions, k), subscriptions[k + 1])
      BY <1>4, KeptNext
    <2>4. /\ Register(KeptOf(subscriptions, k), subscriptions[k + 1]) \subseteq r[k + 1]
          /\ r[k + 1] \subseteq all
      BY <1>2, <1>4, <2>1, <2>2 DEF Register
    <2> QED
      BY <2>1, <2>3, <2>4
  <1>5. n \in S
    <2> HIDE DEF S, n
    <2>1. 0..n \subseteq S
      BY <1>2, <1>3, <1>4, InductionUpTo
    <2> QED
      BY <1>2, <2>1
  <1> QED
    BY <1>1, <1>2, <1>5 DEF Kept, all

\* What is left of the list when a registration is forgotten: the other ones, and so every
\* item that was kept and is not one of its own.
LEMMA ForgetOne ==
    ASSUME subscriptions \in Seq(Payloads), NEW p \in Payloads
    PROVE  /\ Without(subscriptions, p) \in Seq(Payloads)
           /\ ToSet(Without(subscriptions, p)) = ToSet(subscriptions) \ {p}
           /\ Kept(subscriptions) \ p.data \subseteq Kept(Without(subscriptions, p))
  <1> DEFINE n == Len(subscriptions)
  <1>1. /\ Without(subscriptions, p) \in Seq(Payloads)
        /\ ToSet(Without(subscriptions, p)) = ToSet(subscriptions) \ {p}
    BY WithoutElement
  <1>2. n \in Nat /\ DOMAIN subscriptions = 1..n /\ \A i \in 1..n : subscriptions[i] \in Payloads
    OBVIOUS
  <1>3. PICK r \in [0..n -> Seq(Payloads)] : Drops(r, subscriptions, p)
    BY WithoutSteps
  <1>4. /\ r[0] = <<>>
        /\ \A i \in 1..n : r[i] = IF subscriptions[i] = p THEN r[i - 1]
                                  ELSE Append(r[i - 1], subscriptions[i])
        /\ Without(subscriptions, p) = r[n]
    BY <1>3 DEF Drops
  <1> DEFINE S == {k \in 0..n : KeptOf(subscriptions, k) \ p.data \subseteq Kept(r[k])}
  <1>5. 0 \in S
    <2>1. 1..0 = {} /\ 0 \in 0..n
      BY <1>2
    <2> QED
      BY <2>1 DEF KeptOf
  <1>6. ASSUME NEW k \in 0..n, k < n, k \in S
        PROVE  k + 1 \in S
    <2> DEFINE q == subscriptions[k + 1]
    <2>1. k + 1 \in 1..n /\ k + 1 \in 0..n /\ (k + 1) - 1 = k /\ q \in Payloads
      BY <1>2, <1>6
    <2>2. KeptOf(subscriptions, k + 1) = Register(KeptOf(subscriptions, k), q)
      BY <1>6, KeptNext
    <2>3. CASE q = p
      <3>1. r[k + 1] = r[k]
        BY <1>4, <2>1, <2>3
      <3> QED
        BY <1>6, <2>1, <2>2, <2>3, <3>1 DEF Register
    <2>4. CASE q # p
      <3>1. r[k + 1] = Append(r[k], q) /\ r[k] \in Seq(Payloads)
        BY <1>4, <2>1, <2>4
      <3>2. Kept(r[k + 1]) = Register(Kept(r[k]), q)
        BY <2>1, <3>1, KeptAppend
      <3> QED
        BY <1>6, <2>1, <2>2, <3>2 DEF Register
    <2> QED
      BY <2>3, <2>4
  <1>7. n \in S
    <2> HIDE DEF S, n
    <2>1. 0..n \subseteq S
      BY <1>2, <1>5, <1>6, InductionUpTo
    <2> QED
      BY <1>2, <2>1
  <1> QED
    BY <1>1, <1>4, <1>7 DEF Kept

\* The items of a list are those of its elements.
LEMMA ItemsOfElements ==
    ASSUME NEW subs \in Seq(Payloads)
    PROVE  ItemsOf(subs) = UNION {q.data : q \in ToSet(subs)}
  BY DEF ItemsOf, ToSet

-----------------------------------------------------------------------------
(* The registrations, the subscriptions and what was wanted.               *)

\* The part of TypeOK that is about registrations.
DataTypeOK ==
    /\ subscriptions \in Seq(Payloads)
    /\ registered \in [Conns -> SUBSET Items]
    /\ wanted \in SUBSET Items
    /\ named \in SUBSET Payloads

LEMMA InitData == Init => DataTypeOK
  BY DEF Init, DataTypeOK

\* The connection that a frame goes to is one of those made.
LEMMA OpenConns == IInv => open \subseteq Conns /\ NoConn \notin open
  BY BoundsAssumption DEF IInv, LinkTypeOK, Conns, NoConn

LEMMA DataStep == IInv /\ DataTypeOK /\ [Next]_vars => DataTypeOK'
  <1> SUFFICES ASSUME IInv, DataTypeOK, [Next]_vars PROVE DataTypeOK'
    OBVIOUS
  <1>1. ASSUME NEW p \in Payloads, Subscribe(p) PROVE DataTypeOK'
    <2>1. ws \in Conns
      BY <1>1, OpenConns DEF Subscribe, CanSend
    <2>2. /\ Register(registered[ws], p) \in SUBSET Items
          /\ wanted' \in SUBSET Items /\ named' \in SUBSET Payloads
      BY <1>1, <2>1, RegisterType DEF Subscribe, DataTypeOK
    <2>3. registered' \in [Conns -> SUBSET Items]
      BY <1>1, <2>1, <2>2 DEF Subscribe, Deliver, DataTypeOK
    <2>4. subscriptions' \in Seq(Payloads)
      BY <1>1 DEF Subscribe, DataTypeOK
    <2> QED
      BY <2>2, <2>3, <2>4 DEF DataTypeOK
  <1>2. ASSUME NEW p \in Payloads, Unsubscribe(p) PROVE DataTypeOK'
    <2>1. ws \in Conns
      BY <1>2, OpenConns DEF Unsubscribe, CanSend
    <2>2. /\ Unregister(registered[ws], p) \in SUBSET Items
          /\ wanted' \in SUBSET Items /\ named' \in SUBSET Payloads
      BY <1>2, <2>1, RegisterType DEF Unsubscribe, DataTypeOK
    <2>3. registered' \in [Conns -> SUBSET Items]
      BY <1>2, <2>1, <2>2 DEF Unsubscribe, Deliver, DataTypeOK
    <2>4. subscriptions' \in Seq(Payloads)
      BY <1>2, ForgetOne DEF Unsubscribe, DataTypeOK
    <2> QED
      BY <2>2, <2>3, <2>4 DEF DataTypeOK
  <1>3. CASE Restore
    <2>1. UNCHANGED <<subscriptions, wanted, named>>
      BY <1>3 DEF Restore, client, calls
    <2>2. CASE ws \in open
      <3>1. ws \in Conns
        BY <2>2, OpenConns
      <3>2. Replay(registered[ws]) \in SUBSET Items
        BY <3>1, ReplayAll DEF DataTypeOK
      <3>3. registered' \in [Conns -> SUBSET Items]
        BY <1>3, <2>2, <3>1, <3>2 DEF Restore, DataTypeOK
      <3> QED
        BY <2>1, <3>3 DEF DataTypeOK
    <2>3. CASE ws \notin open
      BY <1>3, <2>1, <2>3 DEF Restore, DataTypeOK
    <2> QED
      BY <2>2, <2>3
  <1>4. CASE \/ OpenerStep \/ Listen \/ Dispatched \/ DispatchRaises \/ ConnectionLost
             \/ PauseOver \/ Reconnected \/ ReconnectFails \/ ReconnectRaises
             \/ RestoreRaises \/ ListenerCancelled \/ Disconnect \/ Disconnected
             \/ \E kind \in Frames : Receive(kind)
             \/ \E c \in Conns : ServerAccepts(c) \/ ServerRefuses(c) \/ ConnectionDies(c)
             \/ UNCHANGED vars
    <2>1. UNCHANGED <<subscriptions, registered, wanted, named>>
      BY <1>4
         DEF OpenerStep, Connect, Connected, ConnectDone, ConnectFails, Listen, Receive,
             Dispatched, DispatchRaises, ConnectionLost, PauseOver, Reconnected,
             ReconnectFails, ReconnectRaises, RestoreRaises, ListenerCancelled, Disconnect,
             Disconnected, ServerAccepts, ServerRefuses, ConnectionDies, vars, client,
             server, calls
    <2> QED
      BY <2>1 DEF DataTypeOK
  <1> QED
    BY <1>1, <1>2, <1>3, <1>4 DEF Next, ListenerStep

\* A connection has registrations only once its login was accepted.
ServerInv ==
    \A c \in Conns :
        /\ made < c => reply[c] = "none"
        /\ reply[c] # "accepted" => registered[c] = {}

\* Sending _subscriptions again gives everything wanted; what a registration in it names is
\* wanted unless a call about another one has taken it back.
WantedInv ==
    /\ wanted \subseteq Kept(subscriptions)
    /\ ToSet(subscriptions) \subseteq named
    /\ \A p \in ToSet(subscriptions) : \A i \in p.data : i \in wanted \/ Overlapping(i)
    /\ opener # "up" => subscriptions = <<>>

\* Nobody is on the way to another connection.
Receiving == opener = "up" /\ listener \in {"idle", "recv", "dispatch"}

\* The connection that logs in or is received from is that of _ws.
LoginInv == opener = "login" \/ Receiving \/ listener = "login" => ws \in {via, NoConn}

\* The connection of _ws never has more registered than the list names, and all that is
\* wanted unless another connection is on its way.
RegisteredInv ==
    ws # NoConn =>
        /\ registered[ws] \subseteq ItemsOf(subscriptions)
        /\ Receiving => reply[ws] = "accepted" /\ wanted \subseteq registered[ws]

SyncInv == ServerInv /\ WantedInv /\ LoginInv /\ RegisteredInv

\* Nothing is registered before the first call.
LEMMA NothingYet == /\ Kept(<<>>) = {} /\ ItemsOf(<<>>) = {}
                    /\ ToSet(<<>>) = {}
  <1>1. 1..0 = {} /\ Len(<<>>) = 0 /\ DOMAIN <<>> = {}
    OBVIOUS
  <1> QED
    BY <1>1 DEF Kept, KeptOf, ItemsOf, ToSet

LEMMA InitSync == Init => SyncInv
  BY NothingYet DEF Init, SyncInv, ServerInv, WantedInv, LoginInv, RegisteredInv, Receiving

\* What overlaps goes on overlapping.
LEMMA OverlappingStays ==
    ASSUME named \subseteq named'
    PROVE  \A i : Overlapping(i) => Overlapping(i)'
  BY DEF Overlapping

\* subscribe() and unsubscribe() keep the list and what is wanted in step.
LEMMA CallWanted ==
    ASSUME DataTypeOK, WantedInv, NEW p \in Payloads, Subscribe(p) \/ Unsubscribe(p)
    PROVE  WantedInv'
  <1>1. named' = named \cup {p} /\ opener' = opener /\ opener = "up"
    BY DEF Subscribe, Unsubscribe, CanSend, tasks
  <1>2. \A i : Overlapping(i) => Overlapping(i)'
    BY <1>1, OverlappingStays
  <1>3. \A q \in ToSet(subscriptions) : q # p =>
           \A i \in q.data : i \in p.data \/ p.refresh = "0" => Overlapping(i)'
    BY <1>1 DEF Overlapping, WantedInv
  <1>4. p.refresh \in {"0", "1"}
    BY PayloadsAssumption
  <1>5. CASE Subscribe(p)
    <2>1. /\ subscriptions' = Append(subscriptions, p)
          /\ wanted' = Register(wanted, p)
      BY <1>5 DEF Subscribe
    <2>2. wanted' \subseteq Kept(subscriptions')
      <3>1. Kept(subscriptions') = Register(Kept(subscriptions), p)
        BY <2>1, KeptAppend DEF DataTypeOK
      <3> QED
        BY <2>1, <3>1 DEF Register, WantedInv
    <2>3. ToSet(subscriptions') = ToSet(subscriptions) \cup {p}
      BY <2>1, AppendElements DEF DataTypeOK
    <2>4. ASSUME NEW q \in ToSet(subscriptions'), NEW i \in q.data
          PROVE  i \in wanted' \/ Overlapping(i)'
      <3>1. CASE q = p
        BY <2>1, <2>4, <3>1 DEF Register
      <3>2. CASE q # p
        <4>1. i \in wanted \/ Overlapping(i)
          BY <2>3, <2>4, <3>2 DEF WantedInv
        <4>2. i \in wanted /\ p.refresh = "1" => i \in wanted'
          BY <2>1 DEF Register
        <4> QED
          BY <1>2, <1>3, <1>4, <2>3, <2>4, <3>2, <4>1, <4>2
      <3> QED
        BY <3>1, <3>2
    <2> QED
      BY <1>1, <2>2, <2>3, <2>4 DEF WantedInv
  <1>6. CASE Unsubscribe(p)
    <2>1. /\ subscriptions' = Without(subscriptions, p)
          /\ wanted' = wanted \ p.data
      BY <1>6 DEF Unsubscribe, Unregister
    <2>2. wanted' \subseteq Kept(subscriptions')
      BY <2>1, ForgetOne DEF DataTypeOK, WantedInv
    <2>3. ToSet(subscriptions') = ToSet(subscriptions) \ {p}
      BY <2>1, ForgetOne DEF DataTypeOK
    <2>4. ASSUME NEW q \in ToSet(subscriptions'), NEW i \in q.data
          PROVE  i \in wanted' \/ Overlapping(i)'
      <3>1. i \in wanted \/ Overlapping(i)
        BY <2>3, <2>4 DEF WantedInv
      <3> QED
        BY <1>2, <1>3, <2>1, <2>3, <2>4, <3>1
    <2> QED
      BY <1>1, <2>2, <2>3, <2>4 DEF WantedInv
  <1> QED
    BY <1>5, <1>6

\* subscribe() and unsubscribe() keep the server in step with the list.
LEMMA CallSync ==
    ASSUME IInv, DataTypeOK, SyncInv, NEW p \in Payloads, Subscribe(p) \/ Unsubscribe(p)
    PROVE  SyncInv'
  <1>1. /\ UNCHANGED <<ws, opener, listener, via, made, reply>>
        /\ opener = "up" /\ ws \in Conns /\ ws # NoConn /\ ws \in 1..made
    BY OpenConns DEF Subscribe, Unsubscribe, CanSend, tasks, IInv, LinkTypeOK
  <1>2. WantedInv'
    BY CallWanted DEF SyncInv
  <1>3. \/ /\ wanted' = Register(wanted, p) /\ Deliver(Register(registered[ws], p))
           /\ ItemsOf(subscriptions') = ItemsOf(subscriptions) \cup p.data
        \/ /\ wanted' = wanted \ p.data /\ Deliver(registered[ws] \ p.data)
           /\ ItemsOf(subscriptions) \ p.data \subseteq ItemsOf(subscriptions')
    <2>1. CASE Subscribe(p)
      <3>1. /\ subscriptions' \in Seq(Payloads)
            /\ ToSet(subscriptions') = ToSet(subscriptions) \cup {p}
        BY <2>1, AppendElements DEF Subscribe, DataTypeOK
      <3>2. ItemsOf(subscriptions') = ItemsOf(subscriptions) \cup p.data
        BY <3>1, ItemsOfElements DEF DataTypeOK
      <3> QED
        BY <2>1, <3>2 DEF Subscribe
    <2>2. CASE Unsubscribe(p)
      <3>1. /\ subscriptions' \in Seq(Payloads)
            /\ ToSet(subscriptions') = ToSet(subscriptions) \ {p}
        BY <2>2, ForgetOne DEF Unsubscribe, DataTypeOK
      <3>2. ItemsOf(subscriptions) \ p.data \subseteq ItemsOf(subscriptions')
        BY <3>1, ItemsOfElements DEF DataTypeOK
      <3> QED
        BY <2>2, <3>2 DEF Unsubscribe, Unregister
    <2> QED
      BY <2>1, <2>2
  <1>4. /\ \A c \in Conns : c # ws => registered'[c] = registered[c]
        /\ reply[ws] # "accepted" => registered'[ws] = registered[ws]
        /\ reply[ws] = "accepted" =>
              \/ /\ wanted' = Register(wanted, p)
                 /\ registered'[ws] = Register(registered[ws], p)
                 /\ ItemsOf(subscriptions') = ItemsOf(subscriptions) \cup p.data
              \/ /\ wanted' = wanted \ p.data /\ registered'[ws] = registered[ws] \ p.data
                 /\ ItemsOf(subscriptions) \ p.data \subseteq ItemsOf(subscriptions')
    BY <1>1, <1>3 DEF Deliver, DataTypeOK
  <1>5. ServerInv'
    BY <1>1, <1>4 DEF SyncInv, ServerInv
  <1>6. LoginInv'
    BY <1>1 DEF SyncInv, LoginInv, Receiving
  <1>7. RegisteredInv'
    <2>1. CASE reply[ws] = "accepted"
      <3>1. registered'[ws] \subseteq ItemsOf(subscriptions')
        BY <1>1, <1>4, <2>1 DEF SyncInv, RegisteredInv, Register
      <3>2. Receiving => wanted' \subseteq registered'[ws]
        BY <1>1, <1>4, <2>1 DEF SyncInv, RegisteredInv, Register
      <3> QED
        BY <1>1, <2>1, <3>1, <3>2 DEF RegisteredInv, Receiving
    <2>2. CASE reply[ws] # "accepted"
      <3>1. registered'[ws] = {}
        BY <1>1, <1>4, <2>2 DEF SyncInv, ServerInv
      <3> QED
        BY <1>1, <2>2, <3>1 DEF SyncInv, RegisteredInv, Receiving
    <2> QED
      BY <2>1, <2>2
  <1> QED
    BY <1>2, <1>5, <1>6, <1>7 DEF SyncInv

\* A connection is new: nothing is registered on it.
LEMMA EstablishedSync ==
    ASSUME IInv, SyncInv, Connected \/ Reconnected
    PROVE  SyncInv'
  <1>1. /\ made < MaxConns /\ made' = made + 1 /\ ws' = made + 1 /\ via' = made + 1
        /\ UNCHANGED <<subscriptions, reply, registered, wanted, named>>
    BY DEF Connected, Reconnected, Established, calls
  <1>2. /\ made \in Nat /\ ws' \in Conns /\ made < ws'
    BY <1>1, BoundsAssumption DEF IInv, LinkTypeOK, Conns
  <1>3. registered[ws'] = {}
    BY <1>2 DEF SyncInv, ServerInv
  <1>4. ~Receiving'
    BY DEF Connected, Reconnected, Receiving, IInv, ListenerInv
  <1>5. opener' # "up" => opener # "up"
    BY DEF Connected, Reconnected
  <1>6. \A c \in Conns : made' < c => made < c
    BY <1>1, <1>2 DEF Conns
  <1>7. WantedInv'
    BY <1>1, <1>5 DEF SyncInv, WantedInv, Overlapping
  <1> QED
    BY <1>1, <1>3, <1>4, <1>6, <1>7 DEF SyncInv, ServerInv, LoginInv, RegisteredInv

\* The registrations are sent again.
LEMMA RestoreSync ==
    ASSUME IInv, DataTypeOK, SyncInv, Restore
    PROVE  SyncInv'
  <1>1. /\ UNCHANGED <<ws, subscriptions, opener, made, reply, wanted, named>>
        /\ listener = "login" /\ opener = "up" /\ NextFrame /\ reply[via] = "accepted"
    BY DEF Restore, client, calls, LoggedIn, IInv, ListenerInv
  <1>2. ws # NoConn => ws \in Conns /\ ws = via
    BY <1>1, BoundsAssumption DEF SyncInv, LoginInv, IInv, LinkTypeOK, Conns, NoConn
  <1>3. /\ \A c \in Conns : c # ws => registered'[c] = registered[c]
        /\ ws # NoConn => /\ wanted \subseteq registered'[ws]
                          /\ registered'[ws] \subseteq ItemsOf(subscriptions)
    <2>1. CASE ws \in open
      <3>1. ws \in Conns /\ ws # NoConn
        BY <2>1, OpenConns
      <3>2. /\ Kept(subscriptions) \subseteq Replay(registered[ws])
            /\ Replay(registered[ws]) \subseteq registered[ws] \cup ItemsOf(subscriptions)
        BY <3>1, ReplayAll DEF DataTypeOK
      <3>3. /\ wanted \subseteq Kept(subscriptions)
            /\ registered[ws] \subseteq ItemsOf(subscriptions)
        BY <3>1 DEF SyncInv, WantedInv, RegisteredInv
      <3>4. registered' = [registered EXCEPT ![ws] = Replay(registered[ws])]
        BY <2>1 DEF Restore
      <3> QED
        BY <3>1, <3>2, <3>3, <3>4 DEF DataTypeOK
    <2>2. CASE ws \notin open
      <3>1. subscriptions = <<>> /\ registered' = registered
        BY <2>2 DEF Restore
      <3>2. wanted = {}
        BY <3>1, NothingYet DEF SyncInv, WantedInv
      <3> QED
        BY <3>1, <3>2 DEF SyncInv, RegisteredInv
    <2> QED
      BY <2>1, <2>2
  <1>4. ServerInv'
    BY <1>1, <1>2, <1>3 DEF SyncInv, ServerInv, Conns, NoConn
  <1>5. WantedInv'
    BY <1>1 DEF SyncInv, WantedInv, Overlapping
  <1>6. LoginInv'
    BY <1>1 DEF NextFrame, Proceed, LoginInv, Receiving
  <1>7. RegisteredInv'
    BY <1>1, <1>2, <1>3 DEF RegisteredInv
  <1> QED
    BY <1>4, <1>5, <1>6, <1>7 DEF SyncInv

\* The other steps leave the registrations as they are.
LEMMA OtherSync ==
    ASSUME IInv, SyncInv,
           \/ Connect \/ ConnectDone \/ ConnectFails \/ Listen \/ Dispatched
           \/ DispatchRaises \/ ConnectionLost \/ PauseOver \/ ReconnectFails
           \/ ReconnectRaises \/ RestoreRaises \/ ListenerCancelled
           \/ Disconnect \/ Disconnected
           \/ \E kind \in Frames : Receive(kind)
           \/ \E c \in Conns : ServerAccepts(c) \/ ServerRefuses(c) \/ ConnectionDies(c)
    PROVE  SyncInv'
  <1> USE DEF client, tasks, server, calls
  <1>1. UNCHANGED <<subscriptions, registered, wanted, named, made>>
    BY DEF Connect, ConnectDone, ConnectFails, Listen, Receive, Dispatched, DispatchRaises,
           ConnectionLost, PauseOver, ReconnectFails, ReconnectRaises, RestoreRaises,
           ListenerCancelled, Disconnect, Disconnected, ServerAccepts, ServerRefuses,
           ConnectionDies
  <1>0. (opener' # "up" => opener # "up") => WantedInv'
    BY <1>1 DEF SyncInv, WantedInv, Overlapping
  <1>2. CASE Connect \/ ConnectFails
    BY <1>0, <1>1, <1>2
       DEF Connect, ConnectFails, IInv, ListenerInv, SyncInv, ServerInv, LoginInv,
           RegisteredInv, Receiving
  <1>3. CASE ConnectDone
    <2>1. /\ opener = "login" /\ opener' = "up" /\ reply[via] = "accepted" /\ listener = "idle"
          /\ UNCHANGED <<ws, listener, via, reply>>
      BY <1>3 DEF ConnectDone, LoggedIn, IInv, ListenerInv
    <2>2. wanted = {}
      BY <2>1, NothingYet DEF SyncInv, WantedInv
    <2> QED
      BY <1>0, <1>1, <2>1, <2>2
         DEF SyncInv, ServerInv, LoginInv, RegisteredInv, Receiving
  <1>4. CASE Listen \/ Dispatched \/ \E kind \in Frames : Receive(kind)
    <2>1. /\ Receiving /\ UNCHANGED <<ws, opener, reply>>
          /\ listener' # "login"
          /\ via' = ws \/ (via' = via /\ Receiving)
      BY <1>4 DEF Listen, Receive, Dispatched, NextFrame, Proceed, Receiving, IInv, ListenerInv
    <2> QED
      BY <1>0, <1>1, <2>1 DEF SyncInv, ServerInv, LoginInv, RegisteredInv, Receiving
  <1>5. CASE \/ DispatchRaises \/ ConnectionLost \/ PauseOver \/ ReconnectFails
             \/ ReconnectRaises \/ RestoreRaises \/ ListenerCancelled
    <2>1. /\ UNCHANGED <<ws, opener, reply, via>>
          /\ listener' \notin {"idle", "recv", "dispatch", "login"} /\ opener = "up"
      BY <1>5
         DEF DispatchRaises, ConnectionLost, PauseOver, ReconnectFails, ReconnectRaises,
             RestoreRaises, ListenerCancelled, Proceed, IInv, ListenerInv
    <2> QED
      BY <1>0, <1>1, <2>1 DEF SyncInv, ServerInv, LoginInv, RegisteredInv, Receiving
  <1>6. CASE Disconnect \/ Disconnected
    <2>1. UNCHANGED <<opener, listener, reply, via>> /\ ws' \in {ws, NoConn}
      BY <1>6 DEF Disconnect, Disconnected
    <2> QED
      BY <1>0, <1>1, <2>1 DEF SyncInv, ServerInv, LoginInv, RegisteredInv, Receiving
  <1>7. ASSUME NEW c \in Conns, ServerAccepts(c) \/ ServerRefuses(c) \/ ConnectionDies(c)
        PROVE  SyncInv'
    <2>1. /\ UNCHANGED <<ws, opener, listener, via>>
          /\ c \in open
          /\ \A d \in Conns : reply'[d] = reply[d] \/ (d = c /\ reply[d] = "none")
      BY <1>7 DEF ServerAccepts, ServerRefuses, ConnectionDies, IInv, LinkTypeOK
    <2>2. ServerInv'
      <3>1. ~(made < c)
        BY <2>1 DEF IInv, LinkTypeOK
      <3> QED
        BY <1>1, <2>1, <3>1 DEF SyncInv, ServerInv
    <2>3. RegisteredInv'
      <3>1. ws # NoConn => ws \in Conns
        BY BoundsAssumption DEF IInv, LinkTypeOK, Conns, NoConn
      <3> QED
        BY <1>1, <2>1, <3>1 DEF SyncInv, RegisteredInv, Receiving
    <2> QED
      BY <1>0, <1>1, <2>1, <2>2, <2>3 DEF SyncInv, LoginInv, Receiving
  <1> QED
    BY <1>2, <1>3, <1>4, <1>5, <1>6, <1>7

LEMMA SyncStep == IInv /\ DataTypeOK /\ SyncInv /\ [Next]_vars => SyncInv'
  <1> SUFFICES ASSUME IInv, DataTypeOK, SyncInv, [Next]_vars PROVE SyncInv'
    OBVIOUS
  <1>1. CASE UNCHANGED vars
    BY <1>1
       DEF vars, client, tasks, server, calls, SyncInv, ServerInv, WantedInv, LoginInv,
           RegisteredInv, Receiving, Overlapping
  <1> QED
    BY <1>1, CallSync, EstablishedSync, RestoreSync, OtherSync
       DEF Next, OpenerStep, ListenerStep

-----------------------------------------------------------------------------
(* The theorems.                                                           *)

\* IInv holds in every reachable state.
THEOREM Inductive == Spec => []IInv
  BY InitInv, StepInv, PTL DEF Spec

\* listen() returns only after disconnect(), and raises only after disconnect(), when the
\* connection is lost right behind its login, or over a frame or a LOGIN reply of a form the
\* code does not expect: however many connections are refused or lost.
THEOREM ListenEnds == Spec => []ListenEndsForAReason
  BY Inductive, PTL DEF IInv

\* listen() never waits on None: it is receiving from a connection until it ends.
THEOREM ListenerIsConnected == Spec => [](listener \notin {"idle", "ended"} => via # NoConn)
  <1>1. IInv => (listener \notin {"idle", "ended"} => via # NoConn)
    BY DEF IInv, ListenerInv
  <1> QED
    BY <1>1, Inductive, PTL

\* Every variable has its type, the registrations included, and listen() never receives
\* from None: for payloads of any kind.
THEOREM TypeCorrect == Spec => []TypeOK
  <1>1. IInv /\ DataTypeOK => TypeOK
    BY DEF IInv, LinkTypeOK, ListenerInv, DataTypeOK, TypeOK
  <1> QED
    BY <1>1, Inductive, InitData, DataStep, PTL DEF Spec

\* "Restores subscriptions after a reconnect": whenever listen() receives from an open
\* connection, the server has registered everything the calls have left, and nothing else
\* but items that calls about two different registrations named or replaced: for
\* registrations of any kind, and any number of lost connections.
THEOREM SubscriptionsAreRestored == Spec => []SubscriptionsSurvive
  <1>1. IInv /\ DataTypeOK /\ SyncInv => SubscriptionsSurvive
    <2> SUFFICES ASSUME IInv, DataTypeOK, SyncInv, Settled
                 PROVE  /\ wanted \subseteq registered[ws]
                        /\ \A i \in registered[ws] \ wanted : Overlapping(i)
      BY DEF SubscriptionsSurvive
    <2>1. Receiving /\ ws # NoConn
      BY OpenConns DEF Settled, Receiving, IInv, ListenerInv
    <2>2. wanted \subseteq registered[ws] /\ registered[ws] \subseteq ItemsOf(subscriptions)
      BY <2>1 DEF SyncInv, RegisteredInv
    <2>3. ASSUME NEW i \in ItemsOf(subscriptions) PROVE i \in wanted \/ Overlapping(i)
      <3>1. PICK p \in ToSet(subscriptions) : i \in p.data
        BY ItemsOfElements DEF DataTypeOK
      <3> QED
        BY <3>1 DEF SyncInv, WantedInv
    <2> QED
      BY <2>2, <2>3
  <1>2. Init => SyncInv
    BY InitSync
  <1>3. IInv /\ DataTypeOK /\ SyncInv /\ [Next]_vars => SyncInv'
    BY SyncStep
  <1> QED
    BY <1>1, <1>2, <1>3, Inductive, InitData, DataStep, PTL DEF Spec
=============================================================================
