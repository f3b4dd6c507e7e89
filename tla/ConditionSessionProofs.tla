------------------------- MODULE ConditionSessionProofs -------------------------
(***************************************************************************)
(* Proofs about ConditionSession, for any calls with any keys and any      *)
(* number of sockets: what is left in _pending, and that a reply reaches   *)
(* its call unless the call was open at once with one alike.               *)
(***************************************************************************)
EXTENDS ConditionSession, TLAPS

\* A future in the table is waited for, or is that of a call that was
\* cancelled or could not send; the future of a resolved call has been popped.
PendingInv ==
    /\ \A k \in Keys : pending[k] # NoCall =>
          \/ pc[pending[k]] = "waiting"
          \/ /\ pc[pending[k]] = "done"
             /\ result[pending[k]] \in {"cancelled", "send_error"}
    /\ \A c \in Calls : answer[c] # NoCall =>
          pc[c] \in {"waiting", "done"} /\ pending[Key(c)] # c

\* Two open calls that are alike have both been noted.
OpenInv ==
    \A c, d \in Calls :
        c # d /\ Open(c) /\ Open(d) /\ Alike(c, d) => c \in clashed /\ d \in clashed

\* The future of a call that waits, and was not open with one alike, is in the table, unless
\* resolved.
StoredInv ==
    \A c \in Calls \ clashed :
        pc[c] = "waiting" /\ answer[c] = NoCall => pending[Key(c)] = c

\* A request is on its way, answered or handled only once, after it was sent and its trnm
\* got a callback; it is resolved by a reply that has been handled, once it was sent.
RouteInv ==
    /\ asked \cap wire = {} /\ asked \cap handled = {} /\ wire \cap handled = {}
    /\ \A c \in Calls : pc[c] # "done" => result[c] = "none"
    /\ \A c \in asked \cup wire \cup handled :
          /\ pc[c] \in {"waiting", "done"} /\ result[c] # "send_error"
          /\ dispatcher[TrnmOf[c]] # 0
    /\ \A c \in Calls : answer[c] # NoCall =>
          answer[c] \in handled /\ pc[c] \in {"waiting", "done"}

SessionInv == OpenInv /\ StoredInv /\ RouteInv /\ LoneReplyReachesItsCall

\* The steps of a call.
CallStep(c) ==
    \/ Request(c) \/ BeginConnect(c) \/ Connected(c) \/ ConnectFails(c)
    \/ WaitEnds(c) \/ Cancel(c) \/ Handle(c) \/ ServerReplies(c)

-----------------------------------------------------------------------------

\* The keys of a call are keys of the table.
LEMMA KeysOf == \A c \in Calls : Key(c) \in Keys /\ Fallback(c) \in Keys /\ TrnmOf[c] \in Trnms
  BY DEF Keys, Trnms

\* Every variable keeps its type, and a future its key.
LEMMA TypeStep ==
    ASSUME TypeOK, [Next]_vars
    PROVE  TypeOK'
<1> USE CallsAssumption, BoundAssumption, KeysOf
         DEF TypeOK, Sockets, session, calls, sockets, server, ghosts
<1>1. ASSUME NEW c \in Calls, CallStep(c) PROVE TypeOK'
  <2>1. CASE Request(c)
    BY <2>1 DEF Request, Send, SendSilently, SendAndWait, SendRaises, EnsureDispatcher, Store, NoteClash,
           Rivals, End
  <2>2. CASE BeginConnect(c)
    BY <2>2 DEF BeginConnect
  <2>3. CASE Connected(c)
    BY <2>3 DEF Connected, Send, SendSilently, SendAndWait, SendRaises, EnsureDispatcher, Store, NoteClash,
           Rivals, End
  <2>4. CASE ConnectFails(c)
    BY <2>4 DEF ConnectFails, End
  <2>5. CASE Return(c)
    BY <2>5 DEF Return, End
  <2>6. CASE Timeout(c)
    BY <2>6 DEF Timeout, End
  <2>7. CASE Cancel(c)
    BY <2>7 DEF Cancel, End
  <2>8. CASE Handle(c)
    BY <2>8 DEF Handle, Dispatch, Unresolved
  <2>9. CASE ServerReplies(c)
    BY <2>9 DEF ServerReplies
  <2> QED BY <1>1, <2>1, <2>2, <2>3, <2>4, <2>5, <2>6, <2>7, <2>8, <2>9 DEF CallStep, WaitEnds
<1>2. ASSUME NEW s \in Sockets, LinkGoesDown(s) PROVE TypeOK'
  BY <1>2 DEF LinkGoesDown
<1>3. ASSUME NEW s \in Sockets, LinkComesUp(s) PROVE TypeOK'
  BY <1>3 DEF LinkComesUp
<1>4. ASSUME NEW s \in Sockets, ListenerCrashes(s) PROVE TypeOK'
  BY <1>4 DEF ListenerCrashes
<1>5. ASSUME Close PROVE TypeOK'
  BY <1>5 DEF Close
<1>6. CASE UNCHANGED vars BY <1>6 DEF vars
<1> QED BY <1>1, <1>2, <1>3, <1>4, <1>5, <1>6 DEF Next, CallStep

\* Registering and sending keep the table in order.
LEMMA PendingSend ==
    ASSUME TypeOK, PendingInv,
           NEW c \in Calls, pc[c] \in {"idle", "connecting"},
           NEW s, NEW usable, Send(c, s, usable)
    PROVE  PendingInv'
<1> USE CallsAssumption, KeysOf DEF TypeOK, PendingInv, Store, EnsureDispatcher, End,
            session, calls, sockets, server, ghosts
<1>1. CASE SendSilently(c, s, usable) BY <1>1 DEF Send, SendSilently
<1>2. CASE SendAndWait(c, s, usable) BY <1>2 DEF Send, SendAndWait
<1>3. CASE SendRaises(c, s, usable) BY <1>3 DEF Send, SendRaises
<1> QED BY <1>1, <1>2, <1>3 DEF Send

\* What leaves a future behind.
LEMMA PendingStep ==
    ASSUME TypeOK, TypeOK', PendingInv, [Next]_vars
    PROVE  PendingInv'
<1> USE CallsAssumption, KeysOf
         DEF TypeOK, PendingInv, session, calls, sockets, server, ghosts
<1>1. ASSUME NEW c \in Calls, CallStep(c) PROVE PendingInv'
  <2>1. CASE Request(c)
    BY <2>1, PendingSend DEF Request
  <2>2. CASE BeginConnect(c)
    BY <2>2 DEF BeginConnect
  <2>3. CASE Connected(c)
    <3>1. PICK usable \in BOOLEAN : Send(c, made + 1, usable) BY <2>3 DEF Connected
    <3> QED BY <2>3, <3>1, PendingSend DEF Connected
  <2>4. CASE ConnectFails(c)
    BY <2>4 DEF ConnectFails, End
  <2>5. CASE Return(c)
    BY <2>5 DEF Return, End
  <2>6. CASE Timeout(c)
    BY <2>6 DEF Timeout, End
  <2>7. CASE Cancel(c)
    BY <2>7 DEF Cancel, End
  <2>8. CASE Handle(c)
    BY <2>8 DEF Handle, Dispatch, Unresolved
  <2>9. CASE ServerReplies(c)
    BY <2>9 DEF ServerReplies
  <2> QED BY <1>1, <2>1, <2>2, <2>3, <2>4, <2>5, <2>6, <2>7, <2>8, <2>9 DEF CallStep, WaitEnds
<1>2. ASSUME NEW s \in Sockets, LinkGoesDown(s) PROVE PendingInv'
  BY <1>2 DEF LinkGoesDown
<1>3. ASSUME NEW s \in Sockets, LinkComesUp(s) PROVE PendingInv'
  BY <1>3 DEF LinkComesUp
<1>4. ASSUME NEW s \in Sockets, ListenerCrashes(s) PROVE PendingInv'
  BY <1>4 DEF ListenerCrashes
<1>5. ASSUME Close PROVE PendingInv'
  BY <1>5 DEF Close
<1>6. CASE UNCHANGED vars BY <1>6 DEF vars
<1> QED BY <1>1, <1>2, <1>3, <1>4, <1>5, <1>6 DEF Next, CallStep

\* The invariant holds at first.
LEMMA InitInv == Init => TypeOK /\ PendingInv
<1> SUFFICES ASSUME Init PROVE TypeOK /\ PendingInv OBVIOUS
<1>1. TypeOK
  <2>1. pending \in [Keys -> Calls \cup {NoCall}] /\ dispatcher \in [Trnms -> 0..made]
    BY DEF Init
  <2>2. /\ pc \in [Calls -> {"idle", "connecting", "waiting", "done"}]
        /\ socket \in [Calls -> 0..made] /\ answer \in [Calls -> Calls \cup {NoCall}]
        /\ result \in [Calls -> {"none", "sent", "send_error", "connect_error",
                                "reply", "timeout", "cancelled"}]
    BY DEF Init
  <2>3. \A k \in Keys : pending[k] # NoCall => Key(pending[k]) = k
    BY DEF Init
  <2>4. made \in 0..MaxSockets /\ ws \in 0..made
    BY BoundAssumption DEF Init
  <2>5. closed \in BOOLEAN
    BY DEF Init
  <2>6. /\ up \in SUBSET (1..made) /\ listening \in SUBSET (1..made)
        /\ asked \in SUBSET (Calls \ Silent) /\ wire \in SUBSET (Calls \ Silent)
        /\ handled \in SUBSET (Calls \ Silent) /\ late \in SUBSET handled
        /\ clashed \in SUBSET Calls
    BY DEF Init
  <2> QED BY <2>1, <2>2, <2>3, <2>4, <2>5, <2>6 DEF TypeOK
<1>2. PendingInv BY KeysOf DEF Init, PendingInv
<1> QED BY <1>1, <1>2

\* For any calls, even with equal keys, and any number of sockets.
THEOREM Inductive == Spec => [](TypeOK /\ PendingInv)
<1>1. TypeOK /\ PendingInv /\ [Next]_vars => (TypeOK /\ PendingInv)'
  BY TypeStep, PendingStep
<1> QED BY InitInv, <1>1, PTL DEF Spec

\* Every variable keeps its type.
THEOREM TypeCorrect == Spec => []TypeOK
<1> QED BY Inductive, PTL

\* When no call is under way, the futures left are those of calls that were
\* cancelled or could not send, whatever timed out, came late or crashed.
THEOREM TableDrains == Spec => []PendingDrains
<1>1. TypeOK /\ PendingInv => PendingDrains
  BY DEF TypeOK, PendingInv, PendingDrains
<1> QED BY Inductive, <1>1, PTL

-----------------------------------------------------------------------------

\* Calls with one key, or one with the fallback key of the other, are alike.
LEMMA AlikeKeys ==
    ASSUME NEW c \in Calls, NEW d \in Calls
    PROVE  /\ Key(c) = Key(d) => Alike(c, d) /\ Alike(d, c)
           /\ Fallback(c) = Key(d) => Alike(c, d) /\ Alike(d, c)
           /\ Alike(c, d) <=> Alike(d, c)
  BY DEF Key, Fallback, Alike

\* Registering and sending: what becomes open and is alike is noted.
LEMMA SendKeeps ==
    ASSUME TypeOK, SessionInv,
           NEW c \in Calls, pc[c] \in {"idle", "connecting"},
           NEW s \in Nat \ {0}, NEW usable, Send(c, s, usable)
    PROVE  SessionInv'
<1> USE CallsAssumption, KeysOf DEF TypeOK, End, ghosts
<1>1. c \notin asked \cup wire \cup handled /\ answer[c] = NoCall
  BY DEF SessionInv, RouteInv
<1>2. /\ UNCHANGED <<answer, wire, handled, late>>
      /\ socket' = [socket EXCEPT ![c] = s]
  BY DEF Send
<1>3. CASE SendSilently(c, s, usable)
  <2>1. /\ UNCHANGED <<pending, dispatcher, asked, clashed>>
        /\ pc' = [pc EXCEPT ![c] = "done"] /\ c \in Silent
        /\ \A d \in Calls : d # c => result'[d] = result[d]
        /\ result'[c] \in {"sent", "send_error"}
    BY <1>3 DEF SendSilently
  <2>2. \A d \in Calls : Open(d)' => Open(d)
    BY <1>2, <2>1 DEF Open
  <2>3. OpenInv'
    BY <2>1, <2>2 DEF SessionInv, OpenInv, Alike
  <2>4. StoredInv'
    BY <1>2, <2>1 DEF SessionInv, StoredInv
  <2>5. RouteInv'
    BY <1>1, <1>2, <2>1 DEF SessionInv, RouteInv
  <2>6. LoneReplyReachesItsCall'
    BY <1>1, <1>2, <2>1 DEF SessionInv, LoneReplyReachesItsCall
  <2> QED BY <2>3, <2>4, <2>5, <2>6 DEF SessionInv
<1>4. CASE SendAndWait(c, s, usable) \/ SendRaises(c, s, usable)
  <2>1. /\ pending' = [pending EXCEPT ![Key(c)] = c] /\ NoteClash(c)
        /\ dispatcher' = [dispatcher EXCEPT ![TrnmOf[c]] = IF @ = 0 THEN s ELSE @]
        /\ \A d \in Calls : d # c => pc'[d] = pc[d] /\ result'[d] = result[d]
        /\ \/ pc'[c] = "waiting" /\ asked' = asked \cup {c} /\ result'[c] = result[c]
           \/ pc'[c] = "done" /\ asked' = asked /\ result'[c] = "send_error"
    BY <1>4 DEF SendAndWait, SendRaises, Store, EnsureDispatcher
  <2>2. /\ clashed \subseteq clashed'
        /\ \A d \in Calls : d # c /\ Open(d) /\ Alike(c, d) => c \in clashed' /\ d \in clashed'
    BY <2>1 DEF NoteClash, Rivals
  <2>3. \A d \in Calls : Open(d)' => d = c \/ Open(d)
    BY <1>2, <2>1 DEF Open
  <2>4. OpenInv'
    <3> SUFFICES ASSUME NEW d \in Calls, NEW e \in Calls, d # e, Open(d)', Open(e)', Alike(d, e)
                 PROVE  d \in clashed' /\ e \in clashed'
      BY DEF OpenInv, Alike
    <3> QED BY <2>2, <2>3, AlikeKeys DEF SessionInv, OpenInv
  <2>5. StoredInv'
    <3> SUFFICES ASSUME NEW d \in Calls, d \notin clashed', pc'[d] = "waiting", answer'[d] = NoCall
                 PROVE  pending'[Key(d)] = d
      BY DEF StoredInv, Key
    <3>1. CASE d = c
      BY <2>1, <3>1
    <3>2. CASE d # c
      <4>1. Open(d) /\ pending[Key(d)] = d
        BY <1>2, <2>1, <2>2, <3>2 DEF SessionInv, StoredInv, Open
      <4>2. Key(d) # Key(c)
        BY <2>2, <3>2, <4>1, AlikeKeys
      <4> QED BY <2>1, <4>1, <4>2
    <3> QED BY <3>1, <3>2
  <2>6. RouteInv'
    <3>1. \A t \in Trnms : dispatcher[t] # 0 => dispatcher'[t] # 0
      BY <2>1
    <3>2. dispatcher'[TrnmOf[c]] # 0
      BY <2>1
    <3>3. /\ asked' \cap wire' = {} /\ asked' \cap handled' = {} /\ wire' \cap handled' = {}
          /\ \A d \in (asked \cup wire \cup handled)' : d = c \/ d \in asked \cup wire \cup handled
      BY <1>1, <1>2, <2>1 DEF SessionInv, RouteInv
    <3>4. pc'[c] \in {"waiting", "done"}
      BY <2>1
    <3>5. \A d \in (asked \cup wire \cup handled)' :
             /\ pc'[d] \in {"waiting", "done"} /\ result'[d] # "send_error"
             /\ dispatcher'[TrnmOf[d]] # 0
      BY <1>1, <1>2, <2>1, <3>1, <3>2, <3>3, <3>4 DEF SessionInv, RouteInv
    <3>7. \A d \in Calls : pc'[d] # "done" => result'[d] = "none"
      BY <2>1 DEF SessionInv, RouteInv
    <3>6. \A d \in Calls : answer'[d] # NoCall =>
             answer'[d] \in handled' /\ pc'[d] \in {"waiting", "done"}
      BY <1>1, <1>2, <2>1 DEF SessionInv, RouteInv
    <3> QED BY <3>3, <3>5, <3>6, <3>7 DEF RouteInv
  <2>7. LoneReplyReachesItsCall'
    <3> SUFFICES ASSUME NEW d \in Calls, d \notin clashed'
                 PROVE  /\ d \in handled' \ late' /\ dispatcher'[TrnmOf[d]] = socket'[d] => answer'[d] = d
                        /\ result'[d] # "send_error" => answer'[d] \in {d, NoCall}
      BY DEF LoneReplyReachesItsCall
    <3>1. CASE d = c
      BY <1>1, <1>2, <3>1
    <3>2. CASE d # c
      <4>1. d \in handled => dispatcher'[TrnmOf[d]] = dispatcher[TrnmOf[d]]
        BY <2>1 DEF SessionInv, RouteInv
      <4>2. socket'[d] = socket[d] /\ result'[d] = result[d] /\ d \notin clashed
        BY <1>2, <2>1, <2>2, <3>2
      <4> QED BY <1>2, <4>1, <4>2 DEF SessionInv, LoneReplyReachesItsCall
    <3> QED BY <3>1, <3>2
  <2> QED BY <2>4, <2>5, <2>6, <2>7 DEF SessionInv
<1> QED BY <1>3, <1>4 DEF Send

\* A reply takes the future of its own call, or of one alike.
LEMMA HandleKeeps ==
    ASSUME TypeOK, SessionInv, NEW c \in Calls, Handle(c)
    PROVE  SessionInv'
<1> USE CallsAssumption, KeysOf DEF TypeOK
<1>1. /\ c \in wire /\ wire' = wire \ {c} /\ handled' = handled \cup {c}
      /\ late' = IF pc[c] = "waiting" THEN late ELSE late \cup {c}
      /\ UNCHANGED <<dispatcher, pc, socket, result, asked, clashed>>
      /\ c \notin handled /\ Open(c)
  BY DEF Handle, SessionInv, RouteInv, Open
<1>2. \A d \in Calls : Open(d)' => Open(d)
  BY <1>1 DEF Open
<1>3. OpenInv'
  BY <1>1, <1>2 DEF SessionInv, OpenInv, Alike
<1>4. CASE dispatcher[TrnmOf[c]] # socket[c]
  <2>1. UNCHANGED <<pending, answer>>
    BY <1>4 DEF Handle
  <2>2. StoredInv' /\ RouteInv'
    BY <1>1, <2>1 DEF SessionInv, StoredInv, RouteInv
  <2>3. LoneReplyReachesItsCall'
    BY <1>1, <1>4, <2>1 DEF SessionInv, LoneReplyReachesItsCall
  <2> QED BY <1>3, <2>2, <2>3 DEF SessionInv
<1>5. CASE dispatcher[TrnmOf[c]] = socket[c]
  <2> DEFINE exact == Unresolved(pending[Key(c)])
             last  == IF exact THEN Key(c) ELSE Fallback(c)
             taker == pending[last]
  <2>1. /\ pending' = [pending EXCEPT ![Key(c)] = NoCall, ![last] = NoCall]
        /\ answer' = IF Unresolved(taker) THEN [answer EXCEPT ![taker] = c] ELSE answer
    BY <1>5 DEF Handle, Dispatch
  <2>2. last \in {Key(c), Fallback(c)} /\ last \in Keys /\ (exact => last = Key(c))
    OBVIOUS
  <2>3. taker # NoCall => taker \in Calls /\ Key(taker) = last
    BY <2>2
  <2> HIDE DEF exact, last
  <2>4. \A d \in Calls : answer'[d] = answer[d] \/ (d = taker /\ Unresolved(d) /\ answer'[d] = c)
    BY <2>1, <2>3 DEF Unresolved
  <2>5. ASSUME NEW d \in Calls, d \notin clashed, d # c, Open(d)
        PROVE  Key(d) # last /\ Key(d) # Key(c)
    <3>1. ~Alike(c, d)
      BY <1>1, <2>5 DEF SessionInv, OpenInv
    <3> QED BY <2>2, <3>1, AlikeKeys
  <2>6. ASSUME NEW d \in Calls, d \notin clashed, d # c, result[d] # "send_error"
        PROVE  answer'[d] = answer[d]
    <3>1. CASE d = taker /\ Unresolved(d)
      <4>1. Open(d) /\ Key(d) = last
        BY <2>3, <2>6, <3>1 DEF Unresolved, Open
      <4> QED BY <2>5, <2>6, <4>1
    <3>2. CASE ~(d = taker /\ Unresolved(d))
      BY <2>4, <3>2
    <3> QED BY <3>1, <3>2
  <2>7. answer[c] # c
    BY <1>1 DEF SessionInv, RouteInv
  <2>8. ASSUME c \notin clashed, pc[c] = "waiting", result[c] # "send_error"
        PROVE  answer'[c] = c
    <3>1. answer[c] = NoCall
      BY <2>7, <2>8 DEF SessionInv, LoneReplyReachesItsCall
    <3>2. pending[Key(c)] = c
      BY <2>8, <3>1 DEF SessionInv, StoredInv
    <3>3. exact
      BY <2>8, <3>1, <3>2 DEF exact, Unresolved
    <3>4. taker = c /\ Unresolved(taker)
      BY <2>2, <3>2, <3>3 DEF exact
    <3> QED BY <2>1, <3>4
  <2>9. StoredInv'
    <3> SUFFICES ASSUME NEW d \in Calls, d \notin clashed, pc[d] = "waiting", answer'[d] = NoCall
                 PROVE  pending'[Key(d)] = d
      BY <1>1 DEF StoredInv, Key
    <3>1. answer[d] = NoCall
      BY <2>4
    <3>2. pending[Key(d)] = d
      BY <3>1 DEF SessionInv, StoredInv
    <3>3. CASE d = c
      <4>1. exact /\ taker = c /\ Unresolved(taker)
        BY <2>2, <3>1, <3>2, <3>3 DEF exact, Unresolved
      <4> QED BY <2>1, <3>3, <4>1
    <3>4. CASE d # c
      <4>1. Key(d) # last /\ Key(d) # Key(c)
        BY <2>5, <3>4 DEF Open
      <4> QED BY <2>1, <3>2, <4>1
    <3> QED BY <3>3, <3>4
  <2>10. RouteInv'
    <3>1. /\ asked' \cap wire' = {} /\ asked' \cap handled' = {} /\ wire' \cap handled' = {}
          /\ \A d \in Calls : pc'[d] # "done" => result'[d] = "none"
          /\ \A d \in (asked \cup wire \cup handled)' :
                /\ pc'[d] \in {"waiting", "done"} /\ result'[d] # "send_error"
                /\ dispatcher'[TrnmOf[d]] # 0
      BY <1>1 DEF SessionInv, RouteInv
    <3>2. ASSUME NEW d \in Calls, answer'[d] # NoCall
          PROVE  answer'[d] \in handled' /\ pc'[d] \in {"waiting", "done"}
      BY <1>1, <2>4, <3>2 DEF SessionInv, RouteInv, Unresolved
    <3> QED BY <3>1, <3>2 DEF RouteInv
  <2>11. LoneReplyReachesItsCall'
    <3> SUFFICES ASSUME NEW d \in Calls, d \notin clashed
                 PROVE  /\ d \in handled' \ late' /\ dispatcher[TrnmOf[d]] = socket[d] => answer'[d] = d
                        /\ result[d] # "send_error" => answer'[d] \in {d, NoCall}
      BY <1>1 DEF LoneReplyReachesItsCall
    <3>1. CASE d = c
      <4>1. d \in handled' \ late' => pc[c] = "waiting" /\ result[c] # "send_error"
        BY <1>1, <3>1 DEF SessionInv, RouteInv
      <4>2. d \in handled' \ late' => answer'[d] = d
        BY <2>8, <3>1, <4>1
      <4>3. result[d] # "send_error" => answer'[d] \in {d, NoCall}
        BY <2>4, <3>1 DEF SessionInv, LoneReplyReachesItsCall
      <4> QED BY <4>2, <4>3
    <3>2. CASE d # c
      <4>1. d \in handled' \ late' => d \in handled \ late /\ result[d] # "send_error"
        BY <1>1, <3>2 DEF SessionInv, RouteInv
      <4>2. result[d] # "send_error" => answer'[d] = answer[d]
        BY <2>6, <3>2
      <4> QED BY <4>1, <4>2 DEF SessionInv, LoneReplyReachesItsCall
    <3> QED BY <3>1, <3>2
  <2> QED BY <1>3, <2>9, <2>10, <2>11 DEF SessionInv
<1> QED BY <1>4, <1>5

\* The end of a call pops a future of its own key at most.
LEMMA EndKeeps ==
    ASSUME TypeOK, SessionInv, NEW c \in Calls, WaitEnds(c) \/ Cancel(c) \/ ConnectFails(c)
    PROVE  SessionInv'
<1> USE CallsAssumption, KeysOf
        DEF TypeOK, End, session, calls, sockets, server, ghosts
<1>1. /\ UNCHANGED <<dispatcher, socket, answer, asked, wire, handled, late, clashed>>
      /\ \A d \in Calls : d # c => pc'[d] = pc[d] /\ result'[d] = result[d]
      /\ pc'[c] = "done" /\ result'[c] # "send_error" /\ pc[c] # "done"
  BY DEF WaitEnds, Return, Timeout, Cancel, ConnectFails
<1>2. pending' = pending \/ (Open(c) /\ pending' = [pending EXCEPT ![Key(c)] = NoCall])
  BY DEF WaitEnds, Return, Timeout, Cancel, ConnectFails, Open
<1>3. \A d \in Calls : Open(d)' => Open(d)
  BY <1>1 DEF Open
<1>4. OpenInv'
  BY <1>1, <1>3 DEF SessionInv, OpenInv, Alike
<1>5. StoredInv'
  <2> SUFFICES ASSUME NEW d \in Calls, d \notin clashed, pc'[d] = "waiting", answer[d] = NoCall
               PROVE  pending'[Key(d)] = d
    BY <1>1 DEF StoredInv, Key
  <2>1. d # c /\ pending[Key(d)] = d /\ Open(d)
    BY <1>1 DEF SessionInv, StoredInv, Open
  <2>2. Open(c) => Key(d) # Key(c)
    BY <2>1, AlikeKeys DEF SessionInv, OpenInv
  <2> QED BY <1>2, <2>1, <2>2
<1>6. RouteInv'
  BY <1>1 DEF SessionInv, RouteInv
<1>7. LoneReplyReachesItsCall'
  <2>1. result[c] # "send_error"
    BY <1>1 DEF SessionInv, RouteInv
  <2> QED BY <1>1, <2>1 DEF SessionInv, LoneReplyReachesItsCall
<1> QED BY <1>4, <1>5, <1>6, <1>7 DEF SessionInv

\* What happens around the calls: nothing becomes open.
LEMMA AroundKeeps ==
    ASSUME TypeOK, SessionInv,
           \/ \E c \in Calls : BeginConnect(c) \/ ServerReplies(c)
           \/ \E s \in Sockets : LinkGoesDown(s) \/ LinkComesUp(s) \/ ListenerCrashes(s)
           \/ Close \/ UNCHANGED vars
    PROVE  SessionInv'
<1> USE CallsAssumption, KeysOf
        DEF TypeOK, session, calls, sockets, server, ghosts, vars
<1>1. /\ UNCHANGED <<pending, dispatcher, socket, answer, result, handled, late, clashed>>
      /\ (asked \cup wire)' \subseteq asked \cup wire
      /\ (asked \cap wire = {} => asked' \cap wire' = {})
      /\ \A d \in Calls : pc'[d] = pc[d] \/ (pc[d] = "idle" /\ pc'[d] = "connecting")
  BY DEF BeginConnect, ServerReplies, LinkGoesDown, LinkComesUp, ListenerCrashes, Close
<1>2. \A d \in Calls : Open(d)' => Open(d)
  BY <1>1 DEF Open
<1>3. OpenInv'
  BY <1>1, <1>2 DEF SessionInv, OpenInv, Alike
<1>4. StoredInv' /\ LoneReplyReachesItsCall'
  BY <1>1 DEF SessionInv, StoredInv, LoneReplyReachesItsCall, Key
<1>5. RouteInv'
  BY <1>1 DEF SessionInv, RouteInv
<1> QED BY <1>3, <1>4, <1>5 DEF SessionInv

LEMMA SessionStep ==
    ASSUME TypeOK, SessionInv, [Next]_vars
    PROVE  SessionInv'
<1>1. ASSUME NEW c \in Calls, Request(c) PROVE SessionInv'
  <2>1. pc[c] = "idle" /\ ws \in Nat \ {0} /\ Send(c, ws, ws \in up)
    BY <1>1, BoundAssumption DEF Request, TypeOK
  <2> QED BY <2>1, SendKeeps
<1>2. ASSUME NEW c \in Calls, Connected(c) PROVE SessionInv'
  <2>1. PICK usable \in BOOLEAN : Send(c, made + 1, usable)
    BY <1>2 DEF Connected
  <2>2. pc[c] = "connecting" /\ made + 1 \in Nat \ {0}
    BY <1>2, BoundAssumption DEF Connected, TypeOK
  <2> QED BY <2>1, <2>2, SendKeeps
<1> QED BY <1>1, <1>2, HandleKeeps, EndKeeps, AroundKeeps DEF Next

\* For every call that was never open at once with one alike, a reply handled in time
\* resolves the call that asked, if the callback is on its socket, and no other reply does:
\* one after the other, calls may have the same key, and may time out, be cancelled or fail.
THEOREM RepliesReachTheirCalls == Spec => []LoneReplyReachesItsCall
<1>1. Init => SessionInv
  <2> SUFFICES ASSUME Init PROVE SessionInv OBVIOUS
  <2>1. OpenInv /\ StoredInv
    BY DEF Init, OpenInv, StoredInv, Open
  <2>2. RouteInv /\ LoneReplyReachesItsCall
    BY CallsAssumption DEF Init, RouteInv, LoneReplyReachesItsCall
  <2> QED BY <2>1, <2>2 DEF SessionInv
<1>3. TypeOK /\ SessionInv /\ [Next]_vars => SessionInv'
  BY SessionStep
<1>4. SessionInv => LoneReplyReachesItsCall
  BY DEF SessionInv
<1> QED BY <1>1, <1>3, <1>4, TypeCorrect, PTL DEF Spec
=============================================================================
