--------------------------- MODULE ConditionSession ---------------------------
(***************************************************************************)
(* ConditionSearchSession: concurrent request() calls of the MCP tools     *)
(* share one KiwoomWebSocket, connected by the first of them, and wait for *)
(* replies that its listener matches with them by trnm and seq.            *)
(*                                                                         *)
(* A socket is one KiwoomWebSocket object, with what KiwoomWebSocket shows *)
(* of it: its link goes down and comes up again while it listens, and its  *)
(* listener may end for good.  One step is the code between two awaits     *)
(* that yield; send() does not yield.                                      *)
(***************************************************************************)
EXTENDS Naturals

CONSTANTS
    Calls,       \* calls of request()
    TrnmOf,      \* the trnm of each call's payload
    SeqOf,       \* its seq, or NoSeq
    Silent,      \* the calls with expect_reply=False
    NoSeq, NoCall,
    MaxSockets   \* bound: how many connect() calls succeed

Sockets == 1..MaxSockets
Trnms   == {TrnmOf[c] : c \in Calls}

ASSUME CallsAssumption == Silent \subseteq Calls /\ NoCall \notin Calls
ASSUME BoundAssumption == MaxSockets \in Nat

\* Mutant: seq is not part of the key.
KeyWithoutSeq(c) == <<TrnmOf[c], NoSeq>>

\* key = (trnm, seq)
Key(c) == <<TrnmOf[c], SeqOf[c]>>

\* The second key the callback tries, (trnm, None).
Fallback(c) == <<TrnmOf[c], NoSeq>>

\* A reply to one of the two may be taken for a reply to the other.
Alike(c, d) ==
    TrnmOf[c] = TrnmOf[d] /\ (SeqOf[c] = SeqOf[d] \/ NoSeq \in {SeqOf[c], SeqOf[d]})

Keys == {Key(c) : c \in Calls} \cup {Fallback(c) : c \in Calls}

VARIABLES
    ws,          \* _ws, or 0
    pending,     \* _pending: the call whose future is stored under each key
    dispatcher,  \* the socket that got each trnm's on_trnm callback, or 0
    pc,          \* where each call is
    socket,      \* the socket each call sent on, or 0
    answer,      \* the request whose reply resolved each call's future
    result,      \* how each call ended
    closed,      \* close() has been called
    made,        \* sockets 1..made exist
    up,          \* the sockets whose link is up
    listening,   \* the sockets whose listener is alive
    asked,       \* server: the requests it has yet to answer
    wire,        \* the requests whose reply is on its way
    handled,     \* history: the requests whose reply the listener has handled
    late,        \* history: those of them that were no longer waited for
    clashed      \* history: the calls that were open at once with one alike

session == <<ws, pending, dispatcher>>
calls   == <<pc, socket, answer, result>>
sockets == <<made, up, listening>>
server  == <<asked, wire>>
ghosts  == <<handled, late, clashed>>
vars    == <<session, calls, closed, sockets, server, ghosts>>

Init ==
    /\ ws = 0
    /\ pending = [k \in Keys |-> NoCall]
    /\ dispatcher = [t \in Trnms |-> 0]
    /\ pc     = [c \in Calls |-> "idle"]
    /\ socket = [c \in Calls |-> 0]
    /\ answer = [c \in Calls |-> NoCall]
    /\ result = [c \in Calls |-> "none"]
    /\ closed = FALSE
    /\ made = 0 /\ up = {} /\ listening = {}
    /\ asked = {} /\ wire = {}
    /\ handled = {} /\ late = {} /\ clashed = {}

-----------------------------------------------------------------------------
(* request(): connect if need be, register, send.                          *)

End(c, how) ==
    /\ pc' = [pc EXCEPT ![c] = "done"]
    /\ result' = [result EXCEPT ![c] = how]

\* Mutant: the future is stored under the trnm alone.
StoreByTrnm(c) == pending' = [pending EXCEPT ![Fallback(c)] = c]

\* self._pending[key] = future, whatever was there.
Store(c) == pending' = [pending EXCEPT ![Key(c)] = c]

\* One callback per trnm, registered on the socket at hand the first time.
EnsureDispatcher(c, s) ==
    dispatcher' = [dispatcher EXCEPT ![TrnmOf[c]] = IF @ = 0 THEN s ELSE @]

\* A call is open while it waits, and until its reply has been handled or lost.
Open(c) == pc[c] = "waiting" \/ c \in asked \cup wire

Rivals(c) == {d \in Calls \ {c} : Open(d) /\ Alike(c, d)}

NoteClash(c) ==
    clashed' = IF Rivals(c) = {} THEN clashed ELSE clashed \cup Rivals(c) \cup {c}

\* Everything from _ensure_connected() to the wait, on socket s.
SendSilently(c, s, usable) ==
    /\ c \in Silent
    /\ End(c, IF usable THEN "sent" ELSE "send_error")
    /\ UNCHANGED <<pending, dispatcher, asked, clashed>>

SendAndWait(c, s, usable) ==
    /\ c \notin Silent /\ usable
    /\ EnsureDispatcher(c, s) /\ Store(c) /\ NoteClash(c)
    /\ pc' = [pc EXCEPT ![c] = "waiting"]
    /\ asked' = asked \cup {c}
    /\ UNCHANGED result

\* send() raises, outside the try block: the future stays in _pending.
SendRaises(c, s, usable) ==
    /\ c \notin Silent /\ ~usable
    /\ EnsureDispatcher(c, s) /\ Store(c) /\ NoteClash(c)
    /\ End(c, "send_error")
    /\ UNCHANGED asked

Send(c, s, usable) ==
    /\ SendSilently(c, s, usable) \/ SendAndWait(c, s, usable) \/ SendRaises(c, s, usable)
    /\ socket' = [socket EXCEPT ![c] = s]
    /\ UNCHANGED <<answer, closed, wire, handled, late>>

Request(c) ==
    /\ pc[c] = "idle" /\ ws # 0
    /\ Send(c, ws, ws \in up)
    /\ UNCHANGED <<ws, sockets>>

BeginConnect(c) ==
    /\ pc[c] = "idle" /\ ws = 0
    /\ pc' = [pc EXCEPT ![c] = "connecting"]
    /\ UNCHANGED <<session, socket, answer, result, closed, sockets, server, ghosts>>

\* self._connect() returned: start listening and go on with the request, over
\* a link that may be down again.
Connected(c) ==
    /\ pc[c] = "connecting" /\ made < MaxSockets
    /\ made' = made + 1
    /\ ws' = made + 1
    /\ listening' = listening \cup {made + 1}
    /\ \E usable \in BOOLEAN :
          /\ up' = IF usable THEN up \cup {made + 1} ELSE up
          /\ Send(c, made + 1, usable)

ConnectFails(c) ==
    /\ pc[c] = "connecting"
    /\ End(c, "connect_error")
    /\ UNCHANGED <<session, socket, answer, closed, sockets, server, ghosts>>

-----------------------------------------------------------------------------
(* The reply, the timeout and the end of a call.                           *)

\* A future that is not done: its call waits, or was ended by send() and left it behind;
\* a timeout and a cancellation end the future too.
Unresolved(q) ==
    /\ q # NoCall /\ answer[q] = NoCall
    /\ pc[q] = "waiting" \/ result[q] = "send_error"

\* The callback of the listener: pop (trnm, seq), and if no future there is to be
\* resolved, (trnm, None); the future popped last is resolved.
Dispatch(c) ==
    LET exact == Unresolved(pending[Key(c)])
        last  == IF exact THEN Key(c) ELSE Fallback(c)
        taker == pending[last]
    IN  /\ pending' = [pending EXCEPT ![Key(c)] = NoCall, ![last] = NoCall]
        /\ answer'  = IF Unresolved(taker) THEN [answer EXCEPT ![taker] = c] ELSE answer

\* The listener takes a reply from its socket.
Handle(c) ==
    /\ c \in wire /\ socket[c] \in listening
    /\ wire' = wire \ {c}
    /\ handled' = handled \cup {c}
    /\ late' = IF pc[c] = "waiting" THEN late ELSE late \cup {c}
    /\ IF dispatcher[TrnmOf[c]] = socket[c]
       THEN Dispatch(c) ELSE UNCHANGED <<pending, answer>>
    /\ UNCHANGED <<ws, dispatcher, pc, socket, result, closed, sockets, asked, clashed>>

Return(c) ==
    /\ pc[c] = "waiting" /\ answer[c] # NoCall
    /\ End(c, "reply")
    /\ UNCHANGED <<session, socket, answer, closed, sockets, server, ghosts>>

\* Mutant: there is no timeout once the link is down.
TimeoutWhileUp(c) ==
    /\ pc[c] = "waiting" /\ socket[c] \in up
    /\ pending' = [pending EXCEPT ![Key(c)] = NoCall]
    /\ End(c, "timeout")
    /\ UNCHANGED <<ws, dispatcher, socket, answer, closed, sockets, server, ghosts>>

\* Mutant: the future that timed out stays in _pending.
TimeoutLeavesFuture(c) ==
    /\ pc[c] = "waiting"
    /\ End(c, "timeout")
    /\ UNCHANGED <<session, socket, answer, closed, sockets, server, ghosts>>

\* wait_for gives up after RESPONSE_TIMEOUT, at the earliest in the very turn
\* of the event loop that resolves the future; whoever's future is stored
\* under the key is popped.
Timeout(c) ==
    /\ pc[c] = "waiting"
    /\ pending' = [pending EXCEPT ![Key(c)] = NoCall]
    /\ End(c, "timeout")
    /\ UNCHANGED <<ws, dispatcher, socket, answer, closed, sockets, server, ghosts>>

\* The tool call is cancelled: nothing is popped.
Cancel(c) ==
    /\ pc[c] \in {"connecting", "waiting"}
    /\ End(c, "cancelled")
    /\ UNCHANGED <<session, socket, answer, closed, sockets, server, ghosts>>

\* close(): cancel the latest listener and disconnect the latest socket.
Close ==
    /\ ~closed
    /\ closed' = TRUE
    /\ listening' = listening \ {ws}
    /\ up' = up \ {ws}
    /\ UNCHANGED <<session, calls, made, server, ghosts>>

-----------------------------------------------------------------------------
(* The sockets and the server (external).                                  *)

ServerReplies(c) ==
    /\ c \in asked
    /\ asked' = asked \ {c}
    /\ wire'  = wire \cup {c}
    /\ UNCHANGED <<session, calls, closed, sockets, ghosts>>

\* Requests under way are lost with the link, and replies that are not in the buffer of
\* recv() yet; those that are will still be handled.
LinkGoesDown(s) ==
    /\ s \in up
    /\ up' = up \ {s}
    /\ asked' = {c \in asked : socket[c] # s}
    /\ \E buffered \in SUBSET {c \in wire : socket[c] = s} :
          wire' = {c \in wire : socket[c] # s} \cup buffered
    /\ UNCHANGED <<session, calls, closed, made, listening, ghosts>>

\* recv() raises, and listen() reconnects, when the buffer is empty.
LinkComesUp(s) ==
    /\ s \in listening \ up
    /\ \A c \in wire : socket[c] # s
    /\ up' = up \cup {s}
    /\ UNCHANGED <<session, calls, closed, made, listening, server, ghosts>>

\* listen() ends for a reason KiwoomWebSocket has, such as an odd frame.
ListenerCrashes(s) ==
    /\ s \in listening
    /\ listening' = listening \ {s}
    /\ UNCHANGED <<session, calls, closed, made, up, server, ghosts>>

-----------------------------------------------------------------------------

WaitEnds(c) == Return(c) \/ Timeout(c)

Next ==
    \/ \E c \in Calls :
          Request(c) \/ BeginConnect(c) \/ Connected(c) \/ ConnectFails(c)
          \/ WaitEnds(c) \/ Cancel(c)
          \/ Handle(c) \/ ServerReplies(c)
    \/ \E s \in Sockets : LinkGoesDown(s) \/ LinkComesUp(s) \/ ListenerCrashes(s)
    \/ Close

Spec == Init /\ [][Next]_vars

\* The event loop runs and waiting for a reply has a timeout; nothing is assumed
\* of connecting, where the LOGIN reply is awaited without one, nor of the
\* server, the link or the listener.
Fairness == \A c \in Calls : WF_vars(WaitEnds(c))

-----------------------------------------------------------------------------
(* Properties.                                                             *)

\* Every variable has its type, and a future is stored under its own key.
TypeOK ==
    /\ ws \in 0..made
    /\ pending \in [Keys -> Calls \cup {NoCall}]
    /\ \A k \in Keys : pending[k] # NoCall => Key(pending[k]) = k
    /\ dispatcher \in [Trnms -> 0..made]
    /\ pc \in [Calls -> {"idle", "connecting", "waiting", "done"}]
    /\ socket \in [Calls -> 0..made]
    /\ answer \in [Calls -> Calls \cup {NoCall}]
    /\ result \in [Calls -> {"none", "sent", "send_error", "connect_error",
                             "reply", "timeout", "cancelled"}]
    /\ closed \in BOOLEAN
    /\ made \in 0..MaxSockets
    /\ up \in SUBSET (1..made) /\ listening \in SUBSET (1..made)
    /\ asked \in SUBSET (Calls \ Silent) /\ wire \in SUBSET (Calls \ Silent)
    /\ handled \in SUBSET (Calls \ Silent) /\ late \in SUBSET handled
    /\ clashed \in SUBSET Calls

\* A reply that the listener handles while its request is waited for resolves that
\* request, where the trnm's callback is on the socket it was sent on, and no other reply
\* does: for every call that was never open at once with one alike, whatever timed out,
\* was cancelled or failed before, and whichever keys were used again since.
LoneReplyReachesItsCall ==
    \A c \in Calls \ clashed :
       /\ c \in handled \ late /\ dispatcher[TrnmOf[c]] = socket[c] => answer[c] = c
       /\ result[c] # "send_error" => answer[c] \in {c, NoCall}

\* "Correlates condition_search WebSocket requests with their replies": the same for
\* every call, which the code does not keep where two are alike.
ReplyReachesItsCall ==
    /\ \A c \in handled \ late : answer[c] = c
    /\ \A c \in Calls : answer[c] \in {c, NoCall}

\* When no call is under way, no future is left behind, but for calls that
\* were cancelled or could not send.
PendingDrains ==
    (\A c \in Calls : pc[c] \in {"idle", "done"}) =>
        \A k \in Keys : pending[k] # NoCall =>
            result[pending[k]] \in {"cancelled", "send_error"}

\* Every request that was sent ends, by a reply, a timeout or a cancellation,
\* even when the link is down or the listener is gone.
EveryRequestEnds == \A c \in Calls : pc[c] = "waiting" ~> pc[c] = "done"

\* Docstring of ConditionSearchSession: a "KiwoomWebSocket shared by all
\* condition_search tools", and connect is "called once, lazily".
OneSocket == made <= 1
=============================================================================
