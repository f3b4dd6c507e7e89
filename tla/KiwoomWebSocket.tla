--------------------------- MODULE KiwoomWebSocket ---------------------------
(***************************************************************************)
(* KiwoomWebSocket: connect() with its LOGIN handshake, subscribe() and    *)
(* unsubscribe(), listen() with its reconnection, and disconnect(), run by *)
(* asyncio tasks against a server that accepts or refuses the login and    *)
(* drops connections.                                                      *)
(*                                                                         *)
(* One step is the code between two awaits that yield.  Connecting,        *)
(* receiving, sleeping, a callback and the closing handshake yield; send() *)
(* yields only when the write buffer is full, which these short frames     *)
(* never make it.  A frame that is sent on a connection and lost with it   *)
(* is one that arrives just before the connection closes.                  *)
(***************************************************************************)
EXTENDS Naturals, Sequences, SequencesExt, Lists

CONSTANTS
    Payloads,  \* the registrations made: [refresh : {"0", "1"}, data : set]
    Frames,    \* the kinds of frames the server sends: some of FrameKinds
    MaxConns,  \* bound: how many connections are ever made
    MaxSubs    \* bound: the length of _subscriptions

Items == UNION {p.data : p \in Payloads}    \* (type, item) pairs
Conns == 1..MaxConns
NoConn == 0

\* A frame is "sound", or it decodes to something the code cannot handle: JSON that is no
\* object, or a REAL whose data is no list.
FrameKinds == {"sound", "odd"}

ASSUME PayloadsAssumption ==
    \A p \in Payloads : p = [refresh |-> p.refresh, data |-> p.data] /\ p.refresh \in {"0", "1"}
ASSUME FramesAssumption == Frames \subseteq FrameKinds
ASSUME BoundsAssumption == MaxConns \in Nat /\ MaxSubs \in Nat

VARIABLES
    ws,             \* _ws, or NoConn
    running,        \* _running
    subscriptions,  \* _subscriptions
    opener,         \* where the caller of connect() is
    listener,       \* where the task in listen() is
    closer,         \* where the caller of disconnect() is
    via,            \* the connection connect() or listen() is receiving from
    frame,          \* the kind of the frame listen() received last
    made,           \* connections 1..made have been made
    open,           \* the connections that are open
    reply,          \* server: its answer to the LOGIN sent on each connection
    registered,     \* server: the items registered on each connection
    wanted,         \* history: what the calls that succeeded have registered
    named           \* history: the registrations these calls were about

client == <<ws, running, subscriptions>>
tasks  == <<opener, listener, closer, via, frame>>
server == <<made, open, reply, registered>>
calls  == <<wanted, named>>
vars   == <<client, tasks, server, calls>>

ListenPlaces == {"idle", "recv", "dispatch", "pause", "connecting", "login"}
Stops        == {"ended", "crashed", "cancelled"}

Init ==
    /\ ws = NoConn /\ running = FALSE /\ subscriptions = <<>>
    /\ opener = "new" /\ listener = "idle" /\ closer = "idle" /\ via = NoConn
    /\ frame = "sound"
    /\ made = 0 /\ open = {}
    /\ reply = [c \in Conns |-> "none"]
    /\ registered = [c \in Conns |-> {}]
    /\ wanted = {} /\ named = {}

-----------------------------------------------------------------------------
(* What a frame does to the registrations.                                 *)

\* REG: refresh "1" keeps existing registrations, "0" replaces them.
Register(items, p) == (IF p.refresh = "1" THEN items ELSE {}) \cup p.data

Unregister(items, p) == items \ p.data

\* Mutant: only the latest registration is sent again.
ReplayLast(items) ==
    IF subscriptions = <<>> THEN items ELSE Register(items, Last(subscriptions))

\* for payload in list(self._subscriptions): await self.send(payload)
Replay(items) == FoldLeft(Register, items, subscriptions)

-----------------------------------------------------------------------------
(* connect() and the handshake of _login().                                *)

\* websockets.connect returned and the LOGIN frame is on its way.
Established ==
    /\ made < MaxConns
    /\ made' = made + 1
    /\ ws' = made + 1 /\ via' = made + 1
    /\ open' = open \cup {made + 1}

\* Mutant: a connection closed during the handshake is not noticed.
LoginRefusedOnly == reply[via] = "refused"

\* The first frame is no LOGIN with return_code 0, or none came.
LoginFailed ==
    \/ reply[via] = "refused"
    \/ reply[via] = "none" /\ via \notin open

\* The reply is JSON but no object: an AttributeError, which is not among what
\* _reconnect() catches.
LoginRaises == reply[via] = "odd"

LoggedIn == reply[via] = "accepted"

Connect ==
    /\ opener = "new"
    /\ opener' = "connecting"
    /\ UNCHANGED <<client, listener, closer, via, frame, server, calls>>

Connected ==
    /\ opener = "connecting"
    /\ Established
    /\ opener' = "login"
    /\ UNCHANGED <<running, subscriptions, listener, closer, frame, reply,
                   registered, calls>>

ConnectDone ==
    /\ opener = "login" /\ LoggedIn
    /\ opener' = "up"
    /\ UNCHANGED <<client, listener, closer, via, frame, server, calls>>

\* connect() raises and leaves _ws as it is.
ConnectFails ==
    /\ opener = "connecting" \/ (opener = "login" /\ (LoginFailed \/ LoginRaises))
    /\ opener' = "failed"
    /\ UNCHANGED <<client, listener, closer, via, frame, server, calls>>

-----------------------------------------------------------------------------
(* subscribe() and unsubscribe(), by any task once connect() has returned. *)
(* When _ws is None or closed, send() raises and nothing changes.          *)

CanSend == opener = "up" /\ ws \in open

\* Only a connection that has been logged in takes registrations.
Deliver(items) ==
    registered' = IF reply[ws] = "accepted"
                  THEN [registered EXCEPT ![ws] = items] ELSE registered

Subscribe(p) ==
    /\ CanSend /\ Len(subscriptions) < MaxSubs
    /\ Deliver(Register(registered[ws], p))
    /\ subscriptions' = Append(subscriptions, p)
    /\ wanted' = Register(wanted, p) /\ named' = named \cup {p}
    /\ UNCHANGED <<ws, running, tasks, made, open, reply>>

\* [s for s in self._subscriptions if s != registered]: every equal one is forgotten.
Unsubscribe(p) ==
    /\ CanSend
    /\ Deliver(Unregister(registered[ws], p))
    /\ subscriptions' = Without(subscriptions, p)
    /\ wanted' = Unregister(wanted, p) /\ named' = named \cup {p}
    /\ UNCHANGED <<ws, running, tasks, made, open, reply>>

-----------------------------------------------------------------------------
(* listen(): receive and dispatch.                                         *)

\* Mutant: _running is not looked at again.
ProceedAnyway(place) == listener' = place

\* "while self._running": go on, or leave listen().
Proceed(place) == listener' = IF running THEN place ELSE "ended"

\* The top of the loop: self._ws.recv(), an AttributeError if _ws is None.
NextFrame ==
    IF running /\ ws = NoConn
    THEN listener' = "crashed" /\ UNCHANGED via
    ELSE Proceed("recv") /\ via' = ws

\* Mutant: listen() does not look whether there is a connection.
ListenUnchecked ==
    /\ listener = "idle" /\ opener = "up"
    /\ running' = TRUE
    /\ listener' = "recv" /\ via' = ws
    /\ UNCHANGED <<ws, subscriptions, opener, closer, frame, server, calls>>

Listen ==
    /\ listener = "idle" /\ opener = "up" /\ ws # NoConn
    /\ running' = TRUE
    /\ listener' = "recv" /\ via' = ws
    /\ UNCHANGED <<ws, subscriptions, opener, closer, frame, server, calls>>

\* A frame: one that is no JSON is passed over, a PING is echoed, anything else
\* goes to callbacks, which may take their time and whose exceptions are caught.
Receive(kind) ==
    /\ listener = "recv" /\ via \in open
    /\ listener' = "dispatch" /\ frame' = kind
    /\ UNCHANGED <<client, opener, closer, via, server, calls>>

Dispatched ==
    /\ listener = "dispatch" /\ frame = "sound"
    /\ NextFrame
    /\ UNCHANGED <<client, opener, closer, frame, server, calls>>

\* _dispatch() raises at data.get() or in the loop over the data of a REAL.
DispatchRaises ==
    /\ listener = "dispatch" /\ frame = "odd"
    /\ listener' = "crashed"
    /\ UNCHANGED <<client, opener, closer, via, frame, server, calls>>

\* recv() raises ConnectionClosed.
ConnectionLost ==
    /\ listener = "recv" /\ via \notin open
    /\ Proceed("pause")
    /\ UNCHANGED <<client, opener, closer, via, frame, server, calls>>

-----------------------------------------------------------------------------
(* listen(): _reconnect().                                                 *)

\* reconnect_delay has passed.
PauseOver ==
    /\ listener = "pause"
    /\ Proceed("connecting")
    /\ UNCHANGED <<client, opener, closer, via, frame, server, calls>>

Reconnected ==
    /\ listener = "connecting"
    /\ Established
    /\ listener' = "login"
    /\ UNCHANGED <<running, subscriptions, opener, closer, frame, reply,
                   registered, calls>>

\* Mutant: a refused login is not caught.
ReconnectFailsUncaught ==
    /\ listener = "connecting" \/ (listener = "login" /\ LoginFailed)
    /\ IF listener = "connecting" THEN Proceed("pause") ELSE listener' = "crashed"
    /\ UNCHANGED <<client, opener, closer, via, frame, server, calls>>

\* OSError, ConnectionClosed or KiwoomWebSocketError: try again later.  The
\* connection of a failed login stays in _ws until the next one replaces it.
ReconnectFails ==
    /\ listener = "connecting" \/ (listener = "login" /\ LoginFailed)
    /\ Proceed("pause")
    /\ UNCHANGED <<client, opener, closer, via, frame, server, calls>>

\* Registrations do not survive a new connection: send them again.
Restore ==
    /\ listener = "login" /\ LoggedIn
    /\ subscriptions = <<>> \/ ws \in open
    /\ registered' = IF ws \in open
                     THEN [registered EXCEPT ![ws] = Replay(registered[ws])]
                     ELSE registered
    /\ NextFrame
    /\ UNCHANGED <<client, opener, closer, frame, made, open, reply, calls>>

\* The connection closed behind the LOGIN reply: send() raises, outside the
\* try block, and so does listen().
RestoreRaises ==
    /\ listener = "login" /\ LoggedIn
    /\ subscriptions # <<>> /\ ws \notin open
    /\ listener' = "crashed"
    /\ UNCHANGED <<client, opener, closer, via, frame, server, calls>>

\* So does an odd LOGIN reply, which the except clause does not name.
ReconnectRaises ==
    /\ listener = "login" /\ LoginRaises
    /\ listener' = "crashed"
    /\ UNCHANGED <<client, opener, closer, via, frame, server, calls>>

\* The task running listen() is cancelled at an await.
ListenerCancelled ==
    /\ listener \in ListenPlaces \ {"idle"}
    /\ listener' = "cancelled"
    /\ UNCHANGED <<client, opener, closer, via, frame, server, calls>>

-----------------------------------------------------------------------------
(* disconnect(): closing an open connection takes a handshake, a closed or *)
(* missing one no time.                                                    *)

Disconnect ==
    /\ closer = "idle" /\ opener \in {"up", "failed"}
    /\ running' = FALSE
    /\ open' = open \ {ws}
    /\ IF ws \in open
       THEN closer' = "closing" /\ UNCHANGED ws
       ELSE closer' = "done" /\ ws' = NoConn
    /\ UNCHANGED <<subscriptions, opener, listener, via, frame, made, reply,
                   registered, calls>>

Disconnected ==
    /\ closer = "closing"
    /\ closer' = "done" /\ ws' = NoConn
    /\ UNCHANGED <<running, subscriptions, opener, listener, via, frame, server, calls>>

-----------------------------------------------------------------------------
(* The server and the network (external).                                  *)

ServerAccepts(c) ==
    /\ c \in open /\ reply[c] = "none"
    /\ reply' = [reply EXCEPT ![c] = "accepted"]
    /\ UNCHANGED <<client, tasks, made, open, registered, calls>>

\* A login error, a first frame that is no LOGIN or no object, while the bound allows.
ServerRefuses(c) ==
    /\ c \in open /\ reply[c] = "none" /\ made < MaxConns
    /\ \E answer \in {"refused"} \cup (Frames \ {"sound"}) :
           reply' = [reply EXCEPT ![c] = answer]
    /\ UNCHANGED <<client, tasks, made, open, registered, calls>>

\* Closed by the server or lost, while the bound leaves another.
ConnectionDies(c) ==
    /\ c \in open /\ made < MaxConns
    /\ open' = open \ {c}
    /\ UNCHANGED <<client, tasks, made, reply, registered, calls>>

-----------------------------------------------------------------------------

OpenerStep == Connect \/ Connected \/ ConnectDone \/ ConnectFails

ListenerStep ==
    \/ Dispatched \/ DispatchRaises \/ ConnectionLost \/ PauseOver
    \/ Reconnected \/ ReconnectFails \/ ReconnectRaises
    \/ Restore \/ RestoreRaises

Next ==
    \/ OpenerStep
    \/ \E p \in Payloads : Subscribe(p) \/ Unsubscribe(p)
    \/ \E kind \in Frames : Receive(kind)
    \/ Listen \/ ListenerStep \/ ListenerCancelled
    \/ Disconnect \/ Disconnected
    \/ \E c \in Conns : ServerAccepts(c) \/ ServerRefuses(c) \/ ConnectionDies(c)

Spec == Init /\ [][Next]_vars

\* The listener goes on when it can and callbacks return; a server that is
\* tried again and again is reachable again, and answers or drops a login.
Fairness ==
    /\ WF_vars(ListenerStep)
    /\ SF_vars(Reconnected)
    /\ \A c \in Conns : WF_vars(ServerAccepts(c))

-----------------------------------------------------------------------------
(* Properties.                                                             *)

\* Every variable has its type, and the listener never waits on None.
TypeOK ==
    /\ ws \in 0..made /\ running \in BOOLEAN
    /\ subscriptions \in Seq(Payloads)
    /\ opener \in {"new", "connecting", "login", "up", "failed"}
    /\ listener \in ListenPlaces \cup Stops
    /\ closer \in {"idle", "closing", "done"}
    /\ via \in 0..made
    /\ listener \in {"recv", "login"} => via # NoConn
    /\ frame \in FrameKinds
    /\ made \in 0..MaxConns
    /\ open \in SUBSET (1..made)
    /\ reply \in [Conns -> {"none", "accepted", "refused", "odd"}]
    /\ registered \in [Conns -> SUBSET Items]
    /\ wanted \in SUBSET Items /\ named \in SUBSET Payloads

\* listen() is receiving from the open connection in _ws.
Settled == listener \in {"recv", "dispatch"} /\ via = ws /\ ws \in open

\* An item that one call registers and another call, about a different registration, takes
\* back: by naming the item too, or by replacing all there is.
Overlapping(i) ==
    \E p, q \in named : p # q /\ i \in p.data /\ (i \in q.data \/ q.refresh = "0")

\* "Restores subscriptions after a reconnect": whenever listen() receives, the server has
\* registered everything the subscribe() and unsubscribe() calls that returned have left,
\* however often the connection was lost, also when they were made in the middle of a
\* reconnection.  It has nothing else but items two different registrations were about:
\* unsubscribe() forgets the very registration it names and no part of another one, and a
\* registration with refresh "0" does not clear the list.
SubscriptionsSurvive ==
    Settled => /\ wanted \subseteq registered[ws]
               /\ \A i \in registered[ws] \ wanted : Overlapping(i)

\* listen() returns only after disconnect(); it raises only after disconnect(), because the
\* connection was lost again behind its accepted login, or over a frame or a LOGIN reply
\* that is JSON of another form than the code expects.  A refused login or an unreachable
\* server never ends it.
ListenEndsForAReason ==
    /\ listener = "ended" => closer # "idle"
    /\ listener = "crashed" =>
          closer # "idle" \/ (LoggedIn /\ via \notin open) \/ frame = "odd" \/ LoginRaises

\* Once _running is cleared, listen() comes to an end, also in the middle of a
\* reconnection.
ListenStops == (~running /\ listener # "idle") ~> listener \in Stops

\* A connection that is lost is replaced, whatever fails on the way: listen()
\* receives again unless it has stopped.
ListenRecovers ==
    listener = "pause" ~> listener \in Stops \/ Settled

\* Docstring of listen(): it runs "until disconnect() is called" and "restores
\* subscriptions after a reconnect".
ListenUntilDisconnect ==
    listener \in {"ended", "crashed"} => closer # "idle"

\* Docstring of disconnect(): "Close the connection and stop the listener."
DisconnectLeavesNothingOpen ==
    closer = "done" /\ listener = "ended" => open = {}
=============================================================================
