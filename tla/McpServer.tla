------------------------------ MODULE McpServer ------------------------------
(***************************************************************************)
(* The MCP server: main() reads its settings and wires one AsyncKiwoomAPI, *)
(* the tool list and the condition search session; tools/call dispatches   *)
(* concurrent calls to the endpoint modules or to the session, and turns   *)
(* what they return or raise into an answer.                               *)
(*                                                                         *)
(* The REST client is what it promises, PlaceOnce, which RestClient is     *)
(* shown to implement; the session is reduced to how its request() ends,   *)
(* which ConditionSession details.                                         *)
(***************************************************************************)
EXTENDS Endpoints, Naturals

CONSTANTS
    Calls,      \* tools/call requests of the MCP client
    TriedBy,    \* bound: the tools each call may name
    Settings    \* bound: the values of an environment variable tried

\* A tool is named after its module and method.
Tool(name, method) == [module |-> name, method |-> method]

RestModules     == ModuleNames \ {"condition_search"}
GuardedModules  == {"order", "credit_order"}
ConditionTools  == {Tool("condition_search", m) : m \in DOMAIN ConditionSearch.trs}
RestTools == UNION {{Tool(n, m) : m \in DOMAIN Classes[n].trs} : n \in RestModules}
AnyTool  == [module : ModuleNames, method : STRING]

ASSUME ToolsAssumption == TriedBy \in [Calls -> SUBSET AnyTool]
ASSUME SettingsAssumption == "" \in Settings    \* the default of both

Hosts    == {"live", "mock"}
NoHost   == "no host"

VARIABLES
    phase,       \* of the process
    mockSetting, liveSetting,    \* KIWOOM_IS_MOCK, KIWOOM_MCP_ALLOW_LIVE_ORDERS
    isMock,      \* is_mock of the facade
    allowLive,   \* allow_live_orders of build_server
    restHost,    \* the server in base_url of the REST client
    authHost,    \* and in that of the auth object
    socket,      \* the server the session's WebSocket is connected to
    made,        \* the endpoint objects that exist
    pc, tool,    \* where each call is, and the tool it names
    raised,      \* what ended its handler, or "nothing"
    answer,      \* the answer to it
    sent,        \* history: what went to the servers
    executed, told    \* the REST client's promise, a request per call

settings == <<mockSetting, liveSetting, isMock, allowLive, restHost, authHost>>
client   == <<executed, told>>
vars == <<phase, settings, socket, made, pc, tool, raised, answer, sent, client>>

Client == INSTANCE PlaceOnce WITH Requests <- Calls

Init ==
    /\ phase = "starting"
    /\ mockSetting = "" /\ liveSetting = ""
    /\ isMock = FALSE /\ allowLive = FALSE
    /\ restHost = NoHost /\ authHost = NoHost /\ socket = NoHost
    /\ made = NoModules
    /\ pc = [c \in Calls |-> "idle"]
    /\ tool = [c \in Calls |-> Tool("order", "")]
    /\ raised = [c \in Calls |-> "nothing"]
    /\ answer = [c \in Calls |-> "none"]
    /\ sent = {}
    /\ Client!Init

-----------------------------------------------------------------------------
(* main(): settings, and what is built from them.                          *)

\* strip().lower() == "true"
IsTrue(setting) == setting \in {"true", " True "}

\* Mutant: anything but "false" opts in.
LiveOrdersUnlessFalse(mock, setting) == mock \/ setting # "false"

LiveOrdersAllowed(mock, setting) == mock \/ IsTrue(setting)

\* base_url of the client, which the auth object is given, and ws_url.
HostOf(mock) == IF mock THEN "mock" ELSE "live"

Start ==
    /\ phase = "starting"
    /\ \E mockEnv, liveEnv \in Settings :
          LET mock == IsTrue(mockEnv)
          IN  /\ mockSetting' = mockEnv /\ liveSetting' = liveEnv
              /\ isMock' = mock
              /\ allowLive' = LiveOrdersAllowed(mock, liveEnv)
              /\ restHost' = HostOf(mock)
              /\ authHost' = restHost'
    /\ phase' = "serving"
    /\ UNCHANGED <<socket, made, pc, tool, raised, answer, sent, client>>

\* A key is missing: sys.exit(1) before anything is built.
StartWithoutKeys ==
    /\ phase = "starting"
    /\ phase' = "exited"
    /\ UNCHANGED <<settings, socket, made, pc, tool, raised, answer, sent, client>>

\* The list tools/list gives, and the only names tools/call knows.
Registered ==
    {t \in RestTools : t.module \notin GuardedModules \/ allowLive} \cup ConditionTools

-----------------------------------------------------------------------------
(* tools/call.                                                             *)

Go(c, place) == pc' = [pc EXCEPT ![c] = place]

\* Mutant: every exception's text is sent as if it were a result.
AnswerAnything(exception) == "result"

\* A few exceptions become an error result, the MCP library reports the others.
AnswerTo(exception) ==
    IF exception = "nothing" THEN "result"
    ELSE IF exception \in {"KiwoomAPIError", "ConditionSearchTimeout", "ValueError"}
         THEN "tool_error"
    ELSE "protocol_error"

End(c, exception) ==
    /\ Go(c, "done")
    /\ raised' = [raised EXCEPT ![c] = exception]
    /\ answer' = [answer EXCEPT ![c] = AnswerTo(exception)]

\* The client may name any tool, listed or not.
CallTool(c, t) ==
    /\ phase = "serving" /\ pc[c] = "idle"
    /\ tool' = [tool EXCEPT ![c] = t]
    /\ Go(c, "called")
    /\ UNCHANGED <<phase, settings, socket, made, raised, answer, sent, client>>

DispatchUnknown(c) ==
    /\ pc[c] = "called" /\ tool[c] \notin Registered
    /\ End(c, "ValueError")
    /\ UNCHANGED <<phase, settings, socket, made, tool, sent, client>>

Message(c, host, path, tr) == [call |-> c, host |-> host, path |-> path, tr |-> tr]

\* The token is issued on first use; its renewals go the same way.
TokenMessages(c) ==
    IF \E m \in sent : m.path = "oauth2" THEN {} ELSE {Message(c, authHost, "oauth2", "token")}

\* getattr(module_obj, method_name) on an object of this class.
Has(class, method) == method \in DOMAIN Classes[class].trs

\* The method is found and called: its class names the path, the method the TR.
DispatchRest(c) ==
    LET t == tool[c]
        class == ModuleIn(made, t.module)
    IN  /\ pc[c] = "called" /\ t \in Registered /\ t.module \in RestModules
        /\ made' = MakeModule(made, t.module)
        /\ Has(class, t.method)
        /\ sent' = sent \cup TokenMessages(c)
                \cup {Message(c, restHost, Classes[class].path, Classes[class].trs[t.method])}
        /\ Go(c, "rest")
        /\ UNCHANGED <<phase, settings, socket, tool, raised, answer, client>>

\* The object has no such method, or params repeats cont_yn or next_key.
DispatchRestRaises(c) ==
    LET t == tool[c]
    IN  /\ pc[c] = "called" /\ t \in Registered /\ t.module \in RestModules
        /\ made' = MakeModule(made, t.module)
        /\ End(c, IF Has(ModuleIn(made, t.module), t.method) THEN "TypeError"
                  ELSE "AttributeError")
        /\ UNCHANGED <<phase, settings, socket, tool, sent, client>>

\* The REST client has the request carried out, as it promises.
RestExecutes(c) ==
    /\ pc[c] = "rest"
    /\ Client!Execute(c)
    /\ UNCHANGED <<phase, settings, socket, made, pc, tool, raised, answer, sent>>

\* What request() raises, by what it means.  ValueError is a body that is not JSON, of
\* the reply or of a token's; MalformedReply is what reading one that is no object raises.
Raises(verdict) ==
    CASE verdict = "success" -> {"nothing"}
      [] verdict = "refused" -> {"KiwoomAPIError", "HTTPStatusError", "KiwoomAuthError"}
      [] OTHER -> {"HTTPStatusError", "TransportError", "ValueError", "MalformedReply"}

RestReturns(c) ==
    /\ pc[c] = "rest"
    /\ \E verdict \in Client!Verdicts :
          /\ Client!Tell(c, verdict)
          /\ \E exception \in Raises(verdict) : End(c, exception)
    /\ UNCHANGED <<phase, settings, socket, made, tool, sent>>

-----------------------------------------------------------------------------
(* The condition search tools, and the session they share.                 *)

IsCondition(c) == tool[c] \in Registered /\ tool[c].module = "condition_search"

\* Every payload but the list's needs arguments["seq"].
DispatchWithoutSeq(c) ==
    /\ pc[c] = "called" /\ IsCondition(c) /\ tool[c].method # "condition_list"
    /\ End(c, "KeyError")
    /\ UNCHANGED <<phase, settings, socket, made, tool, sent, client>>

DispatchCondition(c) ==
    /\ pc[c] = "called" /\ IsCondition(c)
    /\ Go(c, "session")
    /\ UNCHANGED <<phase, settings, socket, made, tool, raised, answer, sent, client>>

\* Mutant: create_websocket leaves is_mock at its default.
SocketHostByDefault(mock) == HostOf(FALSE)

\* create_websocket passes is_mock on to KiwoomWebSocket.
SocketHost(mock) == HostOf(mock)

LoginMessage(c) == Message(c, SocketHost(isMock), "websocket", "LOGIN")

\* _connect_condition_search, for the first calls that find no socket.
Connect(c) ==
    /\ pc[c] = "session" /\ socket = NoHost
    /\ socket' = SocketHost(isMock)
    /\ sent' = sent \cup TokenMessages(c) \cup {LoginMessage(c)}
    /\ UNCHANGED <<phase, settings, made, pc, tool, raised, answer, client>>

\* Mutant: the socket is kept before it is connected.
ConnectFailsHalfway(c) ==
    /\ pc[c] = "session" /\ socket = NoHost
    /\ socket' = "half connected"
    /\ End(c, "KiwoomWebSocketError")
    /\ UNCHANGED <<phase, settings, made, tool, sent, client>>

\* What create_websocket() and connect() raise: no token, no connection (OSError), a link
\* that closes, a login refused, and a token reply or LOGIN reply that cannot be read.
ConnectErrors == {"KiwoomAuthError", "TransportError", "OSError", "ConnectionClosed",
                  "KiwoomWebSocketError", "ValueError", "MalformedReply"}

\* The token, the connection or the login fails; nothing is kept.
ConnectFails(c) ==
    /\ pc[c] = "session" /\ socket = NoHost
    /\ \/ UNCHANGED sent
       \/ sent' = sent \cup TokenMessages(c)
       \/ sent' = sent \cup TokenMessages(c) \cup {LoginMessage(c)}
    /\ \E exception \in ConnectErrors : End(c, exception)
    /\ UNCHANGED <<phase, settings, socket, made, tool, client>>

\* The payload is sent and, unless it cancels a search, answered.
SessionReturns(c) ==
    /\ pc[c] = "session" /\ socket # NoHost
    /\ sent' = sent \cup {Message(c, socket, "websocket", ConditionSearch.trs[tool[c].method])}
    /\ End(c, "nothing")
    /\ UNCHANGED <<phase, settings, socket, made, tool, client>>

\* No reply in time, or the connection is down when the payload is sent.
SessionRaises(c) ==
    /\ pc[c] = "session" /\ socket # NoHost
    /\ \/ /\ tool[c].method # "condition_search_cancel"
          /\ End(c, "ConditionSearchTimeout")
          /\ sent' = sent \cup
               {Message(c, socket, "websocket", ConditionSearch.trs[tool[c].method])}
       \/ End(c, "ConnectionClosed") /\ UNCHANGED sent
    /\ UNCHANGED <<phase, settings, socket, made, tool, client>>

-----------------------------------------------------------------------------
(* The end: standard input closes, the library cancels what still runs.    *)

StopServing ==
    /\ phase = "serving"
    /\ phase' = "closing"
    /\ pc' = [c \in Calls |-> IF pc[c] = "idle" THEN "idle" ELSE "done"]
    /\ raised' = [c \in Calls |-> IF pc[c] \in {"idle", "done"} THEN raised[c] ELSE "CancelledError"]
    /\ UNCHANGED <<settings, socket, made, tool, answer, sent, client>>

\* session.close(), then api.close().
CloseAll ==
    /\ phase = "closing"
    /\ socket' = NoHost
    /\ phase' = "exited"
    /\ UNCHANGED <<settings, made, pc, tool, raised, answer, sent, client>>

HandlerStep(c) ==
    \/ DispatchUnknown(c) \/ DispatchRest(c) \/ DispatchRestRaises(c)
    \/ RestExecutes(c) \/ RestReturns(c)
    \/ DispatchWithoutSeq(c) \/ DispatchCondition(c)
    \/ Connect(c) \/ ConnectFails(c) \/ SessionReturns(c) \/ SessionRaises(c)

Next ==
    \/ Start \/ StartWithoutKeys \/ StopServing \/ CloseAll
    \/ \E c \in Calls : HandlerStep(c) \/ \E t \in TriedBy[c] : CallTool(c, t)

Spec == Init /\ [][Next]_vars

-----------------------------------------------------------------------------
(* Properties.                                                             *)

Phases     == {"starting", "serving", "closing", "exited"}
Places     == {"idle", "called", "rest", "session", "done"}
Exceptions == {"nothing", "ValueError", "TypeError", "AttributeError", "KeyError",
               "KiwoomAPIError", "HTTPStatusError", "KiwoomAuthError", "TransportError",
               "KiwoomWebSocketError", "ConditionSearchTimeout", "ConnectionClosed",
               "OSError", "MalformedReply", "CancelledError"}

\* Every variable has its type.
TypeOK ==
    /\ phase \in Phases
    /\ mockSetting \in Settings /\ liveSetting \in Settings
    /\ isMock \in BOOLEAN /\ allowLive \in BOOLEAN
    /\ restHost \in Hosts \cup {NoHost} /\ authHost \in Hosts \cup {NoHost}
    /\ socket \in Hosts \cup {NoHost}
    /\ made \in [ModuleNames -> ModuleNames \cup {NotMade}]
    /\ pc \in [Calls -> Places]
    /\ raised \in [Calls -> Exceptions]
    /\ answer \in [Calls -> {"none", "result", "tool_error", "protocol_error"}]

OrderPaths == {"ordr", "crdordr"}

\* The guard of the design document, on the wire: whatever tools are called and in
\* whatever order, nothing is sent to an order URL of the live server unless
\* KIWOOM_MCP_ALLOW_LIVE_ORDERS says "true".
LiveOrderNeedsOptIn ==
    \A m \in sent :
        m.host = "live" /\ m.path \in OrderPaths => liveSetting \in {"true", " True "}

\* KIWOOM_IS_MOCK decides for the REST client, the auth object and the WebSocket alike:
\* no message of a mock session ever goes to the live server, nor the other way.
OneEnvironment ==
    \A m \in sent : m.host = IF mockSetting \in {"true", " True "} THEN "mock" ELSE "live"

\* A tool sends the TR of the method it is named after to that module's URL, whichever
\* modules the registry has made before, and a listed tool always has its method.
ToolReachesItsEndpoint ==
    /\ \A m \in sent : m.path \notin {"oauth2", "websocket"} =>
          LET class == Classes[tool[m.call].module]
          IN  m.path = class.path /\ m.tr = class.trs[tool[m.call].method]
    /\ \A c \in Calls : raised[c] # "AttributeError"

\* An answer never looks like a success when the request failed: a REST tool's result
\* means the server has carried the request out.  An error result means that it has not,
\* so that an order may be placed again, with one exception: a ValueError of a tool that
\* is listed, because a body that is not JSON is one too and says nothing of the effect.
\* The one for an unknown name is harmless, nothing is ever carried out for it.
AnswersAreTrue ==
    \A c \in Calls :
        /\ answer[c] = "result" =>
              IF tool[c].module = "condition_search"
              THEN \E m \in sent : m.call = c /\ m.tr = ConditionSearch.trs[tool[c].method]
              ELSE executed[c] = 1
        /\ answer[c] = "tool_error" /\ executed[c] = 1 =>
              raised[c] = "ValueError" /\ tool[c] \in Registered
        /\ raised[c] = "KiwoomAPIError" => answer[c] = "tool_error"
=============================================================================
