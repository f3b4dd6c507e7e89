--------------------------- MODULE McpServerProofs ---------------------------
(***************************************************************************)
(* Proofs about McpServer, for any number of concurrent calls, of any      *)
(* tools, and any settings.                                                *)
(***************************************************************************)
EXTENDS McpServer, TLAPS

-----------------------------------------------------------------------------
(* The catalogue.                                                          *)

\* Only the guarded modules send to an order URL.
LEMMA OrderUrlsAreGuarded ==
    \A n \in RestModules : Classes[n].path \in OrderPaths => n \in GuardedModules
  <1>1. /\ Account.path = "acnt" /\ StockInfo.path = "stkinfo" /\ Market.path = "mrkcond"
        /\ Chart.path = "chart" /\ Ranking.path = "rkinfo"
    BY DEF Account, StockInfo, Market, Chart, Ranking
  <1>2. /\ Sector.path = "sect" /\ ForeignInstitution.path = "frgnistt"
        /\ ShortSelling.path = "shsa" /\ SLB.path = "slb" /\ Theme.path = "thme"
        /\ ELW.path = "elw" /\ ETF.path = "etf"
    BY DEF Sector, ForeignInstitution, ShortSelling, SLB, Theme, ELW, ETF
  <1> QED
    BY <1>1, <1>2 DEF Classes, ModuleNames, RestModules, OrderPaths, GuardedModules

LEMMA ToolFacts ==
    /\ \A t \in RestTools : t.module \in RestModules /\ t.method \in DOMAIN Classes[t.module].trs
    /\ \A t \in Registered : t.module \in RestModules => t \in RestTools
    /\ \A t \in Registered : t.module \in GuardedModules => allowLive
    /\ RestModules \subseteq ModuleNames /\ "condition_search" \notin RestModules
    /\ GuardedModules \subseteq RestModules
  <1>1. /\ "order" \in ModuleNames /\ "credit_order" \in ModuleNames
    BY DEF ModuleNames, Classes
  <1>2. \A t \in RestTools : t.module \in RestModules /\ t.method \in DOMAIN Classes[t.module].trs
    BY DEF RestTools, Tool
  <1>3. \A t \in ConditionTools : t.module = "condition_search"
    BY DEF ConditionTools, Tool
  <1> QED
    BY <1>1, <1>2, <1>3 DEF Registered, RestModules, GuardedModules

\* The list of tools is made once, from allow_live_orders.
LEMMA SameTools ==
    ASSUME UNCHANGED allowLive
    PROVE  Registered' = Registered
  BY DEF Registered

-----------------------------------------------------------------------------
(* The inductive invariant.                                                *)

\* What main() builds agrees with the settings; before that there is nothing.
WiringInv ==
    \/ /\ phase \in {"starting", "exited"} /\ restHost = NoHost /\ authHost = NoHost
       /\ socket = NoHost /\ sent = {} /\ \A c \in Calls : pc[c] = "idle"
    \/ /\ phase # "starting"
       /\ isMock = IsTrue(mockSetting)
       /\ allowLive = LiveOrdersAllowed(isMock, liveSetting)
       /\ restHost = HostOf(isMock) /\ authHost = HostOf(isMock)
       /\ socket \in {NoHost, HostOf(isMock)}

\* Every slot of the registry holds an object of its own class.
ModulesInv == \A n \in ModuleNames : made[n] \in {NotMade, n}

\* A REST message was sent for a registered tool by a call that is past its dispatch.
SentInv ==
    \A m \in sent :
        /\ m.host = HostOf(isMock)
        /\ m.path \notin {"oauth2", "websocket"} =>
              /\ m.call \in Calls /\ pc[m.call] \in {"rest", "done"}
              /\ tool[m.call] \in Registered /\ tool[m.call].module \in RestModules
              /\ m.path = Classes[tool[m.call].module].path
              /\ m.tr = Classes[tool[m.call].module].trs[tool[m.call].method]

\* How far the REST client is with each call.
CallInv ==
    \A c \in Calls :
        /\ executed[c] \in {0, 1}
        /\ pc[c] \in {"idle", "called", "session"} => executed[c] = 0
        /\ pc[c] = "rest" => tool[c].module \in RestModules
        /\ pc[c] = "rest" \/ executed[c] = 1 => tool[c] \in Registered
        /\ pc[c] = "session" => tool[c].module = "condition_search"
        /\ raised[c] # "AttributeError"
        /\ answer[c] # "none" => pc[c] = "done"
        /\ raised[c] # "nothing" => pc[c] = "done"

ClientInv == executed \in [Calls -> Nat]

IInv == TypeOK /\ ClientInv /\ WiringInv /\ ModulesInv /\ SentInv /\ CallInv /\ AnswersAreTrue

LEMMA InitInv == Init => IInv
  <1> SUFFICES ASSUME Init PROVE IInv
    OBVIOUS
  <1> USE DEF Init, Client!Init
  <1>1. TypeOK
    BY SettingsAssumption
       DEF TypeOK, Phases, Places, Exceptions, NoModules, Hosts
  <1>2. ModulesInv
    BY DEF ModulesInv, NoModules
  <1>3. ClientInv /\ WiringInv /\ SentInv
    BY DEF ClientInv, WiringInv, SentInv
  <1>4. CallInv /\ AnswersAreTrue
    <2>1. \A c \in Calls : /\ executed[c] = 0 /\ pc[c] = "idle"
                           /\ raised[c] = "nothing" /\ answer[c] = "none"
      OBVIOUS
    <2> QED
      BY ONLY <2>1 DEF CallInv, AnswersAreTrue
  <1> QED
    BY <1>1, <1>2, <1>3, <1>4 DEF IInv

\* The steps of the process.
LEMMA ProcessStep ==
    ASSUME IInv, Start \/ StartWithoutKeys \/ StopServing \/ CloseAll
    PROVE  IInv'
  <1> USE DEF IInv, TypeOK, ClientInv, client, settings
  <1>1. CASE Start
    <2>1. PICK mockEnv \in Settings, liveEnv \in Settings :
              /\ mockSetting' = mockEnv /\ liveSetting' = liveEnv
              /\ isMock' = IsTrue(mockEnv)
              /\ allowLive' = LiveOrdersAllowed(IsTrue(mockEnv), liveEnv)
              /\ restHost' = HostOf(IsTrue(mockEnv))
              /\ authHost' = HostOf(IsTrue(mockEnv))
      BY <1>1 DEF Start
    <2>2. /\ phase = "starting" /\ phase' = "serving" /\ sent = {} /\ socket = NoHost
          /\ UNCHANGED <<socket, made, pc, tool, raised, answer, sent, executed, told>>
      BY <1>1 DEF Start, WiringInv
    <2>3. isMock' \in BOOLEAN /\ allowLive' \in BOOLEAN
      <3>1. IsTrue(mockEnv) \in BOOLEAN
        BY DEF IsTrue
      <3>2. LiveOrdersAllowed(IsTrue(mockEnv), liveEnv) \in BOOLEAN
        BY DEF LiveOrdersAllowed
      <3> QED
        BY <2>1, <3>1, <3>2
    <2>7. restHost' \in Hosts /\ authHost' \in Hosts
      BY <2>1 DEF HostOf, Hosts
    <2>4. TypeOK' /\ ClientInv'
      BY <2>1, <2>2, <2>3, <2>7 DEF Phases
    <2>5. WiringInv'
      BY <2>1, <2>2 DEF WiringInv
    <2>6. ModulesInv' /\ SentInv'
      BY <2>2 DEF ModulesInv, SentInv
    <2>8. \A c \in Calls : pc[c] = "idle" /\ executed[c] = 0
      BY <1>1 DEF Start, WiringInv, CallInv
    <2>9. CallInv' /\ AnswersAreTrue'
      BY <2>2, <2>8 DEF CallInv, AnswersAreTrue
    <2> QED
      BY <2>4, <2>5, <2>6, <2>9
  <1>2. CASE StartWithoutKeys
    <2>1. TypeOK' /\ ClientInv' /\ WiringInv'
      BY <1>2 DEF StartWithoutKeys, WiringInv, Phases
    <2>2. ModulesInv' /\ SentInv' /\ CallInv' /\ AnswersAreTrue'
      BY <1>2 DEF StartWithoutKeys, ModulesInv, SentInv, Registered, CallInv, AnswersAreTrue
    <2> QED
      BY <2>1, <2>2
  <1>3. CASE StopServing
    <2>1. TypeOK' /\ ClientInv'
      BY <1>3 DEF StopServing, Phases, Places, Exceptions
    <2>2. WiringInv' /\ ModulesInv'
      BY <1>3 DEF StopServing, WiringInv, ModulesInv
    <2>3. SentInv'
      BY <1>3 DEF StopServing, SentInv, Registered
    <2>4. CallInv' /\ AnswersAreTrue'
      BY <1>3, SameTools DEF StopServing, CallInv, AnswersAreTrue
    <2> QED
      BY <2>1, <2>2, <2>3, <2>4
  <1>4. CASE CloseAll
    <2>1. TypeOK' /\ ClientInv' /\ WiringInv'
      BY <1>4 DEF CloseAll, WiringInv, Phases
    <2>2. ModulesInv' /\ SentInv' /\ CallInv' /\ AnswersAreTrue'
      BY <1>4 DEF CloseAll, ModulesInv, SentInv, Registered, CallInv, AnswersAreTrue
    <2> QED
      BY <2>1, <2>2
  <1> QED
    BY <1>1, <1>2, <1>3, <1>4

\* Ending a call with an exception, or none.
LEMMA EndTypeOK ==
    ASSUME TypeOK, NEW c \in Calls, NEW exception \in Exceptions, End(c, exception)
    PROVE  /\ pc' \in [Calls -> Places]
           /\ raised' \in [Calls -> Exceptions]
           /\ answer' \in [Calls -> {"none", "result", "tool_error", "protocol_error"}]
           /\ pc' = [pc EXCEPT ![c] = "done"]
           /\ raised' = [raised EXCEPT ![c] = exception]
           /\ answer' = [answer EXCEPT ![c] = AnswerTo(exception)]
           /\ AnswerTo(exception) = "result" <=> exception = "nothing"
           /\ AnswerTo("KiwoomAPIError") = "tool_error"
  <1>1. AnswerTo(exception) \in {"result", "tool_error", "protocol_error"}
    BY DEF AnswerTo
  <1>2. AnswerTo(exception) = "result" <=> exception = "nothing"
    BY DEF AnswerTo
  <1>3. AnswerTo("KiwoomAPIError") = "tool_error"
    BY DEF AnswerTo
  <1> QED
    BY <1>1, <1>2, <1>3 DEF TypeOK, End, Go, Places

\* A call that is being handled shows that main() has wired everything.
LEMMA Wired ==
    ASSUME IInv, NEW c \in Calls, pc[c] # "idle" \/ phase = "serving"
    PROVE  /\ restHost = HostOf(isMock) /\ authHost = HostOf(isMock)
           /\ socket \in {NoHost, HostOf(isMock)}
           /\ phase # "starting" /\ isMock = IsTrue(mockSetting)
           /\ allowLive = LiveOrdersAllowed(isMock, liveSetting)
           /\ HostOf(isMock) \in Hosts /\ HostOf(isMock) # NoHost
  BY DEF IInv, WiringInv, HostOf, Hosts, NoHost

\* What a step of a handler's has to keep: the wiring,
LEMMA WiringKept ==
    ASSUME IInv, NEW c \in Calls, pc[c] # "idle", UNCHANGED <<phase, settings>>,
           socket' \in {NoHost, HostOf(isMock)}
    PROVE  WiringInv'
  BY DEF IInv, WiringInv, settings

\* and, if it sends nothing, what is known of the messages sent.
LEMMA SentKept ==
    ASSUME IInv, NEW c \in Calls, UNCHANGED <<settings, sent>>,
           \A d \in Calls : d # c => pc'[d] = pc[d] /\ tool'[d] = tool[d],
           \/ pc[c] \notin {"rest", "done"}
           \/ pc'[c] \in {"rest", "done"} /\ tool'[c] = tool[c]
    PROVE  SentInv'
  BY DEF IInv, SentInv, settings, Registered

\* The call begins.
LEMMA CallStep ==
    ASSUME IInv, NEW c \in Calls, NEW t \in TriedBy[c], CallTool(c, t)
    PROVE  IInv'
  <1>1. /\ pc[c] = "idle" /\ pc' = [pc EXCEPT ![c] = "called"]
        /\ tool' = [tool EXCEPT ![c] = t]
        /\ UNCHANGED <<phase, settings, socket, made, raised, answer, sent, executed, told>>
        /\ phase = "serving"
    BY DEF CallTool, Go, client
  <1>2. TypeOK' /\ ClientInv' /\ ModulesInv'
    BY <1>1 DEF IInv, TypeOK, ClientInv, ModulesInv, settings, Places
  <1>3. WiringInv'
    BY <1>1 DEF IInv, WiringInv, settings
  <1>4. \A d \in Calls : d # c => pc'[d] = pc[d] /\ tool'[d] = tool[d]
    BY <1>1 DEF IInv, TypeOK
  <1>5. SentInv'
    BY <1>1, <1>4, SentKept
  <1>6. pc'[c] = "called" /\ answer[c] = "none" /\ raised[c] = "nothing" /\ executed[c] = 0
    BY <1>1 DEF IInv, TypeOK, CallInv
  <1>7. CallInv' /\ AnswersAreTrue'
    BY <1>1, <1>4, <1>6, SameTools DEF IInv, CallInv, AnswersAreTrue, settings
  <1> QED
    BY <1>2, <1>3, <1>5, <1>7 DEF IInv

\* A handler ends with an exception before anything is sent.
LEMMA FailingStep ==
    ASSUME IInv, NEW c \in Calls,
           \/ DispatchUnknown(c) \/ DispatchWithoutSeq(c) \/ DispatchRestRaises(c)
    PROVE  IInv'
  <1>1. PICK exception \in {"ValueError", "KeyError", "TypeError"} :
           End(c, exception)
    <2>1. CASE DispatchRestRaises(c)
      <3>1. ModuleIn(made, tool[c].module) = tool[c].module
        BY <2>1, ToolFacts DEF DispatchRestRaises, ModuleIn, Slot, IInv, ModulesInv
      <3>2. Has(ModuleIn(made, tool[c].module), tool[c].method)
        BY <2>1, <3>1, ToolFacts DEF DispatchRestRaises, Has
      <3> QED
        BY <2>1, <3>2 DEF DispatchRestRaises
    <2> QED
      BY <2>1 DEF DispatchUnknown, DispatchWithoutSeq
  <1>2. /\ pc[c] = "called"
        /\ UNCHANGED <<phase, settings, socket, tool, sent, executed, told>>
    BY DEF DispatchUnknown, DispatchWithoutSeq, DispatchRestRaises, client
  <1>3. ModulesInv' /\ made' \in [ModuleNames -> ModuleNames \cup {NotMade}]
    <2>1. CASE UNCHANGED made
      BY <2>1 DEF IInv, ModulesInv, TypeOK
    <2>2. CASE DispatchRestRaises(c)
      <3>1. tool[c].module \in ModuleNames
        BY <2>2, ToolFacts DEF DispatchRestRaises
      <3> QED
        BY <2>2, <3>1 DEF DispatchRestRaises, MakeModule, ModuleIn, Slot, IInv, ModulesInv, TypeOK
    <2> QED
      BY <2>1, <2>2 DEF DispatchUnknown, DispatchWithoutSeq
  <1>4. exception \in Exceptions /\ TypeOK
    BY DEF Exceptions, IInv
  <1>5. /\ pc' = [pc EXCEPT ![c] = "done"] /\ raised' = [raised EXCEPT ![c] = exception]
        /\ answer' = [answer EXCEPT ![c] = AnswerTo(exception)]
        /\ pc' \in [Calls -> Places] /\ raised' \in [Calls -> Exceptions]
        /\ answer' \in [Calls -> {"none", "result", "tool_error", "protocol_error"}]
        /\ AnswerTo(exception) # "result"
    BY <1>1, <1>4, EndTypeOK
  <1>6. TypeOK' /\ ClientInv'
    BY <1>2, <1>3, <1>4, <1>5 DEF IInv, TypeOK, ClientInv, settings
  <1>7. WiringInv'
    BY <1>2, <1>4, WiringKept, Wired
  <1>8. \A d \in Calls : d # c => pc'[d] = pc[d] /\ tool'[d] = tool[d]
    BY <1>2, <1>4, <1>5 DEF TypeOK
  <1>9. SentInv'
    BY <1>2, <1>8, SentKept
  <1>10. CallInv'
    BY <1>2, <1>4, <1>5, SameTools DEF IInv, CallInv, TypeOK, settings
  <1>11. AnswersAreTrue'
    <2>1. executed[c] = 0
      BY <1>2 DEF IInv, CallInv
    <2> QED
      BY <1>2, <1>4, <1>5, <2>1, SameTools DEF IInv, AnswersAreTrue, TypeOK, settings
  <1> QED
    BY <1>3, <1>6, <1>7, <1>9, <1>10, <1>11 DEF IInv

\* A REST tool is dispatched: the message names its TR and its path.
LEMMA RestStep ==
    ASSUME IInv, NEW c \in Calls, DispatchRest(c)
    PROVE  IInv'
  <1> DEFINE t == tool[c]
             m0 == Message(c, restHost, Classes[t.module].path, Classes[t.module].trs[t.method])
  <1>1. /\ t \in Registered /\ t.module \in RestModules /\ t.module \in ModuleNames
        /\ pc[c] = "called"
    BY ToolFacts DEF DispatchRest
  <1>2. ModuleIn(made, t.module) = t.module
    BY <1>1 DEF ModuleIn, Slot, IInv, ModulesInv
  <1>3. /\ sent' = sent \cup TokenMessages(c) \cup {m0}
        /\ made' = MakeModule(made, t.module)
        /\ pc' = [pc EXCEPT ![c] = "rest"]
        /\ UNCHANGED <<phase, settings, socket, tool, raised, answer, executed, told>>
    BY <1>2 DEF DispatchRest, Go, client
  <1>4. ModulesInv' /\ made' \in [ModuleNames -> ModuleNames \cup {NotMade}]
    BY <1>1, <1>3 DEF MakeModule, ModuleIn, Slot, IInv, ModulesInv, TypeOK
  <1>5. TypeOK' /\ ClientInv'
    BY <1>3, <1>4 DEF IInv, TypeOK, ClientInv, settings, Places
  <1>6. WiringInv'
    BY <1>1, <1>3, WiringKept, Wired
  <1>7. SentInv'
    <2>1. \A m \in TokenMessages(c) : m.host = HostOf(isMock) /\ m.path = "oauth2"
      BY <1>1, Wired DEF TokenMessages, Message
    <2>2. /\ m0.host = HostOf(isMock) /\ m0.call = c
          /\ m0.path = Classes[t.module].path /\ m0.tr = Classes[t.module].trs[t.method]
      BY <1>1, Wired DEF Message
    <2> HIDE DEF m0
    <2>3. \A d \in Calls : d # c => pc'[d] = pc[d]
      BY <1>3 DEF IInv, TypeOK
    <2>4. pc'[c] = "rest"
      BY <1>3 DEF IInv, TypeOK
    <2>5. \A m \in sent : m.path \notin {"oauth2", "websocket"} => m.call # c
      BY <1>1 DEF IInv, SentInv
    <2>6. SentInv
      BY DEF IInv
    <2>7. ASSUME NEW m \in sent
          PROVE  /\ m.host = HostOf(isMock)
                 /\ m.path \notin {"oauth2", "websocket"} =>
                      /\ m.call \in Calls /\ pc'[m.call] \in {"rest", "done"}
                      /\ tool[m.call] \in Registered /\ tool[m.call].module \in RestModules
                      /\ m.path = Classes[tool[m.call].module].path
                      /\ m.tr = Classes[tool[m.call].module].trs[tool[m.call].method]
      BY <2>3, <2>5, <2>6 DEF SentInv
    <2>8. UNCHANGED <<isMock, tool, allowLive>>
      BY <1>3 DEF settings
    <2>9. Registered' = Registered
      BY <2>8 DEF Registered
    <2> QED
      BY <1>1, <1>3, <2>1, <2>2, <2>4, <2>7, <2>8, <2>9 DEF SentInv
  <1>8. CallInv'
    BY <1>1, <1>3, SameTools DEF IInv, CallInv, TypeOK, settings
  <1>9. AnswersAreTrue'
    <2>1. sent \subseteq sent'
      BY <1>3
    <2> QED
      BY <1>3, <2>1, SameTools DEF IInv, AnswersAreTrue, settings
  <1> QED
    BY <1>4, <1>5, <1>6, <1>7, <1>8, <1>9 DEF IInv

\* The REST client carries a request out, or tells how it went.
LEMMA ClientStep ==
    ASSUME IInv, NEW c \in Calls, RestExecutes(c) \/ RestReturns(c)
    PROVE  IInv'
  <1>1. /\ pc[c] = "rest" /\ tool[c].module \in RestModules
        /\ tool[c].module # "condition_search"
        /\ UNCHANGED <<phase, settings, socket, made, tool, sent>>
    BY ToolFacts DEF RestExecutes, RestReturns, IInv, CallInv
  <1>2. CASE RestExecutes(c)
    <2>1. /\ executed' = [executed EXCEPT ![c] = 1]
          /\ UNCHANGED <<pc, raised, answer>>
      BY <1>2 DEF RestExecutes, Client!Execute
    <2>2. answer[c] = "none" /\ raised[c] = "nothing"
      BY <1>1 DEF IInv, TypeOK, CallInv
    <2>3. TypeOK' /\ ClientInv' /\ ModulesInv'
      BY <1>1, <2>1 DEF IInv, TypeOK, ClientInv, ModulesInv, settings
    <2>4. WiringInv' /\ SentInv'
      BY <1>1, <2>1, WiringKept, SentKept, Wired
    <2>5. CallInv' /\ AnswersAreTrue'
      BY <1>1, <2>1, <2>2, SameTools DEF IInv, CallInv, AnswersAreTrue, ClientInv, settings
    <2> QED
      BY <2>3, <2>4, <2>5 DEF IInv
  <1>3. CASE RestReturns(c)
    <2>0. PICK verdict \in Client!Verdicts :
              Client!Tell(c, verdict) /\ \E exception \in Raises(verdict) : End(c, exception)
      BY <1>3 DEF RestReturns
    <2>1. PICK exception \in Raises(verdict) : End(c, exception)
      BY <2>0
    <2>2. /\ verdict \in {"success", "refused", "unknown"}
          /\ executed' = executed
          /\ verdict = "success" => executed[c] = 1
          /\ verdict = "refused" => executed[c] = 0
      BY <2>0 DEF Client!Verdicts, Client!Tell
    <2>3. /\ exception \in Exceptions \ {"AttributeError"}
          /\ exception = "nothing" => executed[c] = 1
          /\ exception = "KiwoomAPIError" => executed[c] = 0
          /\ executed[c] = 1 => AnswerTo(exception) # "tool_error" \/ exception = "ValueError"
      <3>1. CASE verdict = "success"
        BY <2>1, <2>2, <3>1 DEF Raises, Exceptions, AnswerTo
      <3>2. CASE verdict = "refused"
        BY <2>1, <2>2, <3>2 DEF Raises, Exceptions, AnswerTo
      <3>3. CASE verdict = "unknown"
        BY <2>1, <2>2, <3>3 DEF Raises, Exceptions, AnswerTo
      <3> QED
        BY <2>2, <3>1, <3>2, <3>3
    <2>4. /\ pc' \in [Calls -> Places] /\ raised' \in [Calls -> Exceptions]
          /\ answer' \in [Calls -> {"none", "result", "tool_error", "protocol_error"}]
          /\ pc' = [pc EXCEPT ![c] = "done"]
          /\ raised' = [raised EXCEPT ![c] = exception]
          /\ answer' = [answer EXCEPT ![c] = AnswerTo(exception)]
          /\ AnswerTo(exception) = "result" <=> exception = "nothing"
          /\ AnswerTo("KiwoomAPIError") = "tool_error"
      BY <2>1, <2>3, EndTypeOK DEF IInv
    <2>5. TypeOK' /\ ClientInv' /\ ModulesInv'
      BY <1>1, <2>2, <2>4 DEF IInv, TypeOK, ClientInv, ModulesInv, settings
    <2>6. \A d \in Calls : d # c => pc'[d] = pc[d] /\ tool'[d] = tool[d]
      BY <1>1, <2>4 DEF IInv, TypeOK
    <2>7. pc'[c] = "done"
      BY <2>4 DEF IInv, TypeOK
    <2>8. WiringInv' /\ SentInv'
      BY <1>1, <2>6, <2>7, WiringKept, SentKept, Wired
    <2>9. CallInv'
      BY <1>1, <2>2, <2>3, <2>4, SameTools DEF IInv, CallInv, TypeOK, settings
    <2>10. AnswersAreTrue'
      <3>1. ASSUME NEW d \in Calls, d # c
            PROVE  raised'[d] = raised[d] /\ answer'[d] = answer[d]
        BY <2>4, <3>1 DEF IInv, TypeOK
      <3>2. raised'[c] = exception /\ answer'[c] = AnswerTo(exception)
        BY <2>4 DEF IInv, TypeOK
      <3> QED
        BY <1>1, <2>2, <2>3, <2>4, <3>1, <3>2, SameTools DEF IInv, CallInv, AnswersAreTrue, settings
    <2> QED
      BY <2>5, <2>8, <2>9, <2>10 DEF IInv
  <1> QED
    BY <1>2, <1>3

\* The session: a call goes to it, connects it, or ends in it.
LEMMA SessionMessages ==
    ASSUME IInv, NEW c \in Calls, pc[c] = "session", UNCHANGED <<settings, tool>>,
           \A d \in Calls : d # c => pc'[d] = pc[d],
           sent \subseteq sent',
           \A m \in sent' \ sent : m.host = HostOf(isMock) /\ m.path \in {"oauth2", "websocket"}
    PROVE  SentInv'
  <1>1. SentInv /\ Registered' = Registered
    BY DEF IInv, Registered, settings
  <1>2. ASSUME NEW m \in sent, m.path \notin {"oauth2", "websocket"}
        PROVE  m.call # c
    BY <1>1, <1>2 DEF SentInv
  <1> QED
    BY <1>1, <1>2 DEF SentInv, settings

LEMMA SessionStep ==
    ASSUME IInv, NEW c \in Calls,
           \/ DispatchCondition(c) \/ Connect(c) \/ ConnectFails(c)
           \/ SessionReturns(c) \/ SessionRaises(c)
    PROVE  IInv'
  <1>0. c \in Calls /\ TypeOK
    BY DEF IInv
  <1>1. CASE DispatchCondition(c)
    <2>1. /\ pc[c] = "called" /\ tool[c].module = "condition_search"
          /\ pc' = [pc EXCEPT ![c] = "session"]
          /\ UNCHANGED <<phase, settings, socket, made, tool, raised, answer, sent, executed, told>>
      BY <1>1 DEF DispatchCondition, IsCondition, Go, client
    <2>2. TypeOK' /\ ClientInv' /\ ModulesInv'
      BY <2>1 DEF IInv, TypeOK, ClientInv, ModulesInv, settings, Places
    <2>3. \A d \in Calls : d # c => pc'[d] = pc[d] /\ tool'[d] = tool[d]
      BY <2>1 DEF IInv, TypeOK
    <2>4. WiringInv' /\ SentInv'
      BY <2>1, <2>3, WiringKept, SentKept, Wired
    <2>5. CallInv' /\ AnswersAreTrue'
      BY <2>1, SameTools DEF IInv, CallInv, AnswersAreTrue, TypeOK, settings
    <2> QED
      BY <2>2, <2>4, <2>5 DEF IInv
  <1>2. CASE Connect(c)
    <2>1. /\ pc[c] = "session" /\ socket' = HostOf(isMock)
          /\ sent' = sent \cup TokenMessages(c)
                \cup {Message(c, HostOf(isMock), "websocket", "LOGIN")}
          /\ UNCHANGED <<phase, settings, made, pc, tool, raised, answer, executed, told>>
      BY <1>2 DEF Connect, LoginMessage, SocketHost, client
    <2>2. authHost = HostOf(isMock) /\ HostOf(isMock) \in Hosts
      BY <2>1, Wired
    <2>3. \A m \in sent' \ sent : m.host = HostOf(isMock) /\ m.path \in {"oauth2", "websocket"}
      BY <2>1, <2>2 DEF TokenMessages, Message
    <2>4. TypeOK' /\ ClientInv' /\ ModulesInv'
      BY <2>1, <2>2 DEF IInv, TypeOK, ClientInv, ModulesInv, settings
    <2>5. WiringInv' /\ SentInv'
      BY <2>1, <2>3, WiringKept, SessionMessages
    <2>6. CallInv'
      BY <2>1, SameTools DEF IInv, CallInv, settings
    <2>7. AnswersAreTrue'
      <3>1. sent \subseteq sent'
        BY <2>1
      <3> QED
        BY <2>1, <3>1, SameTools DEF IInv, AnswersAreTrue, settings
    <2> QED
      BY <2>4, <2>5, <2>6, <2>7 DEF IInv
  <1>3. CASE SessionReturns(c) \/ SessionRaises(c)
    <2> DEFINE m0 == Message(c, socket, "websocket", ConditionSearch.trs[tool[c].method])
    <2>1. PICK exception \in {"nothing", "ConditionSearchTimeout", "ConnectionClosed"} :
              /\ End(c, exception)
              /\ sent' = sent \cup {m0} \/ (exception # "nothing" /\ sent' = sent)
      BY <1>3 DEF SessionReturns, SessionRaises
    <2>2. /\ pc[c] = "session" /\ socket # NoHost
          /\ UNCHANGED <<phase, settings, socket, made, tool, executed, told>>
      BY <1>3 DEF SessionReturns, SessionRaises, client
    <2>3. exception \in Exceptions
      BY DEF Exceptions
    <2>4. /\ pc' \in [Calls -> Places] /\ raised' \in [Calls -> Exceptions]
          /\ answer' \in [Calls -> {"none", "result", "tool_error", "protocol_error"}]
          /\ pc' = [pc EXCEPT ![c] = "done"]
          /\ raised' = [raised EXCEPT ![c] = exception]
          /\ answer' = [answer EXCEPT ![c] = AnswerTo(exception)]
          /\ AnswerTo(exception) = "result" <=> exception = "nothing"
      BY <1>0, <2>1, <2>3, EndTypeOK
    <2>5. socket = HostOf(isMock)
      BY <2>2, Wired
    <2>6. m0.call = c /\ m0.tr = ConditionSearch.trs[tool[c].method]
            /\ m0.host = HostOf(isMock) /\ m0.path = "websocket"
      BY <2>5 DEF Message
    <2>7. tool[c].module = "condition_search"
      BY <2>2 DEF IInv, CallInv
    <2> HIDE DEF m0
    <2>8. \A d \in Calls : d # c => /\ pc'[d] = pc[d] /\ raised'[d] = raised[d]
                                     /\ answer'[d] = answer[d]
      BY <1>0, <2>4 DEF TypeOK
    <2>9. pc'[c] = "done" /\ raised'[c] = exception /\ answer'[c] = AnswerTo(exception)
      BY <1>0, <2>4 DEF TypeOK
    <2>10. TypeOK' /\ ClientInv' /\ ModulesInv'
      BY <2>2, <2>4 DEF IInv, TypeOK, ClientInv, ModulesInv, settings
    <2>11. WiringInv' /\ SentInv'
      BY <2>1, <2>2, <2>5, <2>6, <2>8, WiringKept, SessionMessages
    <2>12. CallInv'
      BY <2>2, <2>7, <2>8, <2>9, SameTools DEF IInv, CallInv, settings
    <2>13. AnswersAreTrue'
      <3>1. sent \subseteq sent'
        BY <2>1
      <3>2. answer'[c] = "result" => m0 \in sent'
        BY <2>1, <2>4, <2>9
      <3>3. AnswersAreTrue
        BY DEF IInv
      <3>4. raised'[c] # "KiwoomAPIError"
        BY <2>9
      <3> QED
        BY <2>2, <2>6, <2>7, <2>8, <3>1, <3>2, <3>3, <3>4, SameTools
           DEF IInv, CallInv, AnswersAreTrue, settings
    <2> QED
      BY <2>10, <2>11, <2>12, <2>13 DEF IInv
  <1>4. CASE ConnectFails(c)
    <2> DEFINE m0 == Message(c, HostOf(isMock), "websocket", "LOGIN")
    <2>1. PICK exception \in ConnectErrors : End(c, exception)
      BY <1>4 DEF ConnectFails
    <2>2. /\ pc[c] = "session" /\ sent \subseteq sent'
          /\ sent' \subseteq sent \cup TokenMessages(c) \cup {m0}
          /\ UNCHANGED <<phase, settings, socket, made, tool, executed, told>>
      BY <1>4 DEF ConnectFails, LoginMessage, SocketHost, client
    <2>3. exception \in Exceptions /\ exception \notin {"nothing", "AttributeError", "KiwoomAPIError"}
      BY DEF Exceptions, ConnectErrors
    <2>4. /\ pc' \in [Calls -> Places] /\ raised' \in [Calls -> Exceptions]
          /\ answer' \in [Calls -> {"none", "result", "tool_error", "protocol_error"}]
          /\ pc' = [pc EXCEPT ![c] = "done"]
          /\ raised' = [raised EXCEPT ![c] = exception]
          /\ answer' = [answer EXCEPT ![c] = AnswerTo(exception)]
          /\ AnswerTo(exception) # "result"
      BY <1>0, <2>1, <2>3, EndTypeOK
    <2>5. \A d \in Calls : d # c => /\ pc'[d] = pc[d] /\ raised'[d] = raised[d]
                                     /\ answer'[d] = answer[d]
      BY <1>0, <2>4 DEF TypeOK
    <2>6. pc'[c] = "done" /\ raised'[c] = exception /\ answer'[c] = AnswerTo(exception)
      BY <1>0, <2>4 DEF TypeOK
    <2>7. \A m \in sent' \ sent : m.host = HostOf(isMock) /\ m.path \in {"oauth2", "websocket"}
      <3>1. authHost = HostOf(isMock)
        BY <2>2, Wired
      <3> QED
        BY <2>2, <3>1 DEF TokenMessages, Message
    <2> HIDE DEF m0
    <2>8. TypeOK' /\ ClientInv' /\ ModulesInv'
      BY <2>2, <2>4 DEF IInv, TypeOK, ClientInv, ModulesInv, settings
    <2>9. WiringInv' /\ SentInv'
      BY <2>2, <2>5, <2>7, WiringKept, SessionMessages, Wired
    <2>10. CallInv'
      BY <2>2, <2>3, <2>5, <2>6, SameTools DEF IInv, CallInv, settings
    <2>11. AnswersAreTrue'
      <3>1. executed[c] = 0
        BY <2>2 DEF IInv, CallInv
      <3> QED
        BY <2>2, <2>3, <2>4, <2>5, <2>6, <3>1, SameTools DEF IInv, AnswersAreTrue, settings
    <2> QED
      BY <2>8, <2>9, <2>10, <2>11 DEF IInv
  <1> QED
    BY <1>1, <1>2, <1>3, <1>4

LEMMA StepInv == IInv /\ [Next]_vars => IInv'
  <1> SUFFICES ASSUME IInv, [Next]_vars PROVE IInv'
    OBVIOUS
  <1>1. CASE UNCHANGED vars
    BY <1>1 DEF vars, settings, client, IInv, TypeOK, ClientInv, WiringInv, ModulesInv,
                SentInv, Registered, CallInv, AnswersAreTrue
  <1>2. ASSUME NEW c \in Calls, HandlerStep(c) PROVE IInv'
    BY <1>2, FailingStep, RestStep, ClientStep, SessionStep DEF HandlerStep
  <1> QED
    BY <1>1, <1>2, ProcessStep, CallStep DEF Next

-----------------------------------------------------------------------------
(* The theorems.                                                           *)

\* IInv holds in every reachable state.
THEOREM Inductive == Spec => []IInv
  BY InitInv, StepInv, PTL DEF Spec

\* Every variable keeps its type.
THEOREM ServerTypeCorrect == Spec => []TypeOK
  BY Inductive, PTL DEF IInv

\* No order reaches the live server unless the operator opted in: for any number of
\* concurrent calls of any tools, under any settings.
THEOREM GuardHolds == Spec => []LiveOrderNeedsOptIn
  <1>1. IInv => LiveOrderNeedsOptIn
    <2> SUFFICES ASSUME IInv, NEW m \in sent, m.host = "live", m.path \in OrderPaths
                 PROVE  liveSetting \in {"true", " True "}
      BY DEF LiveOrderNeedsOptIn
    <2>1. m.path \notin {"oauth2", "websocket"} /\ m.host = HostOf(isMock) /\ sent # {}
      BY DEF OrderPaths, IInv, SentInv
    <2>2. PICK t \in Registered : t.module \in RestModules /\ m.path = Classes[t.module].path
      BY <2>1 DEF IInv, SentInv
    <2>3. allowLive
      BY <2>2, OrderUrlsAreGuarded, ToolFacts
    <2>4. ~isMock
      BY <2>1 DEF HostOf
    <2>5. allowLive = LiveOrdersAllowed(isMock, liveSetting)
      BY <2>1 DEF IInv, WiringInv
    <2> QED
      BY <2>3, <2>4, <2>5 DEF LiveOrdersAllowed, IsTrue
  <1> QED
    BY <1>1, Inductive, PTL

\* The REST client, the auth object and the WebSocket talk to the server that
\* KIWOOM_IS_MOCK names, and to no other.
THEOREM NeverTheOtherServer == Spec => []OneEnvironment
  <1>1. IInv => OneEnvironment
    <2> SUFFICES ASSUME IInv, NEW m \in sent
                 PROVE  m.host = IF mockSetting \in {"true", " True "} THEN "mock" ELSE "live"
      BY DEF OneEnvironment
    <2>1. m.host = HostOf(isMock) /\ isMock = IsTrue(mockSetting)
      BY DEF IInv, SentInv, WiringInv
    <2> QED
      BY <2>1 DEF HostOf, IsTrue
  <1> QED
    BY <1>1, Inductive, PTL

\* Every tool reaches its own endpoint, whatever was called before.
THEOREM ToolsResolve == Spec => []ToolReachesItsEndpoint
  <1>1. IInv => ToolReachesItsEndpoint
    BY DEF IInv, SentInv, CallInv, ToolReachesItsEndpoint
  <1> QED
    BY <1>1, Inductive, PTL

\* What a tool answers is true of the server, as long as the REST client keeps the
\* promise of PlaceOnce, which RestClientProofs shows.
THEOREM AnswersTrue == Spec => []AnswersAreTrue
  BY Inductive, PTL DEF IInv
=============================================================================
