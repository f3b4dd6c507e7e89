--------------------------- MODULE MarketDataProofs ---------------------------
(***************************************************************************)
(* Proofs about MarketData and the modules it is made of: BaseClient, for  *)
(* any max_retries and max_pages and any number of pages the server holds; *)
(* TickSize, for every price of any precision; Parsing, for every text and *)
(* every response.                                                         *)
(***************************************************************************)
EXTENDS MarketData, FoldLemmas, TLAPS

(***************************************************************************)
(* BaseClient.                                                             *)
(***************************************************************************)

\* The page the next request asks for, and what follows it.
Wanted == IF key = 0 THEN 1 ELSE key
After(page) == IF page < total THEN page + 1 ELSE 0

\* A page that has been read is the one asked for, and the next is found, or shadowed.
ReplyInv ==
    pc = "replied" /\ reply.kind = "ok" =>
        /\ reply.page = Wanted
        /\ \/ Continuation(reply) = After(Wanted)
           \/ Continuation(reply) = 0 /\ Shadowed(reply)

\* While request_all reads, it asks for the page after those it has, and there is one.
ReadingInv ==
    /\ pc = "idle" => pages = <<>> /\ mode = "request" /\ key = 0
    /\ mode = "request" => pages = <<>> /\ limit = 0
    /\ mode = "request_all" /\ pc # "done" =>
          Len(pages) < limit /\ Len(pages) < total /\ Wanted = Len(pages) + 1
    /\ key \in 0..total

LoopInv ==
    /\ pc = "refresh" => attempt < MaxRetries
    /\ outcome # "none" => pc = "done"

IInv ==
    /\ ClientTypeOK /\ ReplyInv /\ ReadingInv /\ LoopInv
    /\ EachPageOnce /\ CompleteUnlessCapped

-----------------------------------------------------------------------------
(* Where the continuation is found.                                        *)

\* Announced in one place, the next page is found, unless the announcement is shadowed.
LEMMA Announced ==
    ASSUME NEW r, NEW place \in Lookup, NEW page \in Nat,
           NEW flags \in SUBSET {"underscore", "dash"},
           NEW keys \in SUBSET {"underscore", "dash"},
           r.cont = Fields({place}, flags, "Y", "empty"),
           r.next = Fields({place}, keys, page + 1, 0)
    PROVE  \/ Continuation(r) = page + 1
           \/ Continuation(r) = 0 /\ Shadowed(r)
  <1>1. /\ DOMAIN r.cont = {place} \cup flags /\ DOMAIN r.next = {place} \cup keys
        /\ \A p \in {place} \cup flags : r.cont[p] = IF p = place THEN "Y" ELSE "empty"
        /\ \A p \in {place} \cup keys : r.next[p] = IF p = place THEN page + 1 ELSE 0
    BY DEF Fields
  <1>2. page + 1 # 0 /\ "Y" # "empty"
    OBVIOUS
  <1>3. CASE place = "underscore"
    <2>1. LookedUp(r.cont, "empty", "N") = "Y" /\ LookedUp(r.next, 0, 0) = page + 1
      BY <1>1, <1>2, <1>3 DEF LookedUp
    <2> QED
      BY <2>1 DEF Continuation
  <1>4. CASE place = "dash"
    <2>1. LookedUp(r.cont, "empty", "N") = "Y" /\ LookedUp(r.next, 0, 0) = page + 1
      BY <1>1, <1>2, <1>4 DEF LookedUp, Folded
    <2> QED
      BY <2>1 DEF Continuation
  <1>5. CASE place = "header" /\ "dash" \notin flags /\ "dash" \notin keys
    <2>1. LookedUp(r.cont, "empty", "N") = "Y" /\ LookedUp(r.next, 0, 0) = page + 1
      BY <1>1, <1>2, <1>5 DEF LookedUp, Folded
    <2> QED
      BY <2>1 DEF Continuation
  <1>6. CASE place = "header" /\ ("dash" \in flags \/ "dash" \in keys)
    <2>1. Shadowed(r)
      BY <1>1, <1>6 DEF Shadowed
    <2>2. LookedUp(r.cont, "empty", "N") = "empty" \/ LookedUp(r.next, 0, 0) = 0
      BY <1>1, <1>6 DEF LookedUp, Folded
    <2> QED
      BY <2>1, <2>2 DEF Continuation
  <1> QED
    BY <1>3, <1>4, <1>5, <1>6 DEF Lookup

\* Without a flag, or with "N", there is no next page.
LEMMA NotAnnounced ==
    ASSUME NEW r, NEW given \in SUBSET Lookup, NEW flags \in SUBSET {"underscore", "dash"},
           r.cont = Fields(given, flags, "N", "empty")
    PROVE  Continuation(r) = 0
  <1>1. /\ DOMAIN r.cont = given \cup flags
        /\ \A p \in given \cup flags : r.cont[p] \in {"N", "empty"}
    BY DEF Fields
  <1>2. LookedUp(r.cont, "empty", "N") \in {"N", "empty"}
    BY <1>1 DEF LookedUp, Folded
  <1> QED
    BY <1>2 DEF Continuation

-----------------------------------------------------------------------------
(* The invariant.                                                          *)

LEMMA NoReplyType == NoReply \in Replies
  <1>1. \A values : Nowhere \in Located(values)
    <2>1. \A values : Nowhere \in [{} -> values]
      BY DEF Nowhere
    <2> QED
      BY <2>1 DEF Located
  <1> QED
    BY <1>1, ClientAssumption DEF NoReply, Replies, Keys, Shapes

LEMMA InitInv == ClientInit => IInv
  <1> SUFFICES ASSUME ClientInit PROVE IInv
    OBVIOUS
  <1>1. ClientTypeOK
    <2> USE ClientAssumption DEF ClientInit
    <2>1. /\ provider \in BOOLEAN /\ dataKey \in BOOLEAN /\ refreshed \in BOOLEAN
          /\ mode \in {"request", "request_all"}
      OBVIOUS
    <2>5. total \in 1..MaxTotal /\ limit \in 0..MaxPages /\ attempt \in 0..MaxRetries
      OBVIOUS
    <2>2. pc \in Places /\ key \in Keys /\ outcome \in Outcomes \ {"runtime_error"}
      BY DEF Places, Keys, Outcomes
    <2>3. reply \in Replies
      BY NoReplyType
    <2>4. items \in Seq(Pages) /\ pages \in Seq(Pages)
      OBVIOUS
    <2> QED
      BY <2>1, <2>5, <2>2, <2>3, <2>4 DEF ClientTypeOK
  <1> QED
    BY <1>1, ClientAssumption
       DEF ClientInit, IInv, ReplyInv, ReadingInv, LoopInv, EachPageOnce, PagesInOrder,
           ListIsWhatWasRead, Collects, ToSet, CompleteUnlessCapped, Wanted

\* A step that leaves what has been read alone, and neither idle nor a reply behind.
LEMMA LoopStepInv ==
    ASSUME IInv,
           \/ BuildHeaders \/ ProviderFails \/ TransportFails \/ BackOff
           \/ WantRefresh \/ RefreshDone \/ Fail \/ ReturnPayload
    PROVE  IInv'
  <1> USE ClientAssumption, NoReplyType
      DEF IInv, configVars, loopVars, argVars, listVars, End
  <1>1. ClientTypeOK'
    <2> USE DEF ClientTypeOK, Places, Outcomes, Failures, Throttled, TokenRejected
    <2>1. CASE BuildHeaders \/ WantRefresh
      BY <2>1 DEF BuildHeaders, WantRefresh
    <2>2. CASE ProviderFails \/ TransportFails
      BY <2>2 DEF ProviderFails, TransportFails
    <2>3. CASE BackOff \/ RefreshDone
      BY <2>3 DEF BackOff, MayBackOff, RefreshDone, NextAttempt, LoopInv
    <2>4. CASE Fail
      <3>1. reply.kind \in Failures \cup {"none"}
        BY <2>4 DEF Fail, Replies
      <3> QED
        BY <2>4, <3>1 DEF Fail
    <2>5. CASE ReturnPayload
      BY <2>5 DEF ReturnPayload
    <2> QED
      BY <2>1, <2>2, <2>3, <2>4, <2>5
  <1>2. /\ pc \in {"start", "send", "replied", "refresh"} /\ pc' \notin {"idle", "replied"}
        /\ UNCHANGED <<total, mode, dataKey, limit, key, items, pages>>
    BY DEF BuildHeaders, ProviderFails, TransportFails, BackOff, WantRefresh, RefreshDone,
           Fail, ReturnPayload, NextAttempt
  <1>3. ReplyInv' /\ ReadingInv' /\ EachPageOnce'
    BY <1>2 DEF ReplyInv, ReadingInv, EachPageOnce, PagesInOrder, ListIsWhatWasRead, Collects, Wanted
  <1>4. LoopInv'
    BY DEF LoopInv, BuildHeaders, ProviderFails, TransportFails, BackOff, MayBackOff,
           WantRefresh, MayRefresh, RefreshDone, Fail, ReturnPayload, NextAttempt,
           ClientTypeOK
  <1>5. outcome' = "ok" => mode = "request"
    <2>1. reply.kind # "ok" \/ pc # "replied" \/ mode = "request" \/ ~Fail
      BY DEF Fail
    <2>2. outcome = "none"
      BY <1>2 DEF LoopInv
    <2> QED
      BY <2>1, <2>2
         DEF BuildHeaders, ProviderFails, TransportFails, BackOff, WantRefresh,
             RefreshDone, Fail, ReturnPayload, NextAttempt
  <1>6. CompleteUnlessCapped'
    BY <1>2, <1>5 DEF CompleteUnlessCapped
  <1> QED
    BY <1>1, <1>3, <1>4, <1>6

\* The call begins.
LEMMA BeginInv ==
    ASSUME IInv, Request \/ RequestAll
    PROVE  IInv'
  <1> USE ClientAssumption, NoReplyType
      DEF IInv, configVars, loopVars, argVars, listVars, End
  <1>1. pages = <<>> /\ Len(pages) = 0 /\ pc = "idle" /\ mode = "request" /\ key = 0
    BY DEF Request, RequestAll, ReadingInv
  <1>2. CASE Request
    <2>1. ClientTypeOK'
      BY <1>2 DEF Request, ClientTypeOK, Places, Keys
    <2>2. ReadingInv'
      BY <1>1, <1>2 DEF Request, ReadingInv, ClientTypeOK
    <2> QED
      BY <1>1, <1>2, <2>1, <2>2
         DEF Request, ReplyInv, LoopInv, EachPageOnce, PagesInOrder, ListIsWhatWasRead, Collects,
             CompleteUnlessCapped
  <1>3. CASE RequestAll
    <2>1. ClientTypeOK'
      BY <1>3 DEF RequestAll, ClientTypeOK, Places, Outcomes
    <2>2. ReadingInv'
      BY <1>1, <1>3 DEF RequestAll, ReadingInv, ClientTypeOK, Wanted
    <2>3. PagesInOrder' /\ CompleteUnlessCapped'
      BY <1>1, <1>3
         DEF RequestAll, EachPageOnce, PagesInOrder, CompleteUnlessCapped, ClientTypeOK, LoopInv
    <2>4. ListIsWhatWasRead'
      BY <1>1, <1>3 DEF RequestAll, EachPageOnce, ListIsWhatWasRead, Collects, ToSet
    <2> QED
      BY <1>1, <1>3, <2>1, <2>2, <2>3, <2>4
         DEF RequestAll, ReplyInv, LoopInv, EachPageOnce
  <1> QED
    BY <1>2, <1>3

\* The server answers.
LEMMA ServerInv ==
    ASSUME IInv, ServerFails \/ ServerAnswers
    PROVE  IInv'
  <1>0. /\ pc = "send" /\ pc' = "replied"
        /\ UNCHANGED <<provider, total, mode, dataKey, limit, attempt, refreshed, key,
                       items, pages, outcome>>
    BY DEF ServerFails, ServerAnswers, configVars, listVars, argVars
  <1>1. CASE ServerFails
    <2>1. PICK kind \in Failures : reply' = [NoReply EXCEPT !.kind = kind]
      BY <1>1 DEF ServerFails
    <2>2. reply' \in Replies /\ reply'.kind # "ok"
      BY <2>1, NoReplyType
         DEF NoReply, Replies, Failures, Throttled, TokenRejected
    <2> QED
      BY <1>0, <2>2
         DEF IInv, ClientTypeOK, Places, ReplyInv, ReadingInv, LoopInv, Wanted,
             EachPageOnce, PagesInOrder, ListIsWhatWasRead, Collects, CompleteUnlessCapped
  <1>2. CASE ServerAnswers
    <2> DEFINE more == Wanted < total
    <2>0. PICK place \in Lookup, shape \in Shapes, silent \in BOOLEAN,
               flags \in SUBSET {"underscore", "dash"}, keys \in SUBSET {"underscore", "dash"} :
             LET given == IF silent THEN {} ELSE {place}
             IN  /\ more => ~silent
                 /\ reply' =
                      [kind |-> "ok", page |-> Wanted, shape |-> shape,
                       cont |-> Fields(given, flags, IF more THEN "Y" ELSE "N", "empty"),
                       next |-> Fields(given, keys, IF more THEN Wanted + 1 ELSE 0, 0)]
      BY <1>2 DEF ServerAnswers, Wanted
    <2> DEFINE given == IF silent THEN {} ELSE {place}
    <2>1. /\ given \in SUBSET Lookup /\ (more => given = {place})
          /\ reply' =
               [kind |-> "ok", page |-> Wanted, shape |-> shape,
                cont |-> Fields(given, flags, IF more THEN "Y" ELSE "N", "empty"),
                next |-> Fields(given, keys, IF more THEN Wanted + 1 ELSE 0, 0)]
      BY <2>0
    <2> HIDE DEF given
    <2>2. Wanted \in Nat /\ Wanted \in Keys /\ Wanted + 1 \in 1..MaxTotal + 1 /\ total \in Nat
      BY ClientAssumption DEF IInv, ClientTypeOK, ReadingInv, Wanted, Keys
    <2>3. reply' \in Replies
      <3>1. reply'.cont \in Located(Flags)
        <4>1. reply'.cont \in [given \cup flags -> Flags] /\ given \cup flags \in SUBSET Lookup
          BY <2>1 DEF Fields, Flags, Lookup
        <4> QED
          BY <4>1 DEF Located
      <3>2. reply'.next \in Located(Keys)
        <4> DEFINE v == IF more THEN Wanted + 1 ELSE 0
        <4>2. v \in Keys /\ 0 \in Keys
          BY <2>2, ClientAssumption DEF Keys
        <4>3. reply'.next = Fields(given, keys, v, 0)
          BY <2>1
        <4> HIDE DEF v
        <4>1. reply'.next \in [given \cup keys -> Keys] /\ given \cup keys \in SUBSET Lookup
          BY <2>1, <4>2, <4>3 DEF Fields, Lookup
        <4> QED
          BY <4>1 DEF Located
      <3> QED
        BY <2>1, <2>2, <3>1, <3>2 DEF Replies
    <2>4. \/ Continuation(reply') = After(Wanted)
          \/ Continuation(reply') = 0 /\ Shadowed(reply')
      <3>1. CASE more
        <4>1. /\ reply'.cont = Fields({place}, flags, "Y", "empty")
              /\ reply'.next = Fields({place}, keys, Wanted + 1, 0)
          BY <2>1, <3>1
        <4> QED
          BY <2>2, <2>3, <3>1, <4>1, Announced DEF After
      <3>2. CASE ~more
        <4>1. reply'.cont = Fields(given, flags, "N", "empty")
          BY <2>1, <3>2
        <4> QED
          BY <2>1, <2>3, <3>2, <4>1, NotAnnounced DEF After
      <3> QED
        BY <3>1, <3>2
    <2>5. ReplyInv'
      BY <1>0, <2>1, <2>4 DEF ReplyInv, Wanted, After
    <2> QED
      BY <1>0, <2>3, <2>5
         DEF IInv, ClientTypeOK, Places, ReadingInv, LoopInv, Wanted,
             EachPageOnce, PagesInOrder, ListIsWhatWasRead, Collects, CompleteUnlessCapped
  <1> QED
    BY <1>1, <1>2

\* A page is collected.
LEMMA AccumulateInv ==
    ASSUME IInv, Accumulate
    PROVE  IInv'
  <1> DEFINE page == Page(reply)
             n == Len(pages)
  <1>1. /\ pc = "replied" /\ mode = "request_all"
        /\ reply.page = n + 1
        /\ \/ Continuation(reply) = After(n + 1)
           \/ Continuation(reply) = 0 /\ Shadowed(reply)
        /\ n < limit /\ n < total /\ Wanted = n + 1
        /\ n \in Nat /\ total \in Nat /\ limit \in Nat /\ total <= MaxTotal
        /\ pages \in Seq(Pages) /\ reply \in Replies /\ outcome = "none"
    BY ClientAssumption DEF Accumulate, IInv, ReplyInv, ReadingInv, ClientTypeOK, LoopInv
  <1>2. page \in Pages /\ page.page = n + 1 /\ (Shadowed(reply) => page.next = "shadowed")
    BY <1>1 DEF Replies, Pages, Page
  <1> HIDE DEF page
  <1>3. pages' = Append(pages, page) /\ pages' \in Seq(Pages) /\ Len(pages') = n + 1
    BY <1>1, <1>2 DEF Accumulate, page
  <1>4. items' \in Seq(Pages)
    BY <1>1, <1>2 DEF Accumulate, IInv, ClientTypeOK, page
  <1>5. UNCHANGED <<provider, total, mode, dataKey, limit>>
    BY DEF Accumulate, configVars, argVars
  <1>6. PagesInOrder'
    <2>1. \A i \in DOMAIN pages' : pages'[i].page = i
      <3> SUFFICES ASSUME NEW i \in 1..n + 1 PROVE pages'[i].page = i
        BY <1>3
      <3>1. CASE i = n + 1
        BY <1>1, <1>2, <1>3, <3>1
      <3>2. CASE i \in 1..n
        <4>1. pages'[i] = pages[i]
          BY <1>1, <1>2, <1>3, <3>2
        <4> QED
          BY <3>2, <4>1, <1>1 DEF IInv, EachPageOnce, PagesInOrder
      <3> QED
        BY <1>1, <3>1, <3>2
    <2> QED
      BY <1>1, <1>3, <1>5, <2>1 DEF PagesInOrder
  <1>10. ListIsWhatWasRead'
    <2>1. ToSet(pages') = ToSet(pages) \cup {page}
      BY <1>1, <1>2, <1>3, AppendElements
    <2>2. /\ ToSet(items) = {p \in ToSet(pages) : Collects(p)}
          /\ \A i, j \in DOMAIN items : i < j => items[i].page < items[j].page
          /\ items \in Seq(Pages)
      BY DEF IInv, EachPageOnce, ListIsWhatWasRead, Collects, ClientTypeOK
    <2>3. CASE Collects(page)
      <3>1. items' = Append(items, page)
        BY <2>3 DEF Accumulate, page
      <3>2. ToSet(items') = ToSet(items) \cup {page}
        BY <1>2, <2>2, <3>1, AppendElements
      <3>3. ToSet(items') = {p \in ToSet(pages') : Collects(p)}
        BY <1>5, <2>1, <2>2, <2>3, <3>2 DEF Collects
      <3>4. \A i \in DOMAIN items : items[i].page < n + 1
        <4> SUFFICES ASSUME NEW i \in DOMAIN items PROVE items[i].page < n + 1
          OBVIOUS
        <4>1. items[i] \in ToSet(pages)
          BY <2>2 DEF ToSet
        <4>2. PICK k \in 1..n : items[i] = pages[k]
          BY <1>1, <4>1 DEF ToSet
        <4>3. pages[k].page = k
          BY <1>1, <4>2 DEF IInv, EachPageOnce, PagesInOrder
        <4> QED
          BY <1>1, <4>2, <4>3
      <3>5. \A i, j \in DOMAIN items' : i < j => items'[i].page < items'[j].page
        <4> SUFFICES ASSUME NEW i \in DOMAIN items', NEW j \in DOMAIN items', i < j
                     PROVE  items'[i].page < items'[j].page
          OBVIOUS
        <4>1. i \in DOMAIN items /\ items'[i] = items[i]
          BY <1>2, <2>2, <3>1
        <4>2. CASE j \in DOMAIN items
          <5>1. items'[j] = items[j]
            BY <1>2, <2>2, <3>1, <4>2
          <5> QED
            BY <2>2, <4>1, <4>2, <5>1
        <4>3. CASE j \notin DOMAIN items
          <5>1. items'[j] = page /\ page.page = n + 1
            BY <1>1, <1>2, <2>2, <3>1, <4>3
          <5> QED
            BY <3>4, <4>1, <5>1
        <4> QED
          BY <4>2, <4>3
      <3> QED
        BY <1>5, <3>3, <3>5 DEF ListIsWhatWasRead, Collects
    <2>4. CASE ~Collects(page)
      <3>1. items' = items
        BY <2>4 DEF Accumulate, page
      <3> QED
        BY <1>5, <2>1, <2>2, <2>4, <3>1 DEF ListIsWhatWasRead, Collects
    <2> QED
      BY <2>3, <2>4
  <1>7. CASE Continuation(reply) = 0 \/ n + 1 = limit
    <2>1. pc' = "done" /\ outcome' = "ok" /\ reply' = NoReply /\ UNCHANGED <<attempt, refreshed, key>>
      BY <1>7 DEF Accumulate, End
    <2>2. n + 1 = total \/ n + 1 = limit \/ Shadowed(reply)
      BY <1>1, <1>7 DEF After
    <2>3. ClientTypeOK'
      BY <1>3, <1>4, <1>5, <2>1, NoReplyType DEF IInv, ClientTypeOK, Places, Outcomes
    <2>4. ReadingInv' /\ ReplyInv' /\ LoopInv'
      BY <1>1, <1>3, <1>5, <2>1 DEF IInv, ReadingInv, ReplyInv, LoopInv
    <2>5. ASSUME n + 1 = total PROVE CompleteUnlessCapped'
      <3>1. CASE \A p \in ToSet(pages') : Collects(p)'
        <4>1. ToSet(items') = ToSet(pages')
          BY <1>10, <3>1 DEF ListIsWhatWasRead
        <4>2. ToSet(pages') = {pages'[i] : i \in 1..n + 1}
          BY <1>1, <1>3 DEF ToSet
        <4>3. \A i \in 1..n + 1 : pages'[i].page = i
          BY <1>1, <1>3, <1>6 DEF PagesInOrder
        <4>4. {p.page : p \in ToSet(items')} = 1..total
          BY <2>5, <4>1, <4>2, <4>3
        <4> QED
          BY <1>5, <4>4 DEF CompleteUnlessCapped
      <3>2. CASE ~(\A p \in ToSet(pages') : Collects(p)')
        BY <3>2 DEF CompleteUnlessCapped
      <3> QED
        BY <3>1, <3>2
    <2>6. ASSUME n + 1 = limit PROVE CompleteUnlessCapped'
      BY <1>3, <1>5, <2>6 DEF CompleteUnlessCapped
    <2>7. ASSUME Shadowed(reply) PROVE CompleteUnlessCapped'
      <3>1. pages'[n + 1] = page
        BY <1>1, <1>2, <1>3
      <3>2. Last(pages').next = "shadowed"
        BY <1>2, <1>3, <2>7, <3>1 DEF Last
      <3> QED
        BY <3>2 DEF CompleteUnlessCapped
    <2> QED
      BY <1>6, <1>10, <2>2, <2>3, <2>4, <2>5, <2>6, <2>7 DEF IInv, EachPageOnce
  <1>8. CASE ~(Continuation(reply) = 0 \/ n + 1 = limit)
    <2>1. /\ key' = Continuation(reply) /\ attempt' = 0 /\ refreshed' = FALSE
          /\ pc' = "start" /\ reply' = NoReply /\ UNCHANGED outcome
      BY <1>8 DEF Accumulate
    <2>2. n + 1 < total /\ n + 1 < limit /\ key' = n + 2
      BY <1>1, <1>8, <2>1 DEF After
    <2>5. key' \in Keys /\ attempt' \in 0..MaxRetries
      BY <1>1, <2>1, <2>2, ClientAssumption DEF Keys
    <2>3. ClientTypeOK'
      BY <1>3, <1>4, <1>5, <2>1, <2>5, NoReplyType DEF IInv, ClientTypeOK, Places
    <2>4. ReadingInv' /\ ReplyInv' /\ LoopInv' /\ CompleteUnlessCapped'
      BY <1>1, <1>3, <1>5, <2>1, <2>2
         DEF IInv, ReadingInv, ReplyInv, LoopInv, CompleteUnlessCapped, Wanted
    <2> QED
      BY <1>6, <1>10, <2>3, <2>4 DEF IInv, EachPageOnce
  <1> QED
    BY <1>7, <1>8

LEMMA StepInv == IInv /\ [ClientNext]_clientVars => IInv'
  <1> SUFFICES ASSUME IInv, [ClientNext]_clientVars PROVE IInv'
    OBVIOUS
  <1>1. CASE UNCHANGED clientVars
    BY <1>1
       DEF clientVars, configVars, loopVars, listVars, argVars, IInv, ClientTypeOK, ReplyInv,
           ReadingInv, LoopInv, EachPageOnce, PagesInOrder, ListIsWhatWasRead, Collects,
           CompleteUnlessCapped, Wanted, After
  <1> QED
    BY <1>1, LoopStepInv, BeginInv, ServerInv, AccumulateInv DEF ClientNext, LoopStep

-----------------------------------------------------------------------------
(* The theorems.                                                           *)

\* IInv holds in every reachable state.
THEOREM Inductive == ClientSpec => []IInv
  BY InitInv, StepInv, PTL DEF ClientSpec

\* Every variable keeps its type; the loop never runs past its range.
THEOREM ClientTypeCorrect == ClientSpec => []ClientTypeOK
  BY Inductive, PTL DEF IInv

\* However many pages there are and however often each is retried, request_all gets
\* them in order and none twice, no more than max_pages, and its list is what it collects
\* of them.
THEOREM PagesComeOnce == ClientSpec => []EachPageOnce
  BY Inductive, PTL DEF IInv

\* A list that request_all returns holds every page the server has, unless it stopped at
\* max_pages, a page had no list under data_key, or an empty field shadowed the header.
THEOREM CompleteOrCapped == ClientSpec => []CompleteUnlessCapped
  BY Inductive, PTL DEF IInv

(***************************************************************************)
(* TickSize.                                                               *)
(***************************************************************************)

Units == Nat \ {0}

-----------------------------------------------------------------------------
(* Rounding down to a multiple of a unit.                                  *)

LEMMA Division ==
    ASSUME NEW a \in Nat, NEW u \in Units
    PROVE  /\ a \div u \in Nat
           /\ (a \div u) * u \in Nat
           /\ (a \div u) * u <= a
           /\ a < (a \div u) * u + u
           /\ a % u = a - (a \div u) * u
  BY DEF Units

\* A multiple of the unit divides into its factor.
LEMMA DivideMultiple ==
    ASSUME NEW k \in Nat, NEW u \in Units
    PROVE  (k * u) \div u = k /\ (k * u) % u = 0
  BY DEF Units

\* What the unit divides without a remainder is a multiple of it.
LEMMA DivideExactly ==
    ASSUME NEW a \in Nat, NEW u \in Units, a % u = 0
    PROVE  a \div u \in Nat /\ (a \div u) * u = a
  <1> DEFINE q == a \div u
  <1>1. q \in Nat /\ q * u \in Nat /\ 0 = a - q * u
    BY Division
  <1> QED
    BY <1>1

\* A multiple of the unit that is not above a is not above a rounded down.
LEMMA MultipleBelow ==
    ASSUME NEW a \in Nat, NEW u \in Units, NEW k \in Nat, k * u <= a
    PROVE  k * u <= (a \div u) * u
  <1> DEFINE q == a \div u
  <1>1. q \in Nat /\ a < q * u + u
    BY Division
  <1>2. k * u < (q + 1) * u
    BY <1>1 DEF Units
  <1>3. k < q + 1
    BY <1>1, <1>2 DEF Units
  <1> QED
    BY <1>1, <1>3 DEF Units

-----------------------------------------------------------------------------
(* The bands.                                                              *)

\* The index of the first band a price is below, if there is one.
LEMMA FirstBand ==
    ASSUME NEW price \in Nat, NEW k \in 1..6,
           price < Bands[k].below * Scale,
           \A j \in 1..k-1 : ~(price < Bands[j].below * Scale)
    PROVE  Tick(price) = Bands[k].tick
  <1> DEFINE fits == {i \in DOMAIN Bands : price < Bands[i].below * Scale}
  <1>1. DOMAIN Bands = 1..6
    BY DEF Bands
  <1>2. fits \subseteq 1..6
    BY <1>1
  <1>3. k \in fits
    BY <1>1
  <1>4. \A j \in fits : k <= j
    BY <1>1, <1>2
  <1>5. Tick(price) = IF fits = {} THEN TopTick
                      ELSE Bands[CHOOSE i \in fits : \A j \in fits : i <= j].tick
    BY DEF Tick
  <1> HIDE DEF fits
  <1>6. (CHOOSE i \in fits : \A j \in fits : i <= j) = k
    <2>1. \A i \in fits : (\A j \in fits : i <= j) => i = k
      BY <1>2, <1>3, <1>4
    <2> QED
      BY <1>3, <1>4, <2>1
  <1> QED
    BY <1>3, <1>5, <1>6

\* The loop of tick_size, band by band.
LEMMA TickInBand ==
    ASSUME NEW price \in Nat
    PROVE  /\ price < 2000 * Scale => Tick(price) = 1
           /\ 2000 * Scale <= price /\ price < 5000 * Scale => Tick(price) = 5
           /\ 5000 * Scale <= price /\ price < 20000 * Scale => Tick(price) = 10
           /\ 20000 * Scale <= price /\ price < 50000 * Scale => Tick(price) = 50
           /\ 50000 * Scale <= price /\ price < 200000 * Scale => Tick(price) = 100
           /\ 200000 * Scale <= price /\ price < 500000 * Scale => Tick(price) = 500
           /\ 500000 * Scale <= price => Tick(price) = 1000
  <1>1. /\ Bands[1] = [below |-> 2000, tick |-> 1]
        /\ Bands[2] = [below |-> 5000, tick |-> 5]
        /\ Bands[3] = [below |-> 20000, tick |-> 10]
        /\ Bands[4] = [below |-> 50000, tick |-> 50]
        /\ Bands[5] = [below |-> 200000, tick |-> 100]
        /\ Bands[6] = [below |-> 500000, tick |-> 500]
    BY DEF Bands
  <1> USE ScaleAssumption
  <1>2. CASE price < 2000 * Scale
    BY <1>1, <1>2, FirstBand
  <1>3. CASE 2000 * Scale <= price /\ price < 5000 * Scale
    BY <1>1, <1>3, FirstBand
  <1>4. CASE 5000 * Scale <= price /\ price < 20000 * Scale
    <2>1. \A j \in 1..2 : ~(price < Bands[j].below * Scale)
      BY <1>1, <1>4
    <2> QED
      BY <1>1, <1>4, <2>1, FirstBand
  <1>5. CASE 20000 * Scale <= price /\ price < 50000 * Scale
    <2>1. \A j \in 1..3 : ~(price < Bands[j].below * Scale)
      BY <1>1, <1>5
    <2> QED
      BY <1>1, <1>5, <2>1, FirstBand
  <1>6. CASE 50000 * Scale <= price /\ price < 200000 * Scale
    <2>1. \A j \in 1..4 : ~(price < Bands[j].below * Scale)
      BY <1>1, <1>6
    <2> QED
      BY <1>1, <1>6, <2>1, FirstBand
  <1>7. CASE 200000 * Scale <= price /\ price < 500000 * Scale
    <2>1. \A j \in 1..5 : ~(price < Bands[j].below * Scale)
      BY <1>1, <1>7
    <2> QED
      BY <1>1, <1>7, <2>1, FirstBand
  <1>8. CASE 500000 * Scale <= price
    <2>1. DOMAIN Bands = 1..6
      BY DEF Bands
    <2>2. {i \in DOMAIN Bands : price < Bands[i].below * Scale} = {}
      BY <1>1, <1>8, <2>1
    <2> QED
      BY <1>8, <2>2 DEF Tick, TopTick
  <1> QED
    BY <1>2, <1>3, <1>4, <1>5, <1>6, <1>7, <1>8

-----------------------------------------------------------------------------
(* round_to_tick.                                                          *)

\* Where all prices from a multiple of the tick up to this one have the same tick,
\* rounding down stays among them.
LEMMA RoundingWithinBand ==
    ASSUME NEW price \in Units, NEW u \in Units, NEW m \in Units,
           Scale <= u, m * u <= price,
           \A p \in Nat : m * u <= p /\ p <= price => Tick(p) * Scale = u
    PROVE  BestQuote(price, RoundToTick(price))
  <1> USE ScaleAssumption
  <1> DEFINE r == (price \div u) * u
  <1>1. price \in Nat /\ price > 0 /\ u > 0 /\ m * u \in Nat
    BY DEF Units
  <1>2. RoundToTick(price) = r
    BY <1>1 DEF RoundToTick, RoundDown
  <1>3. price \div u \in Nat /\ r \in Nat /\ r <= price
    BY <1>1, Division
  <1>4. m * u <= r
    BY <1>1, MultipleBelow DEF Units
  <1>5. u <= m * u
    BY DEF Units
  <1>6. r % u = 0
    BY <1>3, DivideMultiple
  <1> HIDE DEF r
  <1>7. Tick(r) * Scale = u
    BY <1>3, <1>4
  <1>8. Quotable(r)
    BY <1>1, <1>3, <1>4, <1>5, <1>6, <1>7 DEF Quotable
  <1>9. ASSUME NEW between \in r + 1 .. price, Quotable(between)
        PROVE  FALSE
    <2> DEFINE k == between \div u
    <2>1. between \in Nat /\ m * u <= between /\ between <= price
      BY <1>1, <1>3, <1>4
    <2>2. Tick(between) * Scale = u
      BY <2>1
    <2>3. between % u = 0
      BY <1>9, <2>2 DEF Quotable
    <2>4. k \in Nat /\ k * u = between
      BY <2>1, <2>3, DivideExactly
    <2> HIDE DEF k
    <2>5. k * u <= r
      BY <1>1, <2>1, <2>4, MultipleBelow DEF r
    <2> QED
      BY <1>3, <2>4, <2>5
  <1>10. Scale <= price
    BY <1>1, <1>3, <1>4, <1>5
  <1> QED
    BY <1>1, <1>2, <1>3, <1>8, <1>9, <1>10 DEF BestQuote

\* round_to_tick gives the highest quotable price not above its argument, whatever the
\* precision of that argument: rounding down never falls out of a band into the
\* one below, whose tick is finer, because each band begins at a multiple of its tick.
THEOREM RoundingIsSound ==
    \A price \in Int : BestQuote(price, RoundToTick(price))
  <1> SUFFICES ASSUME NEW price \in Int PROVE BestQuote(price, RoundToTick(price))
    OBVIOUS
  <1> USE ScaleAssumption
  <1>1. CASE price <= 0
    BY <1>1 DEF BestQuote, RoundToTick
  <1>2. CASE 0 < price /\ price < Scale
    <2>1. \A p \in 0..price : Tick(p) = 1
      BY <1>2, TickInBand
    <2>2. price \div Scale = 0
      BY <1>2
    <2>3. RoundToTick(price) = 0
      BY <1>2, <2>1, <2>2 DEF RoundToTick, RoundDown
    <2>4. \A between \in 1..price : between % Scale = between
      BY <1>2
    <2>5. \A between \in 1..price : ~Quotable(between)
      BY <1>2, <2>1, <2>4 DEF Quotable
    <2> QED
      BY <1>2, <2>3, <2>5 DEF BestQuote
  <1>3. CASE Scale <= price /\ price < 2000 * Scale
    <2>1. Scale \in Units /\ Scale <= Scale /\ 1 * Scale <= price /\ 1 \in Units /\ price \in Units
      BY <1>3 DEF Units
    <2>2. \A p \in Nat : 1 * Scale <= p /\ p <= price => Tick(p) * Scale = Scale
      BY <1>3, TickInBand
    <2> QED
      BY <2>1, <2>2, RoundingWithinBand
  <1>4. CASE 2000 * Scale <= price /\ price < 5000 * Scale
    <2> DEFINE u == 5 * Scale
    <2>1. u \in Units /\ Scale <= u /\ 400 * u <= price /\ 400 \in Units /\ price \in Units
      BY <1>4 DEF Units
    <2>2. \A p \in Nat : 400 * u <= p /\ p <= price => Tick(p) * Scale = u
      BY <1>4, TickInBand
    <2> HIDE DEF u
    <2> QED
      BY <2>1, <2>2, RoundingWithinBand
  <1>5. CASE 5000 * Scale <= price /\ price < 20000 * Scale
    <2> DEFINE u == 10 * Scale
    <2>1. u \in Units /\ Scale <= u /\ 500 * u <= price /\ 500 \in Units /\ price \in Units
      BY <1>5 DEF Units
    <2>2. \A p \in Nat : 500 * u <= p /\ p <= price => Tick(p) * Scale = u
      BY <1>5, TickInBand
    <2> HIDE DEF u
    <2> QED
      BY <2>1, <2>2, RoundingWithinBand
  <1>6. CASE 20000 * Scale <= price /\ price < 50000 * Scale
    <2> DEFINE u == 50 * Scale
    <2>1. u \in Units /\ Scale <= u /\ 400 * u <= price /\ 400 \in Units /\ price \in Units
      BY <1>6 DEF Units
    <2>2. \A p \in Nat : 400 * u <= p /\ p <= price => Tick(p) * Scale = u
      BY <1>6, TickInBand
    <2> HIDE DEF u
    <2> QED
      BY <2>1, <2>2, RoundingWithinBand
  <1>7. CASE 50000 * Scale <= price /\ price < 200000 * Scale
    <2> DEFINE u == 100 * Scale
    <2>1. u \in Units /\ Scale <= u /\ 500 * u <= price /\ 500 \in Units /\ price \in Units
      BY <1>7 DEF Units
    <2>2. \A p \in Nat : 500 * u <= p /\ p <= price => Tick(p) * Scale = u
      BY <1>7, TickInBand
    <2> HIDE DEF u
    <2> QED
      BY <2>1, <2>2, RoundingWithinBand
  <1>8. CASE 200000 * Scale <= price /\ price < 500000 * Scale
    <2> DEFINE u == 500 * Scale
    <2>1. u \in Units /\ Scale <= u /\ 400 * u <= price /\ 400 \in Units /\ price \in Units
      BY <1>8 DEF Units
    <2>2. \A p \in Nat : 400 * u <= p /\ p <= price => Tick(p) * Scale = u
      BY <1>8, TickInBand
    <2> HIDE DEF u
    <2> QED
      BY <2>1, <2>2, RoundingWithinBand
  <1>9. CASE 500000 * Scale <= price
    <2> DEFINE u == 1000 * Scale
    <2>1. u \in Units /\ Scale <= u /\ 500 * u <= price /\ 500 \in Units /\ price \in Units
      BY <1>9 DEF Units
    <2>2. \A p \in Nat : 500 * u <= p /\ p <= price => Tick(p) * Scale = u
      BY <1>9, TickInBand
    <2> HIDE DEF u
    <2> QED
      BY <2>1, <2>2, RoundingWithinBand
  <1> QED
    BY <1>1, <1>2, <1>3, <1>4, <1>5, <1>6, <1>7, <1>8, <1>9

\* Rounding what is already rounded changes nothing: a price may pass through
\* round_to_tick on its way to an order any number of times.
THEOREM RoundingTwice ==
    \A price \in Nat : Scale <= price =>
        RoundToTick(RoundToTick(price)) = RoundToTick(price)
  <1> SUFFICES ASSUME NEW price \in Nat, Scale <= price
               PROVE  RoundToTick(RoundToTick(price)) = RoundToTick(price)
    OBVIOUS
  <1> USE ScaleAssumption
  <1> DEFINE r == RoundToTick(price)
             u == Tick(r) * Scale
  <1>1. r <= price /\ Quotable(r)
    BY RoundingIsSound DEF BestQuote
  <1>2. r \in Int
    <2> DEFINE w == Tick(price) * Scale
    <2>1. w \in Units
      BY TickInBand DEF Units
    <2>2. price > 0
      BY DEF Units
    <2>3. r = (price \div w) * w
      BY <2>2 DEF RoundToTick, RoundDown
    <2> HIDE DEF w, r
    <2> QED
      BY <2>1, <2>3, Division
  <1> HIDE DEF r
  <1>3. r \in Nat /\ r > 0 /\ r % u = 0
    BY <1>1, <1>2 DEF Quotable
  <1>4. u \in Units
    BY <1>3, TickInBand DEF Units
  <1>5. RoundToTick(r) = (r \div u) * u
    BY <1>3 DEF RoundToTick, RoundDown
  <1> HIDE DEF u
  <1> QED
    BY <1>3, <1>4, <1>5, DivideExactly DEF r

(***************************************************************************)
(* Parsing and MarketData.                                                 *)
(***************************************************************************)

-----------------------------------------------------------------------------
(* Parsing: texts.                                                         *)

\* The first and the last of some positions.
LEMMA FirstAndLast ==
    ASSUME NEW n \in Nat, NEW ink \in SUBSET (1..n), ink # {}
    PROVE  /\ Min(ink) \in ink /\ Max(ink) \in ink /\ Min(ink) <= Max(ink)
           /\ \A i \in ink : i <= Max(ink)
  <1>1. Min(ink) \in ink /\ \A i \in ink : Min(ink) <= i
    <2>1. PICK x \in ink : \A y \in ink : ~(y < x)
      <3>1. ink \subseteq Nat /\ ink # {}
        OBVIOUS
      <3> QED
        BY <3>1, LeastNumber
    <2>2. \A y \in ink : x <= y
      BY <2>1
    <2> QED
      BY <2>1, <2>2 DEF Min
  <1>2. Max(ink) \in ink /\ \A i \in ink : i <= Max(ink)
    <2> DEFINE rest == {n - i : i \in ink}
    <2>1. rest \subseteq Nat /\ rest # {}
      <3>1. \A i \in ink : i \in 1..n /\ n - i \in Nat
        OBVIOUS
      <3> QED
        BY <3>1
    <2>2. PICK x \in rest : \A y \in rest : ~(y < x)
      <3> HIDE DEF rest
      <3> QED
        BY <2>1, LeastNumber
    <2>3. PICK i \in ink : x = n - i
      BY <2>2
    <2>4. \A j \in ink : i >= j /\ j <= i
      <3> SUFFICES ASSUME NEW j \in ink PROVE i >= j /\ j <= i
        OBVIOUS
      <3>1. ~(n - j < n - i)
        BY <2>2, <2>3
      <3> QED
        BY <3>1
    <2>5. \A k \in ink : (\A j \in ink : k >= j) => k = i
      BY <2>3, <2>4
    <2>6. Max(ink) = i
      BY <2>3, <2>4, <2>5 DEF Max
    <2> QED
      BY <2>3, <2>4, <2>6
  <1> QED
    BY <1>1, <1>2

\* What trimming leaves is a text of characters of the original.
LEMMA TrimText ==
    ASSUME NEW T, NEW s \in Seq(T), NEW c
    PROVE  Trim(s, c) \in Seq(T) /\ ToSet(Trim(s, c)) \subseteq ToSet(s)
  <1> DEFINE ink == {i \in DOMAIN s : s[i] # c}
  <1>1. CASE ink = {}
    BY <1>1 DEF Trim, ToSet
  <1>2. CASE ink # {}
    <2>1. Len(s) \in Nat /\ ink \in SUBSET (1..Len(s)) /\ DOMAIN s = 1..Len(s)
      OBVIOUS
    <2>2. PICK a \in 1..Len(s), b \in 1..Len(s) : a <= b /\ Trim(s, c) = SubSeq(s, a, b)
      <3>1. Min(ink) \in ink /\ Max(ink) \in ink /\ Min(ink) <= Max(ink)
        <4> HIDE DEF ink
        <4> QED
          BY <1>2, <2>1, FirstAndLast
      <3>2. Trim(s, c) = SubSeq(s, Min(ink), Max(ink))
        BY <1>2 DEF Trim
      <3> QED
        BY <2>1, <3>1, <3>2
    <2>3. Trim(s, c) \in Seq(T) /\ DOMAIN Trim(s, c) = 1..(b - a + 1)
      BY <2>2
    <2>4. \A k \in 1..(b - a + 1) : Trim(s, c)[k] = s[a + k - 1] /\ a + k - 1 \in DOMAIN s
      BY <2>1, <2>2
    <2> QED
      BY <2>3, <2>4 DEF ToSet
  <1> QED
    BY <1>1, <1>2

\* What strip() and replace() leave is a text of characters of the original.
LEMMA BareText ==
    ASSUME NEW T, NEW s \in Seq(T)
    PROVE  NoCommas(Strip(s)) \in Seq(T) /\ ToSet(NoCommas(Strip(s))) \subseteq ToSet(s)
  <1> DEFINE bare == Strip(s)
  <1>1. bare \in Seq(T) /\ ToSet(bare) \subseteq ToSet(s)
    BY TrimText DEF Strip
  <1> HIDE DEF bare
  <1>2. Without(bare, ",") \in Seq(T) /\ ToSet(Without(bare, ",")) = ToSet(bare) \ {","}
    BY <1>1, WithoutElement
  <1>3. NoCommas(bare) = Without(bare, ",")
    BY DEF NoCommas
  <1> QED
    BY <1>1, <1>2, <1>3 DEF bare

\* A sign is no point.
LEMMA UnsignedText ==
    ASSUME NEW T, NEW c \in Seq(T), c # <<>>
    PROVE  Unsigned(c) \in Seq(T) /\ ("." \in ToSet(Unsigned(c)) <=> "." \in ToSet(c))
  <1>1. CASE Head(c) \in Signs
    <2>1. Unsigned(c) = Tail(c) /\ Tail(c) \in Seq(T) /\ c[1] # "."
      BY <1>1 DEF Unsigned, Signs
    <2>2. /\ DOMAIN c = 1..Len(c) /\ DOMAIN Tail(c) = 1..(Len(c) - 1)
          /\ \A i \in 1..(Len(c) - 1) : Tail(c)[i] = c[i + 1]
          /\ Len(c) \in Nat
      OBVIOUS
    <2>3. \A i \in 1..Len(c) : c[i] = "." => i - 1 \in 1..(Len(c) - 1) /\ Tail(c)[i - 1] = "."
      BY <2>1, <2>2
    <2>4. (\E i \in 1..(Len(c) - 1) : Tail(c)[i] = ".") <=> (\E i \in 1..Len(c) : c[i] = ".")
      <3>1. \A i \in 1..(Len(c) - 1) : i + 1 \in 1..Len(c)
        BY <2>2
      <3> QED
        BY <2>2, <2>3, <3>1
    <2>5. /\ "." \in ToSet(Tail(c)) <=> \E i \in 1..(Len(c) - 1) : Tail(c)[i] = "."
          /\ "." \in ToSet(c) <=> \E i \in 1..Len(c) : c[i] = "."
      BY <2>2 DEF ToSet
    <2> QED
      BY <2>1, <2>4, <2>5
  <1>2. CASE Head(c) \notin Signs
    BY <1>2 DEF Unsigned
  <1> QED
    BY <1>1, <1>2

\* What is behind the point is a text of the same characters.
LEMMA FractionText ==
    ASSUME NEW T, NEW s \in Seq(T), "." \in ToSet(s)
    PROVE  Fraction(s) \in Seq(T)
  <1>1. Point(s) \in 1..Len(s)
    BY DEF Point, ToSet
  <1> QED
    BY <1>1 DEF Fraction

LEMMA SignificantType ==
    ASSUME NEW T, NEW s \in Seq(T), "." \in ToSet(s)
    PROVE  Significant(s) \in Nat
  <1> DEFINE digits == Whole(s) \o Fraction(s)
  <1>1. Point(s) \in 1..Len(s)
    BY DEF Point, ToSet
  <1>2. digits \in Seq(T)
    BY <1>1 DEF Whole, Fraction
  <1>3. Significant(s) = Len(Trim(digits, "0"))
    BY DEF Significant
  <1> HIDE DEF digits
  <1>4. Trim(digits, "0") \in Seq(T)
    BY <1>2, TrimText
  <1> QED
    BY <1>3, <1>4

\* Without its zeros at the end a fraction has the same digits in the same places.
LEMMA ZerosDropped ==
    ASSUME NEW T, NEW f \in Seq(T)
    PROVE  /\ Len(NoTrailingZeros(f)) <= Len(f)
           /\ \A i \in DOMAIN f :
                 f[i] = IF i <= Len(NoTrailingZeros(f)) THEN NoTrailingZeros(f)[i] ELSE "0"
  <1> DEFINE others == {i \in DOMAIN f : f[i] # "0"}
             n == Len(f)
  <1>1. n \in Nat /\ DOMAIN f = 1..n /\ others \in SUBSET (1..n)
    OBVIOUS
  <1>2. CASE others = {}
    <2>1. NoTrailingZeros(f) = <<>>
      BY <1>2 DEF NoTrailingZeros
    <2> QED
      BY <1>1, <1>2, <2>1
  <1>3. CASE others # {}
    <2>1. Max(others) \in others /\ \A i \in others : i <= Max(others)
      <3> HIDE DEF others
      <3> QED
        BY <1>1, <1>3, FirstAndLast
    <2> DEFINE m == Max(others)
    <2>2. m \in others /\ \A i \in others : i <= m
      BY <2>1
    <2>3. NoTrailingZeros(f) = SubSeq(f, 1, m)
      BY <1>3 DEF NoTrailingZeros
    <2>5. \A i \in 1..n : f[i] = "0" \/ i \in others
      BY <1>1
    <2> HIDE DEF m, others
    <2>6. m \in 1..n /\ \A i \in 1..n : m < i => f[i] = "0"
      BY <1>1, <2>2, <2>5
    <2>4. Len(SubSeq(f, 1, m)) = m /\ \A i \in 1..m : SubSeq(f, 1, m)[i] = f[i]
      BY <1>1, <2>6
    <2> QED
      BY <1>1, <2>3, <2>4, <2>6
  <1> QED
    BY <1>2, <1>3

-----------------------------------------------------------------------------
(* Parsing: numbers.                                                       *)

\* Every character of a number is one of the ten, and its value is its place among them.
LEMMA DigitAt ==
    ASSUME NEW c \in Digits
    PROVE  /\ DigitValue(c) \in 0..9 /\ DigitChars[DigitValue(c) + 1] = c
           /\ c # "0" => DigitValue(c) # 0
  <1>1. DOMAIN DigitChars = 1..10 /\ DigitChars[1] = "0"
    BY DEF DigitChars
  <1>2. \E i \in DOMAIN DigitChars : DigitChars[i] = c
    BY DEF Digits, ToSet
  <1> DEFINE d == CHOOSE i \in DOMAIN DigitChars : DigitChars[i] = c
  <1>3. d \in DOMAIN DigitChars /\ DigitChars[d] = c
    BY <1>2
  <1>4. DigitValue(c) = d - 1
    BY DEF DigitValue
  <1> HIDE DEF d
  <1>5. d \in 1..10
    BY <1>1, <1>3
  <1> QED
    BY <1>1, <1>3, <1>4, <1>5

LEMMA NoDigit == "." \notin Digits
  BY DEF Digits, ToSet, DigitChars

\* The powers of ten.
LEMMA TensDef ==
    /\ Tens[0] = 1
    /\ \A k \in Nat : Tens[k] \in Nat \ {0} /\ Tens[k + 1] = 10 * Tens[k]
  <1> DEFINE A == Nat \ {0}
             F == [x \in A |-> 10 * x]
  <1>1. PICK f \in [Nat -> A] : Recurs(f, 1, F)
    <2>1. F \in [A -> A] /\ 1 \in A
      OBVIOUS
    <2> HIDE DEF A, F
    <2> QED
      BY <2>1, RecursionOnNat
  <1>2. f[0] = 1 /\ \A k \in Nat : f[k + 1] = 10 * f[k]
    BY <1>1 DEF Recurs
  <1>3. f = [k \in Nat |-> IF k = 0 THEN 1 ELSE 10 * f[k - 1]]
    <2>1. ASSUME NEW k \in Nat, k # 0 PROVE f[k] = 10 * f[k - 1]
      <3>1. k - 1 \in Nat /\ (k - 1) + 1 = k
        BY <2>1
      <3> QED
        BY <1>2, <3>1
    <2> QED
      BY <1>2, <2>1
  <1>4. Tens = [k \in Nat |-> IF k = 0 THEN 1 ELSE 10 * Tens[k - 1]]
    BY <1>3 DEF Tens
  <1>5. Tens[0] = 1 /\ \A k \in Nat : Tens[k + 1] = 10 * Tens[k]
    BY <1>4
  <1> DEFINE S == {k \in Nat : Tens[k] \in Nat \ {0}}
  <1>6. Nat \subseteq S
    <2>1. 0 \in S /\ \A k \in Nat : k \in S => k + 1 \in S
      BY <1>5
    <2> HIDE DEF S
    <2> QED
      BY <2>1, InductionOnNat
  <1> QED
    BY <1>5, <1>6

\* r holds the number read so far, digit by digit.
Reads(r, digits) ==
    /\ r[0] = 0
    /\ \A i \in 1..Len(digits) : r[i] = 10 * r[i - 1] + DigitValue(digits[i])
    /\ Number(digits) = r[Len(digits)]

LEMMA NumberSteps ==
    ASSUME NEW digits \in Seq(Digits)
    PROVE  \E r \in [0..Len(digits) -> Nat] : Reads(r, digits)
  <1> DEFINE n == Len(digits)
             Step(m, c) == 10 * m + DigitValue(c)
             F == [x \in Nat \X (1..n) |-> Step(x[1], digits[x[2]])]
             iter == CHOOSE iter : iter = [s \in SUBSET DOMAIN digits |->
                        IF s = {} THEN 0 ELSE Step(iter[s \ {Max(s)}], digits[Max(s)])]
  <1>1. n \in Nat /\ DOMAIN digits = 1..n /\ \A i \in 1..n : DigitValue(digits[i]) \in Nat
    <2>1. n \in Nat /\ DOMAIN digits = 1..n /\ \A i \in 1..n : digits[i] \in Digits
      OBVIOUS
    <2>2. \A c \in Digits : DigitValue(c) \in Nat
      BY DigitAt
    <2> QED
      BY <2>1, <2>2
  <1>2. F \in [Nat \X (1..n) -> Nat]
    BY <1>1
  <1>3. PICK g \in [SUBSET (1..n) -> Nat] : Folds(g, n, 0, F)
    <2> HIDE DEF F, n, iter
    <2> QED
      BY <1>1, <1>2, FoldExists
  <1>4. \A s \in SUBSET (1..n) : s # {} =>
            F[<<g[s \ {Max(s)}], Max(s)>>] = Step(g[s \ {Max(s)}], digits[Max(s)])
    <2> SUFFICES ASSUME NEW s \in SUBSET (1..n), s # {}
                 PROVE  F[<<g[s \ {Max(s)}], Max(s)>>] = Step(g[s \ {Max(s)}], digits[Max(s)])
      OBVIOUS
    <2>1. Max(s) \in 1..n
      BY <1>3 DEF Folds
    <2>2. g[s \ {Max(s)}] \in Nat
      OBVIOUS
    <2> QED
      BY <2>1, <2>2
  <1>5. g = [s \in SUBSET DOMAIN digits |->
                IF s = {} THEN 0 ELSE Step(g[s \ {Max(s)}], digits[Max(s)])]
    BY <1>1, <1>3, <1>4 DEF Folds
  <1>6. iter = [s \in SUBSET DOMAIN digits |->
                IF s = {} THEN 0 ELSE Step(iter[s \ {Max(s)}], digits[Max(s)])]
    BY <1>5
  <1>7. Number(digits) = iter[1..n]
    BY <1>1 DEF Number, FoldLeft, MapThenFoldSet
  <1> HIDE DEF iter
  <1>8. FoldsWithin(iter, n, Nat, 0, F)
    <2>1. iter[{}] = 0
      BY <1>1, <1>6
    <2>2. ASSUME NEW s \in SUBSET (1..n), s # {}, iter[s \ {Max(s)}] \in Nat
          PROVE  iter[s] = F[<<iter[s \ {Max(s)}], Max(s)>>]
      <3>1. Max(s) \in 1..n
        BY <1>3, <2>2 DEF Folds
      <3> QED
        BY <1>1, <1>6, <2>2, <3>1
    <2> QED
      BY <2>1, <2>2 DEF FoldsWithin
  <1>9. PICK r \in [0..n -> Nat] : Runs(r, n, 0, F, iter)
    <2> HIDE DEF F, n
    <2> QED
      BY <1>1, <1>2, <1>8, FoldRuns
  <1>10. \A i \in 1..n : r[i] = Step(r[i - 1], digits[i])
    <2> SUFFICES ASSUME NEW i \in 1..n PROVE r[i] = Step(r[i - 1], digits[i])
      OBVIOUS
    <2>1. r[i - 1] \in Nat
      BY <1>1
    <2> QED
      BY <1>9, <2>1 DEF Runs
  <1>11. r[0] = 0 /\ r[n] = iter[1..n]
    BY <1>9 DEF Runs
  <1> HIDE DEF F
  <1> QED
    BY <1>7, <1>9, <1>10, <1>11 DEF Reads

\* A quotient is determined by a remainder that is small enough.
LEMMA DivideBy ==
    ASSUME NEW a \in Nat, NEW u \in Nat \ {0}, NEW q \in Nat, NEW m \in Nat,
           a = q * u + m, m < u
    PROVE  a \div u = q
  OBVIOUS

\* One digit more: what is left over grows by that digit's part.
LEMMA CarryDigit ==
    ASSUME NEW a \in Nat, NEW d \in 0..9, NEW u \in Nat \ {0}, NEW m \in Nat, m < u
    PROVE  /\ d * u + m \in Nat /\ d * u + m < 10 * u
           /\ (10 * a + d) * u + m = a * (10 * u) + (d * u + m)
  <1>1. d * u \in Nat /\ d * u <= 9 * u
    OBVIOUS
  <1>2. (10 * a + d) * u = a * (10 * u) + d * u
    OBVIOUS
  <1> QED
    BY <1>1, <1>2

\* Digits without a padding zero write the number they are read as.
LEMMA NumberIsWritten ==
    ASSUME NEW digits \in Seq(Digits), digits # <<>>, Len(digits) > 1 => digits[1] # "0"
    PROVE  Number(digits) \in Nat /\ Writes(digits, Number(digits))
  <1> DEFINE n == Len(digits)
             D(i) == DigitValue(digits[i])
  <1>1. PICK r \in [0..n -> Nat] : Reads(r, digits)
    BY NumberSteps
  <1>2. /\ n \in Nat \ {0} /\ DOMAIN digits = 1..n /\ r[0] = 0 /\ Number(digits) = r[n]
        /\ \A i \in 1..n : r[i] = 10 * r[i - 1] + D(i)
    BY <1>1 DEF Reads
  <1>3. \A i \in 1..n : /\ D(i) \in 0..9 /\ DigitChars[D(i) + 1] = digits[i]
                        /\ digits[i] # "0" => D(i) # 0
    <2> SUFFICES ASSUME NEW i \in 1..n
                 PROVE  /\ D(i) \in 0..9 /\ DigitChars[D(i) + 1] = digits[i]
                        /\ digits[i] # "0" => D(i) # 0
      OBVIOUS
    <2>1. digits[i] \in Digits
      OBVIOUS
    <2> QED
      BY <2>1, DigitAt
  <1> HIDE DEF n, D
  <1> DEFINE Rest(j) == \E m \in Nat : m < Tens[j] /\ r[n] = r[n - j] * Tens[j] + m
             S == {j \in 0..n : Rest(j)}
  <1>4. 0..n \subseteq S
    <2>1. 0 \in S
      <3>1. r[n] \in Nat /\ n - 0 = n /\ 0 \in 0..n
        BY <1>2
      <3>2. Tens[0] = 1
        BY TensDef
      <3>3. 0 < Tens[0] /\ r[n] = r[n - 0] * Tens[0] + 0
        BY <3>1, <3>2
      <3> QED
        BY <3>1, <3>3
    <2>2. ASSUME NEW j \in 0..n, j < n, j \in S PROVE j + 1 \in S
      <3>1. PICK m \in Nat : m < Tens[j] /\ r[n] = r[n - j] * Tens[j] + m
        BY <2>2
      <3> DEFINE i == n - j
                 a == r[i - 1]
                 d == D(i)
                 u == Tens[j]
      <3>2. i \in 1..n /\ i - 1 \in 0..n /\ n - (j + 1) = i - 1 /\ j \in Nat /\ j + 1 \in 0..n
        BY <1>2, <2>2
      <3>3. a \in Nat /\ d \in 0..9 /\ u \in Nat \ {0} /\ Tens[j + 1] = 10 * u
        BY <1>3, <3>2, TensDef
      <3>4. r[n] = (10 * a + d) * u + m
        BY <1>2, <3>1, <3>2
      <3>5. r[n - (j + 1)] = a
        BY <3>2
      <3> HIDE DEF i, a, d, u
      <3>6. m < u
        BY <3>1 DEF u
      <3>7. /\ d * u + m \in Nat /\ d * u + m < 10 * u
            /\ r[n] = a * (10 * u) + (d * u + m)
        BY <3>3, <3>4, <3>6, CarryDigit
      <3> QED
        BY <3>2, <3>3, <3>5, <3>7
    <2> HIDE DEF S
    <2> QED
      BY <1>2, <2>1, <2>2, InductionUpTo
  <1>5. r[n] < Tens[n]
    <2>1. n \in 0..n /\ n \in Nat
      BY <1>2
    <2>5. PICK m \in Nat : m < Tens[n] /\ r[n] = r[n - n] * Tens[n] + m
      BY <1>4, <2>1
    <2>2. n - n = 0 /\ Tens[n] \in Nat \ {0}
      <3>1. Tens[n] \in Nat \ {0}
        BY <2>1, TensDef
      <3> QED
        BY <2>1, <3>1
    <2>3. r[n] = 0 * Tens[n] + m
      BY <1>2, <2>2, <2>5
    <2> QED
      BY <2>2, <2>3, <2>5
  <1>6. n > 1 => Tens[n - 1] <= r[n]
    <2> SUFFICES ASSUME n > 1 PROVE Tens[n - 1] <= r[n]
      OBVIOUS
    <2>1. n - 1 \in 0..n /\ n - 1 \in Nat /\ n - (n - 1) = 1 /\ 1 \in 1..n /\ 1 - 1 = 0
      BY <1>2
    <2>2. PICK m \in Nat : m < Tens[n - 1] /\ r[n] = r[1] * Tens[n - 1] + m
      BY <1>4, <2>1
    <2>3. r[1] = D(1)
      <3>1. r[1] = 10 * r[1 - 1] + D(1) /\ D(1) \in 0..9
        BY <1>2, <1>3, <2>1
      <3>2. r[1 - 1] = 0
        BY <1>2
      <3> QED
        BY <3>1, <3>2
    <2>4. D(1) \in 1..9
      BY <1>3, <2>1 DEF n
    <2> DEFINE u == Tens[n - 1]
    <2>5. u \in Nat \ {0} /\ r[n] = D(1) * u + m
      BY <2>1, <2>2, <2>3, TensDef
    <2> HIDE DEF u
    <2>6. u <= r[n]
      BY <2>4, <2>5
    <2> QED
      BY <2>6 DEF u
  <1>7. ASSUME NEW i \in 1..n
        PROVE  digits[i] = DigitChars[((r[n] \div Tens[n - i]) % 10) + 1]
    <2>1. n - i \in 0..n /\ n - i \in Nat /\ n - (n - i) = i /\ i - 1 \in 0..n /\ i \in 0..n
      BY <1>2
    <2>2. PICK m \in Nat : m < Tens[n - i] /\ r[n] = r[i] * Tens[n - i] + m
      BY <1>4, <2>1
    <2>6. r[i] \in Nat /\ r[n] \in Nat
      BY <1>2, <2>1
    <2>3. Tens[n - i] \in Nat \ {0} /\ r[i] \in Nat /\ r[n] \in Nat
      BY <2>1, <2>6, TensDef
    <2>4. r[n] \div Tens[n - i] = r[i]
      BY <2>2, <2>3, DivideBy
    <2>5. r[i] % 10 = D(i)
      <3>1. r[i - 1] \in Nat /\ D(i) \in 0..9 /\ r[i] = 10 * r[i - 1] + D(i)
        BY <1>2, <1>3, <2>1
      <3> QED
        BY <3>1
    <2> QED
      BY <1>3, <2>4, <2>5
  <1>8. Number(digits) = r[n] /\ r[n] \in Nat
    BY <1>2
  <1> QED
    BY <1>2, <1>5, <1>6, <1>7, <1>8 DEF Writes, n

\* What _NUMERIC matches is read as the number it writes, unless it is padded.
LEMMA ReadMeaning ==
    ASSUME NEW T, NEW c \in Seq(T), Numeric(c), ~Padded(Unsigned(c))
    PROVE  /\ Read(c).kind \in {"int", "float", "rounded"}
           /\ WritesNumber(Unsigned(c), Read(c))
           /\ Read(c).negative => "-" \in ToSet(c)
  <1> DEFINE d == Unsigned(c)
  <1>1. c # <<>> /\ AllDigits(Whole(d))
    BY DEF Numeric
  <1>2. d \in Seq(T) /\ ("." \in ToSet(d) <=> "." \in ToSet(c))
    BY <1>1, UnsignedText
  <1>3. Head(c) = "-" => "-" \in ToSet(c)
    BY <1>1 DEF ToSet
  <1>4. ~(Len(d) > 1 /\ d[1] = "0" /\ d[2] # ".")
    BY DEF Padded
  <1> DEFINE minus == Head(c) = "-"
             some  == minus /\ Number(d) # 0
  <1>5. /\ "." \in ToSet(c) => Read(c) = FloatOf(minus, d)
        /\ "." \notin ToSet(c) =>
              Read(c) = [kind |-> "int", negative |-> some, value |-> Number(d)]
    BY DEF Read, IntOf
  <1>6. minus \in BOOLEAN /\ some \in BOOLEAN /\ (some => minus)
    OBVIOUS
  <1>7. minus => "-" \in ToSet(c)
    BY <1>3
  <1> HIDE DEF d, minus, some
  <1>8. CASE "." \in ToSet(c)
    <2>1. CASE Significant(d) <= Precision
      <3>1. Read(c) = [kind |-> "float", negative |-> minus, whole |-> Whole(d),
                       fraction |-> NoTrailingZeros(Fraction(d))]
        BY <1>5, <1>8, <2>1 DEF FloatOf
      <3>2. /\ Read(c).kind = "float" /\ Read(c).whole = Whole(d)
            /\ Read(c).fraction = NoTrailingZeros(Fraction(d))
        BY <3>1
      <3>3. Read(c).negative = minus
        BY <1>6, <3>1
      <3>4. WritesDecimal(d, Read(c))
        <4> DEFINE f == Fraction(d)
        <4>1. f \in Seq(T)
          BY <1>2, <1>8, FractionText
        <4>2. /\ Len(NoTrailingZeros(f)) <= Len(f)
              /\ \A i \in DOMAIN f :
                   f[i] = IF i <= Len(NoTrailingZeros(f)) THEN NoTrailingZeros(f)[i] ELSE "0"
          <5> HIDE DEF f
          <5> QED
            BY <4>1, ZerosDropped
        <4> QED
          BY <3>2, <4>2 DEF WritesDecimal
      <3>5. WritesNumber(d, Read(c))
        BY <2>1, <3>2, <3>4 DEF WritesNumber
      <3> QED
        BY <1>7, <3>2, <3>3, <3>5 DEF d
    <2>2. CASE ~(Significant(d) <= Precision)
      <3>1. Read(c) = [kind |-> "rounded", negative |-> minus]
        BY <1>5, <1>8, <2>2 DEF FloatOf
      <3>2. Read(c).kind = "rounded"
        BY <3>1
      <3>3. Read(c).negative = minus
        BY <1>6, <3>1
      <3>4. Precision < Significant(d)
        <4>1. Significant(d) \in Nat
          BY <1>2, <1>8, SignificantType
        <4> QED
          BY <2>2, <4>1, PrecisionAssumption
      <3>5. WritesNumber(d, Read(c))
        BY <3>2, <3>4 DEF WritesNumber
      <3> QED
        BY <1>7, <3>2, <3>3, <3>5 DEF d
    <2> QED
      BY <2>1, <2>2
  <1>9. CASE "." \notin ToSet(c)
    <2>1. Whole(d) = d
      <3>1. Point(d) = Len(d) + 1
        BY <1>2, <1>9 DEF Point
      <3>2. Whole(d) = SubSeq(d, 1, Len(d))
        BY <1>2, <3>1 DEF Whole
      <3> QED
        BY <1>2, <3>2
    <2>2. d # <<>> /\ d \in Seq(Digits)
      BY <1>1, <1>2, <2>1 DEF AllDigits
    <2>3. Len(d) > 1 => d[1] # "0"
      <3>1. Len(d) > 1 => d[2] \in Digits
        BY <2>2
      <3> QED
        BY <1>4, <3>1, NoDigit
    <2>4. Number(d) \in Nat /\ Writes(d, Number(d))
      BY <2>2, <2>3, NumberIsWritten
    <2>5. Read(c) = [kind |-> "int", negative |-> some, value |-> Number(d)]
      BY <1>5, <1>9
    <2>6. Read(c).kind = "int" /\ Read(c).value = Number(d)
      BY <2>5
    <2>7. Read(c).negative = some
      BY <1>6, <2>5
    <2>8. WritesNumber(d, Read(c))
      BY <2>4, <2>6 DEF WritesNumber
    <2> QED
      BY <1>6, <1>7, <2>6, <2>7, <2>8 DEF d
  <1> QED
    BY <1>8, <1>9

\* What to_number makes of a text: the text, nothing, or the number it writes; and it
\* leaves what it has made alone.
LEMMA ToNumberMeaning ==
    ASSUME NEW text \in Seq(Alphabet), NEW v, v = ToNumber(Str(text))
    PROVE  /\ \/ v = Str(text)
              \/ v = None /\ Strip(text) = <<>>
              \/ WritesNumber(Plain(text), v) /\ (v.negative => "-" \in ToSet(text))
           /\ v.kind \in {"str", "none", "int", "float", "rounded"}
           /\ ToNumber(v) = v
  <1> DEFINE c == NoCommas(Strip(text))
  <1>1. c \in Seq(Alphabet) /\ ToSet(c) \subseteq ToSet(text)
    BY BareText
  <1>2. Str(text).kind = "str" /\ Str(text).chars = text
    BY DEF Str
  <1>3. v = IF Strip(text) = <<>> THEN None
            ELSE IF Numeric(c) /\ ~Padded(Unsigned(c)) THEN Read(c) ELSE Str(text)
    BY <1>2 DEF ToNumber
  <1>4. Plain(text) = Unsigned(c)
    BY DEF Plain
  <1> HIDE DEF c
  <1>5. CASE Strip(text) = <<>>
    <2>1. v = None /\ v.kind = "none"
      BY <1>3, <1>5 DEF None
    <2> QED
      BY <1>5, <2>1 DEF ToNumber
  <1>6. CASE Strip(text) # <<>> /\ Numeric(c) /\ ~Padded(Unsigned(c))
    <2>1. v = Read(c)
      BY <1>3, <1>6
    <2>2. /\ v.kind \in {"int", "float", "rounded"} /\ WritesNumber(Unsigned(c), v)
          /\ v.negative => "-" \in ToSet(c)
      BY <1>1, <1>6, <2>1, ReadMeaning
    <2>3. ToNumber(v) = v
      BY <2>2 DEF ToNumber
    <2> QED
      BY <1>1, <1>4, <2>2, <2>3
  <1>7. CASE Strip(text) # <<>> /\ ~(Numeric(c) /\ ~Padded(Unsigned(c)))
    <2>1. v = Str(text)
      BY <1>3, <1>7
    <2> QED
      BY <1>2, <2>1
  <1> QED
    BY <1>5, <1>6, <1>7

\* normalize() of a response: the identifier stays, the quantity is converted.
LEMMA NormalizeResponse ==
    ASSUME NEW code, NEW price, code.kind \notin {"dict", "list"},
           price.kind \notin {"dict", "list"}
    PROVE  Normalize(Response(code, price), {}) = Response(code, ToNumber(price))
  <1> DEFINE record == Dict(<<Field(Code, code), Field(Price, price)>>)
             list == List(<<record>>)
  <1>1. \A v, name : v.kind \notin {"dict", "list"} =>
            Convert(v, name, {}) = IF IsTextualKey(name) THEN v ELSE ToNumber(v)
    BY DEF Convert
  <1>2. IsTextualKey(Code) /\ ~IsTextualKey(Price)
    BY DEF IsTextualKey, Code, Price, TextualWords
  <1>3. WalkRecord(record, Other, {}) =
            Dict(<<Field(Code, code), Field(Price, ToNumber(price))>>)
    BY <1>1, <1>2 DEF WalkRecord, Walk, Dict, Field
  <1>4. WalkList(list, Other, {}) = List(<<WalkRecord(record, Other, {})>>)
    BY DEF WalkList, Walk, List
  <1>5. /\ WalkRecord(code, Code, {}) = code
        /\ WalkRecord(List(<<code>>), Code, {}) = List(<<code>>)
        /\ WalkRecord(price, Price, {}) = ToNumber(price)
    BY <1>1, <1>2 DEF WalkRecord, Walk, List
  <1>6. /\ WalkList(List(<<code, List(<<code>>)>>), Code, {}) = List(<<code, List(<<code>>)>>)
        /\ WalkList(List(<<price>>), Price, {}) = List(<<ToNumber(price)>>)
    BY <1>5 DEF WalkList, Walk, List
  <1>7. Normalize(Response(code, price), {}) =
            Dict(<<Field(Other, WalkList(list, Other, {})),
                   Field(Code, WalkList(List(<<code, List(<<code>>)>>), Code, {})),
                   Field(Price, WalkList(List(<<price>>), Price, {}))>>)
    BY DEF Normalize, Walk, Response, Dict, Field
  <1> QED
    BY <1>3, <1>4, <1>6, <1>7 DEF Response

-----------------------------------------------------------------------------
(* The records of a response.                                              *)

NoRecords == Found(NoName, <<>>)

\* r holds the best list of records so far, step by step.
BestSoFar(r, fields) ==
    /\ r[0] = NoRecords
    /\ \A i \in 1..Len(fields) : r[i] = Better(r[i - 1], fields[i])
    /\ LongestRecords(fields) = r[Len(fields)]

\* extract_records goes through the fields once.
LEMMA LongestSteps ==
    ASSUME NEW T, NEW fields \in Seq(T)
    PROVE  \E r : BestSoFar(r, fields)
  <1> DEFINE n == Len(fields)
             A == {NoRecords} \cup
                  {Found(fields[i].name, fields[i].value.elements) : i \in 1..n}
             F == [x \in A \X (1..n) |-> Better(x[1], fields[x[2]])]
             iter == CHOOSE iter : iter = [s \in SUBSET DOMAIN fields |->
                        IF s = {} THEN NoRecords
                        ELSE Better(iter[s \ {Max(s)}], fields[Max(s)])]
  <1>1. n \in Nat /\ DOMAIN fields = 1..n
    OBVIOUS
  <1>2. F \in [A \X (1..n) -> A] /\ NoRecords \in A
    <2>1. \A best \in A, i \in 1..n : Better(best, fields[i]) \in A
      BY DEF Better
    <2> QED
      BY <2>1
  <1>3. PICK g \in [SUBSET (1..n) -> A] : Folds(g, n, NoRecords, F)
    <2> HIDE DEF F, n, A, iter
    <2> QED
      BY <1>1, <1>2, FoldExists
  <1>4. \A s \in SUBSET (1..n) : s # {} =>
            F[<<g[s \ {Max(s)}], Max(s)>>] = Better(g[s \ {Max(s)}], fields[Max(s)])
    <2> SUFFICES ASSUME NEW s \in SUBSET (1..n), s # {}
                 PROVE  F[<<g[s \ {Max(s)}], Max(s)>>] = Better(g[s \ {Max(s)}], fields[Max(s)])
      OBVIOUS
    <2>1. Max(s) \in 1..n
      BY <1>3 DEF Folds
    <2>2. g[s \ {Max(s)}] \in A
      OBVIOUS
    <2> HIDE DEF A, n
    <2> QED
      BY <2>1, <2>2
  <1>5. g = [s \in SUBSET DOMAIN fields |->
                IF s = {} THEN NoRecords ELSE Better(g[s \ {Max(s)}], fields[Max(s)])]
    <2> HIDE DEF F, A
    <2> QED
      BY <1>1, <1>3, <1>4 DEF Folds
  <1>6. iter = [s \in SUBSET DOMAIN fields |->
                IF s = {} THEN NoRecords ELSE Better(iter[s \ {Max(s)}], fields[Max(s)])]
    <2> HIDE DEF F, A
    <2> QED
      BY <1>5
  <1>7. LongestRecords(fields) = iter[1..n]
    BY <1>1 DEF LongestRecords, FoldLeft, MapThenFoldSet, NoRecords
  <1> HIDE DEF iter
  <1>8. FoldsWithin(iter, n, A, NoRecords, F)
    <2>1. iter[{}] = NoRecords
      BY <1>1, <1>6
    <2>2. ASSUME NEW s \in SUBSET (1..n), s # {}, iter[s \ {Max(s)}] \in A
          PROVE  iter[s] = F[<<iter[s \ {Max(s)}], Max(s)>>]
      <3>1. Max(s) \in 1..n
        BY <1>3, <2>2 DEF Folds
      <3>2. iter[s] = Better(iter[s \ {Max(s)}], fields[Max(s)])
        BY <1>1, <1>6, <2>2
      <3> HIDE DEF A, n
      <3> QED
        BY <2>2, <3>1, <3>2
    <2> HIDE DEF A, F
    <2> QED
      BY <2>1, <2>2 DEF FoldsWithin
  <1>9. PICK r \in [0..n -> A] : Runs(r, n, NoRecords, F, iter)
    <2> HIDE DEF F, n, A
    <2> QED
      BY <1>1, <1>2, <1>8, FoldRuns
  <1>10. \A i \in 1..n : r[i] = Better(r[i - 1], fields[i])
    <2> SUFFICES ASSUME NEW i \in 1..n PROVE r[i] = Better(r[i - 1], fields[i])
      OBVIOUS
    <2>1. i - 1 \in 0..n
      BY <1>1
    <2>2. r[i - 1] \in A /\ r[i] = F[<<r[i - 1], i>>]
      <3> HIDE DEF A, F
      <3> QED
        BY <1>9, <2>1 DEF Runs
    <2> HIDE DEF A, n
    <2> QED
      BY <2>2
  <1>11. r[0] = NoRecords /\ r[n] = iter[1..n]
    <2> HIDE DEF A, F
    <2> QED
      BY <1>9 DEF Runs
  <1> HIDE DEF F, A
  <1>12. BestSoFar(r, fields)
    BY <1>7, <1>10, <1>11 DEF BestSoFar
  <1> QED
    BY <1>12

\* The list of dicts that comes first among the longest of those up to k, if there is one.
FirstOfLongest(fields, k, i) ==
    /\ i \in 1..k /\ IsRecordList(fields[i].value)
    /\ \A j \in 1..k :
          IsRecordList(fields[j].value) =>
             /\ Len(fields[j].value.elements) <= Len(fields[i].value.elements)
             /\ j < i => Len(fields[j].value.elements) < Len(fields[i].value.elements)

\* What extract_records finds among the fields up to k.
FoundAmong(fields, k, found) ==
    \/ found = NoRecords /\ \A j \in 1..k : ~IsRecordList(fields[j].value)
    \/ \E i \in 1..k : /\ FirstOfLongest(fields, k, i)
                       /\ found = Found(fields[i].name, fields[i].value.elements)

\* extract_records finds the first of the longest lists of dicts.
LEMMA LongestIsFirst ==
    ASSUME NEW T, NEW fields \in Seq(T),
           \A i \in DOMAIN fields :
               fields[i].value.kind = "list" => IsSequence(fields[i].value.elements)
    PROVE  FoundAmong(fields, Len(fields), LongestRecords(fields))
  <1> DEFINE n == Len(fields)
             Listed(i) == IsRecordList(fields[i].value)
             Size(i) == Len(fields[i].value.elements)
             Best(i) == Found(fields[i].name, fields[i].value.elements)
             First(k, i) == FirstOfLongest(fields, k, i)
             Among(k, found) == FoundAmong(fields, k, found)
  <1>1. n \in Nat /\ DOMAIN fields = 1..n
    OBVIOUS
  <1>2. \A i \in 1..n : Listed(i) => Size(i) \in Nat \ {0}
    <2> SUFFICES ASSUME NEW i \in 1..n, Listed(i) PROVE Size(i) \in Nat \ {0}
      OBVIOUS
    <2> DEFINE e == fields[i].value.elements
    <2>1. IsSequence(e) /\ e # <<>>
      BY <1>1 DEF IsRecordList
    <2> HIDE DEF e
    <2>2. Len(e) \in Nat \ {0}
      BY <2>1 DEF IsSequence
    <2> QED
      BY <2>2 DEF e
  <1>3. /\ NoRecords.records = <<>> /\ Len(NoRecords.records) = 0
        /\ \A i : Len(Best(i).records) = Size(i)
    BY DEF NoRecords, Found
  <1>4. \A best, i : Better(best, fields[i]) =
                        IF Listed(i) /\ Size(i) > Len(best.records) THEN Best(i) ELSE best
    BY DEF Better
  <1>5. \A k, i : First(k, i) <=>
                    /\ i \in 1..k /\ Listed(i)
                    /\ \A j \in 1..k : Listed(j) => Size(j) <= Size(i) /\ (j < i => Size(j) < Size(i))
    BY DEF FirstOfLongest
  <1>6. \A k, found : Among(k, found) <=>
                        \/ found = NoRecords /\ \A j \in 1..k : ~Listed(j)
                        \/ \E i \in 1..k : First(k, i) /\ found = Best(i)
    BY DEF FoundAmong
  <1>7. PICK r : BestSoFar(r, fields)
    BY LongestSteps
  <1>8. /\ r[0] = NoRecords
        /\ \A i \in 1..n : r[i] = Better(r[i - 1], fields[i])
        /\ LongestRecords(fields) = r[n]
    BY <1>7 DEF BestSoFar
  <1> DEFINE S == {k \in 0..n : Among(k, r[k])}
  <1> HIDE DEF n, Listed, Size, Best, First, Among
  <1>9. 0 \in S
    BY <1>1, <1>6, <1>8
  <1>10. ASSUME NEW k \in 0..n, k < n, k \in S
         PROVE  k + 1 \in S
    <2> DEFINE m == k + 1
    <2>1. m \in 1..n /\ m \in 0..n /\ m - 1 = k /\ \A j \in 1..m : j = m \/ j \in 1..k
      BY <1>1, <1>10
    <2>2. /\ k \in Nat /\ m = k + 1 /\ 1..k \subseteq 1..n /\ 1..k \subseteq 1..m /\ 1..m \subseteq 1..n
          /\ m \in 1..m
      BY <1>1, <1>10
    <2> HIDE DEF m
    <2>3. r[m] = IF Listed(m) /\ Size(m) > Len(r[k].records) THEN Best(m) ELSE r[k]
      BY <1>4, <1>8, <2>1
    <2> SUFFICES Among(m, r[m])
      BY <2>1, <2>2
    <2>4. Among(k, r[k])
      BY <1>10
    <2>5. \A j \in 1..k : j < m /\ ~(m < j)
      BY <2>2
    <2>6. CASE r[k] = NoRecords /\ \A j \in 1..k : ~Listed(j)
      <3>1. CASE Listed(m)
        <4>1. r[m] = Best(m)
          BY <1>2, <1>3, <2>1, <2>3, <2>6, <3>1
        <4>2. First(m, m)
          BY <1>2, <1>5, <2>1, <2>2, <2>6, <3>1
        <4> QED
          BY <1>6, <2>1, <2>2, <4>1, <4>2
      <3>2. CASE ~Listed(m)
        BY <1>6, <2>1, <2>3, <2>6, <3>2
      <3> QED
        BY <3>1, <3>2
    <2>7. CASE \E i \in 1..k : First(k, i) /\ r[k] = Best(i)
      <3>1. PICK i \in 1..k : First(k, i) /\ r[k] = Best(i)
        BY <2>7
      <3>2. /\ Listed(i) /\ Size(i) \in Nat /\ Len(r[k].records) = Size(i)
            /\ \A j \in 1..k : Listed(j) => Size(j) <= Size(i) /\ (j < i => Size(j) < Size(i))
        BY <1>2, <1>3, <1>5, <2>2, <3>1
      <3>3. CASE Listed(m) /\ Size(m) > Size(i)
        <4>1. r[m] = Best(m)
          BY <2>3, <3>2, <3>3
        <4>2. \A j \in 1..m : Listed(j) => Size(j) <= Size(m) /\ (j < m => Size(j) < Size(m))
          <5> SUFFICES ASSUME NEW j \in 1..m, Listed(j)
                       PROVE  Size(j) <= Size(m) /\ (j < m => Size(j) < Size(m))
            OBVIOUS
          <5>1. Size(m) \in Nat /\ Size(j) \in Nat
            BY <1>2, <2>1, <2>2, <3>3
          <5>2. CASE j = m
            BY <2>2, <5>1, <5>2
          <5>3. CASE j \in 1..k
            <6>1. Size(j) <= Size(i)
              BY <3>2, <5>3
            <6> QED
              BY <3>2, <3>3, <5>1, <6>1
          <5> QED
            BY <2>1, <5>2, <5>3
        <4>3. First(m, m)
          BY <1>5, <2>2, <3>3, <4>2
        <4> QED
          BY <1>6, <2>1, <2>2, <4>1, <4>3
      <3>4. CASE ~(Listed(m) /\ Size(m) > Size(i))
        <4>1. r[m] = Best(i)
          BY <2>3, <3>1, <3>2, <3>4
        <4>2. Listed(m) => Size(m) <= Size(i)
          BY <1>2, <2>1, <3>2, <3>4
        <4>3. ~(m < i)
          BY <2>5
        <4>4. First(m, i)
          BY <1>5, <2>1, <2>2, <3>1, <3>2, <4>2, <4>3
        <4> QED
          BY <1>6, <2>1, <2>2, <4>1, <4>4
      <3> QED
        BY <3>3, <3>4
    <2> QED
      BY <1>6, <2>4, <2>6, <2>7
  <1> HIDE DEF S
  <1>11. 0..n \subseteq S
    BY <1>1, <1>9, <1>10, InductionUpTo
  <1>12. Among(n, r[n])
    BY <1>1, <1>11 DEF S
  <1> QED
    BY <1>8, <1>12 DEF Among, n

-----------------------------------------------------------------------------
(* The theorems on the pure functions.                                     *)

\* Each call notes the function applied.
LEMMA CalledFunction ==
    /\ CallNormalize => applied'.function = "normalize"
    /\ CallExtract => applied'.function = "extract_records"
    /\ CallExtractList => applied'.function = "extract_list"
    /\ CallRound => applied'.function = "round_to_tick"
  <1>1. CallNormalize => applied'.function = "normalize"
    BY DEF CallNormalize
  <1>2. CallExtract => applied'.function = "extract_records"
    BY DEF CallExtract
  <1>3. CallExtractList => applied'.function = "extract_list"
    BY DEF CallExtractList
  <1>4. CallRound => applied'.function = "round_to_tick"
    BY DEF CallRound
  <1> QED
    BY <1>1, <1>2, <1>3, <1>4

\* What a call of normalize() returns keeps the meaning of the fields.
LEMMA NormalizeKeeps ==
    ASSUME CallNormalize PROVE ConversionKeepsMeaning'
  <1>1. PICK text \in Texts :
            applied' = [function |-> "normalize", text |-> text,
                        result |-> Normalize(Response(Str(text), Str(text)), {})]
    BY DEF CallNormalize
  <1> DEFINE price == ToNumber(Str(text))
             result == Response(Str(text), price)
  <1>2. text \in Seq(Alphabet)
    BY TextsAssumption
  <1>3. /\ \/ price = Str(text)
           \/ price = None /\ Strip(text) = <<>>
           \/ WritesNumber(Plain(text), price) /\ (price.negative => "-" \in ToSet(text))
        /\ price.kind \in {"str", "none", "int", "float", "rounded"}
        /\ ToNumber(price) = price
    BY <1>2, ToNumberMeaning
  <1>4. Str(text).kind \notin {"dict", "list"} /\ price.kind \notin {"dict", "list"}
    BY <1>3 DEF Str
  <1> HIDE DEF price
  <1>5. Normalize(Response(Str(text), Str(text)), {}) = result
    BY <1>4, NormalizeResponse DEF price
  <1>6. Normalize(result, {}) = result
    BY <1>3, <1>4, NormalizeResponse
  <1>7. applied'.text = text /\ applied'.result = result
    BY <1>1, <1>5
  <1>8. LET row == result.fields[1].value.elements[1]
        IN  /\ row.fields[1].value = Str(text) /\ row.fields[2].value = price
            /\ result.fields[2].value = List(<<Str(text), List(<<Str(text)>>)>>)
            /\ result.fields[3].value = List(<<price>>)
    BY DEF Response, Dict, List, Field
  <1> HIDE DEF result
  <1> QED
    BY <1>3, <1>6, <1>7, <1>8 DEF ConversionKeepsMeaning

\* What a call of extract_records() finds is the first of the longest lists of dicts.
LEMMA ExtractFindsLongest ==
    ASSUME CallExtract PROVE RecordsAreTheLongest'
  <1>1. PICK payload \in Payloads, name \in AskedNames \cup {NoName} :
            applied' = [function |-> "extract_records", payload |-> payload, name |-> name,
                        result |-> ExtractRecords(payload, name),
                        rows |-> Rows(payload, name, TRUE)]
    BY DEF CallExtract
  <1> SUFFICES ASSUME name = NoName PROVE RecordsAreTheLongest'
    BY <1>1 DEF RecordsAreTheLongest
  <1> DEFINE fields == payload.fields
             found  == LongestRecords(fields)
             n      == Len(fields)
  <1>2. /\ fields \in Seq(ToSet(fields)) /\ payload.kind = "dict"
        /\ \A i \in DOMAIN fields :
               fields[i].value.kind = "list" => IsSequence(fields[i].value.elements)
    BY PayloadsAssumption DEF IsSequence
  <1>3. ExtractRecords(payload, name) = found
    BY <1>2 DEF ExtractRecords
  <1>4. FoundAmong(fields, n, found)
    <2> HIDE DEF fields
    <2> QED
      BY <1>2, LongestIsFirst
  <1>5. n \in Nat /\ DOMAIN fields = 1..n
    <2> HIDE DEF fields
    <2> QED
      BY <1>2
  <1>6. Len(Rows(payload, name, TRUE)) = Len(found.records)
    <2> DEFINE records == found.records
    <2>1. \E T : records \in Seq(T)
      <3>1. CASE found = NoRecords
        BY <3>1 DEF NoRecords, Found
      <3>2. CASE found # NoRecords
        <4>1. PICK i \in 1..n : FirstOfLongest(fields, n, i)
                                /\ found = Found(fields[i].name, fields[i].value.elements)
          BY <1>4, <3>2 DEF FoundAmong
        <4>2. records = fields[i].value.elements
          BY <4>1 DEF Found
        <4>3. IsSequence(fields[i].value.elements)
          BY <1>2, <1>5, <4>1 DEF FirstOfLongest, IsRecordList
        <4> QED
          BY <4>2, <4>3 DEF IsSequence
      <3> QED
        BY <3>1, <3>2
    <2>2. Rows(payload, name, TRUE) = [i \in DOMAIN records |-> Normalize(records[i], {})]
      BY <1>3 DEF Rows
    <2> HIDE DEF records
    <2>3. Len([i \in DOMAIN records |-> Normalize(records[i], {})]) = Len(records)
      BY <2>1
    <2> QED
      BY <2>2, <2>3 DEF records
  <1>7. /\ applied'.payload = payload /\ applied'.result = found
        /\ applied'.rows = Rows(payload, name, TRUE)
    BY <1>1, <1>3
  <1> HIDE DEF found, fields, n
  <1>8. LET lists == {i \in DOMAIN fields : IsRecordList(fields[i].value)}
            Size(i) == Len(fields[i].value.elements)
        IN  IF lists = {} THEN found = Found(NoName, <<>>)
            ELSE \E i \in lists :
                   /\ found = Found(fields[i].name, fields[i].value.elements)
                   /\ \A j \in lists : Size(j) <= Size(i) /\ (j < i => Size(j) < Size(i))
    <2>1. CASE found = NoRecords /\ \A j \in 1..n : ~IsRecordList(fields[j].value)
      BY <1>5, <2>1 DEF NoRecords
    <2>2. CASE \E i \in 1..n : /\ FirstOfLongest(fields, n, i)
                               /\ found = Found(fields[i].name, fields[i].value.elements)
      BY <1>5, <2>2 DEF FirstOfLongest
    <2> QED
      BY <1>4, <2>1, <2>2 DEF FoundAmong
  <1> QED
    BY <1>6, <1>7, <1>8 DEF RecordsAreTheLongest, fields

\* What a call of round_to_tick() returns is the best quote.
LEMMA RoundGivesBestQuote ==
    ASSUME CallRound PROVE LimitPriceIsQuotable'
  <1>1. PICK price \in Prices :
            applied' = [function |-> "round_to_tick", price |-> price,
                        tick |-> TickOf(price), result |-> RoundToTick(price),
                        ticks |-> TicksIn(price, price)]
    BY DEF CallRound
  <1>2. BestQuote(price, RoundToTick(price))
    BY PricesAssumption, RoundingIsSound
  <1>3. applied'.price = price /\ applied'.result = RoundToTick(price)
    BY <1>1
  <1> QED
    BY <1>2, <1>3 DEF LimitPriceIsQuotable

\* normalize() changes a value only into the number it writes, a decimal of too many digits
\* into a float next to it, leaves identifiers as they are, also in lists, and changes
\* nothing when applied again, whatever the text.
THEOREM ConversionsKeepMeaning == Spec => []ConversionKeepsMeaning
  <1>1. applied.function # "normalize" => ConversionKeepsMeaning
    BY DEF ConversionKeepsMeaning
  <1>2. applied'.function # "normalize" => ConversionKeepsMeaning'
    BY DEF ConversionKeepsMeaning
  <1>3. Init => ConversionKeepsMeaning
    <2>1. Init => applied.function # "normalize"
      BY DEF Init, NotApplied
    <2> QED
      BY <1>1, <2>1
  <1>4. ConversionKeepsMeaning /\ [Next]_vars => ConversionKeepsMeaning'
    <2>1. ASSUME UNCHANGED applied, ConversionKeepsMeaning PROVE ConversionKeepsMeaning'
      BY <2>1 DEF ConversionKeepsMeaning
    <2>2. /\ CallExtract => applied'.function = "extract_records"
          /\ CallExtractList => applied'.function = "extract_list"
          /\ CallRound => applied'.function = "round_to_tick"
      BY CalledFunction
    <2> QED
      BY <1>2, <2>1, <2>2, NormalizeKeeps DEF Next, ClientStep, vars
  <1> QED
    BY <1>3, <1>4, PTL DEF Spec

\* extract_records() finds the first of the longest lists of dicts in a response, whatever
\* it holds, and to_dataframe() makes a row of each record.
THEOREM LongestRecordsAreFound == Spec => []RecordsAreTheLongest
  <1>1. Init => RecordsAreTheLongest
    BY DEF Init, NotApplied, RecordsAreTheLongest
  <1>2. RecordsAreTheLongest /\ [Next]_vars => RecordsAreTheLongest'
    <2>1. ASSUME UNCHANGED applied, RecordsAreTheLongest PROVE RecordsAreTheLongest'
      BY <2>1 DEF RecordsAreTheLongest
    <2>2. CallNormalize \/ CallExtractList \/ CallRound => RecordsAreTheLongest'
      BY DEF CallNormalize, CallExtractList, CallRound, RecordsAreTheLongest
    <2> QED
      BY <2>1, <2>2, ExtractFindsLongest DEF Next, ClientStep, vars
  <1> QED
    BY <1>1, <1>2, PTL DEF Spec

\* round_to_tick() gives the highest price an order may have not above the one asked for,
\* whatever the price.
THEOREM LimitPricesAreQuotable == Spec => []LimitPriceIsQuotable
  <1>1. Init => LimitPriceIsQuotable
    BY DEF Init, NotApplied, LimitPriceIsQuotable
  <1>2. LimitPriceIsQuotable /\ [Next]_vars => LimitPriceIsQuotable'
    <2>1. ASSUME UNCHANGED applied, LimitPriceIsQuotable PROVE LimitPriceIsQuotable'
      BY <2>1 DEF LimitPriceIsQuotable
    <2>2. /\ CallNormalize => applied'.function = "normalize"
          /\ CallExtract => applied'.function = "extract_records"
          /\ CallExtractList => applied'.function = "extract_list"
      BY CalledFunction
    <2>3. applied'.function # "round_to_tick" => LimitPriceIsQuotable'
      BY DEF LimitPriceIsQuotable
    <2> QED
      BY <2>1, <2>2, <2>3, RoundGivesBestQuote DEF Next, ClientStep, vars
  <1> QED
    BY <1>1, <1>2, PTL DEF Spec

\* Between the calls of the pure functions, and with them, the client reads as it does on
\* its own: request_all's pages come once and in order here as well.
THEOREM ReadsLikeTheClient ==
    Spec => ClientInit /\ [][ClientNext]_clientVars /\ []EachPageOnce
  <1>1. Init => ClientInit
    BY DEF Init
  <1>2. [Next]_vars => [ClientNext]_clientVars
    BY DEF Next, vars, ClientStep, CallNormalize, CallExtract, CallExtractList, CallRound,
           MayApply
  <1>3. IInv => EachPageOnce
    BY DEF IInv
  <1> QED
    BY <1>1, <1>2, <1>3, InitInv, StepInv, PTL DEF Spec
=============================================================================
