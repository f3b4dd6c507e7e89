------------------------------ MODULE BaseClient ------------------------------
(***************************************************************************)
(* The REST client for threads: BaseClient.request with its retry loop and *)
(* request_all with its pages, against a server that holds a number of     *)
(* pages and may throttle, reject and fail.  request_all of the asyncio    *)
(* client is the same loop.                                                *)
(*                                                                         *)
(* A call keeps nothing on the client that another call reads, so one call *)
(* is enough: whatever other threads do to the token shows in the answers  *)
(* of the token provider and of the server, which are free here (what      *)
(* threads do to the cache of KiwoomAuth is ThreadAuth's subject).         *)
(* Waiting for the rate limiter is part of waiting at "send".              *)
(***************************************************************************)
EXTENDS Naturals, Sequences, SequencesExt

CONSTANTS
    MaxRetries,  \* max_retries of the client
    MaxPages,    \* bound: the largest max_pages given to request_all()
    MaxTotal     \* bound: how many pages the server may hold

ASSUME ClientAssumption ==
    MaxRetries \in Nat /\ MaxPages \in Nat /\ MaxTotal \in Nat \ {0}

VARIABLES
    provider,   \* token_provider is not None
    total,      \* server: how many pages the answer has
    pc,         \* where the call is
    mode,       \* "request" or "request_all"
    dataKey,    \* request_all was given a data_key
    limit,      \* its max_pages
    attempt,    \* the loop variable of request()
    refreshed,  \* token_refreshed of request()
    key,        \* (cont_yn, next_key): 0 is ("N", ""), n is ("Y", page n's key)
    reply,      \* the response being handled
    items,      \* all_items of request_all()
    outcome,    \* how the call ended
    pages       \* history: what request() returned to request_all, in order

configVars == <<provider, total>>
loopVars   == <<attempt, refreshed, key, reply>>
argVars    == <<mode, dataKey, limit>>
listVars   == <<argVars, items, pages>>
clientVars == <<configVars, pc, loopVars, listVars, outcome>>

-----------------------------------------------------------------------------
(* Responses.                                                              *)

Throttled     == {"429", "rc5"}    \* over the limit, by status or payload
TokenRejected == {"401", "rc3"}    \* bad token, by status or payload
\* "bad_json": no JSON, or JSON that is no object.
Failures      == Throttled \cup TokenRejected \cup {"rc_error", "500", "bad_json"}

\* What a page holds under data_key: a list, something else, or no such key.
Shapes == {"list", "other", "missing"}

\* Where a continuation may stand: the payload's cont_yn and next_key, its cont-yn and
\* next-key, the response headers.  A field may be left out, and may be empty (0, a key).
Lookup == {"underscore", "dash", "header"}
Flags  == {"Y", "N", "empty"}
Keys   == 0..MaxTotal + 1
Located(values) == UNION {[given -> values] : given \in SUBSET Lookup}
Nowhere == [place \in {} |-> 0]

Replies == [kind : Failures \cup {"ok", "none"}, page : Keys, shape : Shapes,
            cont : Located(Flags), next : Located(Keys)]
NoReply == [kind |-> "none", page |-> 0, shape |-> "missing",
            cont |-> Nowhere, next |-> Nowhere]

\* Mutant: the response headers are not folded into the payload.
NotFolded(field, default) ==
    IF "dash" \in DOMAIN field THEN field["dash"] ELSE default

\* request() folds a header into the payload where the payload has no such key: a key
\* that is there and empty stays.
Folded(field, default) ==
    CASE "dash" \in DOMAIN field -> field["dash"]
      [] "dash" \notin DOMAIN field /\ "header" \in DOMAIN field -> field["header"]
      [] OTHER -> default

\* _accumulate: the value under the first spelling, or, where that is empty, the second.
LookedUp(field, blank, default) ==
    IF "underscore" \in DOMAIN field /\ field["underscore"] # blank
    THEN field["underscore"] ELSE Folded(field, default)

\* The key of the next page; 0 ends the reading.
Continuation(r) ==
    IF LookedUp(r.cont, "empty", "N") = "Y" THEN LookedUp(r.next, 0, 0) ELSE 0

\* The headers announce a page, and an empty field of the payload is in front of them.
Shadowed(r) ==
    /\ "header" \in DOMAIN r.cont /\ r.cont["header"] = "Y"
    /\ \/ "dash" \in DOMAIN r.cont /\ r.cont["dash"] = "empty"
       \/ "dash" \in DOMAIN r.next /\ r.next["dash"] = 0

\* What is kept of a page, for the properties: was the next one announced in vain?
Pages   == [page : Keys, shape : Shapes, next : {"sound", "shadowed"}]
Page(r) == [page |-> r.page, shape |-> r.shape,
            next |-> IF Shadowed(r) THEN "shadowed" ELSE "sound"]

\* _accumulate: the records of the page, or the whole response where data_key is missing.
\* What stands under data_key and is no list is left out without a sign.
Collects(page) == ~dataKey \/ page.shape # "other"

-----------------------------------------------------------------------------

Places   == {"idle", "start", "send", "replied", "refresh", "done"}
Outcomes == Failures \cup {"none", "ok", "provider_error",
                           "transport_error", "runtime_error"}

ClientInit ==
    /\ provider \in BOOLEAN /\ total \in 1..MaxTotal
    /\ pc = "idle" /\ mode = "request" /\ dataKey = FALSE /\ limit = 0
    /\ attempt = 0 /\ refreshed = FALSE /\ key = 0
    /\ reply = NoReply /\ items = <<>> /\ pages = <<>> /\ outcome = "none"

End(how) == pc' = "done" /\ outcome' = how /\ reply' = NoReply

\* request(), with the continuation its caller passes on, or none.
Request ==
    /\ pc = "idle"
    /\ \E k \in {0} \cup 2..total : key' = k
    /\ pc' = "start"
    /\ UNCHANGED <<configVars, attempt, refreshed, reply, listVars, outcome>>

\* request_all(): the range may be empty.
RequestAll ==
    /\ pc = "idle"
    /\ mode' = "request_all"
    /\ dataKey' \in BOOLEAN /\ limit' \in 0..MaxPages
    /\ IF limit' = 0 THEN End("ok") ELSE pc' = "start" /\ UNCHANGED <<outcome, reply>>
    /\ UNCHANGED <<configVars, attempt, refreshed, key, items, pages>>

\* The top of the loop: _current_token and the headers, then the limiter.
BuildHeaders ==
    /\ pc = "start"
    /\ pc' = "send"
    /\ UNCHANGED <<configVars, loopVars, listVars, outcome>>

\* The token provider raises, in get_valid_token or in refresh_token, whatever it raises.
ProviderFails ==
    /\ pc = "refresh" \/ (pc = "start" /\ provider)
    /\ End("provider_error")
    /\ UNCHANGED <<configVars, attempt, refreshed, key, listVars>>

\* httpx raises: a timeout, a lost connection.
TransportFails ==
    /\ pc = "send"
    /\ End("transport_error")
    /\ UNCHANGED <<configVars, attempt, refreshed, key, listVars>>

\* "continue": the next attempt, or out of the range and past the loop.
NextAttempt ==
    /\ IF attempt < MaxRetries
       THEN pc' = "start" /\ attempt' = attempt + 1 /\ UNCHANGED outcome
       ELSE pc' = "done" /\ outcome' = "runtime_error" /\ UNCHANGED attempt
    /\ reply' = NoReply

\* Mutant: a throttled attempt does not count.
BackOffUncounted ==
    /\ pc = "replied" /\ reply.kind \in Throttled
    /\ pc' = "start" /\ reply' = NoReply
    /\ UNCHANGED <<configVars, attempt, refreshed, key, listVars, outcome>>

MayBackOff == reply.kind \in Throttled /\ attempt < MaxRetries

BackOff ==
    /\ pc = "replied" /\ MayBackOff
    /\ NextAttempt
    /\ UNCHANGED <<configVars, refreshed, key, listVars>>

\* Mutant: a refresh on the last attempt too.
MayRefreshOnLast == reply.kind \in TokenRejected /\ provider /\ ~refreshed

MayRefresh ==
    /\ reply.kind \in TokenRejected
    /\ provider /\ ~refreshed /\ attempt < MaxRetries

WantRefresh ==
    /\ pc = "replied" /\ MayRefresh
    /\ refreshed' = TRUE
    /\ pc' = "refresh"
    /\ UNCHANGED <<configVars, attempt, key, reply, listVars, outcome>>

RefreshDone ==
    /\ pc = "refresh"
    /\ NextAttempt
    /\ UNCHANGED <<configVars, refreshed, key, listVars>>

\* raise_for_status, resp.json() or _check_return_code raises, and request_all
\* with it: the pages read before are lost to the caller.
Fail ==
    /\ pc = "replied" /\ reply.kind # "ok"
    /\ ~MayBackOff /\ ~MayRefresh
    /\ End(reply.kind)
    /\ UNCHANGED <<configVars, attempt, refreshed, key, listVars>>

\* request() returns the payload to the caller.
ReturnPayload ==
    /\ pc = "replied" /\ reply.kind = "ok" /\ mode = "request"
    /\ End("ok")
    /\ UNCHANGED <<configVars, attempt, refreshed, key, listVars>>

\* Mutant: the key of the next page is not passed on.
AccumulateOldKey ==
    /\ pc = "replied" /\ reply.kind = "ok" /\ mode = "request_all"
    /\ items' = IF Collects(Page(reply)) THEN Append(items, Page(reply)) ELSE items
    /\ pages' = Append(pages, Page(reply))
    /\ IF Continuation(reply) = 0 \/ Len(pages) + 1 = limit
       THEN End("ok") /\ UNCHANGED <<attempt, refreshed, key>>
       ELSE /\ attempt' = 0 /\ refreshed' = FALSE /\ UNCHANGED key
            /\ pc' = "start" /\ reply' = NoReply /\ UNCHANGED outcome
    /\ UNCHANGED <<configVars, argVars>>

\* request() returns a page to request_all, which collects it and asks for the
\* next one, or returns the list: at the end, or when max_pages are read.
Accumulate ==
    /\ pc = "replied" /\ reply.kind = "ok" /\ mode = "request_all"
    /\ items' = IF Collects(Page(reply)) THEN Append(items, Page(reply)) ELSE items
    /\ pages' = Append(pages, Page(reply))
    /\ IF Continuation(reply) = 0 \/ Len(pages) + 1 = limit
       THEN End("ok") /\ UNCHANGED <<attempt, refreshed, key>>
       ELSE /\ key' = Continuation(reply) /\ attempt' = 0 /\ refreshed' = FALSE
            /\ pc' = "start" /\ reply' = NoReply /\ UNCHANGED outcome
    /\ UNCHANGED <<configVars, argVars>>

-----------------------------------------------------------------------------
(* The server (external).                                                  *)

ServerFails ==
    /\ pc = "send"
    /\ \E kind \in Failures : reply' = [NoReply EXCEPT !.kind = kind]
    /\ pc' = "replied"
    /\ UNCHANGED <<configVars, attempt, refreshed, key, listVars, outcome>>

\* A field of an answer: with a value in the given places, and there but empty in others.
Fields(given, empty, value, blank) ==
    [place \in given \cup empty |-> IF place \in given THEN value ELSE blank]

\* It answers with the page asked for.  It announces the next page by a flag
\* and a key in one place; on the last page it says "N", or nothing.  Fields of the
\* payload that it does not use may be there, empty.
ServerAnswers ==
    /\ pc = "send"
    /\ LET page == IF key = 0 THEN 1 ELSE key
           more == page < total
       IN  \E place \in Lookup, shape \in Shapes, silent \in BOOLEAN,
              flags, keys \in SUBSET {"underscore", "dash"} :
              LET given == IF silent THEN {} ELSE {place}
              IN  /\ more => ~silent
                  /\ reply' =
                       [kind |-> "ok", page |-> page, shape |-> shape,
                        cont |-> Fields(given, flags, IF more THEN "Y" ELSE "N", "empty"),
                        next |-> Fields(given, keys, IF more THEN page + 1 ELSE 0, 0)]
    /\ pc' = "replied"
    /\ UNCHANGED <<configVars, attempt, refreshed, key, listVars, outcome>>

-----------------------------------------------------------------------------

LoopStep ==
    \/ BuildHeaders \/ ProviderFails \/ TransportFails
    \/ BackOff \/ WantRefresh \/ RefreshDone \/ Fail
    \/ ReturnPayload \/ Accumulate

ClientNext ==
    \/ Request \/ RequestAll
    \/ LoopStep
    \/ ServerFails \/ ServerAnswers

\* A thread goes on, and httpx's 30 s timeout ends the wait for an answer.
ClientFairness == WF_clientVars(LoopStep \/ ServerFails \/ ServerAnswers)

ClientSpec == ClientInit /\ [][ClientNext]_clientVars /\ ClientFairness

-----------------------------------------------------------------------------
(* Properties.                                                             *)

\* Every variable has its type.
ClientTypeOK ==
    /\ provider \in BOOLEAN /\ total \in 1..MaxTotal
    /\ pc \in Places /\ mode \in {"request", "request_all"} /\ dataKey \in BOOLEAN
    /\ limit \in 0..MaxPages
    /\ attempt \in 0..MaxRetries /\ refreshed \in BOOLEAN
    /\ key \in Keys /\ reply \in Replies
    /\ items \in Seq(Pages) /\ pages \in Seq(Pages)
    /\ outcome \in Outcomes \ {"runtime_error"}

\* What request() returned to request_all, in order: the server's pages from the first.
PagesInOrder ==
    /\ Len(pages) <= limit
    /\ \A i \in DOMAIN pages : pages[i].page = i

\* The list of request_all holds what it collects of the pages read and nothing else,
\* in their order, each once.
ListIsWhatWasRead ==
    /\ ToSet(items) = {p \in ToSet(pages) : Collects(p)}
    /\ \A i, j \in DOMAIN items : i < j => items[i].page < items[j].page

\* request_all reads the pages in their order, each once, however often an
\* attempt was throttled or refreshed in between, and its list holds what it read and
\* nothing else; it never reads more than max_pages.
EachPageOnce == PagesInOrder /\ ListIsWhatWasRead

\* A list that request_all returns holds every page the server has, wherever the server
\* announces the next one and whichever unused fields are empty, with three
\* exceptions, all without a sign to the caller: it stopped at max_pages, a page
\* read had no list under data_key, or an empty field of the payload shadowed the
\* header that announced the next page.
CompleteUnlessCapped ==
    pc = "done" /\ mode = "request_all" /\ outcome = "ok"
    => \/ {p.page : p \in ToSet(items)} = 1..total
       \/ Len(pages) = limit
       \/ \E p \in ToSet(pages) : ~Collects(p)
       \/ Last(pages).next = "shadowed"

\* Every call ends, whatever the server says and however many pages it has.
EveryReadEnds == pc # "idle" ~> pc = "done"
=============================================================================
