# A TLA+ model of kiwoom-client

kiwoom-client is a Python client of the Kiwoom Securities REST API: 182 REST
endpoints behind one `request()` method, automatic tokens, a rate limiter per
TR (api_id), a WebSocket for real-time data, and an MCP server. It exists twice,
for threads (`KiwoomAPI`) and for asyncio (`AsyncKiwoomAPI`). This directory
models the program: what keeps state as state machines, what is pure as
operators, the endpoint classes as a catalogue. TLC checks it on small
instances, and TLAPS proves all of its safety properties for every number of
calls, tokens, retries, keys, pages, tools and every rate, price and text.

## 1. Inventory

| component | source | state | operations | interacts with |
|---|---|---|---|---|
| token cache and auth | `auth.py` | `_token`, `_expires_at`, `_lock` | issue, revoke, get_valid, refresh | OAuth endpoints; called by the REST client, `login`, `logout`, `create_websocket` |
| REST client | `base.py` | `_access_token`; per call: attempt, token_refreshed, headers | request, request_all | auth (token), rate limiter (delay), server |
| rate limiter | `rate_limiter.py` | `_buckets`, manager lock; per bucket `_tokens`, `_last_refill`, lock | acquire(key) | called by request() before each attempt |
| facade | `__init__.py` | - | login, logout, create_websocket, close | auth, without its lock |
| WebSocket client | `websocket.py` | `_ws`, `_running`, `_subscriptions`, callbacks | connect, listen, subscribe, unsubscribe, send, disconnect | server frames; user callbacks run inside listen() |
| condition search session | `mcp/condition_search_session.py` | `_ws`, `_listen_task`, `_pending`, `_dispatched_trnms` | request, close | WebSocket client, as sender and as callback |
| MCP server, tools, guard | `mcp/server.py`, `tools.py`, `guard.py` | settings, the table of tools, calls under way | main, list tools, call tool | facade, session, endpoint modules |
| pagination | `base.py` | pages read, next_key, the list | request_all | request() |
| tick sizes, parsing | `tick_size.py`, `parsing.py` | none (pure) | round_to_tick, ticks_in, extract_records, to_number | - |
| endpoint modules | `_registry.py`, `domestic/` | lazily built objects | 182 wrappers, 4 WebSocket payloads | request(), send() |

What is hard here, and what correctness means:

* **Requests are orders.** `request()` retries. It must never make the server
  carry out an order twice, and what it tells its caller must be true.
* **One token, many tasks.** Tokens expire, are refreshed by whoever is rejected
  first, replaced by `login()` and revoked by `logout()`, both without the
  auth lock, while other tasks hold headers built with an older token and wait
  for the rate limiter. A rejection should reach a caller only when it must.
* **Locks and failure.** The auth lock and the bucket locks are held over an
  await or a sleep; exceptions and cancellations happen exactly there.
* **Rate.** Two callers that meet a new key, sleepers that wake late, and
  cancelled sleepers must not let a key exceed its rate, nor delay another.
* **Reconnection.** `listen()` reconnects, logs in and restores subscriptions
  while other tasks subscribe, unsubscribe and disconnect.
* **Pages.** A reading of many pages is retried page by page and must lose, repeat or
  reorder nothing; what is missing from a list shows nowhere.
* **Live money.** Whether an order tool exists, which server a message goes to and which
  TR a tool sends are decided in different places, long before the call.
* **Values.** A stock code looks like a number; a price must be a multiple of the tick of
  its own band.
* **Correlation.** The session matches replies with requests by `(trnm, seq)`
  over a socket whose listener can end, while calls time out and are cancelled.

The hazards, each at its line, are listed in `PROJECT.json` with the properties
that cover them, and with a note where none does.

## 2. Modules

| module | models | runs | proofs |
|---|---|---|---|
| `PlaceOnce` | what `request()` promises: an abstract specification | (in `RestRequests`, `McpServer`) | `RestClientProofs` |
| `RestClient` | `AsyncBaseClient.request`, `AsyncKiwoomAuth`, `login`, `logout`, the REST server | `RestRequests`, `RestSession` | `RestClientProofs` |
| `RateLimiter` | `PerKeyRateLimiter`, `RateLimiter`, their asyncio twins, the clock | `RateLimiter` | `RateLimiterProofs` |
| `ThreadAuth` | `KiwoomAuth` and `KiwoomAPI.login`, `logout`, with threads | `ThreadAuth` | `ThreadAuthProofs` |
| `BaseClient` | `BaseClient.request` and `request_all`, and a server with pages | `MarketData` | `MarketDataProofs` |
| `Parsing` | `to_number`, `normalize`, `extract_records`, `to_dataframe` up to pandas | `MarketData` | `MarketDataProofs` |
| `TickSize` | `tick_size`, `round_to_tick`, `ticks_in` | `MarketData` | `MarketDataProofs` |
| `MarketData` | a call of `BaseClient`, and the three modules' pure functions applied | `MarketData` | `MarketDataProofs` |
| `Lists` | the list comprehension that leaves an element out | (in `WebSocket`, `MarketData`) | `FoldLemmas` |
| `KiwoomWebSocket` | `KiwoomWebSocket`, the real-time server | `WebSocket`, `WebSocketListen`, `WebSocketDisconnect` | `KiwoomWebSocketProofs` |
| `ConditionSession` | `ConditionSearchSession`, its sockets and the condition search server | `Session`, `SessionSockets`, `SessionSameKey` | `ConditionSessionProofs` |
| `Endpoints` | the classes of `domestic/` and `ModuleRegistry` | `McpServer` | (in `McpServerProofs`) |
| `McpServer` | `main`, the guard, tool discovery, `tools/call` | `McpServer` | `McpServerProofs` |

How they compose: `McpServer` EXTENDS `Endpoints` and takes the steps of `PlaceOnce` for its REST
client; `RestClient` is shown to implement `PlaceOnce`; `MarketData` EXTENDS `BaseClient`, `Parsing` and `TickSize` and applies
the pure functions to what the client may return. `ConditionSession` details the session `McpServer` reduces to how
its `request()` ends, and `KiwoomWebSocket` the sockets `ConditionSession` sees from outside.

`MC*` modules extend a module with the values of its constants that a cfg cannot
write, and with a step `Ended` that lets the finished system stutter, so that
TLC's deadlock check, which is on in every run, catches everybody waiting for
everybody else. Operators commented "Mutant" are plausible bugs of a definition:
they are in no behaviour of a specification, and each property is shown to be
broken by one of them.

### RestClient

A step is the code between two awaits. A call is one invocation of `request()`,
`login()` or `logout()`; `pc` says where it is:

| place | in the code |
|---|---|
| `start` | top of the loop, waiting for the auth lock in `get_valid_token()`, or in a back-off sleep |
| `getting`, `refreshing` | inside `get_valid_token()` / `refresh_token()`, lock held, POST /oauth2/token in flight |
| `send` | headers built, waiting for the rate limiter or for the reply |
| `replied` | the reply is being handled |
| `refresh` | the reply said the token is bad; waiting for the lock in `refresh_token()` |
| `login`, `logout` | the OAuth request of `login()` / `logout()` is in flight, no lock |
| `done` | returned or raised; `result` says what |

`token`, `expiryKnown`, `lock` and `accessToken` are the attributes of the auth
object and the client; `attempt`, `refreshed`, `header`, `grant` and `result` are
locals of the calls. A reply is one of its kinds: 429, return_code 5, 401,
return_code 3, another return_code, 5xx, success. The loop's conditions are the
code's, in the code's order (`BackOff`, `MayRefresh`, `Finish`); where the
code distinguishes HTTP status and payload, so do the kinds. The order of
messages to the server is free, replies may be lost before or after the server
acted (`TransportFails`), and every await may be cancelled (`Cancel`). What is raised is named by what it tells: `auth_error` is
KiwoomAuthError, after which nothing was done; `other_error` is any exception that says nothing of the effect, of httpx, or the ValueError or
AttributeError of a reply (a token's too, `OAuthFails`) that is no JSON object.

The server (external) is modelled from what the code and the CHANGELOG say
of it: within its validity it hands the same token out again (CHANGELOG 110), a
mock may issue another; an invalid token is answered by 401 or by return_code 3;
a throttled request is refused whatever its token; a 5xx may or may not have
had an effect. `near` are the tokens within `expiry_margin` of their expiry, and
`expiryKnown` is chosen freely when a token is stored, because the response may
carry no expiry that parses.

`executed` and `excused` are history variables: how often the server carried out
each request, and which requests have refreshed and then lost that protection
because a token died, was revoked, or because a `login()` stored its own.

Left out: a manually set `access_token` without a token provider, which the
facades never use; the values of headers and bodies; the length of a back-off.

### PlaceOnce, and how RestClient implements it

`PlaceOnce` has two variables per request, `executed` and `told`, and two steps: the server carries the request
out while its caller waits, once; and the caller is told, once, of a success that has happened, of a refusal
after which nothing has happened or will, or something that says neither (a timeout, a 5xx, a cancellation). In
`RestClient`, `executed` is the history variable of that name, and `Told` maps how a call ended to
a verdict. The property `KeepsThePromise` is `PlaceOnce`'s `Spec` under that mapping: every step of the loop, of
the token cache and of the server is one of the two steps or leaves both variables alone.

### RateLimiter

Time and tokens are counted in ticks: a bucket gains one tick's worth per tick of
the clock, a token costs `Cost` ticks and a bucket holds at most `Full` ticks. So
rate is 1/`Cost` and capacity `Full`/`Cost`, including fractional ones; with the
defaults (1 request per second, burst 2), `Full` = 2 * `Cost`. `Call`, `LookUp`,
`Create`/`Reuse` are `acquire` of the per-key manager; `Take`, `Sleep`, `Wake`
are `acquire` of a bucket: `Refilled` is the refill, `Wake` may be late by any
time, and `Cancel` is an asyncio cancellation at an await. Reading and creating the bucket
are two steps under the manager lock, as threads see them; the asyncio twins
take them in one, which is a special case. A bucket is named by the task
that created it and its key, so that two buckets for one key would be two.
`watched`, `since`, `granted` are an observer that begins at any time to count what is
granted for one key.

### KiwoomWebSocket

Three tasks: `opener` (in `connect()`), `listener` (in `listen()`), `closer` (in
`disconnect()`), and any task calling `subscribe()` and `unsubscribe()`.
Connections are numbered in the order they are made; `ws` is `_ws`, `via` the one a
task is receiving from. `Established` is `websockets.connect` returning and the
LOGIN being sent; the server answers with acceptance, or with something `_login()`
raises about, or closes. `Restore` and `RestoreRaises` are the end of `_reconnect()`;
`NextFrame` is the top of the loop, with the AttributeError that a `_ws` of None
causes there. A frame is sound or odd (`Frames`): an odd one decodes to JSON that is no object
(`websocket.py:291`), or to a REAL whose data is no list (304-306), and `_dispatch()` raises over it in the middle of `listen()`
(`DispatchRaises`); an odd LOGIN reply raises an AttributeError at line 130, which the except clause of `_reconnect()` does not
name (`ReconnectRaises`). `send()` is taken not to yield: websockets yields there only when
its write buffer is over its limit. A callback is the step between `Receive` and
`Dispatched`; it may take any time, and its exceptions are caught by `_invoke`.
`wanted` and `named` are history variables: what the calls that returned would have left
registered on a connection that is never lost, and the registrations these calls were about.

Left out: the contents of sound REAL frames and the choice of callbacks by type; a second
`connect()` or `listen()` on the same object; an access token that expires.

### ConditionSession

A call is one tool call's `request()`. It is `idle`, `connecting` (in `self._connect()`),
`waiting` (in `wait_for`) or `done`, with a `result`. `ws`, `pending` and `dispatcher`
are `_ws`, `_pending` and `_dispatched_trnms`; `dispatcher` also says on which socket the
callback of a trnm was registered, because it is registered once whatever the socket. `answer`
is what a call's future was resolved with, named by the request that was answered.
Because `send()` does not yield, `Request` is everything from the top of `request()` to the wait;
`Handle` is the listener running the callback (`Dispatch`: `(trnm, seq)` first, then `(trnm, None)`). A future that a `send()` that raised
left in the table is not done, so it can still take a reply (`Unresolved`), as in the code.
`Timeout` may come in the turn of the event loop that resolves the future, as `wait_for` allows.

A socket is a `KiwoomWebSocket` object seen from outside: `up` and `listening` go down and up as
`KiwoomWebSocket` lets them, and the listener may end for good, with the link down (`WebSocketListen`) or up (an odd frame). Requests
under way are lost with the link, and those replies that are not in the buffer of `recv()` yet; the buffered ones are handled before the
listener notices and reconnects. A reply carries the trnm and seq of its request.
`handled`, `late` and `clashed` are history variables; `clashed` holds the calls that were open (waiting, or their reply still to
come) at once with one alike, that is, with a call whose reply the table cannot tell from theirs.

Left out: the contents of replies; the frames that follow the first reply to a realtime search.

### ThreadAuth

The same auth object as in `RestClient`, but shared by threads: a step is one statement that
reads or writes the cache, because a thread may be switched between any two (reading and
assigning one attribute is atomic). `pc` names the statement: in `get_valid_token()` they are `check`
(`_token is not None`), `look` and `compare` (the two reads of `_expires_at` in `_is_expiring`), `issue`,
`store` and `store_expiry` (`_store`), `assert`, `return`; `refresh_token()` begins with `clear` and
`clear_expiry` (`_clear`); `login()` ends with `publish`; `logout()` is `revoke`, `forget` (the comparison), the
two clears and `unpublish`. `expiry` is named by the token it belongs to.
`disturbed`, `emptied` and `mixed` are history variables: the calls under whose lock a `login()` or `logout()` wrote, those
under whose lock a `logout()` wrote, and whether two threads ever wrote at once. They say where the promises stop: beyond
them `get_valid_token()` does return another token, raise a TypeError, return None, or fail its assertion, and the token is cached with
another's expiry; `PromiseKept` says which of these needs what. A token reply with status 200 that is no JSON object raises a ValueError or
an AttributeError past the except clause of `issue_token()` (`bad_reply`).

Left out: which tokens the server still accepts; that is `RestClient`'s subject.

### BaseClient

One call of `request()` or `request_all()`. `pc` is `start` (top of the loop), `send` (limiter and POST), `replied`,
`refresh` (in `refresh_token()`) or `done`. `key` stands for the pair (cont_yn, next_key): 0 is ("N", ""), n the key of
page n. A page says where the next one is in one of three places, the payload's `cont_yn`, its `cont-yn`, or
the response header that `request()` folds in; on the last page it says "N" or nothing. A field is a function from the places
where it is given, so absent and empty are different things: a header is folded in only where the payload has no such key (`Folded`), whereas
`_accumulate` passes over an empty first spelling (`LookedUp`, `Continuation`). Fields of the payload that the server does not use may be there, empty.
What it holds under `data_key` is a list, something else, or missing (`Shapes`): `_accumulate` extends its list, skips, or
appends the whole response. `items` is `all_items`, by pages; `pages` is a history variable of what was read. The
request's end (`ReturnPayload`) and `request_all`'s next turn (`Accumulate`) are the same step of the code's loop seen
from its two callers. `request_all` of `AsyncBaseClient` is the same loop over `AsyncBaseClient.request`, which `RestClient` models.
Whatever the token provider raises ends the call (`provider_error`).

Left out: what other threads do (nothing of a call is shared but the token and the limiter, see
`ThreadAuth` and `RateLimiter`); a server that announces pages for ever, which only `max_pages` stops, as it
stops a long list.

### Parsing

A value is a record with a kind; a text is the sequence of its characters, because what `to_number` decides
about a text depends on single characters. A field name is a stem and the word behind its last underscore, which is all
`is_textual_key` looks at. `float()` keeps a decimal's value, not its text: `FloatOf` drops the zeros at the end of a fraction, and says
`rounded` of a decimal with more than `Precision` significant digits (15 in the build, a double's; 2 in the run, so that texts of four characters
reach both sides). `Number` is `int()` of digits and `LongestRecords` the loop of `extract_records`, both as folds. `Walk` is one turn of the
recursive `_walk`, with the function it is continued by as an operand: `Convert` is its leaf, and `WalkRecord`, `WalkList` and `Normalize` are `_walk` of values one,
two and three levels deep. That is how deep the API's responses are (a dict of lists of records, a list in a list under a textual name), and the bound is named there; it keeps
the module free of recursive operators, which the provers refuse.

Left out: texts of more than 300 characters, where `int()` may refuse and `float()` overflow (`Longest`); signs in a row ("+-5"); names that are textual as a whole rather than by their last word; the DataFrame itself.

### TickSize

Prices are integers in units of 1/`Scale` won, so that prices between two won exist, as they do for Decimal. `Bands` and
`TopTick` are `_TICK_BANDS` and `_TOP_TICK`; `BestQuote` is the reference definition: a multiple of the tick of its own
band, at most the price, and no better one between.

### Endpoints

A class is its URL and, by method, the TR the method sends: what a wrapper does with its arguments is to pass them on. `ModuleRegistry` is
`made`, which says for each property which class's object its attribute holds, if any; `ModuleIn` is what reading a
property gives, `MakeModule` what it leaves behind. `MCMcpServer` assumes, and TLC checks, that no two
REST methods share a TR.

### McpServer

The process starts, reads its two settings (any member of `Settings`) and serves: `Start` is `main()` up to `asyncio.run`,
with the wiring of `AsyncKiwoomAPI.__init__` (the client's `base_url` handed to the auth object). Each call names any tool,
registered or not (`CallTool`), and is dispatched by `dispatch_tool` to an endpoint object or to the session; what ends its handler is
`raised`, what the MCP client gets `answer`. `sent` is a history variable: every message with its server, path and TR, the
token's and the LOGIN included. The REST client executes and tells as `PlaceOnce` promises; `Raises` says which exceptions stand for which
verdict: a ValueError (a body that is no JSON) says nothing of the effect, and `tools/call` makes an error result of it as it does of a refusal. The session's `request()` returns, times out, or finds the connection down; its first calls connect, which may fail in all the ways of
`ConnectErrors`, a malformed token or LOGIN reply and an unreachable server among them. At
the end of standard input the library cancels what runs (`StopServing`) and `main` closes everything (`CloseAll`).

Left out: `tools/list` and the input schemas (static), the text of answers, further renewals of the token (they go
where the first went), the MCP library itself. A reply of the condition search server with an error code is passed on as a result, as the code does.

## 3. Runs

| run | instance | shows |
|---|---|---|
| `RestRequests` | 2 requests, 2 retries, 2 tokens | `TypeOK`, `AtMostOnce`, `HonestOutcome`, `LoopNeverFallsThrough`, `LockDiscipline`, `RejectionIsEarned`, `KeepsThePromise` (refinement), `EveryCallEnds` |
| `RestSession` | 1 request, 1 login, 1 logout, 2 retries, 3 tokens | `RejectionIsEarned`, `LiveTokenDroppedOnlyByRefresh` |
| `RateLimiter` | 2 tasks, 2 keys, 2 calls each, `Cost` 2, `Full` 3, `Horizon` 3 | `TypeOK`, `OneBucketPerKey`, `WindowBound`, `SleeperDelaysOnlyItsKey`, `EveryCallerReturns` |
| `WebSocket` | 4 registrations (2 apart, one of both their items, one with refresh "0"), 3 connections, list of 2, odd frames | `TypeOK`, `SubscriptionsSurvive`, `ListenEndsForAReason`, `ListenStops`, `ListenRecovers` |
| `WebSocketListen` | 3 connections | `ListenUntilDisconnect` is violated |
| `WebSocketDisconnect` | 3 connections | `DisconnectLeavesNothingOpen` is violated |
| `Session` | 2 searches with different seq, one of them again, 1 cancellation; 1 socket | `TypeOK`, `LoneReplyReachesItsCall`, `PendingDrains`, `EveryRequestEnds` |
| `ThreadAuth` | one thread each of get, refresh, login, logout; 2 tokens | `TypeOK`, `PromiseKept`, `CacheConsistent`, `EveryCallEnds` |
| `MarketData` | 3 retries, max_pages up to 3, up to 4 pages; texts of up to 4 of 8 characters; 2 significant digits; 343 payloads; prices around 15 edges | `ClientTypeOK`, `EachPageOnce`, `CompleteUnlessCapped`, `EveryReadEnds`, `ConversionKeepsMeaning`, `RecordsAreTheLongest`, `LimitPriceIsQuotable` |
| `McpServer` | 2 calls: one of any of 187 names, one of 3 tools; settings "" and " True " | `TypeOK`, `LiveOrderNeedsOptIn`, `OneEnvironment`, `ToolReachesItsEndpoint`, `AnswersAreTrue` |
| `SessionSockets` | 2 searches, 2 sockets | `OneSocket` is violated |
| `SessionSameKey` | 2 searches with the same seq, 1 socket | `ReplyReachesItsCall` is violated |

Why the bounds are enough. Two requests are the least that share a lock and a cache;
two retries allow a back-off, a refresh and a further rejection in one call; a token
may die only while another can be issued (`TokenDies`), so the bound never makes an
issuance impossible. With three tokens a login, a refresh and a server-side
revocation can each bring in their own. `Full` = 3 and `Cost` = 2 make a bucket hold one and a half
tokens, so that what is left over matters; the clock stops at `Horizon` except for a
sleeper, which leaves windows long enough for a burst, a refill and a late wake-up.
Three connections are the first, one that fails or is lost, and one
that stays; the last one is neither refused nor lost, again so that the bound does not
stop the system. The four registrations are those that keep apart, overlap, and replace. In `Session` the calls are two that are alike, one whose key
differs by its seq, and one that gets no reply at all; the two alike may overlap (then `SessionSameKey` says what happens) or follow each
other, after a reply, a timeout, a cancellation or a `send()` that raised. With one socket, calls may still overlap while connecting, but only one
connection succeeds: what happens with two is the subject of `SessionSockets`.

In `MarketData` three retries leave room for a back-off, a refresh and another back-off of one page; with up to four pages and a
max_pages of up to three, readings are shorter than, as long as, and cut off by `max_pages`. Four characters are enough for a sign, a
padded code, a thousands separator and a decimal point next to each other; three fields for a tie, an empty list, a list of scalars and a longer list
in any order. Prices are tried a unit and a won to either side of each band's edge.

In `McpServer` the second call is one that orders, one that searches and one whose endpoint's attribute lies next to
another's, so that what one call leaves behind (a made object, a token, a socket) meets each tool of the other. " True " is "true" after
`strip().lower()`, "" is not; every other value is like one of them.

In `ThreadAuth` two calls that take the lock and two that do not are every kind of pair that can interfere.

What the violations show, with the lines quoted in `PROJECT.json`:

* `listen()`'s docstring says it runs until `disconnect()` is called. A connection lost
  again right behind the LOGIN reply makes it raise, because the restoration stands
  outside `_reconnect()`'s try block.
* `disconnect()` "closes the connection". Called while `listen()` is in
  `websockets.connect`, it returns and the new connection stays open.
* The session's socket is "shared by all condition_search tools" and connected "once". Two
  first calls that overlap each find `_ws` None and connect; the first socket is never closed, and
  callbacks registered on it are never registered on the second.
* The session "correlates requests with their replies". Two searches for the same condition (two
  pages, or a search and a realtime search) have one key: the second call gets the first one's reply.

Seen while modelling, and kept as limits of the properties rather than as runs of their own:

* `unsubscribe()` forgets whole payloads only (`websocket.py:206`): an item unregistered as a part of a registration, or together with
  another, is registered again by the next reconnection. And `subscribe(refresh="0")` replaces the registrations on the server but only appends
  to `_subscriptions` (`websocket.py:193`): what it replaced comes back the same way. `SubscriptionsSurvive` is about all registrations and says how
  far this goes: nothing wanted is ever missing, and what is there too many is an item that two different registrations were about (`Overlapping`).
* A frame that is JSON but no object, or a REAL whose data is no list, ends `listen()` with an exception, and so does a LOGIN reply of that form during a
  reconnection. `ListenEndsForAReason` names it as a reason, beside the loss that `WebSocketListen` shows.
* `issue_token()`'s docstring (`auth.py:174`) names KiwoomAuthError only; a reply with status 200 that is no JSON object raises a ValueError or
  an AttributeError. The properties count it as what it is: an exception after which no token was stored.
* A page whose `data_key` holds no list is left out of `request_all()`'s list without a sign (`base.py:131`), and an empty `cont-yn` or `next-key` in the
  payload hides the response header and ends the reading (`base.py:262-265`). Both are exceptions of `CompleteUnlessCapped`.
* `float()` loses the zeros at the end of "0.10" and rounds decimals of more than 15 digits; `ConversionKeepsMeaning` says what is kept.
* A ValueError is an error result of `tools/call` whether a tool's name is unknown or an order's reply was no JSON, and in the second case the order may have
  been placed. `AnswersAreTrue` says that this is the only error result after which it may.
* `request()` refreshes a token only when an attempt is left (`base.py:416`): a 401 on the last attempt is raised without any
  refresh, where the docstring (`base.py:394`) says "still unauthorized (401) after a token refresh". `RejectionIsEarned` says
  what does hold.
* `request_all()` stops at `max_pages` (`base.py:314`) and returns what it has without a sign, where the repository's README
  (line 50) says it follows the continuation to the end. `CompleteUnlessCapped` says that, but for the two exceptions above, this is the only case.
* `round_to_tick()` gives 0 for a price below one won, as `BestQuote` and `LimitPriceIsQuotable` say.

### Fairness

* `RestClient`: weak fairness of what a call that has begun can do. The event loop
  runs every ready task, the HTTP client has a timeout of 30 s (so `OAuthFails` or a
  reply comes), and an asyncio.Lock wakes its waiters; the calls being finitely many,
  weak fairness is enough. Nothing makes a call start, a task be cancelled or a token die.
* `RateLimiter`: weak fairness of each caller and of the clock.
* `KiwoomWebSocket`: weak fairness of the listener and of the server's answer to a login,
  strong fairness of a reconnection that succeeds: `ListenRecovers` says that *if* the
  server can be reached again and again and accepts the login, listening resumes. No
  fairness for callers or `disconnect()`.
* `ConditionSession`: weak fairness of a waiting call's return or timeout, which `wait_for`
  guarantees. Nothing is assumed of the server, the link, the listener, or of
  connecting: the LOGIN reply is awaited without a timeout.
* `BaseClient`: weak fairness of the call and of the answer, which httpx's timeout of 30 s bounds.
* `McpServer`: none; its properties are safety.
* `ThreadAuth`: weak fairness of each thread, and of each that waits for the lock: the calls
  being finitely many, the lock is free often enough.

## 4. Proofs

Every invariant and the refinement that a passing run checks is a theorem of `Spec` (of `ClientSpec` for `BaseClient`), from the named
assumptions on the constants alone: disjoint kinds of calls, natural bounds, a positive `Cost`, tools being pairs of
a module and a name, texts and lists being sequences (of at most 300 characters, for texts). No theorem has a hypothesis of its own:
where the code keeps a promise for some calls only, the property says which, in terms of what has happened. The proofs about a module are in the one of that name with `Proofs` behind
it; `MarketDataProofs` holds those about `BaseClient`, `TickSize`, `Parsing` and `MarketData`.

**Induction and folds.** `FoldLemmas` makes induction available without a lemma that takes an operator: the numbers with a property are a
set, every set of natural numbers that is not empty has a least element (`LeastNumber`, from the library's `NatLessThanWellFounded` and
`WFMin`), and so a set that holds 0 and each next number holds them all (`InductionOnNat`, `InductionUpTo`). `FoldLeft` of the community modules is a
`CHOOSE` of a function over the sets of indices: `FoldExists` shows by induction that there is one, and `FoldRuns` that what it computes is
reached by a run of single steps. What a loop of the code computes is then an induction along its run. `RecursionOnNat` does the same for a
function defined from its value before. `WithoutElement` says what is left of a list without an element.

**RestClient.** The inductive invariant conjoins three layers.

* `SafeInv`: the type invariant, `LockDiscipline`, and what each place says of a call's
  effect: before an attempt is answered with success or a 5xx, `executed` is 0. This
  gives `AtMostOnce` and `HonestOutcome`: only refusals are followed by another attempt. It
  also says that a call waiting to refresh has an attempt left, which makes the
  end of the loop unreachable (`LoopNeverFallsThrough`).
* `TokenInv`: the tokens the client holds were issued (`SupplyInv`), the token being
  revoked is no longer valid when the answer is in (`LogoutInv`), and a grant in flight
  is a token the server issued (`GrantInv`). This is what makes `LogoutDone` harmless.
* `EarnedInv`: a request that has refreshed and is not `excused` has in its header,
  if any, a token that is valid, and the cache holds a valid token unless a
  refresh is on (`FreshInv`). Without it `RejectionIsEarned` is not inductive: the rejection
  happens steps after the refresh that should have prevented it.

`PromiseKept` is the refinement: `RestClient`'s initial states are `PlaceOnce`'s, and by `SafeInv` each step is `Execute`, `Tell` or a
stutter under the mapping. A call that ends is one `Tell`, and what it tells is what `HonestOutcome` says; a step of the server that carries
a request out is `Execute`, because `executed` is 0 before.

**RateLimiter.** `LockInv` says who holds which lock and that a bucket in hand is the key's
bucket; `ClockInv` that no bucket was refilled in the future and when sleepers may wake up;
`WindowInv` is the accounting argument: what has been granted since the
observation began, plus what the watched bucket is worth now (its level and the time since its
last refill, at most the burst), never exceeds the burst plus the time that has
passed. `WindowBound` follows because worth is never negative.

**ThreadAuth.** `LockInv` says that the lock is held exactly from a call's first to its last statement;
`HoldInv` what a call that holds it and was not disturbed knows of the cache at each statement: it
is stable because other holders do not exist and a `login()` or `logout()` that writes disturbs it. `TokenInv` says the same of
calls whose cache no `logout()` cleared, and less: that there is some token wherever one will be looked for. `PromiseKept` combines both.
`MixInv` says that, while nobody writes in between, the two writes of `_store` are of the same token.

**ConditionSession.** `PendingInv` says whose future may be in the table, and that a resolved one has been
popped. `LoneReplyReachesItsCall` is about the calls that never clashed, and needs neither that keys differ nor that there is one socket: it becomes
inductive with `OpenInv` (two calls that are alike and open at once are in `clashed`), `StoredInv` (the future of a waiting call that
has not clashed stays in the table, because only a call alike could take its place or pop it) and `RouteInv` (its reply comes over the
socket it was sent on, once). What happens to calls that are alike and overlap is what `SessionSameKey` shows.

**BaseClient.** `ReplyInv` says that an answered page is the one asked for and announces the next, wherever it does (`Announced`,
`NotAnnounced` are about `LookedUp` and `Folded`); `ReadingInv` that, while `request_all` reads, the page it asks for is the one after those it
has, and that there is one. The pages are then in order whatever is retried, the list holds each page that is collected once
(`PagesComeOnce`), and it is complete when the reading ends for want of a continuation, each page read was collected and none
announced its next one in vain (`CompleteOrCapped`). `ListIsWhatWasRead` says which pages
are in the list and that they ascend: the page appended is later than all the list holds, because the pages read are in order.

**TickSize.** Each band is a multiple of its tick wide and each edge a multiple of the ticks on both sides of it; rounding down
therefore stays in the band, except below one won. `RoundingIsSound` covers every integer price and every `Scale`.

**Parsing.** `StripText`, `BareText`, `UnsignedText` and `SplitText` say which characters each cleaning of a text leaves. `NumberIsWritten` is
the core: the number that a run of digits folds to is written with those digits, provided the first is not a zero before another, by
induction over the digits read so far with the powers of ten (`Tens`) as places. `ToNumberMeaning` is what `to_number` makes of any text, and that it
leaves its own results alone; `NormalizeResponse` carries it through `Walk`. The records are an induction over the fields, in which the best
so far is the first of the longest (`LongestIsFirst`).

**MarketData.** The pure functions keep no state, so the three theorems need no strengthening: each step applies at most one of them, and what it
returns is what the lemmas on `Parsing` and `TickSize` say, for any texts, responses and prices (`ConversionsKeepMeaning`,
`LongestRecordsAreFound`, `LimitPricesAreQuotable`). `ReadsLikeTheClient` says that the composition's steps are those of the client or none.

**McpServer.** `WiringInv` ties what `main()` built to the settings, `SentInv` each REST message to a registered tool of the call that sent
it, `ModulesInv` says that every attribute of the registry holds an object of its own class, and `CallInv` how far the REST client is
with a call. `GuardHolds` combines them with a fact about the catalogue, that only the guarded modules have an order URL (`OrderUrlsAreGuarded`);
`ToolsResolve` needs `ModulesInv`; `AnswersTrue` rests on the guards of `PlaceOnce`, which `PromiseKept` discharges for `RestClient`.

**KiwoomWebSocket.** `ListenerInv` says that, once `listen()` has begun, only `disconnect()` clears `_running` or `_ws`, that the listener
has a connection until it ends, and that a login under way is that of `_ws`. A listener that leaves its loop therefore
owes it to `disconnect()`, and one that raises also to a connection lost behind an accepted login or to an odd frame (`ListenEnds`). `LinkTypeOK` is
the part of `TypeOK` that is not about registrations and `DataTypeOK` the other; restoring and forgetting keep the latter by what the
folds compute (`ReplayAll`, `ForgetOne`).

`SubscriptionsSurvive` speaks of the moments at which the listener receives from an open connection; it becomes inductive as
`RegisteredInv`, which is about the connection of `_ws` at all times: the server never has more registered there than the list names, and all that is
wanted unless another connection is on its way. That needs to know that a connection has nothing registered before its login (`ServerInv`), that the
list sent again from the start gives everything wanted, and names nothing else but what two registrations were about (`WantedInv`), and that the connection
logging in is that of `_ws` (`LoginInv`). `Kept` is what replaying a list leaves: the items named since its last registration with refresh "0".

Only model-checked: liveness (`EveryCallEnds`, `EveryCallerReturns`, `ListenStops`, `ListenRecovers`, `EveryRequestEnds`,
`EveryReadEnds`, `ThreadAuth`'s `EveryCallEnds`), which the installed provers cannot reach, and the violations.

## 5. Plan, and what is not modelled

Modelled: every component that keeps state or computes something. What could still be added, in this order:

1. An access token that expires under a WebSocket client, which keeps the token it was made with, and a listener started
   while `disconnect()` is closing.
2. More abstract specifications: a rate limiter that is one counter per key and window, a session that is a
   set of calls each with its own reply.

Not modelled, and why: the conversion to a DataFrame by pandas, `tools/list`, input schemas and wording (no state, pure formatting);
stdio, httpx, websockets and the MCP library (external: modelled as the environment where the code depends on them); the contents of real-time frames
and the choice of callbacks by type (a pure lookup without state of its own); the tests, examples and image scripts (not part of the system).
