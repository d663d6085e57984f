# Verification of RPCh

RPCh relays JSON-RPC requests through the hopr mixnet. This directory holds
TLA+ specifications of the parts of the monorepo that keep state or decide
something, the TLC configurations that check them on small instances, and
proofs, checked by TLAPS, of what matters most for every instance.

Paths in this file are relative to the repository's root.

## 1. The system

| part | code | keeps | does |
|---|---|---|---|
| SDK | `packages/sdk/src/index.ts` | chain ids by provider, one uHTTP client and its handler | sends requests, learns chain ids, redirects mainnet transactions |
| segments | `packages/sdk/src/segment.ts`, `segment-cache.ts` | incomplete messages by request id | slices messages, puts them together |
| boxes | `packages/sdk/src/request.ts`, `response.ts`, `packages/compat-crypto` | a session per request at each end | boxes and unboxes payloads |
| codecs | `packages/sdk/src/payload.ts` | nothing | writes payloads in a short form and reads them |
| RPC server | `apps/rpc-server/src/index.ts` | what was written to each response | HTTP front of the SDK |
| availability monitor | `apps/availability-monitor/src` | one run's findings, a cache of peers that each run creates anew | finds and publishes the routes that work |
| discovery platform: quota | `apps/discovery-platform/src/quota.ts`, its routes, triggers in `migrations/` | counters per user and month, a history | meters the use of exit nodes |
| discovery platform: pairings | `apps/discovery-platform/src/node.ts`, `entry-server/routers/v1/index.ts`, `middleware.ts` | reads what the monitor wrote, clients and associations | hands routes to clients |
| exit node, hopr nodes, uHTTP | elsewhere (`@hoprnet/uhttp-lib`) | | environment |
| node selection (legacy) | `packages/sdk/src/nodes-collector.ts`, `node-pair.ts`, `node-selector.ts`, `entry-data.ts`, `exit-data.ts` | per entry: polling timer, counters of requests and questions, measurements per exit | polls entries for messages, asks exits for information, picks routes; nothing creates a `NodesCollector` in this commit, and `fetchRoutes` and `initNodes` are commented out |
| settings | `apps/rpc-server/src/index.ts`, `packages/sdk/src/index.ts`, `utils.ts` | nothing | merges environment, options, headers and parameters; compares versions |
| devkit, examples | `devkit/`, `examples/` | | test drivers |

How they interact. A client talks to the SDK, directly or through the RPC
server. The SDK hands the request to the uHTTP client, which asks the
discovery platform for routes, segments the boxed request and sends it over
an entry node through the mixnet to an exit node. The exit node calls the
provider, answers the same way, and reports the number of segments to the
discovery platform. The availability monitor shares the database with the
discovery platform: it reads `registered_nodes` and replaces
`zero_hop_pairings` and `one_hop_pairings`.

What is hard in this code:

- reports and the monthly wrap write the same rows from different
  transactions (quota);
- a run of the monitor takes minutes, works on what it read at its start, does
  many requests in parallel of which any may fail in its own way, and messages
  of one run are still under way in the next (availability monitor);
- segments are lost, late, reordered and duplicated, and a count is kept by
  hand (segment cache);
- sessions are updated in place, and a message only opens if both ends derive
  the same key from a version, peer ids and a counter (boxes);
- a request for routes makes three queries, two of them at the same time, while
  the monitor replaces the tables and nodes and clients come and go (pairings);
- calls overlap in the SDK, share one handler, and decide by chain ids that are
  only being fetched;
- the polling of an entry is stopped and started by requests, questions, timeouts
  and answers, at any moment of a fetch that will set the timer again (node pairs);
- an exception on the wrong side of an `await` leaves a response unanswered
  or a process dead.

`PROJECT.json` lists each of these hazards at its line, with the properties
that would catch it.

## 2. Modules

| module | models | state |
|---|---|---|
| `MonthlyLedger` | what metering promises | running counters and archive per user |
| `Quota` | reports, triggers, accounts, the monthly wrap | tables, handlers' and transactions' positions |
| `RouteTables` | what monitor and platform share | the tables of routes, the registered nodes |
| `Routes` | the route computations | none: operators |
| `AvailabilityMonitor` | a process that runs, and its network | tables, run position and data, pings, inboxes |
| `Pairings` | the handout of routes | tables, nodes, clients, position and results per request |
| `Segments` | slicing and the segment cache | delivered copies, cache, count |
| `Exchange` | boxed requests and responses over segments | that of `Segments`, messages, both ends of every request |
| `Payload` | payloads and their transport form | none: operators |
| `NodeSelector` | measurements of nodes and the choice of a route | none: operators |
| `Settings` | options, headers, ports and versions | none: operators |
| `NodePair` | an entry, its exits, polling and counters | timers, fetches, counters, questions, requests |
| `SDK` | calls and chain ids | chain id map, handler, calls |
| `RpcServer` | HTTP exchanges | stage and response per exchange |
| `MC*` | instances for TLC | |
| `*Proofs` | theorems | |

`AvailabilityMonitor` extends `Routes` and uses its operators for the tables it
writes. `Quota` instantiates `MonthlyLedger` and implements it. `AvailabilityMonitor`
instantiates `RouteTables` and implements it, and `Pairings` uses its actions for whatever
happens to the tables. `Exchange` extends
`Segments`: every one of its steps is a step of `Segments` or leaves the caches
alone. `MCFunctions` checks the operators of `Routes`, `Payload`, `NodeSelector` and
`Settings`, which have no state, on every small input. `NodePair` is its own
instance for TLC: its constants are sets and bounds.

### Quota

`Authorize`, `Validate` and `InsertRow` are the awaits of a report's handler:
anything can happen between them. `InsertRow` is one SQL statement, so the row
and its trigger `process_monthly_usage` are one step; it waits while a wrap
holds the lock of the user's row, and fails when the client is gone. The wrap is
`WrapSelect` (who is due, outside any transaction), `WrapInsert` (the copy,
taken from what is committed then), `WrapUpdate` (takes the row locks) and
`WrapCommit` (copy and reset become visible). At READ COMMITTED a report may
commit between the copy and the locks. `WrapAbort` stands for a failed
statement, which the code rolls back, and for a dying process, which the
database rolls back. The period that started in month *m* is due when the
clock is past *m + 1*. `archived`, `reported` and `rows` are sums over tables
that the code only inserts into.

`MonthlyLedger` has three actions: open, record, close. Closing archives at
most what was counted and resets it.

### The shared tables

`RouteTables` is the database between the two processes: a table is replaced as a
whole by pairs of registered nodes, which the foreign keys enforce (`Replace`), a node
is added, and one that is in no pairing is removed. The monitor is shown to implement it: its
commit is a `Replace`, and everything else it does leaves the tables alone. `Pairings` has no
model of the tables of its own but these actions: `WritePairings`, which is all it knows of
the monitor, is any `Replace`. So the platform is checked against everything that a
monitor that implements `RouteTables` may do.

### Availability monitor

A run reads the nodes (`StartRun`, `ReadExitRows`), asks entries and exits for
their peers (`GatherEntryPeers`, `GatherExitPeers`; who does not answer is not
in the map), asks one entry after the other for the channels until one answers
(`NoChannels`, `GatherChannels`; `channels` are what is in the network, a constant, as far
as it is reported), assigns each exit to a peer that pings it, and
for each of those peers deletes old pongs, sends pings and pops pongs
(`DeletePongs`, `SendPings`, `PopPongs`), all in parallel. Once all are through,
`CollectPongs` goes on to two transactions, `WriteZeroHop` and `WriteOneHop`.
An exception anywhere (`Throw`) ends the run and sets the timer. A pong carries
whether the run it answers is the running one; `StartRun` ages all that are under
way. Faults are a constant, so that a run can say which failures it admits.

The cache of peers is not a variable: every run creates it anew (`availability.ts:50`), so
an entry of it is what the same node reported earlier in the run, and `Reports` allows
any set within `Links`.

`RoutesObserved` compares a table as a whole after its transaction with the routes of the
run: what was left over from an earlier run, or is missing, violates it as a route does
that nobody observed, or one without its relays or channels.

### Pairings

`Authorize` (the check of the client, and without a further await the
validation), `ListPairings` (one SQL statement) and the two lookups
`ListEntryNodes` and `ListExitNodes`, in either order, are the awaits of a request.
Each may fail; when a lookup fails, the other is not waited for. `listPairings`
is the set of results that the statement may return: the exits that come first,
each with any of its entries, and any of the remaining routes up to the amount.
`ORDER BY random()` is that choice. A token that is no uuid makes the query with
`client_associated` fail (`BadToken`), and one that is nobody's id finds nothing.
`Unregister` respects the foreign keys of the tables of routes and associations. The
tables change by `WritePairings`, which stands for the monitor (see above). `withdrawn` is a
history variable: the routes of a request that the monitor removed from their table while
the request was between its queries. Only their nodes can be unregistered meanwhile, and only
they may be missing in the answer. `associated_nodes` is a set, though the
table admits a row twice.

### Segments

The text of a message is the sequence of its positions; a segment's body is a
slice. `Deliver` performs `incoming` for one copy of a segment, whose outcomes
are `SinglePart`, `AlreadyCached`, `AddToRequest` and `InsertNew`. The network
delivers each segment at most `MaxCopies` times in any order, or never. The
sender and the owner of the cache are in `@hoprnet/uhttp-lib`.

### Exchange

`CreateRequest` is `create` of `request.ts`: the payload is boxed and the peer id of
the entry put before it. `DeliverRequest` is one segment that reaches the exit;
the one that completes the message is followed by `messageToReq`. `RespToMessage`
boxes an answer with the session that this left behind, and `DeliverResponse`
unboxes it at the client with the session of `CreateRequest`. Either end may give
up, at any time, and empty its cache. Encryption is symbolic: a box opens under
the key, IV and additional data it was made with, and `initializeCipher` is the
record of all they derive from. `Bit` is how `compat-crypto` compares versions:
by one bit of the first byte. A client may use another version than the exit, or a
key the exit no longer has. Payloads are modelled by their kind and request here
and by their fields in `Payload`.

### Payload

A payload is a function from its fields; of a value only matters whether it is
falsy, because that is what the code asks before it copies a field. The functions that write
the transport form and those that read it name the letters of the fields separately, and so
does the module (`Keys`, `ReadKeys`): a payload arrives only if they agree.

### SDK

A call of `doSend` runs without interruption to `uClient.fetch`: `Send` is one
step that determines the provider, installs the handler and starts the chain id
request of `populateChainIds` before it. uHTTP creates the request once it has
a route, which is when the handler installed *last* is run (`CreateRequest`). The
answers to chain id requests are `StoreChainId`, `MethodNotFound` (Starknet's
method is tried once), `BadAnswer` and `EmptyBody`. That uHTTP calls the handler
after looking for a route is taken from how `index.ts` uses it.

### RPC server

An exchange goes from the request's headers (`Preflight`, `Accept`) over its body
(`ParseError`, `SendRequest`) to the answer (`Answer`, `Failure`). `ops`, the
options the server was started with, is chosen initially and never changes. The server asks
for no method: it serves GET, HEAD and PUT like POST, with CORS headers for GET and POST only. What
a provider answers is a status and a text, which is JSON, another text, or empty; writing the
empty text writes nothing. `said` records it for the property.

### Node pairs

A node pair is what the collector keeps of one entry. `RequestStarted` and
`RequestEnded` count the requests of its exits, `RequestInfo` runs in a timer that
`discover` sets for each exit, counts the question and sets its timeout
(`InfoTimeout`), and each of these starts or stops polling by `fetchTimeout`, which
is undefined, a running timer or the handle of one that has fired. A fetch is under way
from its timer (`PollTimer`) to its answer (`MessagesFetched`, `FetchFails`), and
`Finally`, a microtask later, sets the timer again unless polling was stopped. A
stop and a start in between leave two loops, of which `fetchTimeout` refers to one:
`orphans` counts the timers of the others, which end by themselves when nothing is awaited.
`answered` is a history variable: the exits whose answer to the latest question
was read. `Refresh` is what `initNodes` does to one pair, as its commented-out body
says: exits are added, idle ones may be removed (`removeRedundant`, which is live
code), and all that are left are asked again. Which exits are removed depends on
the other pairs, so it is any choice among the idle ones.

The model is one of legal use: routes are fetched every 10 minutes at the
earliest, so the timeouts of the last round (10 s) are over; answers of an earlier
round may still be read. A request starts in the tick in which its route was
selected, so its pair and exit are there. Messages for requests go to a listener,
whose calls are `RequestEnded`. `fetchMessagesOngoing` is never read by the code.

What the model shows beside its properties: a pair that is dropped while the timers
of `discover` wait starts polling again (`destruct` clears `fetchTimeout` only),
until its questions time out; if requests were ongoing when the collector was
destructed, it polls for ever, because their ends no longer reach the pair, which
is why `NothingToDo` asks for a count of 0. A second or late answer to a question
counts down for another exit's question, so polling may stop while that one is
awaited: `infoOngoing` is at most, not exactly, the number of timeouts. A question is answered
up to `MaxAnswers` times, and answers are numbered so that each is fetched once.

### Node selection

`match` narrows the routes down by version, failures, ongoing requests and
latencies of their exits, then by their entries. Where the code takes the first of a
sorted list or a random element, the operators return all candidates that it may
take. A latency of 0 counts as none. Averages are compared as fractions. When several
routes match the version and all of their exits failed to answer, the code reads the first of
an empty list: `TypeError` in `match`. Routes that are chosen by their entry lose
their relays (`eSuccess`), although `index.ts:42` says that manual relaying
enforces them. The outcome histories of exits (20) and entries (30) are the same operator,
`recorded`.

### Settings

`Numerals` says which texts begin with an integer, and with which one; the run has missing and
empty texts, "0", "5", "5s", a negative number and a text that is none. `Or` and `Nullish` are the two
operators by which the code merges them. In the environment a 0 or no number stands for the default,
and a negative number is taken, as timeout and as port; the parameter `timeout` is taken
whatever it is, 0 and NaN included. A request without url or host, or whose URL cannot be parsed,
has neither parameters nor headers (`hasUrl`). A header name is itself and nothing else, as in
the code: names of incoming headers are lower case, so `?header=X-Key:a` does not override an
incoming `x-key` and both are sent.
`SKIP_RPCH` and `RESTRICT_CORS` are on for every text but the empty one (`index.ts:403`),
unlike the other switches (`parseBooleanEnv`); they are options of `RpcServer`.

## 3. Runs

| run | configuration | what it shows |
|---|---|---|
| `quota` | 2 users, one client, 2 handlers, 1 process, months 0..3, 2 rows, 1 failure | no double counting, one history row per closed month, loss only at a commit, implements `MonthlyLedger`, periods that are over are closed |
| `quota_loss` | 1 user, 1 row | a report in the window of the wrap is lost |
| `functions` | every topology of 1 entry, 1 exit, 2 relays; every payload with each field left out, set or falsy; 1 to 3 routes over 2 entries with histories of one outcome; 7 texts per setting, 2 header parameters; versions of 3 parts | routes are exactly those with the connections they need; payloads arrive as they were sent; no route is selected if another is to be preferred; the nearest setting wins; mismatches are ranked |
| `availability` | an entry and two exits in a line; one (un)registration; failures of requests and database, error bodies, crashes | a table that is written holds exactly the routes its run observed; only answers to this run's pings count |
| `availability_live` | entry, exit and relay, all connected; two (un)registrations; every failure but a lost delete: refused deletes, late pongs, error bodies, failing statements | runs follow each other, silent exits disappear once runs do not fail any more, implements `RouteTables` |
| `availability_stop` | a lost delete request | the process ends |
| `pairings` | 2 entries, 2 exits, a user with two clients, one request for 0, 1 or 3 routes, 2 writes of the monitor, 2 changes of nodes or clients | the selection is the best there is at its moment, answers describe every route that was not withdrawn, every request is answered |
| `exchange` | 2 requests in messages of 1, 2 and 3 segments (300, 301 and 900 bytes), two copies of each segment, 2 versions, 2 keys | slices fit together, the count is right, copies are used once; answers belong to their requests, sessions agree, who is understood gets an answer |
| `sdk` | 5 providers (mainnet, Starknet, neither, bad URL, MEV), 2 calls, all failures | chain ids are never mixed up, only mainnet is redirected, calls that are not overtaken report their chain id; calls end, and chain ids are learned once failures cease |
| `sdk_default` | a failing request | transactions through the default provider stay unprotected |
| `rpc_server` | two exchanges, with all options, 5 methods, texts of 3 kinds | every exchange ends in a response a client can rely on |
| `node_pairs` | 2 exits, 2 requests, 2 rounds of questions, 2 answers to each, up to 2 loops | an entry is polled exactly as long as something is awaited, counters agree with the data, who answered is not marked failed, polling ends |

Bounds. Three months let a user be due twice in a row and sign up in different
months. Two rows and two handlers let reports race with each other and with
a wrap. 300, 301 and 900 bytes are where the number of segments steps. Versions 33 and
34 agree in the bit that is compared, so a wrong version is refused by the decryption; that
versions of another bit are refused before it is in the model and the theorem, not in the run. Requests for pairings share nothing but the
database, so one is enough, with two writes and two changes around it. Two
slots are reused, so that a third call meets an answer of the first, and the
theorems about the SDK hold for any number. Two rounds let an answer of one be read in
the next, two requests let one end while the other goes on, two answers are what makes a
second one, and two loops are what a stop and a start during a fetch leave: the start sets
a timer, and the fetch under way sets one more. Two exits are what it takes for two nodes to ping in parallel.
`MaxMonth`, `MaxRows`, `MaxFaults`, `MaxChurn`, `MaxWrites`, `MaxCopies`, `MaxRounds`, `MaxLoops`, `MaxAnswers` and `MaxChecks`
bound counters that the code does not bound; the theorems hold for all of their
values.

Fairness. Only steps of the system are fair, never those of its users. `Quota`:
the wrap's timer is set again in `finally` and the database answers.
`AvailabilityMonitor`: the timer is set in `finally`, and every request has a
timeout of 30 s. That runs do not fail for ever (`RunFails`) is the premise of
`SilentExitsAreUnpublished`: an entry that always answers with an error keeps the old tables. `SDK`: uHTTP answers every fetch, in time or with a timeout.
`NodePair`: timers fire, and a fetch is aborted after 30 s (`node-api.ts`); that
requests end is a premise of `PollingStops`. `RpcServer`: clients send complete requests, and what they wait for ends.
`Pairings`: every query ends, with a result or an error. `Exchange`: the network
delivers every segment at least once and the exit answers what it handles; hopr
does not promise the first, and it is the premise of the liveness property
(`UnderstoodGetAnswers`), which allows either end to give up instead. No
other property uses it.

Deadlock is not checked where the bounds stop the system (`Quota`) or where it
ends (`Exchange`, `Pairings`, `RpcServer`, `NodePair`).

## 4. Disagreements with the documentation

- `quota_loss`: usage reported between the copy and the reset of the counters is
  lost (`quota.ts:115`), though periods are "wrapped into history".
- `availability_stop`: a failing delete request is an unhandled rejection in
  a promise executor (`node-api.ts:143`), so no new run is scheduled.
- `sdk_default`: the chain id of the default provider is asked for once
  (`index.ts:348`); until it arrives, and for ever if that request fails,
  mainnet transactions do not go through the MEV protection provider.

Without a run of their own, and visible in the models: with a refused delete
(`availability.ts:276`) old pongs count, so `OnlineMeansAnsweredNow` needs inboxes
that can be emptied (`CleanInboxes` in `AvailabilityProofs`); a request that a
later call overtakes reports that call's chain id, which is why
`ReportsOwnChainId` is about the others; a request that skips RPCh without a
provider is never answered (`rpc-server/src/index.ts:114`), which is the exception
in `RequestsAnswered`; a segment is longer than `MaxSegmentBody` by its header
(`segment.ts:25`); a request for pairings with `client_associated` fails with 500
for a token that is no uuid, which is what `client.create` makes, though
`.changeset/hip-planets-promise.md` announces it for all clients; a hop count or
timeout of 0 is not transported and arrives as the default (`payload.ts:174`); header
parameters are to "have precedence over the actual request headers"
(`rpc-server/src/index.ts:373`), and do not if their names have capitals (`index.ts:63`): `HeadersTakeEffect`
says what is sent then, both values under names that `fetch` takes for the same;
`sdkOps` drops `segmentLimit` (`index.ts:199`).

## 5. Proofs

| module | theorem | assumes | argument |
|---|---|---|---|
| `QuotaProofs` | `TypeCorrect` | | step by step |
| | `LossBounded` | | a wrap's copy is zero for users that are not due |
| | `NothingCountedTwice`, `MonthsArchivedOnce` | one process | `OneInv`, below |
| | `LedgerImplemented` | one process | every step is a step of the ledger or leaves its variables alone |
| `AvailabilityProofs` | `TypeCorrect` | | step by step |
| | `TopologiesExact` | | membership in each helper, stated once as a lemma |
| | `ZeroHopObserved`, `OneHopObserved`, `RoutesObservedAlways` | | the only steps that change a table write exactly the routes of the run's maps |
| | `AnsweredNow` | `CleanInboxes`: deletes work, pongs are not late | inboxes hold pongs of this run once they were emptied |
| | `RouteTablesImplemented` | | a commit replaces a table by pairs of nodes that are registered then; no other step touches it |
| `FunctionsProofs` | `PayloadRoundTrip`, `PayloadsArrive` | | letters are distinct, and reader and writer use the same, so a field is read from where it was written |
| | `OptionsPrecedence`, `HeadersPrecedence`, `SettingsApply` | settings are texts, for any `Numerals` | by cases on which sources have a setting |
| | `MismatchesRanked`, `MachineMismatchesRanked` | own versions have all three parts | the order of versions decides at the first part that differs |
| | `BestIsSelected`, `MachineSelectsBest` | finitely many node pairs, measurements are natural numbers | by minimal elements, below |
| `ExchangeProofs` | `TypeCorrect`, `CountCorrect`, `NoCopyUsedTwice` (of `Segments`) | | a full count means that the cached numbers are all numbers, by cardinality |
| | `SlicesCover` | | every position is in one segment, the quotient by the size of a body, and no body is longer than that |
| | `UsesSegments`, `ExchangeCachesCorrect` | | every step of the exchange is a step of the caches or none, so their theorems carry over |
| | `ExchangeTypeCorrect`, `AnswersAgreeAlways`, `AnsweredWereUnderstood` | | `ExchangeInv`, below |
| `PairingsProofs` | `TypeCorrect`, `AnswersComplete` | | `PairingsInv`, below |
| | `SelectionMaximal` | finitely many nodes | an exit's place is the number of exits before it, below |
| `SdkProofs` | `TypeCorrect`, `RememberedChainIdsCorrect`, `RedirectsOnlyMainnet`, `ReportsCorrect` | | redirection is decided by a chain id that is correct or missing |
| `RpcServerProofs` | `TypeCorrect`, `WellFormedResponses` | providers do not answer 0 | the CORS headers are there from the first step |
| `NodePairProofs` | `TypeCorrect`, `PollingCorrect`, `CountersCorrect`, `AnsweredNotFailed` | | `PairInv`, below |

`OneInv` strengthens the two quota invariants with what holds while a wrap is
between its steps: users selected are still due in the same month, the copy is
at most what is counted, and the month it was taken from is the running one.
Neither invariant is inductive without it: a wrap whose copy could be larger than
the counters would invent usage at its commit. It needs a single process: two
could both select a user and both close the same month.

`ExchangeInv` follows one request around: a message under way was sealed by the
client with its own version and key (`RequestInTransit`); an exit that handles or has
answered a request holds the client's version, key and secret
(`ExitUnderstood`); an answer under way was sealed with that session, and its counter
is the exit's (`ResponseInTransit`); a client that is done has it (`ClientAnswered`).
`AnswersAgree` alone is not inductive: it says nothing of messages under way. That
a box of another version does not open rests on `CipherFields`: equal ciphers
derive from equal secrets, versions and counters.

`PairingsInv` says that the tables of routes refer to registered nodes, which the
foreign keys maintain; that the routes of a request between its queries
that were not withdrawn are in their table; and that a finished lookup holds the nodes of
all routes that were not withdrawn, and no others than nodes of its routes. Without the first
part nothing would be known of the routes at the moment of the selection.

`SelectionMaximal` counts: the first selection takes the exits whose place, the number of
exits before them in the order of ids, is below the amount. Places are distinct, so there are
`min(amount, exits)` of these exits (`FirstsCounted`), and a choice of one route
for each has as many elements. The rest fills up to `min(amount, rows)`.

`PairInv` adds two facts to type, polling and counters: an exit that waits for the
timer of `discover` has no timeout running (`AskedOnce`), else a second question
would replace the first timer and be counted twice; and an exit whose answer was
read has none either (`AnsweredClearsTimer`). That a counter does not fall below zero needs
the cardinality of the ongoing requests, and that the answers of one fetch, of which
several may be of the same exit, take at most as many timers as they are counted is the
lemma `TimersCleared`. All of it holds for every value of the bounds.

The refinement of `RouteTables` is proved step by step, like that of `MonthlyLedger`: the initial
tables are empty, and each action maps to one of the abstract actions or to a stutter.

`BestIsSelected` rests on what always exists: a candidate with the fewest failures, or with the smallest
average. A finite set has a minimal element for every transitive relation without loops
(`MinimalExists`, from the well-founded order of its subsets), and comparing averages as
fractions is one as long as they count something (`SmallerTransitive`). That averages are of this kind for histories of
every length (`TotalOfNumbers`) is an induction over a recursive function. Since the induction theorems
of the library cannot be instantiated, it is done by the least place where the claim fails (`LeastNumber`).

Only model-checked: everything under fairness (`OverduePeriodsAreWrapped`,
`MonitorKeepsRunning`, `SilentExitsAreUnpublished`, `ProbesSettle`, `PollingStops`,
`RequestsAnswered`, `UnderstoodGetAnswers`). Every safety property of the passing runs is proved, `RoutesAreExact` as
`TopologiesExact`, for all maps and not only those of the machine. The type
invariants of `SDK` and `RpcServer` are proved and not in the runs.

## 6. Not modelled, and what is next

- Negative segment counts, which the schema of a report admits.
- A second platform process in the runs of `Quota`; `LossBounded` holds with any number.
- Failures of the query behind `GET /configs`, which nobody handles.
- Wrappers of `fetch` beyond their outcomes; base64, text and logging helpers.
- The waiting loops of `NodesCollector` (`ready`, `requestNodePair`: try every 100 ms
  until a deadline), the segment statistics beyond what the selection reads of them, and
  the request cache: nothing calls them.
- A failing `sendMessage` in `requestInfo` is a rejection that nobody handles; in the
  model the question is asked and not answered.
- What uHTTP does with the routes it gets: it is in another repository.

Order of the plan: quota and its ledger; routes and the monitor; segments; SDK; RPC
server; pairings; codecs with the pure functions; boxed messages over segments; settings
and versions; node pairs and selection. All of these are written. Next:

1. a second platform process in `Quota`: what of `NeverOvercounted` then still holds, and by
   how much it can fail;
2. which entry is selected when the exits do not decide: that none of the entries of
   equally good routes is to be preferred to it.
