# A TLA+ model of mongobouncer

mongobouncer is a connection pooler for MongoDB. Clients connect to the proxy;
each request is routed by database name to a *Mongo client* (a wrapper of the Go
driver), which sends it on one of the driver's connections. This directory holds
TLA+ modules for the parts of the code where state is shared between goroutines
or between pods, TLC configurations that check them on small instances, and
TLAPS proofs of the properties that matter most for every instance.
`PROJECT.json` lists components, runs, mutants, the source lines behind every
definition, findings, hazards and theorems.

## The system and its parts

| Part | Source | Status |
| --- | --- | --- |
| `RoundTrip` of a Mongo client: sessions, pinning, retries, `Close` | `mongo/mongo.go` | modelled: `RoundTrip` |
| Session manager | `mongo/session_manager.go` | partly: `SessionManager` (what the methods do), `SessionLocks` (the order of their mutexes), `Pods` (with the distributed cache) |
| Transaction cache, cursor cache | `mongo/transaction_cache.go`, `mongo/cursor_cache.go` | modelled: `RoundTrip`, `Pods` |
| LRU cache with time to live | `lruttl/lruttl.go` | modelled: `LruTtl`, abstract contract `ExpiringCache` |
| Pool manager | `pool/pool.go` | modelled: `PoolManager` |
| Client connections | `proxy/connection.go` | partly: `ClientConnections` |
| Accept loop, shutdown, kill | `proxy/proxy.go`, `mongobouncer.go` | partly: `ClientConnections` |
| Database router | `proxy/router.go` | modelled: `Router`, `RoutePatterns` |
| Configuration | `config/config.go`, `config/proxies.go` | partly: validation of names, start-up loop, in `Router` |
| Distributed cache | `mongo/distributed_cache.go` | partly: `Pods` |
| Metrics | `util/batched_metrics.go`, `util/metrics.go` | partly: `BatchedMetrics`, `BackgroundGauge`, `Metrics` |
| Request forwarder, wire protocol, utilities, topology monitor | `mongo/request_forwarder.go`, `mongo/operations.go`, ... | not modelled, see the end |

How a request travels: the accept loop starts a goroutine per client
(`proxy.go`). The goroutine reads a message, asks the router for the database's
route, creates the route's Mongo client if it has none, registers the client
with the pool manager, gets a pooled connection according to the pool mode
(session, transaction, statement), calls `Mongo.RoundTrip`, and returns the
pooled connection. `RoundTrip` finds or makes the logical session, selects a
server, checks a connection out of the driver, does the transaction bookkeeping,
sends, retries up to three times on network errors, and updates the caches from
the reply. With several pods, sessions, transactions and cursors also have
entries in the distributed cache.
Two levels are called connections: the *pooled connections* of `pool.go`, which
only wrap a Mongo client, and the *driver's connections*, which are sockets.

## Modules

### SessionManager, RoundTrip

`SessionManager` has the session record and, as operators on it, the methods of
`session_manager.go` that `RoundTrip` and `cacheMonitor` call. `RoundTrip` has
the state machine: one action per stretch of `Mongo.RoundTrip` between two
accesses to shared state.

| Action | Code |
| --- | --- |
| `Arrive`, `Enter` | the call, `m.mu.RLock`, the check that the client is open |
| `Lookup`, `Create` | `GetSession`, then the insertion of a new `Session`: two critical sections |
| `Select`, `SelectFails` | `selectServer` with the pinned server, transaction and cursor caches, and its retry |
| `Checkout`, `CheckoutFails` | `checkoutConnection`, which takes the pinned connection or waits for one |
| `Transaction`, `TransactionRefused` | start, commit, abort, end of session, and the registration of the deferred close |
| `WireOk`, `WireFails` | `roundTrip` on the socket, `ProcessError`, the retry |
| `Reply` | cursor and transaction caches after the reply |
| `RunDefer`, `Return` | the deferred calls, last in first out, when the function returns |
| `CleanupInactiveSessions`, `TransactionExpires` | the background cleanup, the transaction cache's time to live |
| `CloseCall`, `CloseFinish` | `Close`, which waits for `m.mu` and then disconnects |

The deferred calls are a stack in the request's record. That keeps a fact of Go
the properties depend on: a retry inside `RoundTrip` does not run the defers of
the failed attempt. A driver connection is a *handle*: the driver makes a new
one for each checkout, and a handle that was closed fails without reaching the
connection's next user, so `Fresh` picks a handle nobody remembers.

### Pods

Several pods behind a load balancer share sessions, transactions and cursors
through `distributed_cache.go`. A server or connection cannot be serialised, so
an entry only says that something exists (`group` is the set of keys that have
an entry); who opened it has the server in memory. A pod has one session manager
(`sessions`, with the pins) and several Mongo clients (`Mongos`, `PodOf`), each
with a transaction and a cursor cache of its own (`txns`, `cursors`): commands
of one session reach different clients, because `commitTransaction` and
`abortTransaction` name the `admin` database. The clients made at start-up look
entries up and store them. The `Lazy` ones, made later for a route without a
client (`connection.go:1150`) or for a user's credentials (`:1254`), are given no
distributed cache and know their own records only (`Reach`); the session manager
they are given still has it, so a transaction they start has its entries.
`Pods` reuses the operators of
`SessionManager`. A request is two steps: until its message is sent (`Send`,
`Refuse`, `GetMore`, `KillCursors`, `Open`) and from the reply on (`Reply`,
`More`) or until it has failed or told nothing (`Fail`, `NoMore`); what happens
inside is `RoundTrip`'s subject.
In between, entries expire or go with their owner (`Expire`), the pods' own
caches expire (`ExpireTxn`, `ExpireCursor`), sessions are cleaned up, a pod
restarts with its memory and its requests gone (`Restart`), and the servers end
what is idle (`ServerEnds`). `up`, a parameter of the steps that use the
distributed cache, is the set of keys whose owner can be reached: a `Set` or
`Remove` of another key fails, and the code goes on.

`home` is the truth: which server has the transaction or cursor open. `lost` is
a history variable, the cases in which `SentWhereOpened` does not hold. Since it
was last opened afresh, the session or cursor

- has lost its entry by expiry, eviction or a restart, or could not store it
  because the owner could not be reached or, for a cursor, because a lazily
  created client opened it;
- was used through a Mongo client that had no record of it and could not see
  whether there is an entry: one without the distributed cache, or one that could
  not reach the owner;
- had its transaction ended through one Mongo client, which removed the entry,
  while another still has a record of it.

Each of the three is needed: without it TLC finds a request that goes to a wrong
server. A behaviour uses the sessions or the cursors (`Workloads`): the two share
nothing but the pods.

Assumed: a driver has one request of a session or cursor in flight, and waits
for it to end also when it changes pods; a request that was reported as failed
is not executed later; cursor ids are not reused while anyone remembers them. A
Mongo client that replaces another starts with empty caches, which is a state
`ExpireTxn` and `ExpireCursor` reach too.

### PoolManager, ClientConnections

`PoolManager` has the methods of `pool.Manager` as actions on the pools, the
registered clients, the pooled connections and the active counts.
`ClientConnections` extends it with one goroutine per client (`pc` names the
place in `proxy/connection.go`), the routes' Mongo clients, the proxy's table of
clients to close, and the process's shutdown. It composes the two: every
request registers, gets and returns through `PoolManager`'s operators. A call of
`Mongo.RoundTrip` is one step here, because `Mongo.mu` makes it atomic with
respect to `Close`; what happens inside is the subject of `RoundTrip`.

### RoutePatterns, Router

`RoutePatterns` has the pure functions: lower case, the classification of a
pattern as prefix, suffix, contains or wildcard, `matchesPattern`, the validation
of the configured names with `patternsConflict` and its list of test names, and
`Glob`, the reference definition of what a pattern stands for: an assignment of
a part of the name to each star. A name is a sequence of words, which is as fine
as the patterns tell names apart.

`Router` has the table (`routes`, `patternRoutes`, `wildcardRoute`), the route
cache and the read-write lock. `Validate`, `Start` and `Serve` are the start-up:
a configuration is any subset of the names and is refused or accepted, and its
routes are added in any order, because `proxies.go` iterates over a Go map.
`Call`, `LookInCache`, `LookInTable`, `CacheRoute`, `Return` are `GetRoute`,
which reads the cache before it takes the lock; `Lock` and `Change` are
`AddRoute`, `UpdateRoute` and `RemoveRoute`, which clear the cache and then
change the table under the lock. The program changes no route after start-up;
the methods are there for callers that do. `seen` is a history variable: what a
name has resolved to since the call began.

### SessionLocks

`RoundTrip` takes each session manager method as one step. `SessionLocks` takes
apart the methods that hold one mutex while they wait for the other:
`EndSession` (session, then manager) and the cleanup, one per Mongo client
(manager, then each session). What they do to transactions is left out.

### ExpiringCache, LruTtl

`ExpiringCache` says what a user of the cache relies on: a record is forgotten
only when a caller removes it, after its time, or as the one used longest ago
when the cache is full. `LruTtl` has the code's map and list. The list is a
strict order on keys (`ll`), which is what the code uses of it. The expiry loop
is two steps, because `lruttl.go` gives the lock up between finding the oldest
record and removing it. `call` is a history variable: the kind of the last step,
so that the contract can tell a caller's removal from the loop's.

### BatchedMetrics, BackgroundGauge, Metrics

`BatchedMetrics` has the four batches as lengths, the mutex (`holder`) and the
flush of its holder (`todo`, `left`), which passes operations on one by one
(`Deliver`) and then empties the batch (`Reset`). `Record` stands for the four
recording methods; `LoopTicks` and `LoopEnds` for the flush loop; `Close`,
`CloseWaits`, `CloseFlushes`, `Shutdown`, `ShutdownReturns` for the two ways to
stop. `BackgroundGauge` has the two channels of the gauge of open connections as
lengths, the goroutine's count and the value it shows, with the accept loop and
the ends of connections as callers. `Metrics` composes the two.

The `MC...` modules only add symmetry sets and values for constants.

## Runs

All runs check for deadlock except `locks_order`, whose subject is a state in
which goroutines wait for each other for ever. Sizes are distinct states.

| Run | States | What it shows |
| --- | --- | --- |
| `roundtrip_serial` | 335,000 | the invariant `IInv` of the proofs and the types; a transaction keeps its connection (`PinnedStaysCheckedOut`); a start, commit or abort is sent at most once (`BoundarySentOnce`); connections are lost in two known ways only (`LeaksOnlyByRefusalOrCleanup`) |
| `roundtrip_sessions` | 1.2 million | two sessions' transactions never share a connection (`ExclusiveUse`) and stay on the pinned one (`SentOnPinnedConnection`) |
| `roundtrip_overlap` | 1.6 million | requests of one session that overlap: of those that share a session object one ends its transaction, and sends its command once (`OneEnder`) |
| `roundtrip_progress` | 189,000 | outside transactions: every request returns, `Close` completes and is final, nothing leaks |
| `roundtrip_starved` (violation) | | with a connection per request only, two retrying requests wait for each other |
| `connections_pool` | 2.5 million | all pool modes, limit of one client, two databases, no `endSessions` and no connection errors: each connection in use is counted and held (`CountedAndHeld`), `max_client_conn` holds (`ClientLimit`), a lost client is replaced once (`OneClientPerClear`) |
| `connections_kill` | 273,000 | shutdown closes the clients it knows and completes, so does a kill, and the proxy knows the clients in use (`CurrentClientTracked`, `KillEndsAll`, `ShutdownCompletes`) |
| `locks_order` (violation) | | `EndSession` and a cleanup wait for each other |
| `lru` | 8,500 | map and list agree, the list is sorted by expiry, the limit holds, `ExpiringCache` is implemented, expired records go (`ExpiredGoes`) |
| `router` | 858,000 | the cache agrees with the table (`CacheCoherent`); an answer was current during the call (`AnswerWasCurrent`); every name gets a route that an accepted configuration has for it (`RoutedAsConfigured`) |
| `pods` | 95,000 | transaction requests and getMores reach the server that has their transaction or cursor open (`SentWhereOpened`); no session is stuck for good (`NeverWedged`) |
| `metrics` | 49,000 | no metric is lost or delivered twice (`EachOnce`), what is recorded arrives (`RecordedArrives`), `Close` delivers and returns (`ClosedDelivers`, `CloseReturns`), the gauge falls behind only by what its full channel dropped (`GaugeNeverLow`, `GaugeCatchesUp`) |

### Bounds

- `RoundTrip`. Two requests are enough for every pairwise race over a session, a
  connection or the lock; two objects per session allow a session that was
  dropped by the cleanup, while a request still has it, to be made again (three
  in `roundtrip_overlap`); three handles and a pool of two allow a request to
  hold its failed attempt's connection while another waits.
  `MaxRetries` is 1 (the code's 3 adds more rounds of the same steps; 0 in
  `roundtrip_sessions`, where two sessions matter more). `roundtrip_serial` has
  all transaction kinds at once. `roundtrip_progress` has a pool with one
  connection more than the failed attempts of two requests can hold;
  `roundtrip_starved` shows what happens with one less.
- `ClientConnections`. Two clients, two databases so that a client can change
  database, two slots so that a client can have a transaction's connection and a
  temporary one. `connections_kill` has one connection error (`MaxFailures`),
  which makes a route lose its client, and two signals, the second of which
  kills. It has one Mongo client, there from the start or created by a request;
  after the error no other can be created. That the proxy's table follows when a
  client is replaced is shown by the theorem `ClientsTracked`, and for two Mongo
  clients by a larger instance (2 million states, safety checked once). `connections_pool` has no `endSessions` and no
  failures: see the known behaviours below. `connections_kill` is in session
  mode: a panic between get and return leaves the active count raised, which in
  the other modes grows without bound.
- `LruTtl`. Three keys in a cache of two; time up to 6 with a life of 2 lets a
  record expire, be added again and expire again. The clock does not run
  backwards.
- `Router`. Seven names with a pattern of every type, a name in capitals and two
  patterns that are equal in lower case: all 128 configurations. Two callers and
  one change are enough for every race, because the change clears the cache and
  excludes readers. `RoutedAsConfigured` looks at the callers' names and at the
  twenty names the validation uses.
- `Pods`. Two pods with a Mongo client made at start-up each, a lazily created
  one in one of them, two servers, one session, one cursor; every request kind,
  any subset of reachable keys at every step. A second client made at start-up in
  one of the pods gives nothing new (382,000 states, safety checked once). Nothing
  bounds the number of requests.
- `Metrics`. Batches of two and four operations, so that a batch is filled, and
  flushed half full; channels of two and four connections, so that both
  channels overflow. A behaviour uses the batches or the gauge.

## Fairness

- `RoundTrip`: weak fairness of every request's own steps. The scheduler runs
  every goroutine, and a socket operation ends at the latest with the socket
  timeout the driver is given (`util/mongodb_client.go:120`). Strong fairness of
  `Checkout`: the driver serves those who wait for a connection first in, first
  out. Nothing is assumed of clients, failures, cleanup or expiry. A wait for a
  connection has *no* deadline: `server.Connection` gets a context that only
  `Close` cancels, after it has the lock (`mongo.go:1066`, `:469`).
- `ClientConnections`: weak fairness of each goroutine (`RoundTrip` returns: see
  `roundtrip_progress` for when it does), of a read on a connection that was
  force-closed, and of the shutdown's steps, which have a timeout.
- `SessionLocks`: strong fairness of taking a mutex. Go's mutexes hand
  themselves to the longest waiter.
- `LruTtl`: weak fairness of the expiry loop.
- `Pods`: a request ends, an entry expires (weak fairness: timeouts and times to
  live). A client with session affinity, which `docs/DISTRIBUTED_CACHE.md`
  describes, goes on at its pod: it starts again through the Mongo client of its
  database (`Sticky`), and aborts through whichever client of the pod the `admin`
  database is routed to, when that is possible again and again (strong fairness
  of the two requests). Nothing is assumed of other pods, restarts or cleanups.
- `Metrics`: the holder of the mutex goes on, `Close` goes on, the gauge's
  goroutine ticks and reads what was opened (weak). The flush loop gets the
  mutex, and so does `Close` (strong: Go's mutex lets nobody starve); a `select`
  chooses at random among ready cases, so that the loop sees that its context is
  done although ticks come (strong). Recorders, `Close` and `Shutdown` may never
  be called.

## What is proved

Every invariant and action property that the passing runs check is a theorem,
with two exceptions. Liveness stays with TLC, because fairness and `ENABLED` are
out of the prover's reach. So does `TypeOK` of `Router`: that `RemoveRoute` leaves
a sequence of routes is a fact about `SelectSeq`, which none of the provers
knows.

### RoundTripTypes, RoundTripProofs

For any number of requests, sessions, Mongo clients, servers, connections and
retries:

| Theorem | Statement |
| --- | --- |
| `TypeCorrect` | `Spec => []TypeOK` |
| `QuietAfterCloseCorrect` | `Spec => []QuietAfterClose` |
| `OneEnderCorrect` | `Spec => []OneEnder`, also when the requests of a session overlap |
| `NoConnectionLeakCorrect` | `Spec => []NoConnectionLeak`, if no request has transaction fields |
| `Invariance` | `Spec => []IInv`, for serial sessions |
| `ExclusiveUseCorrect`, `PinnedStaysCheckedOutCorrect`, `SentOnPinnedConnectionCorrect`, `BoundarySentOnceCorrect` | the safety properties, for serial sessions |
| `LeaksOnlyByRefusalOrCleanupCorrect` | the action property, for serial sessions |

*Serial sessions* (`SerialSessions = TRUE`): a client waits for the reply before
it sends the session's next request, as the MongoDB drivers do. The first four
theorems do not need it. `ConstantsAssumption` is the other assumption: the
"none" values are different from the real ones, and the bounds are naturals.

The safety properties are not inductive: that a transaction keeps its
connection depends on what every deferred call still to run is going to close,
and that depends on who shares the session. `IInv` says it in five parts:
`Serial` (a session has one request at a time), `ReqInv` (for each place in the
handler, what is on the defer stack, which connection the request has, and what
it knows of the session's transaction), `ObjInv` (the pin follows the
transaction state, and a committed or aborted session that still has a pin has a
request about to remove it), `OwnInv` (one owner per connection) and `MapInv`
(the map's entry for an lsid is a session of that lsid). There is a lemma per
action, mostly about the one request it moves; the frame lemmas say why other
requests' parts survive: serial requests have different objects, and `Fresh`
gives a handle that nobody owns.

`OneEnder` has an invariant of its own, `EnderInv`: no two requests with the
deferred reset on their stack have the same session, and the session of such a
request is committed or aborted, so that it refuses every other commit or abort.
`NoConnectionLeak` rests on `AllHeld`: a connection that is checked out is on some
request's defer stack or about to be put there. `LeaksOnlyByRefusalOrCleanup`
speaks of a step. Besides `IInv` it needs `NothingSpare`: while the transaction of
its session is in progress, a request's deferred calls hold no connection but the
pinned one, so that a call that spares the pinned connection loses nothing else.

### ClientConnectionsTypes, ClientConnectionsProofs

For any number of client connections, databases, routes and pooled connections,
in every pool mode:

| Theorem | Statement |
| --- | --- |
| `TypeCorrect` | `Spec => []TypeOK` |
| `NoSpareClients` | `Spec => []OneClientPerClear` |
| `ClientsTracked` | `Spec => []CurrentClientTracked` |
| `LimitKept` | `Spec => []ClientLimit` |
| `CountsExact` | a pool's active count is the number of its connections in use, and what a client keeps is in use in its database's pool |
| `NeverNil` | `RoundTrip` is not called on a nil client, if no connection error occurs or every database has its own route |
| `PoolsAccountedFor` | `Spec => []CountedAndHeld`, under the two conditions below |

`ConnectionsAssumption` makes the sets finite and the "none" values different
from the real ones. `OneClientPerClear` follows from `MadeInv`, which counts: the
clients made are at most those the routes have and those cleared. `PoolInv` adds to the counts what each
client keeps (`KeepInv`, by pool mode) and what a goroutine has between get and
return (`UseInv`); with it no return is for a connection that is not in use, so
the count is exact although `ReturnConnection` never lets it go below zero.

`PoolsAccountedFor` excludes the two ways in which the code does lose a pooled
connection: an `endSessions` in transaction mode, which `ReturnConnection`
neither returns nor keeps, and a call on a nil client, whose panic skips the
return. `NilInv` says when the second cannot happen: a request goes on without a
client only if the pool of its database was made before, and a pool keeps its
client. A route that serves several databases breaks this after a connection
error, except in session mode, where the registration still holds the
connection; the hypotheses say exactly that.

### LruTtlProofs

For any keys, limit and time to live: `TypeCorrect`, `MapAlwaysMatchesList`,
`OldestAlwaysAtBack`, `AlwaysWithinLimit`, and `CacheKeepsContract`
(`Spec => Contract!Spec`: the code's map and list implement `ExpiringCache`).
The four invariants are inductive together: sortedness needs that the map and
the list agree, and the limit needs that `add` removes exactly one element. For
the refinement a record's last use is its expiry less the time to live; the
key step is that the back of a list sorted by expiry is the record used longest
ago.

### RouterProofs

For any callers, names, patterns and number of changes: `CacheAlwaysCoherent` and
`AnswersAlwaysCurrent`. These two do not look into `Resolve`, so they hold
whatever the patterns mean. The invariant `RouterInv` adds what the lock gives:
while a change has it, the cache is empty and nobody is about to add to it
(`WriterAlone`), and a caller that is about to add has the route of the present
table (`ReaderCurrent`), because changes wait for readers.

`ConfigurationsRouted` (`Spec => []RoutedAsConfigured`) is about what `Resolve`
computes: for every set of configured names, and whatever order the map gives
them in, a name gets the exact route, else that of a pattern that stands for it,
else the wildcard. It has two parts. `ClassifyMatches`: what `AddRoute` makes of
a pattern matches the same names as the pattern itself, one lemma for each of
prefix, suffix and contains, by the positions where each star's part of the name
ends. `StartInv`: while routes are added, every route in the table is one of the
configuration, and every configured name has its route or is, in lower case, the
same as one still to be added. `RouterAssumption` says that names and patterns
are sequences of words. The theorem has two hypotheses, which the code does not
check: names asked for have no star, and no pattern has a star inside together
with one at an end (`PlainPattern`). Without the second the property can fail: of
`a*b*`, `AddRoute` cuts off the star at the end and takes the inner one for a
letter, so that the pattern matches no name without a star.
The first match of a list is found by induction over the naturals, with
the library's theorem that they are well founded.

### PodsProofs

For any number of pods, servers, sessions and cursors, and any Mongo clients of
either kind in each pod: `TypeCorrect` and `RequestsGoHome`
(`Spec => []SentWhereOpened`, with the exceptions that `lost` stands for, and
`killCursors`, which go anywhere). The property is not inductive: where the next
request goes depends on what the pods have on record. `PodsInv` says of a
session that is not in `lost` that at most one pod has a server on record
for it, in its session manager or in a Mongo client (`OneClaim`), that the record
is right and has an entry (`ClaimIsHome`), and that a commit or abort in flight
comes from that pod (`EnderClaims`), so that the reply removes the entry together
with the record, or the session is in `lost`. The lemma `Selected` is the
heart: a client that may select any server has seen that there is no entry, so
nobody has a record and nothing is open. Assumption: `PodsAssumption` (sessions
and cursors differ, every Mongo client has a pod, "none" values are none of the
real ones).

### MetricsProofs

For any batch size, channel size and number of operations: `EachOperationOnce`,
`CloseAlwaysDelivers`, `GaugeNeverBehind`, `TypeCorrect`. `MetricsInv` adds that
who flushes has the mutex (`Held`), and that of the kinds the flush of `Close` is
done with everything recorded before it has been passed on (`Flushed`). The types
have bounds in them, which need an argument too: a batch never outgrows
`batchSize`, because it is full only while the recorder that filled it holds the
mutex and has its flush to come (`FullIsFlushed`), and the gauge's count, with
the channel and what did not fit, is at most what was accepted (`GaugeBounds`).

## Findings

Where a run disagrees with what the repository says (quoted in `PROJECT.json`):

1. `roundtrip_starved`: the close of an attempt's connection is deferred to the
   return of `RoundTrip`, so a retry waits while it holds the failed attempt's
   connection.
2. `locks_order`: `EndSession` and `CleanupInactiveSessions` take the mutexes in
   opposite orders.

## Known behaviours

The models have these behaviours, and the properties are stated so that they hold
in spite of them:

- A refused start, commit or abort returns before the close of its connection is
  deferred (`mongo.go:757`, `:780`, `:789`): the connection is lost
  (`LeaksOnlyByRefusalOrCleanup`).
- The cleanup of an inactive session with a transaction in progress drops it
  with its pinned connection, which nobody closes (`session_manager.go:345`).
  `docs/SESSION_TRANSACTION_SUPPORT.md:32` ("Automatic session cleanup and
  connection release") and `:180` ("Automatic cleanup of inactive sessions and
  proper connection release") promise the release.
- Two overlapping requests that both find no session insert an object each, and
  each may start or end a transaction of its own (`mongo.go:581`). `OneEnder`
  speaks of the requests that share an object; drivers do not overlap the
  requests of a session.
- The route's client is tested and read again without its mutex
  (`connection.go:495`). When one wildcard route serves several databases, a pool
  can be made for a nil client; it is never replaced and its requests panic.
- A pool keeps the Mongo client it was made with after the route has a new one
  (`pool.go:134`), and the client that was replaced in the proxy's table is not
  closed at exit (`proxy.go:103`).
- In transaction mode the pooled connection of `endSessions` is not returned
  (`connection.go:677`, `pool.go:330`). `connections_pool` leaves the command out,
  and `PoolsAccountedFor` states it as a hypothesis.
- A Mongo client that a request creates after the shutdown has gone through the
  proxy's table is not closed; `ShutdownCompletes` says that the shutdown ends in
  spite of it.
- `RemoveRoute` compares with the pattern as given, neither in lower case nor
  without its outer stars: `RemoveRoute("test_*")` removes nothing.
  `UpdateRoute` of a pattern appends a second route, and the first one keeps
  winning. A pattern with a star inside and one at an end is matched with the
  inner star taken literally.
- `patternsConflict` compares how many of its twenty test names two patterns
  match: patterns that overlap are accepted if the counts differ, and patterns
  that do not overlap are refused if the counts are equal. A name that two
  accepted patterns match goes to the one that the map iteration gave first
  (`config/proxies.go:103`), and possibly to another after the next start;
  `README.md:154` says that patterns "are checked in order".
  `RoutedAsConfigured` allows each of them.
- A statement, commit or getMore at a pod that did not open the transaction or
  cursor is refused ("no server available") while the entry lives, and so is one
  at the same pod after a restart. `docs/DISTRIBUTED_CACHE.md:9` ("Transaction
  pinning and state maintained across pod restarts") and `:402` ("Cursor routing
  works correctly across all pods") promise more. What the entries do achieve is
  `SentWhereOpened`: no request goes to a wrong server.
- That protection ends with the Mongo clients made after start-up, which
  `ConnectWithSessionManager` gives caches without the distributed cache
  (`mongo.go:209`): a statement or getMore at such a client goes to any server
  unless the client, or its pod's session, has a record itself, and other
  clients do not know of the cursors it opens.
- A commit or abort removes the record of the Mongo client that sends it. If that
  is not the one that started the transaction, as with `admin` routed apart from
  the database, the latter keeps its record until it expires, and a later
  transaction of the session can follow it to the old server.
- A `killCursors` goes to any server, since `CursorID` finds none in it
  (`operations.go:267`, `:1044`): the cursor may stay open at its server and in
  the caches.
- The entry of a session always says `in_progress`, because only
  `StartTransaction` stores it: another pod refuses to start a transaction of
  that session, also after a commit, until the client aborts there or the entry
  expires. `NeverWedged` says that it ends.
- `Shutdown` of the batched metrics client flushes nothing, and the program calls
  neither it nor `Close` when it exits: what was recorded in the last tick is
  not passed on.
- The end of a connection that is read before its beginning, with the count at
  zero, is ignored, and the beginning is counted: the gauge of open connections
  then stays too high for good (`util/metrics.go:565`), as it does when an end
  finds its channel full. A beginning that finds its channel full is dropped too,
  and the gauge stays too low by it; `GaugeNeverLow` says that it is too low by
  no more than those.

## Not modelled

- Request forwarder: nothing stores the location of a session
  (`StoreSessionLocation` has no caller but its wrapper), so `ForwardRequest`
  always lets the request be processed locally.
- Wire protocol (`mongo/operations.go`, `command.go`, `ismaster.go`): byte-level
  parsing of one message without shared state. The models take what
  `TransactionDetails`, `CursorID` and `Unacknowledged` return as the kind of a
  request.
- Credential passthrough, the handshake and authentication. The Mongo clients
  made for a user's credentials are among the `Lazy` ones of `Pods`.
- The table of Prometheus metrics in `util/metrics.go` and its HTTP server.
- Peer discovery and groupcache itself: an entry can be lost or unreachable at
  any time, which covers what either may do.
- Health checks: those of `mongo.go` change no branch of `RoundTrip`; the pool's
  are never called. The topology monitor only logs.
- Reading the configuration file, its defaults and the driver options.
- `getMore` inside a transaction; `autocommit` is taken as false in transaction
  commands, as drivers send it.
- Client ids are distinct (the code derives them from the address and the time).
- Methods only tests call (`CreateSession`, `CleanupExpiredSessions`,
  `GetActiveTransactionCount`, `UnregisterMongoClient`, `RouteMessage`), and the
  restart of an accept loop that failed.
