# Verification of parts of Envoy

This directory holds TLA+ models of parts of Envoy, the TLC configurations that
check them on small instances, and TLAPS proofs of the most important
invariants. Five parts are modelled: the upstream HTTP connection pool, the init
managers, thread local storage, the delta xDS client, and the start-up of the
cluster manager. They were chosen for dense control state: counters that must
agree, lists that change under their own loops, callbacks that call back, weak
references to objects on other threads, and streams that break half way.

| file | what it is |
| --- | --- |
| `ConnPool.tla` | the pool of one host, priority and worker |
| `ConnPoolInvariant.tla` | its inductive invariant: the books and the duties |
| `ConnPoolStack.tla`, `ConnPoolBooks.tla`, `ConnPoolCalls.tla` | frames; sums and counts; every step keeps the books |
| `ConnPoolNesting.tla`, `ConnPoolDuties.tla` | nested calls; every step keeps the duties |
| `ConnPoolProofs.tla` | the theorems |
| `InitManager.tla` | init managers, targets and watchers, nested as listeners and RDS subscriptions nest them |
| `InitCountdown.tla` | the abstract specification of an init manager |
| `ThreadLocal.tla` | slots, the main thread, the workers and their queues of posted callbacks |
| `ThreadLocalProofs.tla` | its inductive invariant, the steps of the workers and of the main thread, the theorems |
| `DeltaSubscription.tla` | the state of one delta xDS subscription, as functions |
| `DeltaMux.tla` | the client around it: watches, ACKs, pauses, the stream, and a server |
| `DeltaMuxProofs.tla` | their inductive invariant, the steps of the client and the server, the count of ACKs, the theorems |
| `ClusterInit.tla` | the start-up of the cluster manager, with CDS |
| `MC*.tla`, `MC*.cfg` | instances for TLC |
| `PROJECT.json` | components, runs, mutants, map to the source, findings, hazards, theorems |

## 1. Inventory of the system

Envoy runs one main thread and several workers. Each thread has an event loop
that runs one callback at a time. The main thread owns configuration, cluster
and listener management. Workers own connections and requests. The two sides
exchange state by posting callbacks (thread local storage).

| part | state | operations | what is hard | what makes it correct |
| --- | --- | --- | --- | --- |
| HTTP connection pool (`conn_pool_base.cc`, `http/conn_pool_base.cc`, `http1/`, `http2/`) | client lists, pending queue, purge list, capacity counters, drain flags | new stream, cancel, connection events, stream end, SETTINGS, GOAWAY, drain, destroy | user callbacks in the middle of operations | counters equal the lists; no queued stream is forgotten; a drained pool is deleted |
| codec client (`codec_client.cc`) | active requests, protocol error flag | close, reset loop, data | the reset loop runs users' code that attaches to the dying client | every stream of a lost connection is reset |
| pool map (`conn_pool_map_impl.h`) | pools by key | get, erase on idle, free one, drain, clear | idle callbacks erase a pool from inside it | a pool is destroyed once, when idle |
| TCP, HTTP/3, mixed pools, grid | as the base pool, early data, attempts in a race | as above | early data, fallback between protocols | one winner, the others cancelled |
| circuit breakers (`resource_manager_impl.h`) | counters shared by workers | check, increment, decrement | check and increment are two steps | balanced; overshoot bounded by the workers |
| init manager (`common/init/`) | count, handles, watcher | add, initialize, target ready | targets ready early, late or destroyed | ready exactly once, after all targets |
| thread local storage | slots, posted updates | allocate, set, run on all threads, shutdown | updates that outlive a slot or a thread | no update runs on a freed slot |
| cluster initialisation, on-demand discovery | cluster lists, phases, pending callbacks | add, remove, ready, CDS done | removal during initialisation | the callback fires once all clusters are done |
| delta xDS client | resource states, names to send, wildcard flags, ACK queue, watches | subscribe, response, ack, pause, reconnect, TTL | subscription changes in flight, stream restarts | the server is told exactly the difference, and the client ends with what the server has |
| drain manager, listener manager, hot restart, guard dog, overload manager | timers, flags, lists | start, drain, remove, replace | several threads and processes | connections drain before removal |
| health checks, outlier detection | per-host counters, ejection | result, interval, uneject | cross-thread reports | thresholds respected |
| connection manager, filter manager, router | stream life cycle | headers, data, reset, retry, timeout | reentrancy of filters | one response per request |
| codecs, buffers, TLS, load balancers, stats, logging | mostly data | | parsing, floating point, I/O | out of reach or pure data |

`PROJECT.json` lists each with its status, and the hazards of the code at the
line where they bite.

## 2. Plan

Done: **ConnPool**, **ThreadLocal**, **DeltaSubscription** and **DeltaMux** (with
proofs), **InitManager**, **ClusterInit**.

Next:
1. Proofs: for InitManager `AssertionsHold`; for DeltaMux `QuietClientIsUpToDate`; for
   ClusterInit `HelperWaitsForItsClusters`, once its recursion is unfolded into phases.
2. The pool map composed with ConnPool (idle callbacks, `freeOnePool`, `clear`), and
   the circuit breakers shared by workers.
3. On-demand cluster discovery composed with ThreadLocal.

## 3. ConnPool: model and code

**Control.** The pool runs on one thread, but almost every operation calls a
user (`onPoolReady`, `onPoolFailure`, a stream reset) and the user may call the
pool again from there. The variable `stack` is the C++ call stack: each frame
names what is left of an operation, the top frame runs next, and a `user` frame
on top means that control is in a callback, where `NewStream`, `Cancel` and
`EndStream` are possible. Network events, timers and deferred deletions need an
empty stack. A handler that calls a user is split at that call and nowhere else
matters: the frames it pushes run before anything outside can.

**State.** Per client: `state`, `remaining`, `limit`, `configured`, `debt` are the
members of `ActiveClient`. `listed` is membership in one of the pool's lists,
which the state selects (`owningList`). `open` is the network connection, `held`
the unit of the connections breaker. `on` is the client a stream is attached to.
`pending` and `purging` are the two queues. Then the three counters, the drain and
deletion flags, the scheduled callback, and the cached concurrency.

**Actions.** They have the names of the functions they model, and `PROJECT.json`
maps each to its lines. `onConnectionEvent` for a close is `OnConnectionLost`,
then, if the client was still connecting, `PurgePendingStreams`,
`RetryAfterPurge` and `ReleaseClient`, then `ClientClosed`. `tryCreateNewConnections`
is one frame per round. The idle callback is the cluster manager's: it takes the
pool from its map and queues it for deletion. After `DestructAllConnections` the
model goes on with a new pool for the same host.

**Abstractions.**
- Where the code takes the front of a client list, the model takes any member.
- The pending queue is the default first-in first-out policy.
- Host health, the preconnect policy and the use of the breakers by other pools
  are free at each decision. The preconnect ratios are in halves.
- `closed_with_active_rq_` and `protocol_error_` are read off the stack: a lost
  connection's reset loop is on it exactly while they matter.
- For HTTP/1 a protocol error is an ordinary close (nothing in that client
  reads the reset reason), and an idle timeout is an arbitrary close.
- A client identity stands for a new object once nothing refers to the old one.
- During a purge users cancel only streams that are being purged, and a cancel
  always names a stream whose handle the user still holds.
- The runtime guard `conn_pool_fix_reentrancy` is at its default.
- Left out: early data (HTTP/3), worker shutdown with live streams, statistics.

## 4. The other models and the code

### InitManager

The main thread starts a server by initialising a tree of `Init::ManagerImpl`. A
target may start an inner manager, whose watcher signals the target: this is how
`ListenerImpl` and `RdsRouteConfigSubscription` are built, and the constants `Inner`,
`Members`, `Signals` and `Constructed` describe such owners. As in ConnPool, `stack` is
the C++ call stack. The loops of `ManagerImpl::initialize` and `SharedTargetImpl::ready`
and every callback are split where user code runs, and user code may add, signal,
start or destroy from there. `held` are the watcher handles of a target, `callable` the
targets whose `fn_` is set; a handle is weak, so what it refers to may be gone.

`InitCountdown` is what a manager promises: registrations are settled one by one, and
the manager is initialised in the step that settles the last one. The refinement
mapping counts what is really outstanding (handles not called, held by targets, or
being signalled), not `count_`.

`Destroy` leaves out the destruction of a manager while its own loop is on the stack.
During start-up no user does that. Once workers run, `onListenerWarmed` may
(`listener_manager_impl.cc:892` erases a warming listener whose last step failed, called
by the watcher of the listener's own manager); what the rest of the loop then does is
undefined, and no property is stated about it. `AddsReadyTarget` is FALSE in the run: `add` ignores the result
of `initialize()`, so a running manager to which a target that is already ready is
added never finishes (see the hazard in `PROJECT.json`).

### ThreadLocal

`slotAt`, `free`, `index`, `version` are `slots_`, `free_slot_indexes_`, `index_` and
`initialize_cb_`. Every thread has its `data` and a `queue` of posted callbacks. A
callback of a slot locks its weak reference (`BeginCallback`), runs, and may then be the
last to hold the slot, so that `~SlotImpl` runs on the worker: it reads `shutdown_`
(`FinishCallback`) and posts the removal (`PostRemoval`) in two steps. An operation of
the main thread is one step, because what a worker does between two posts commutes
with the second, which goes to another queue. `Share` hands a strong reference to a
worker. Updates need a slot that was set. `running` is the callback a worker is in: the
call, whether it holds its slot (`locked`), and whether it has destroyed the slot and has
the removal still to post (`done`). `RegisterThread` posts the sets of the slots in the
order of their indexes. `Holders(i)` is everything that has index i: a live slot, an
entry of the free list, a removal in the queue of the main thread, a worker about to
post one. Not modelled: the order of destruction in
`shutdownThread`, and the `dispatcher_` pointer.

### DeltaSubscription and DeltaMux

`DeltaSubscription` has the three maps of `DeltaSubscriptionState` as functions (absent,
waiting for the server, or a version) and one operator per method. `DeltaMux` drives it:
`interest` are the watches of `WatchMap`, `acks` the pausable queue, `pauses` the count
of `ScopedResume` objects of the type (pauses nest, the last resume sends), `limited` the drain timer of a rate limited stream. A
response is taken in steps (`BeginResponse`, `DeliverTo` or `FailTo` for each watch,
`EndResponse`), because the users of watches run in between and may change them.

The stream is two queues that a break empties. The server is external: it sends what
the subscriptions entitle the client to and has not been told of, in any batches, and
takes an empty first request for a subscription to everything. It remembers nothing
across streams but the versions the client reports.

`missed` are names whose update was rejected or expired, `switched` says that the
wildcard came or went on this stream; the properties that need them say so.

### ClusterInit

Everything is on the main thread, so one action is one turn of it with all its nested
calls, as functions on the record `cm`. A cluster completes inside `initialize()` (its
name is in `sync`) or in a later turn. An object has an id, so that a replaced cluster
is not confused with its successor of the same name: `primary` and `secondary` are the
pointer maps of the helper, `initializing` the clusters that will still call back. The
turns of the server's start-up are `LoadStaticClusters`,
`SetPrimaryClustersInitializedCb`, `SetInitializedCb` and `OnRuntimeReady`.
`PhaseChanges` allows CDS to change the phase of a warming cluster (finding 5); without it
the update may still be refused. `ApplyUpdate` is the loop of `CdsApiHelper`, and the loop of
`initializeSecondaryClusters` is a fold over the clusters that are in the map when it starts.
Only the cluster being initialised leaves the map within it; that the iterator stays valid
is outside the model. `CdsMayCall` is wider than any one subscription: a file is read
inside `start()`, gRPC calls from the loop, and the model lets the first answer come at any
time in between.

## 5. Runs

| run | instance | shows |
| --- | --- | --- |
| `pool_http1` | 3 clients, 3 streams, lifetime 2 requests, ratio 1.0 | eight invariants of the HTTP/1 pool |
| `pool_http2` | 3 clients, 3 streams, limit 2, lifetime 3, SETTINGS 1 or 2, cached limit, ratios 1.5, load shedding and failed creation | types, capacity, debt, reset of lost streams, demand formula, draining |
| `pool_drain_live` | 2 clients, 2 streams, fairness | a draining pool is destroyed |
| `purge_load_shed` | HTTP/1 with load shedding and retries in a purge | finding 1 |
| `settings_zero_drain` | HTTP/2 with SETTINGS 0 | finding 2 |
| `drain_burst` | HTTP/1, 4 clients and 4 streams | finding 3 |
| `init_manager` | a server, a listener and an RDS subscription with their managers, a shared secret, two watchers | counting, assertions, one notification, refinement of `InitCountdown`, completion |
| `thread_local` | 2 workers, 2 slots, one of them shared and with completion callbacks | indexes, data, convergence, completion |
| `xds` | one name with a TTL, a watch of everything and one by name, rate limit, pauses two deep, two events in all of: change, break, change of interest, new context, heartbeat | eight properties of the client |
| `xds_first_request` | a watch by name only | finding 4 |
| `cluster_init` | two bootstrap clusters, one of each phase; CDS with two names and the bootstrap's EDS cluster, at most two of them in an update, five configurations, one rejected, three updates | waiting set, phases, CDS pause, completion |
| `cluster_init_phase` | the same with one name and changes of phase | finding 5 |

The properties, in short:
- ConnPool: `CapacityCountsAreCorrect`, `DebtIsExact`, `ActiveStreamsAreCounted`: the
  counters are the sums over the clients, in every intermediate state.
  `StreamIsInOnePlace`, `StreamsOfLostConnectionsAreReset`: no stream is duplicated,
  failed twice or left on a dead connection. `QueuedStreamHasClient`,
  `QueuedStreamGetsConnection`, `ReadyClientServesQueue`: a queued stream is never
  forgotten. `DrainingClientHasStreams`, `DrainedClientsAreNotIdle`,
  `DrainingPoolHasWork`, `DrainedPoolIsDestroyed`: draining makes progress.
  `DeletedPoolStaysIdle`, `DestructorLeavesNothing`: deletion is of an idle pool.
- InitManager: `CountIsOutstanding`: `count_` and `target_names_count_` are what is
  really outstanding. `AssertionsHold`, `LastWatcherIsNotified`: no manager is started or
  finished twice. `ImplementsCountdown`: it finishes in the step that settles the last
  registration. `ManagerIsInitialized`: it does finish.
- ThreadLocal: `EveryIndexIsAccounted`: no index is used twice, freed twice or lost.
  `SlotDataIsItsOwn`, `FreedIndexIsCleared`: a slot never sees the data of another.
  `WorkersConverge`: every worker is on its way to what the main thread has.
  `CompletionIsLast`, `CompletionRuns`: the completion callback comes once, at the end.
- DeltaMux: `CategoriesAreDisjoint`, `RequestedIsInterest`: the maps agree with each other
  and with the watches. `ServerLearnsInterest`: what the server was told, and what is
  still to be sent, is the interest. `EveryResponseIsAcked`: once, on its own stream.
  `QuietClientIsUpToDate`, `NamedResourceIsHeld`: at rest, client and users have what the
  server has. `ComesToRest`: nothing stays unsent.
- ClusterInit: `HelperWaitsForItsClusters`: the helper waits for exactly the clusters
  that will still report. `SecondaryClustersWait`: the phases keep their order.
  `CdsPausedWhileWarming`, `InitializationCompletes`: nothing waits for ever.

**Bounds.** ConnPool: three clients are needed for a failing, a dying and a fresh
connection at once, three streams for one queued, one purged and one active.
`MaxDepth` bounds the stack only where a user calls the pool again (6 frames for HTTP/1:
a purge callback that retries and whose retry is cancelled or reset; 4 for HTTP/2, and
with 5 frames and three requests per connection, 1.8 million states, the HTTP/2
properties held too).
InitManager has the deepest nesting the sources build (server, listener, route
configuration) and no bound but one registration per pair. ThreadLocal: two slots
make an index change hands, two workers make their orders differ; `MaxPending` stops
the main thread from running more than two posts ahead. A slot is set once in the run:
with `MaxSets` 2, so that a set is replaced while the first is still queued (safety
only, 6.8 million states), the invariants held too. DeltaMux: the maps treat
names one by one, and one name meets the wildcard and a watch by name; two events
allow a change of interest or resource around a break, in either order. With
`MaxOutstanding` 2, with two changes of interest, and with three events (safety
only, 5.6 million states) the properties held too. ClusterInit: three updates
are needed to add, replace and then refuse a cluster that the helper waits for. An
update that names all three clusters at once (`MaxMentioned` 3, 16.5 million transitions)
reaches the same states.

Symmetry is used for safety of ConnPool only; the model values are interchangeable
and every choice among them is an existential (or a `CHOOSE` from a singleton). The
runs without deadlock checking are of systems that may stop: a server that is
initialised or shut down, a client at rest.

**Conditions on some properties.** `DeletedPoolStaysIdle` is checked with ratio 1.0.
With 1.5, a reset inside `onPoolReady` makes the pool idle and queues its
deletion, and `newStreamImpl` then still preconnects for the stream its wrapper
holds; the destructor closes that connection. `QueuedStreamHasClient` is checked
without load shedding and failed creation: if replacing a lost connection is shed,
the result is ignored and the queue waits for the next stream.
`ReadyClientServesQueue` is checked for HTTP/1: `onSettings` makes a busy HTTP/2 client
ready and attaches nothing until the next event. `NamedResourceIsHeld` is about the
first stream: a name added while there is none is reported with its version, and
the server does not send it again. `RequestedIsInterest` (and its theorem) needs that no
names are requested on demand, which would be in the subscription and in no watch.
`QuietClientIsUpToDate` excepts a name that was rejected or has expired until it is next
accepted. The run has one response without its ACK at a time (`MaxOutstanding` 1);
`ResponsesAreAcked` proves the balance for any number.

**Fairness.** In each case it is what the event loop and timeouts give; nothing is
assumed of successful connects or of users beyond it.
- ConnPool: calls in progress end (weak fairness of `Step`). Each armed timer,
  scheduled callback and deferred deletion is handled in the end, however busy the
  loop is (strong fairness): the connect timeout, the end of some stream (the
  router's timeouts), the wrapper's deletion, the scheduled callback, the deletion of
  the pool.
- InitManager: calls return, and whoever drives a target signals it once it was told
  to initialise, as xDS subscriptions do at the latest on `init_fetch_timeout`. A target
  destroyed without a signal is excepted in the property.
- ThreadLocal: the dispatch loops run what was posted, until shutdown.
- DeltaMux: the client takes what the stream has, the retry timer fires and the new
  stream comes up, the server reads and answers. Every `ScopedResume` is destroyed, and
  pauses do not overlap for ever (strong fairness of the last resume): nested ones are
  scopes of one turn, and the cluster manager holds one pause of CDS at a time. The token
  bucket fills: of the drain timer's attempts without end, some find a token (strong
  fairness).
- ClusterInit: the server goes on, RTDS and the clusters report (DNS queries, health
  checks and fetches time out), and CDS answers or fails. CDS updates themselves are
  not assumed; `MaxUpdates` keeps them from replacing a pending cluster for ever.

## 6. Findings

1. A stream retried during a purge and then shed is cancelled through
   `onPendingStreamCancel`, which removes it from the purge list although it is in
   the pending queue, against `linked_object.h:79`.
2. A client made busy by SETTINGS 0 is drained with no stream and stays open, against
   the comment on `Draining` (`conn_pool_base.h:101`).
3. The assertion at `conn_pool_base.cc:247` fails for a draining pool that loses a
   connection with three or more streams queued.
4. A delta xDS client that gives up all its names while the stream is down has
   something left in `names_removed_`, so it sends a first request on the next stream. It
   names nothing, which means everything. The comment and assertion at
   `delta_subscription_state.cc:356-359` say that this cannot happen.
5. A CDS update during start-up that changes the phase of a warming cluster leaves the
   replaced object in the other map of `ClusterManagerInitHelper`, against the comments at
   `cluster_manager_impl.cc:130` and `:135`. Start-up then waits for ever, or initialises the
   destroyed object.

## 7. Proofs

Three models have proofs, each for every value of its constants that its `ASSUME`
allows: any finite sets, any limits, and any value of the bounds that keep TLC's state
space finite. Each proof finds an inductive invariant
`IInv` (TLC checked it on the instance first), shows that `Init` implies it and that every
action keeps it, and derives the theorems from the theorem `Invariance` that it always holds.

### ConnPool

From `ConnPoolAssumption`, for all limits, ratios, settings and depths:

- `TypeCorrect`: `Spec => []TypeOK`
- `CapacityCorrect`: `Spec => []CapacityCountsAreCorrect`
- `DebtCorrect`: `Spec => []DebtIsExact`
- `CountCorrect`: `Spec => []ActiveStreamsAreCounted`
- `OnePlace`: `Spec => []StreamIsInOnePlace`
- `LostStreamsAreReset`: `Spec => []StreamsOfLostConnectionsAreReset`
- `DestructionIsComplete`: `Spec => []DestructorLeavesNothing`
- `DrainedAreActive`: `Spec => []DrainedClientsAreNotIdle`
- `QueuedGetsConnection`: `Spec => []QueuedStreamGetsConnection`

Five properties do not hold for every configuration, and their theorems name the condition
under which they do. The passing runs of these properties have constants of that kind; with
constants of the other kind TLC finds a counterexample to each.

| theorem | condition | property | without the condition |
| --- | --- | --- | --- |
| `DrainingHasStreams` | `0 \notin Settings` | `DrainingClientHasStreams` | finding 2, run `settings_zero_drain` |
| `DrainingHasWork` | `0 \notin Settings` | `DrainingPoolHasWork` | the same client keeps the pool from its end |
| `QueuedHasClient` | `~MayShed`, `~MayFailToCreate` | `QueuedStreamHasClient` | nothing asks for a connection again |
| `ReadyServesQueue` | `~Multiplexed` | `ReadyClientServesQueue` | a raised SETTINGS limit makes a busy client ready and serves nobody |
| `DeletedStaysIdle` | `RatioHalves = 2` | `DeletedPoolStaysIdle` | a higher ratio can make the pool preconnect after it was deleted |

The inductive invariant is `IInv /\ Duties`.

`IInv`, the books, has three parts. `ClientPart` has the types of clients and counters, and
for each client the relation between its state, its capacity and its debt, with the two
sums. `StackPart` says what an interrupted operation relies on: a client about to be
released has no remaining streams, a client in a `closed` frame is in no list, and the
destructor runs in a deleted pool. Without it the removal of a client from its list would
not be known to leave the sums alone, because a user ran in between. `QueuePart` says that
the pending queue has no duplicate and no attached stream. Without it, attaching the head
of the queue might count a stream twice. The sums are cardinalities of sets of units,
`Units(S)`, so no recursion is needed. `OneClientChanges` says how the size changes when
one client's capacity does, and `OneClientStep` lifts that to the invariant.

`Duties` is about states in the middle of operations. There the pool is often in a state its
own code would call wrong: a closed connection is still listed, a queue has no client, a
draining client has no stream. Each conjunct says that some call on the stack will put this
right (`Doing`, `DoingTo`), so that nothing is wrong once the stack is empty. For example
`DrainedClosing` says that a draining client without streams is in a `close`, `lost` or
`release` frame, and at rest there are no frames. This needs to know how calls nest
(`OrderPart`): the reset loop of a lost HTTP/2 connection runs before its `lost` frame, a
stream that was just queued has its connection attempt on top, and drains and the destructor
run outermost. A step that pushes frames keeps all duties; a step that finishes a call has
to show that what the call was to do is done or is left to another one.

Neither half is inductive alone. The last step of the destructor resets `deleted`, and keeps
`StackPart` only because the destructor is the outermost call (`OrderPart`). The duties speak
of clients without streams, and what a step does to these counts comes from the books.

| module | contents |
| --- | --- |
| `ConnPoolInvariant` | the definitions of the two halves |
| `ConnPoolStack` | frames, and the elements of sequences |
| `ConnPoolBooks` | how sums and counts change when a client or a stream does; what the invariant says of a single state |
| `ConnPoolCalls` | one lemma per action: it keeps `IInv`; `InitInvariant`, `StepInvariant` |
| `ConnPoolNesting` | pushing and popping; what keeps each duty; the actions that only continue other calls |
| `ConnPoolDuties` | the other actions keep `Duties`; `InitDuties`, `NextDuties` |
| `ConnPoolProofs` | `Invariance: Spec => [](IInv /\ Duties)` and the theorems |

### DeltaMux

From `DeltaSubscriptionAssumption` and `DeltaMuxAssumption`, for all names, watches and
interests:

- `TypeCorrect`: `Spec => []TypeOK`
- `CategoriesStayDisjoint`: `Spec => []CategoriesAreDisjoint`
- `RequestedStaysInterest`: `Spec => []RequestedIsInterest`
- `ServerAlwaysLearnsInterest`: `Spec => []ServerLearnsInterest`
- `ResponsesAreAcked`: `Spec => []EveryResponseIsAcked`

`IInv` is `InterestInv` and `Counts`. `InterestInv` joins the state of the subscription
(`SubOK`) with its watches (`Fits`) and with the stream (`StreamOK`). Three facts in it are
needed for the properties and are not properties themselves. `names_added_` is part of
what is requested; otherwise sending it could tell the server of a name given up since.
A subscription that still counts as a legacy wildcard one requested nothing by name;
otherwise its empty first request would mean something else. The first request of a
stream unsubscribes from nothing and finds a server that knows nothing; otherwise an
interest from before the break would count.

What the server will know once it has read the requests under way is `SubscribedAfter`,
written with quantifiers over the queue instead of a fold, because what a recursive
definition computes cannot be proved for every queue. Two lemmas say what it does when a
request is appended and when the server reads the first one. `Counts` balances
responses and ACKs; a send takes some ACKs from the queue and puts as many on the
stream, and the lemma on that is again about cardinalities of sets of positions.

### ThreadLocal

From `ThreadLocalAssumption`, for any number of workers, slots, sets and updates:

- `TypeCorrect`: `Spec => []TypeOK`
- `IndexesAreAccounted`: `Spec => []EveryIndexIsAccounted`
- `DataIsOwn`: `Spec => []SlotDataIsItsOwn`
- `CompletionComesLast`: `Spec => []CompletionIsLast`

`SlotDataIsItsOwn` looks at a worker that uses a slot now. To keep it, one must know what
is in front of that use in the worker's queue, and this is `Follows`: for a live slot,
every queued callback that needs the slot's object has the set before it, unless the
object is already there, and whatever clears the index comes before everything about
the slot. This is where the reuse of indexes is safe or not: the clearing of the former
slot was posted to each queue before the new slot had its index, and posts keep their
order. `RunOK` says the same of the callback the worker is in, whose slot may have been
let go by the main thread meanwhile.

`Accounted` says of each index what can have it: the entry of `slots_` is reset exactly when
the index is free, and when its slot is dead exactly one removal of it is in the main
queue or about to be posted. Both need `Places`, that a live slot is the one `slots_` has at
its index: then `removeSlot` resets the right entry. `Completions` says that a queued or
running copy of an update is proof that its completion was not posted.

The steps of a worker come first in `ThreadLocalProofs`: only one worker's data, queue and run
change. The operations of the main thread, which post to all of them, follow.

### Only model-checked

- `WorkersConverge` and `FreedIndexIsCleared`. They compare the main thread's data with what
  a worker's data will be after its whole queue (`Replay`), a fold over the queue; what a
  fold computes needs induction over the queue, which the prover cannot use.
- `QuietClientIsUpToDate` and `NamedResourceIsHeld`. Both are about versions at rest and
  need an invariant over every response under way; not attempted yet.
- InitManager with the refinement of `InitCountdown`: `count_` is compared with a sum over
  all targets (`MapThenSumSet`, a fold). ClusterInit, whose turns are folds over the
  clusters of a map and recursive: a cluster that completes may start the others.
- All of liveness (fairness and `ENABLED` are outside what the prover handles):
  `DrainedPoolIsDestroyed`, `ManagerIsInitialized`, `CompletionRuns`, `ComesToRest`,
  `InitializationCompletes`; and the findings.

## 8. Not modelled

- Of the parts above: early data and worker shutdown with live streams (ConnPool);
  several types on one stream, on-demand names, xdstp names, the EDS cache, the inside of
  `GrpcMuxFailover` and the shutdown flag (DeltaMux); ADS start, on-demand CDS,
  `avoid_cds_removal_`, the workers' clusters, a load balancer that fails to initialise,
  and pausing of EDS and SDS (ClusterInit).
- The state-of-the-world xDS client and the unified mux, the TCP, HTTP/3 and mixed pools
  and the connectivity grid: siblings of what is modelled.
- Every other component with status `not_modelled` in `PROJECT.json`, with its reason there:
  a candidate for later, pure data transformation, floating point, or I/O.
