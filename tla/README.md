# A TLA+ model of the replicated key-value store

The program is a key-value store in C++: `kvserver` processes, each an HTTP
server over its own PostgreSQL table with an LRU cache in front, and a load
balancer that places keys on them by consistent hashing, replicates every write
to two of them, fails reads over, pings them and recovers the ones that return.
There is no consensus and no version number: what keeps the replicas in step is
the *order* in which threads do things, in the load balancer and inside each
backend, and that order is what the modules here are about.

## 1. Inventory

| Part (source) | State | Operations | Modelled in |
|---|---|---|---|
| `Router` (`load_balancer/src/Router.cpp`) | `backends_`: a status UP / RECOVERING / DOWN per backend, guarded by no mutex | three lookups, three marks, two listings | `Router` |
| `HashRing` (`HashRing.cpp`) | `ring_`: hash -> backend, 50 virtual nodes each, under `ring_mutex_` | `add_node`, `remove_node`, `getNodes` | `HashRing`; as an order in `Router` |
| `ProxySession` (`ProxySession.cpp`) | locals of one thread per client connection | read a request, replicate a write, fail a read over, mark the dead | `ProxySession` (what it decides), `Wire` (what it reads and sends) |
| HTTP parser (`HttpHelper.cpp`) | the bytes read so far | split off a request or a response, `getKey` | `Wire`, `HttpStream`, `KVRoutes` |
| `HealthChecker` (`HealthChecker.cpp`) | locals of the one health thread: copy of the table, current backend | rounds of pings 3 s apart, each given 500 ms to connect; the three marks | `HealthChecker` |
| `RecoveryManager` (`RecoveryManager.cpp`) | locals of `recover()`, which the health thread calls | list keys, choose the owned ones, fetch from a peer (through its cache), sync | `HealthChecker` |
| `LoadBalancer`, `main` (`LoadBalancer.cpp`) | the table it builds at start-up | start, accept, detach a thread per client | `Cluster` (`Init`, `RestartLb`), `Wire` (`acceptClients`) |
| `kvserver` handlers (`kvserver.cpp`) | table `kv_data`, a global `cache`, 300 worker threads | create, read, update, delete, all_keys, sync, health | `KVServer`; under the deployment in `Backends` as a transaction and the cache operations before and after it |
| LRU cache (`kvcache.h`) | list + map of iterators, under one mutex | create, read, update, delete | `LruCache`; as an entry that may be pushed out at any time in `Backends` |
| load generator (`load_gen.cpp`) | an atomic counter shared by its threads, statistics | four workloads, report | `LoadGen` |
| command-line client (`kvclient.cpp`) | none | one request per command | `KVRoutes`, sent by `Wire` |
| cpp-httplib (`httplib.h`) | client: its socket; server: listener, queue of connections, workers | the paths the program takes | `HttpStream`, `HttpClient`, `HttpServer`, `HttpLink` |
| PostgreSQL, libpqxx | row locks, committed rows | - | external, as `KVServer` uses it |

How they interact: a client's bytes reach a `ProxySession` thread, which calls
the `Router` for candidates and opens a TCP connection per backend and request;
it calls `markBackendDown` when one does not answer. The health thread reads
and writes the same `Router`, and through `RecoveryManager` sends HTTP requests
to the same backends. Threads share the `Router` (the status without a lock,
the ring under a mutex) and nothing else. In a backend the listener hands
connections to the workers of a thread pool through a queue; the workers share
the cache and the database. Backends do not know one another.

What is hard here, and what makes each part correct:

* **Marks are two steps.** `markBackendDown/Up/Recovering` first write the
  status, then update the ring; the marks of sessions and of the health thread
  interleave. Correct: the status comes to be what the process is
  (`StatusTold`), and the ring follows it, a live backend on it and a dead one off
  it, unless another thread sets the status between the halves of a mark
  (`BackInService`, `DeadIsEvicted`; without the exception they are false, section 3).
* **Candidates are stale.** A session uses the list it was given while backends
  die, return and are recovered. Correct: a read never returns what a later
  acknowledged write has replaced (`Cluster!ReadsCurrent`).
* **Replication is a loop without a lock** that goes on after an error.
  Correct: replicas agree again once things are quiet (`QuietReplicasAgree`);
  without failures the whole looks like one table, caches and all
  (`ImplementsRegularStore`).
* **The combined answer of a write** prefers any success (`CreateRefusesExisting`).
* **Recovery copies while clients write**, from peers that may fail and through
  their caches, over a ring that may change (`NotLost`), and the backend may die
  during it (`RecoveringOwned`).
* **The ring** wraps around, may hold fewer backends than replicas, and is told
  the same thing twice (`RingHoldsMembers`, `WalkIsRouterOrder`, `OnlyItsKeysMove`).
* **Fills and invalidations of the cache** are steps after the commit, with no
  lock around the two (`KVServer!ReadsCurrent`, `CacheFollowsTable`), and what
  one backend answers from its cache another is recovered from
  (`QuietReplicasAgree`). The handlers must be the transactions and cache
  operations that the deployment takes them for (`HandlersAreTransactions`).
* **The list and the map of the cache** point into one another
  (`ListAndMapAgree`), and the entry to be evicted is the right one
  (`EvictsLeastRecent`).
* **Bytes arrive in any pieces**, several requests in one, from peers that
  vanish (`AnswersInOrder`, `ResultsAreAnswers`, `AnsweredIsOver`); and the key
  the balancer routes by is found by other code than the one the handler uses
  (`RoutedByItsKey`).
* **The thread pool** signals outside its mutex and shuts down with work in the
  queue (`NobodySleepsOnWork`, `ListenEndsClean`), and kept connections hold its
  threads (`CallsReturn`). A request on a kept connection may fail before or
  after its handler ran (`ResultsTellWhatRan`).
* **The counter of the load generator** is read again after others moved it
  (`NumbersAreTakenOnce`, `ReportAddsUp`).

`PROJECT.json` lists every hazard with its line and properties.

## 2. Modules

    Deployment ---- Router ------+-- ProxySession --+
       |   |  \---- Backends ----+-- HealthChecker -+-- Cluster -- MCCluster
       |   |          ^    RegularStore <=============='   \------ ClusterProofs -- CalmProofs
       |   |          : HandlersAreTransactions
       |   +-- LruCache --+-- KVServer --+-- MCServer
       |                  |               \- KVServerProofs
       |                  +-- MCCache, LruCacheProofs
       +------ HashRing (INSTANCE Router) -- HashRingProofs

    HttpStream --+-- HttpClient --+-- Wire -----+- MCWire
    KVRoutes ----+                |             \- WireProofs
                 |                +-- HttpLink -+- MCHttp
                 +-- HttpServer --+             \- HttpProofs
    LoadGen -- LoadGenProofs

There are three levels, and each rests on a property of the one below: the
deployment takes a handler for one transaction with a cache operation before it,
after it or both (`HandlersAreTransactions` of `KVServer`), its ring for an order
(`WalkIsRouterOrder` of `HashRing`), and a request for a call that is answered
once or fails (`ResultsAreAnswers` of `Wire`, `ResultsTellWhatRan` of `HttpLink`).

### The deployment

* **`Deployment`** - nodes, keys, values.
* **`Router`** - `status` is the status field of `backends_`, `onRing` the set of
  backends whose virtual nodes are in `ring_`. `GetNodes(k)` is the first
  `ReplicationFactor` backends on the ring from key `k` in the fixed clockwise
  order `RingRank[k]`; `GetReadBackends` and `GetWriteBackends` filter it by
  status and, like the code, do not go on to a successor. `SetStatus`, `AddNode`,
  `RemoveNode` are the halves of the marks. `lbUp` becomes FALSE when a lookup
  throws (`ThrowNoBackend`).
* **`HashRing`** - `ring` is the map from hashes to backends, `place` any
  placement of the virtual nodes, chosen once: nothing is promised of `std::hash`.
  `GetNodes(h)` is the walk of the code round by round, with `lower_bound`, the
  wrap-around and the two conditions of its loop; `Replicas(h)` is the same
  without a loop. `R == INSTANCE Router` shows that the walk gives the order
  that `Router` assumes. `Collisions = FALSE` leaves out the placements in which
  two virtual nodes have one hash: the later then overwrites the earlier, and
  removing either removes both. With 32-bit hashes that is unlikely, not
  impossible.
* **`Backends`** - `db`, the tables (survive a crash), `cached`, the caches (do
  not), `alive`, and `faults`, the number of calls to a running backend that have
  failed. The transaction of a handler is one step (`Transact`), which may fail
  with the row changed or not; `RowAfter` and `StatusCode` give the row it leaves
  and the status it answers with. `Hit`, `CreateKey` and `DeleteKey` are the
  cache's side, each a step of its own in the modules that send requests, and
  `Evict` lets an entry be pushed out at any time. `Served` says how a call may
  fail although the process runs: the handler's `catch` answers 500, or a ping
  times out.
* **`ProxySession`** - one iteration of the loop of `forwardTraffic`, one action
  per blocking call or half of a mark: `Receive`, `Route`, `Connect`, `Reply`,
  `Broken`, `MarkDownStatus`, `MarkDownRing`, `Respond`. The handler at the
  backend is `ReadCache`, `SelectRow` and `FillCache` for a GET, `CommitWrite`
  and `UpdateCache` for a write; everything else may happen in between.
  `sess[p].pc` says which call the thread is in; the other fields are the loop's
  locals. `ResetConnections(n)` is what a session notices of a crash, before or
  after the handler has committed.
* **`HealthChecker`** - `hc` holds the locals of `run()`, `rm` those of
  `recover()`. `StartRound` copies the table, `Ping` takes any backend of the
  copy that is left (the table is an unordered map) and may fail for one that
  runs, and each visit then runs through its marks and, in between, `recover()`:
  `ListOnline`, `FetchAllKeys`, `PickKey`, `CheckOwner`; the peer's `handle_read`
  as `FetchCached`, `FetchRow`, `FetchFill`; `NoSource`; `handle_sync` as
  `SyncValue`, `SyncForget`; `EndRecover`. `MarkUpStatus` is unconditional, as in
  the code.
* **`Cluster`** - all of it with clients, crashes, restarts and a restart of the
  load balancer; every step of every thread interleaves. It holds the
  properties, and two history variables: `legal[k]` is the set of values a
  client may be given for `k` by what clients have been told (a write adds its
  value when it is routed; when it is acknowledged its value becomes the only
  one; one that fails may or may not have taken effect), and `seen[p]` collects
  `legal` over the time of the request of `p`. They are meaningful for one
  writing client; with more (run `regular`) the refinement says what holds.
* **`RegularStore`** - the abstract specification: one table, in which PUTs take
  effect one after the other, each between its call and its answer. A GET answers
  what the table holds or what it was last *seen* to hold, and a PUT is answered
  only after it has been seen. Each key is thus a regular register. It is not an
  atomic one: between the commit of a PUT and the `delete_key` that follows, one
  GET may have missed the cache and answer the new value from the row, and a
  later one be answered the old value by the entry that another read had made.

### One backend

* **`LruCache`** - `cache_list` is the list as the memory cells of its nodes,
  `cell` their contents, `cache_map` the iterators. A freed cell is used again,
  so an iterator left behind denotes another key's entry, as it would in memory.
  Every method holds the mutex throughout and is one step. **`MCCache`** adds
  `recent`, the order of last use.
* **`KVServer`** - several worker threads run the handlers statement by
  statement: `CacheLookup`, `GetConnection`, the SQL statement (`InsertRow`,
  `UpsertRow`, `ChangeRow`, `SelectRow`, `SelectKeys`, which wait for a row lock),
  `CommitRow`, and the operation on the cache (`Fill`, `Invalidate`). Between any
  two, other threads run. Each call to the database may throw (`Throw`), a
  connection is refused beyond `MaxConnections`, and the process may die and
  start again with an empty cache (`Crash`). `B == INSTANCE Backends` states that
  a handler decides and changes its row as `Backends` has its transaction do, a
  GET on the entry or on the row, and that entries come and go as there.

### The wire

* **`HttpStream`** - TCP connections with their two ends, listen backlog and
  what is under way in each direction. A message is on the wire a start line,
  its headers and the chunks of its body; it arrives in any parts if `Split`.
* **`KVRoutes`** - the routes of `main`, the key that `getKey` finds, the key a
  handler takes, and the request of each command of the client. A text is a
  sequence of pieces, each a run of characters that `\w` matches or one other
  character, so that `foo-bar`, `a?b` and `a/b` are three pieces each: `(\w+)`
  matches one word piece only, and the server cuts a target at `?` or `#` before
  it matches, which `getKey` does not. Escapes (`%61`) are left out.
* **`HttpClient`** - a call of `httplib::Client` from `Get`, `Post`, `Put` or
  `Delete` to the `Result`: look at the socket it still has, connect, write the
  head and the body, read the response line, headers and body, close or keep.
* **`HttpServer`** - the loop of `listen_internal`, `ThreadPool::enqueue`, `shutdown` and the
  workers with the mutex, the condition variable and its spurious wakeups; a
  worker serves a connection with keep-alive and its limits, answers 400, 404 or
  what the handler answers (written 200, whatever status it chose).
* **`HttpLink`** - clients and one server. **`Wire`** - clients of `httplib` or
  one that pipelines (`raw`), the load balancer and backends that may die.
  `recv_request` parses and erases what it consumed, `recv_response` collects a
  response, the candidate loops of reads and writes follow, with both texts of
  503. The candidates are *any* list that `Router` could return, empty or not.
* **`LoadGen`** - `main` and the worker threads of the load generator.

`MC...` modules are the finite instances, `...Proofs` the proofs.

Operators with a `\* bug:` comment (`ReadsFromAnyReplica`, `LeaveIfDead`, ...)
are plausible wrong versions of the definition that follows them. Nothing uses
them; substituted for it, they make the property that `PROJECT.json` pairs
them with fail, which shows that the property notices such a bug.

### What the steps abstract

* A lookup is `Receive` (the test that the ring is not empty, under its own
  lock) and `Route`. The walk holds the mutex of the ring; the statuses are then
  read one by one without it (`Router.cpp:34`, `:56`), and `Route` takes both at
  one moment: a mark that falls between them is not modelled. The copy of the
  table in `getAllBackends` and `getOnlineBackends` is one step. The unguarded
  accesses to `backends_` are data races; they are taken to read and write whole
  values, as aligned enums do on the supported machines.
* Backends crash by stopping; connections to them are then refused or reset. A
  backend that hangs without closing its sockets is not modelled: the session
  has no timeout and would wait for it.
* After some of its 503s the session closes the client's connection. Clients
  reconnect, so `Fresh` in `ProxySession` stands for both; `Wire` has the real ends.
* A restart of the load balancer drops requests that no handler has begun. A
  handler that has changed a row deletes its entry all the same; one that was to
  create an entry is taken not to.
* The caches of `Backends` have no order and no capacity: an entry may go at any
  time (`Evict`), whatever the other keys are. Which one goes is the business of
  `LruCache`.
* The worker threads of the load generator each compute an end time when they
  start (`load_gen.cpp:34`); `LoadGen` has one clock for all.
* The database is taken by what the handlers rely on under READ COMMITTED: a
  changed row is locked until the transaction ends, a second insert of a key
  waits and then fails, a commit is one moment. `allkeys` reads one snapshot,
  which no property here looks into.
* Lines and headers are whole tokens: where a token is cut makes no difference
  to any reader, which looks for the end of it. A body is as many chunks as the
  properties tell apart: none, one, and one that is announced and missing. The
  503 that announces 21 bytes and sends 23 leaves two chunks behind.
* A response without `Content-Length` counts as complete for the load balancer
  when its headers are (`HttpHelper.cpp:181`). `kvserver` always sends the
  header, so `Wire` has no such response.

## 3. The environment, named

Many of the promises hold only while the environment behaves. Rather than hide
that, `Cluster` and `KVServer` name each disturbance in the constant `Adversity`;
an element left out of it is an assumption of the run.

For `Cluster`:

| Element | Without it | What happens with it |
|---|---|---|
| `"cut write"` | no backend crashes while a write is connected to it | The write path marks DOWN only the backends it cannot connect to. One that crashes after the connection was made and is back before the next ping has missed an acknowledged write and still serves reads: `ReadsCurrent` fails. |
| `"late fill"` | no backend commits a change of a row that another handler has read and not yet put into the cache | The old value is cached after the invalidation, and reads of that backend are stale until the next write of the key: `ReadsCurrent` fails with one writer and no crash, `ImplementsRegularStore` with two clients. A recovery that fetches the key through that cache copies the old value: `QuietReplicasAgree` and `SyncKeepsNewer` fail, and after a second outage, one at a time, `NotLost`. |
| `"late mark"` | no session is between finding a backend dead and the end of its mark while a recovery runs | The second half of a session's `markBackendDown` takes a backend off the ring in the middle of its recovery, which then finds nothing to copy; it is marked UP with old rows: `ReadsCurrent` fails. It can also end UP and off the ring for good, or, when it dies in its recovery and the session's mark falls between the two halves of `markBackendUp`, DOWN and on the ring for good: `RingTold` fails. |
| `"write in recovery"` | no write is under way during a recovery | `/kvstore/sync` overwrites a newer value: `SyncKeepsNewer` fails. |
| `"create in outage"` | creates only while all backends are UP | A create of an existing key is answered 201 when a successor that lacks it stands in for a dead replica: `CreateRefusesExisting` fails. |
| `"delete in outage"` | deletes only while all backends are UP | Deleted rows come back: `ReadsCurrent` fails. |
| `"second outage"` | a backend crashes only when every other has been recovered | Run `v_lost_write`. When every backend is DOWN, the next lookup ends the process where a 503 is promised: `BalancerSurvives` fails. |
| `"lb restart"` | the load balancer is not restarted | It takes every backend for UP, also one that has missed writes, and reads are stale. |

Nothing in the code prevents any of them, and `progress` has them all. To see one
that has no run of its own, change a configuration and check only the property
named:

* `ReadsCurrent`, `QuietReplicasAgree`, `NotLost`, `CreateRefusesExisting`:
  `calm.cfg` without its symmetry, with the element in `Adversity` and only the
  operations that it needs (`get`, `put`; and `create` or `delete` for the
  elements that speak of them).
* `SyncKeepsNewer` (as a PROPERTY): the same with two backends and one crash;
  `"write in recovery"` or `"late fill"`.
* `RingTold` (as a PROPERTY): `progress.cfg` with `MaxFaults = 0`, a client that
  only reads (`Writers = {}`, `OpsAllowed = {"get"}`) and `"late mark"`, with
  `MaxCrashes = 1`; for the dead backend on the ring `MaxCrashes = 2`,
  `"second outage"` in addition, and the second conjunct alone.
* `BalancerSurvives`: `v_lost_write.cfg` with `OpsAllowed = {"get"}`.
* `ImplementsRegularStore`: `regular.cfg` with `"late fill"`.

`SyncKeepsNewer`, `RingTold` and `BalancerSurvives` are kept in `Cluster` for that.

Three more assumptions are constants. `Writers`: two writing clients make the
replicas disagree (`v_two_writers`). `MaxFaults = 0`: a handler that answers 500
on one replica while the other answers 200 leaves an acknowledged write on one
replica only, with both UP, so that `QuietReplicasAgree` fails without a crash and
`ReadsCurrent` with one; a ping of a live backend that times out is such a fault
too, and makes an outage of it. `EmptyValue \notin Values`: `fetchValueFromPeer`
cannot tell an empty value from a failure, and recovery skips the key.

For `KVServer`:

| Element | Without it | What happens with it |
|---|---|---|
| `"late fill"` | no commit on a key whose entry another thread is about to create | As above: run `v_stale_cache`, where the fill is that of a read or that of a create after its commit. |
| `"late invalidation"` | no create commits a key that another thread has changed and not yet invalidated | The create is acknowledged while the old value is still cached, as `create_key` leaves an entry that is there; until the other thread invalidates it, `ReadsCurrent` fails. |
| `"commit in doubt"` | `commit()` throws only when the database has not committed | The client is told 500, the row is changed and the entry stays: `CacheFollowsTable` and `HandlersAreTransactions` fail. |

Each is seen in `server.cfg` with the element in `Adversity`, checking only the
property named. With `MaxConnections = 1` the same configuration meets the
refusals of the database; all of its properties hold.

So `calm`, `regular` and `server` read: *these properties hold when the assumptions hold*.

## 4. Runs

| Run | Instance | What it asks | Result |
|---|---|---|---|
| `calm` | 3 backends with caches, 1 writing and 1 reading client, all operations, 2 values, 2 crashes, no adversity | `ReadsCurrent`, `NotLost`, `QuietReplicasAgree`, `CreateRefusesExisting` | holds, 2.1 million states |
| `progress` | 2 backends, 1 client, GET and PUT, 2 crashes or restarts of the load balancer, 1 failed call, every adversity, fair threads | `TypeOK`, `RecoveringOwned`, `Answered`, `StatusTold`, `BackInService`, `DeadIsEvicted` | holds, 555 thousand (about 2.5 minutes) |
| `regular` | 3 backends with caches, 2 writing clients, GET and PUT, 3 values, no failure, no late fill | `ImplementsRegularStore` | holds, 444 thousand |
| `ring` | 3 backends with 2 virtual nodes each, every placement on 7 hashes | `RingHoldsMembers`, `WalkIsRouterOrder`, `OnlyItsKeysMove` | holds, 40 thousand |
| `cache` | 4 keys, 2 values, capacity 3, 3 cells | `ListAndMapAgree`, `EvictsLeastRecent` | holds, 3 thousand |
| `server` | 2 threads, 2 keys, capacity 1, 2 connections, 1 failure or crash, no adversity, fair threads | `TypeOK`, `ReadsCurrent`, `CacheFollowsTable`, `HandlersAreTransactions`, `Answered` | holds, 376 thousand |
| `http` | 2 clients, one kept alive with 2 calls; 1 worker, 2 connections, 2 requests per connection | `ResultsTellWhatRan`, `NobodySleepsOnWork`, `ListenEndsClean`, `CallsReturn` | holds, 281 thousand |
| `wire` | a client with 2 calls, one key a word and one `foo-bar`, or one that pipelines 2 requests; 2 backends, streams cut anywhere | `ResultsAreAnswers`, `AnswersInOrder`, `RoutedByItsKey`, `AnsweredIsOver`, `CallsReturn` | holds, 527 thousand |
| `load` | 2 threads with 3 requests each, 2 popular keys, the four workloads | `NumbersAreTakenOnce`, `ReportAddsUp`, `RunEnds` | holds, 10 thousand |
| `v_lost_write` | 2 backends, 2 crashes | `NotLost` | violated |
| `v_two_writers` | 3 backends, no crash | `QuietReplicasAgree` | violated |
| `v_stale_cache` | as `server`, with late fills | `ReadsCurrent` | violated |

**Bounds, and why they are enough.**

* *Deployment.* Three backends with two replicas per key is the deployment of the
  source, and the least in which a successor stands in for a dead replica. One
  key: keys meet only in the ring and in `recover()`, which works on them one
  after the other. Two values tell an old one from a new one; each is sent by
  one write at most, so that stale values are recognised. An entry of the cache
  is there or pushed out at any moment, which stands for other keys. Two crashes give a
  crash during or after a recovery, and with two backends they empty the ring,
  so that `ThrowNoBackend` is reached in `progress`; the failed call there is any of
  a transaction, a fetch, a key list or a ping of a live backend. A restart of the load
  balancer counts against `MaxCrashes`. `ValueSymmetry` is used in `calm` only,
  where no liveness is checked: values are stored, copied and compared, and
  `EmptyValue` is left out of the permutations.
* *Ring.* Three backends are one more than the replication factor, two virtual
  nodes let them alternate in every way, and seven hashes are one more than
  there are virtual nodes, so there is a hash before, between and after them.
* *Cache.* Four keys at a capacity of three: eviction, with an entry before,
  behind and between others; three cells make every insertion at capacity use a
  freed one.
* *Backend.* Two threads meet on one row; a second key takes its place in a cache
  of one entry. An empty value is among those written, as the cache cannot tell
  it from a miss. A connection for every thread leaves refusals to the failure
  bound (`GetConnection` refuses when none is left).
* *HTTP.* One worker and two connections make one wait in the queue while the
  other is kept alive; two requests per connection reach its limit. One client
  asks for a path that has no route.
* *Wire.* Two candidates: one that fails and one that answers; the empty list
  gives the 503. Each side has two connections, so that one may be refused while
  another ends.

**Deadlock** is checked in `calm`, `regular`, `ring`, `cache`, `server`,
`v_two_writers` and `v_stale_cache`. It is off in `progress` and `v_lost_write`
(after the load balancer has ended on an exception, with no restart left, nothing
need happen) and in `http`, `wire` and `load`, where the clients have made their
calls, or the program has printed its report and ended.

**Fairness.** Threads are operating-system threads under a preemptive scheduler,
and weak fairness of a whole thread is enough because it has one program counter.

* `Cluster!FairSpec`: each session thread and the health thread; in the model
  every call they block in returns, with an answer or a refused or reset
  connection. Clients, crashes, restarts and database failures have none.
  `StatusTold`, `BackInService` and `DeadIsEvicted` are about a backend that is
  alive, or dead, from some time on, under a load balancer that stays up. The
  handlers of a session's request are steps of `Proxy(p)`, the threads of a
  running backend being as fair as those of the load balancer.
* `KVServer!FairSpec`: *strong* fairness of each worker, because one that waits
  for a row lock is enabled again and again only; the database grants locks
  in turn.
* `HttpLink!FairSpec`: each client in a call, the listener, each worker, with the
  keep-alive and read timeouts of the server as steps of its worker, since they
  do expire. The read timeout of a client and spurious wakeups have none: no
  liveness property relies on them. `Wire!FairSpec` is alike, for the sessions and
  the backends.
* `LoadGen!FairSpec`: the threads run, a call returns (`CallsReturn`), time passes.

**Where the code and its documentation part** is told in full under `findings`
in `PROJECT.json`:

1. `v_lost_write` - when the two replicas fail one after the other, the older
   one may be recovered first and then overwrite the last copy of a write.
2. `v_two_writers` - two concurrent writers leave the replicas different for good.
3. `v_stale_cache` - a fill that is overtaken by an invalidation leaves a stale
   value in the cache.

Other disagreements are in the model and shown by the changes that section 3
names: a live backend UP and off the ring, or a dead one on it (README.md:201 and
:202 of the repository promise both: `RingTold`); the end of the process where a
503 is promised (README.md:204: `BalancerSurvives`); a sync that overwrites a newer
value (README.md:75 and :98: `SyncKeepsNewer`); a commit in doubt after which the
cache keeps the old entry (README.md:81 and :101: `CacheFollowsTable`).

Two concern keys and are seen in `wire.cfg` with `SPECIFICATION Spec` and one
property:

* an update of a key `create` is routed by the first word of its value, for
  `getKey` does not look at the method, so that its own replicas are not told of
  it (`Requests <- UpdateOfCreate`, `RoutedByItsKey`);
* a key that is not one word, such as `foo-bar`, can be created but then neither
  read, updated, deleted nor recovered, since no other route matches it
  (`Requests <- CreateOfNoWord`, `CreatedIsReadable`).

Smaller things, each in the model: a key `allkeys` cannot be read, as its route
comes first; the load balancer sends the body of a 503 with two bytes more than
announced, which an httplib client on a kept connection reports as a failed
call; and a client that pauses for more than five seconds within a request on a
kept connection is answered 400, the rest of its request being parsed as a new
one (`SlowWriters`, left out of `http` since no client of this program does so).

The keys of the deployment (`Deployment!Keys`) are those for which none of this
happens: one word each, and neither `allkeys` nor `create`.

## 5. Proofs

Every theorem is for every value of the constants, from the named assumptions on
them and nothing else.

**`ClusterProofs`**, for every number of backends, keys, values, sessions,
crashes and faults, and for *every* `Adversity`:

* `TypeCorrect`: `Spec => []TypeOK`;
* `RecoveringIsOwned`: `Spec => []RecoveringOwned`. A backend that is RECOVERING
  is the one whose recovery the health thread is running. The interest is that
  the status is written by every session as well, without a lock, and that the
  health thread works from an old copy of the table: no interleaving of the two
  leaves a backend in the state in which it takes writes but no reads and which
  no later ping would end (`Ping` acts only on a copied DOWN, or on a dead backend).

The inductive invariant is

    IInv == TypeOK /\ SessionInv /\ RecoveryInv /\ CheckerInv /\ RecoveringOwned

`TypeOK` alone is not inductive: `MarkDownStatus` writes `status[sess[p].cur]`
and needs `cur` to be a backend there, which its type (`Nodes \union {None}`)
does not say. `SessionInv` and `RecoveryInv` say which locals are set at which
pc; `CheckerInv` says that `recover()` runs inside the visit it belongs to,
without which `MarkUpStatus` could be taken for one backend with the recovery of
another. There is a lemma per component with a step per action, a lemma per
disjunct of `Next`, frame lemmas for the parts a step leaves alone, and
`Inductive` on top.

**`ClusterProofs`**, second half, for any number of backends, replicas, keys,
values and clients, with `MaxCrashes = 0`, `MaxFaults = 0` and clients that GET
and PUT:

* `ReplicasAreOneTable`: `ImplementsRegularStore`, the refinement of
  `RegularStore`, if `"late fill"` is not in `Adversity`. A row of the one table is
  the row of its key's primary replica, what was last seen of it is what that
  replica's cache shows (`Shown`), and a PUT takes effect when that replica has
  committed it and is seen when its entry is deleted. `FillInv` keeps what a
  handler is about to cache equal to the row; this is what a late fill breaks.
  What makes this right is that every session serves the replicas in one order,
  which the inductive `OrderInv` states (`InOrder`): until a request has met the primary it
  has no answer yet, afterwards it cannot meet it again. The health thread is in
  the way, with its copies of the table, and `NoOutage` says that it never finds
  anything to mark. `CallStep` lists what a step of a session may be in terms of
  the abstract specification, and there is a lemma per action that it is one of
  these.

  That there *is* a primary is a minimum over a set of ranks. The induction
  theorems of the library take an operator as a parameter, which the provers
  cannot instantiate; `LeastNatural` therefore gets the least element of a set of
  naturals from the theorem that strict inclusion among finite sets is
  well-founded (`FS_StrictSubsetOrderingWellFounded`): the initial segment up to
  it is the smallest one that meets the set. The other proofs that would be
  inductions take a least counterexample in the same way.

**`CalmProofs`**, for any number of backends, replicas, keys, values, readers,
crashes and recoveries, under the assumption `CalmEnvironment`, which is the
environment of the run `calm`: no element of `Adversity`, so that the next crash
comes when the last outage has been dealt with, and no fill is late; no handler
or ping of a live backend fails; one client writes. Also assumed are at least two backends and two replicas (with one of
either an outage takes the only copy away; the code always asks for 2), and that
the empty value is not written (`recover()` takes a peer that answers an empty
body for one that has no row). Section 3 shows what each of these rules out.

* `CalmReadsCurrent`: `ReadsCurrent`;
* `CalmNotLost`: `NotLost`;
* `CalmReplicasAgree`: `QuietReplicasAgree`.

The inductive invariant `CalmInv == OutageInv /\ DataInv /\ CacheInv /\ CopyInv`
stands on `ClusterProofs!IInv` and on one notion: the *home* of a key, the replicas it has
while every backend is on the ring.

- `OutageInv` follows one outage. A backend is `Troubled` from its crash until
  the last thread has done with its being down, and that includes a session that
  is about to mark it on the strength of a connection that failed long ago and a
  health thread whose copy of the table is old. There is never more than one
  (`OneOutage`). While a key's ring has a stand-in for a replica that is out, a
  read may have the stand-in, which has no row, among its candidates; it never
  gets there, because the candidate before it answers (`ReadAtHome`).
- `DataInv` says what the replicas at home hold: the same row, except for the
  replica in trouble and what the write under way has not reached (`RowsOK`,
  `WriteOK`), and that what a read under way has collected stays good (`ReadOK`).
- `CacheInv` says that an entry is what the row is, unless the handler that has
  changed the row is about to delete it (`EntryOK`), and that what a handler is
  about to put into a cache is what the row is (`FillOK`). So recovery, which is
  given values from the caches of peers, copies what their tables hold: a write
  that is about to delete an entry is under way, and none is in a recovery.
  `FillOK` is kept because no element of `Adversity` is there, that is no late
  fill, and it is false in the program without that assumption.
- `CopyInv` says what is left to be copied: where a row of the recovering backend
  differs from that of its peers, the key is still on the list of `recover()`, or
  is the one being fetched, or a write under way will bring it (`ToCopy`).

The four depend on each other: `OutageInv` alone says nothing of values,
`DataInv` is not preserved by `MarkUpStatus` without `CopyInv`, nor by `SyncValue`
without `CacheInv`. TLC checked each of them on the instance of `calm` before
they were proved. Most steps leave rows, pending writes and services alone; one lemma (`StillData`)
covers those, and the others (`Route`, the steps of a handler, `Respond`,
`MarkUpStatus`, `SyncValue`) have theirs.

What holds of creates (`CreateRefusesExisting`) is model-checked only: in this
environment they meet whole rings, where both replicas hold the same row.

**`LruCacheProofs`**, for every capacity and any number of keys:

* `LruCacheSafe`: `LruSpec => []ListAndMapAgree`. With the type, the property is
  inductive. The work is in what taking an element out of a list, putting one in
  front and dropping the last do to its elements and its length (`WithoutOne`,
  `FrontElements`, `PrependElements`), proved first;
* `OldestIsEvicted`: `UseSpec => []EvictsLeastRecent`. The inductive `UseInv` has
  the list and the order of use in step, entry by entry (`InStep`). A cached key
  is at the same place in both (`CachedPlace`), and one that is not cached comes
  in the order after all that are (`TakenFromOrder`): this is where it is used
  that no entry is lost.

**`KVServerProofs`**, for any number of threads, keys, values and failures:

* `ServerCacheSafe`: the same for the cache under all handlers;
* `OneStepHandlers`: `HandlersAreTransactions`, if no commit is in doubt, for any
  number of threads and connections. A GET is compared as well: it decides on the
  entry or on the row, and fills the cache with what it read. The
  inductive `ServerInv` says which locals are set at which call of a handler;
  `StepDecides` goes through the handlers and compares with `Backends`;
* `NothingStaleStays`: `CacheFollowsTable`, without late fills and commits in
  doubt. It needs that a thread about to fill has the value of the row
  (`FillsCurrent`), which a commit of another thread would break and which the
  absence of `"late fill"` forbids. That late invalidations do no harm to this
  property is part of the result;
* `ServerTypes`: `TypeOK`, for every `Adversity`;
* `ReadsAreCurrent`: `ReadsCurrent`, without late fills, late invalidations and
  commits in doubt: exactly the elements that section 3 shows to break it. The
  inductive `ReadInv` has two parts. `KeyOK`: the row of every key, and the entry
  cached for it, may be given to a read that starts now. `HistoryOK`: for every
  request under way the same of the values collected for it (`since`), so that
  the acknowledgement of a write, which makes older values illegal, leaves the
  row and the entry legal. `Spec` includes any number of restarts of the process
  up to the bound, with the cache lost and the table kept.

**`HashRingProofs`**, for any number of backends, virtual nodes and hashes,
without collisions:

* `RingIsExact`: `RingHoldsMembers`, by induction on the calls;
* `KeysMoveMinimally`: `OnlyItsKeysMove`. `Near` orders the backends by the
  distance of their nearest virtual node; a replica is a member with fewer than
  `ReplicationFactor` nearer ones (`ReplicasAreNearest`), and a step that adds a
  backend can only raise that number, one that removes it only lower it by one
  (`FewerNearer`, `OneMore`);
* `WalkIsRight`: `WalkIsRouterOrder`. The walk is a recursive function of its
  rounds. `WalkExists` and `WalkUnique` make its definition usable (`WalkIsLoop`);
  the loop invariant `Passed` says that after n rounds the n virtual nodes
  nearest to the key, clockwise, have been passed, and that the list has their
  backends in order of nearness (`WalkPasses`); `WalkEnds` bounds the rounds by
  one turn; `RankIsNear` and `WalkFollowsRouter` compare with `Router`.

**`HttpProofs`**, for any number of workers, but at least one, and of clients,
connections and requests:

* `NoLostWakeup`: `NobodySleepsOnWork`. The listener signals outside the mutex,
  wakeups may be spurious, and `shutdown` wakes everybody;
* `ShutdownDrains`: `ListenEndsClean`;
* `ResultsAreTold`: `ResultsTellWhatRan`, under the hypothesis `~SlowWriters`.

The first two follow from the inductive `HttpInv`, whose heart is ownership: an accepted
connection that is open is held by the listener, by the queue or by a busy
worker (`NothingDropped`), and a worker that has left saw an empty queue after
the shutdown (`LeftOnEmpty`). With no worker the queue would never be emptied,
hence `Workers # {}`; `kvserver` runs 300.

`ResultsAreTold` is about exactly what a caller may conclude from a `Result`, and
an HTTP message carries nothing that ties an answer to its request; the `id` is
there to state the property. The invariant follows requests and answers through
buffers and sockets, with closing, the loss of what was sent when a socket is
closed on unread data, and the kill of the process anywhere between two steps.
It is `ToldInv`, of which

- `Shape` says who holds which socket, on the clients' side and on the server's,
  and that what a thread works on is whole;
- `LinkOK` says what a connection may hold: the request of the call (`Up`, in the
  socket and in a worker's buffer) and answers to it (`Down`), or nothing. A
  client that keeps its connection needs more (`InTurn`): while any of its request is
  unread there is no answer, and an answer is one whole message from its start,
  so that nothing is left over for the next call to take for its own
  (`ReturnClears`). A connection for one call may be in a worse state: a worker
  that gave up on a request may answer 400 once more when the rest of it comes;
- `RunsOnce` says that a request of which any part is still unread has not been
  run and is on one connection only, and that the handler of a request that was
  not sent has not run. Between the head and the body of a request nothing of it
  need be anywhere (`BodyAhead`);
- `AnswersTell` says that a response of kind 200, wherever it is - with a worker,
  in a socket, in a client's buffer or in a `Result` - means that the handler has
  run once, any other that it has not, and that the request cannot start anew.

A step that runs no handler and makes no new answer keeps the last two if it adds
nothing to what the server may read (`ReachesLess`), or the request of the call
under way (`ClientWrites`); dispatching is the one step that moves a request from
the one to the other (`DispatchTurn`), and it is the one that needs a request to be
read to its end (`WholeRequest`). `HttpLinkAssumption` only says that `ran` has a
counter for every request and that `None` is no connection.

`~SlowWriters` says that no client pauses for five seconds within a request on a
connection that it keeps, as no client of this program does; it is the setting of
the run `http`. After such a pause the worker answers 400 and takes the rest of
the request for the start of the next one, so that two requests run into each
other on the connection, which `InTurn` excludes. What a `Result` tells in that case
is not proved.

**`LoadGenProofs`**, for any number of threads, requests and popular keys:

* `NumbersOnce`: `NumbersAreTakenOnce`. In the inductive `NumberInv` a thread
  that holds a number is the only one to hold it, and a thread of `get_put` that
  looks at the counter a second time has made at least one key before
  (`CreatedBefore`), so `counter - 1` is a number that was taken, however far
  the others have moved the counter in between;
* `ReportIsRight`: `ReportAddsUp`. `Sum` over any finite set of threads is shown
  to exist, to be the sum of the report (`TotalIsSum`) and not to depend on the
  order of its terms (`SumWithout`). `CountInv` adds to `NumberInv` that a thread
  outside a request has counted each as a success or a failure (`Counted`), that
  the requests that have chosen a key add up to the counter where each takes one
  (`OneEach`), and that a number taken is used or still held (`NoneSkipped`).

**`WireProofs`**, for any number of clients, connections, backends, requests
and calls, any cuts of the byte streams, any candidate lists and any moment at
which a backend dies or a client gives up:

* `AnswersAreRight`: `ResultsAreAnswers`;
* `AnsweredMeansOver`: `AnsweredIsOver`, as an action property;
* `CommandsAreRouted`: `RoutedByItsKey`, under the hypothesis that the clients
  ask what `kvclient` asks (`CommandLines`), about keys of any pieces but `?` and
  `#`, and other than an update of a key `create`, for which it is false (section
  4). A key with `?` or `#` is cut by the server and not by the load balancer. A
  key that is not one word finds no handler, or only that of a create, and the
  property says that this is the only way to a 404 without a handler;
* `PipelinedInOrder`: `AnswersInOrder`, for any number of requests sent without
  waiting.

`WireAssumption` says of the constants that a candidate list names no backend
twice, which is what `getNodes` returns (`WalkIsRight`), that every key that is
asked for has candidate lists (one of which may be empty), that there is a
connection, and that `None` is neither a connection nor a backend.

Nothing in the code ties an answer to its request but the order on one
connection: the protocol carries no identifier, and the sessions match nothing.
The `id` of a message is there to state the property; no action looks at it. So
the invariant has to follow every request, and every part of an answer, through
the buffers and the sockets. It is
`WireInv == Shape /\ UpInv /\ BackInv /\ AnswersServed`:

- `Shape`: types, who holds which socket (`OneOwner`), and that a session at work
  has its request whole at the front of its buffer (`FirstIs`).
- `UpInv`, on the clients' side: what is on its way to the balancer, or in a
  session's buffer, has been sent and is nowhere twice (`UpOnce`, `OneSession`);
  a client has on its connection its request *or* the answer to it, or nothing
  (`Exchange`); and a request that has been answered is in no session's buffer
  (`AnsweredIsGone`). Here it matters that `relay` erases what was consumed
  before anything else is read, and that a client that gives up closes its socket.
- `BackInv`, towards the backends: a backend works on a request, or has it in its
  receive buffer, only while a session waits for it (`NotAbandoned`); what that
  session hears is the answer to its request (`AnswerOK`); and a backend has begun
  with a request only if the session that has it has passed that candidate
  (`TouchedInTurn`), whence `DoneOnce`. This is where closing the socket between
  two candidates is used, and that a list has no repetition.
- `AnswersServed`: what is on its way to a client, or read by it, was given by a
  backend to a request with that id, or is the 503.

Each part is shown for the steps of the clients, the sessions, the backends and
the client that does not wait, from what such a step does to the sockets
(`WriteDoes`, `RecvDoes`, `CloseDoes`) and to the set of start lines in a buffer
(`JoinedLines`, `CutLines`, `WholeLines`). A step counts as one that sends
nothing new (`NoFresh`) or puts one new request on one connection (`FreshAt`);
that is all that the other side needs to know of it. `CommandsAreRouted` adds
that a session's request is one of a client's (`Kept`), and goes through the
seven routes.

For `PipelinedInOrder` the connection of the client that does not wait is read as
two queues: what comes back (`Downs`, in the socket and in the client's buffer)
and what goes out (`Ups`, in the session's buffer and in the socket). `InTurn`
says that the n-th start line in `Downs` has number n, and that, as long as the
session will answer, the lines in `Ups` are the requests with the numbers above,
in order and whole. An answer takes its number off the front of `Ups` and adds
it to `Downs`: that is one step for the invariant, since `relay` is. Only a step
of that session, or of that client, touches either queue (`LinkStepElsewhere`).

Every safety property of the passing runs but `CreateRefusesExisting` is thus a
theorem, under the hypotheses named with it. Only model-checked is liveness:
`Answered`, `StatusTold`, `BackInService`, `DeadIsEvicted`, `CallsReturn`, `RunEnds`.
Liveness under fairness and what `ENABLED` means are out of the prover's reach, and so is induction over a predicate, for
which least counterexamples stand in above. What the theorems on `Cluster` leave
to TLC besides is the environment outside `CalmEnvironment`: `progress` runs in
it, the `v_` runs and section 3 show what breaks.

## 6. Plan

The modules of the first plan are written, and so are the proofs of the second;
the caches are under the deployment, in `ReadsCurrent`, `NotLost` and
`QuietReplicasAgree` and in their proofs. What would come next:

1. What is left of `ReadsCurrent` with late fills: a read is stale only from a
   backend at which a fill was overtaken and the key not written since.
2. `Router.Route` in the steps of the code, with marks between the walk and the
   status filter.
3. `ResultsTellWhatRan` with `SlowWriters`, where two requests may share a
   connection's bytes.

## 7. Not modelled

* Of cpp-httplib, all that the program does not use: TLS, proxies,
  redirects, multipart forms, compression, chunked and ranged bodies, mounted
  files, `Server::stop`. Name resolution is taken for granted.
* SIGPIPE in the load balancer, which does not ignore it: a second write to a
  connection that was reset would end the process.
* A backend that accepts connections and never answers.
* A failure of `socket()`, `bind()` or `listen()`, upon which programs exit.
* Latencies, the CSV file and the audit log; logging; the benchmark results
  and the build files.
* Escapes in a key (`%61`), which the server decodes and the load balancer does not.
* `Router::removeBackend`, which nothing calls.
