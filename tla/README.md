# QMTL: a TLA+ model of the DAG Manager and its SDK

QMTL runs trading strategies as DAGs of data nodes. A strategy is written with the
SDK, submitted through the Gateway, and kept and executed by the DAG Manager, which
stores nodes in Neo4j and queues work in Redis. These modules model the parts in
which order, interleaving or failure matters; `PROJECT.json` lists every component,
run, theorem, finding and hazard, and maps each definition to the lines it models.

## 1. The system

Paths are below `src/src/qmtl/`. "Hard" names what a test would hardly reach.

| Component | State | Operations and interactions | Hard | Correct when |
|---|---|---|---|---|
| Work queue, `dag_manager/core` | Redis: work list, processing list, results hash with a time to live; node statuses | `get_ready_nodes` selects from a status map; `enqueue_ready_nodes` pushes and marks READY; workers `pop` (BRPOPLPUSH), execute, `complete_node` (status, LREM, HSET, EXPIRE) | stale ready lists, duplicate pushes, two workers on one node, crash between any two commands | nodes run after their upstreams; nothing pushed is lost; every completed node gets its result |
| Connection pool, `common/db/connection_pool.py` | one instance: list of idle clients, semaphore, lock, flags | `get_client`, `release_client`, `client()`, `close_all`; used by API dependencies, GC service | re-initialisation while in use, requests that never release, failing constructor or close | at most `max_size` clients; a client has one user; nobody waits for ever |
| Topological sort, `core/graph_builder.py`, `sdk/pipeline.py` | marks, order, call stack | recursive depth-first visit; used by the work queue and the engines | shared dependencies against cycles, unknown ids, iteration order | the order respects the dependencies; errors are reported only for cause |
| DAG service, `dag_manager/strategy/dag_service.py` | nodes, adjacency lists both ways, `verified` | `add_node`, `build_dag`, `verify_acyclic`, Kahn's sort, roots and leaves | cached verification, re-added nodes, unknown ids, in-degrees counted from lists | the order respects the declared dependencies |
| Node registry, `registry/services/node` | nodes, CONTAINS and DEPENDS_ON relations, statuses (Neo4j or memory) | creation, deletion, relations, reference counts, ready nodes | check-then-create in two transactions, what a deletion leaves behind | both maps of the relation agree; one vertex per id |
| Registry API and callbacks, `registry/api.py`, `api_callback.py`, `registry_client.py` | callback lists; requests under way | FastAPI handlers over the services above; each request takes pool clients; `unregister_callback` runs in a worker thread | late requests, callers that gave up, a list replaced by an older one | what a caller was told of lasts until somebody asks for the opposite |
| Garbage collection, `registry/services/gc` | daemon thread, stop event | periodic deletion of expired nodes and of nodes without dependents | start and stop racing, exceptions in the loop, cascading deletion | a start that returned has a loop, a stop ends every loop |
| Status service, `execution/status_service.py` | pipeline and node statuses, progress, times | initialise, update, query, clean up under one lock | fields set twice, an exception between two writes | progress agrees with the node statuses; times are kept |
| Local engine, `sdk/pipeline.py`, `sdk/execution/local.py` | results, kept order, two class-level stores | `execute`, query nodes, timeouts, saving, truncation, clean-up | stores shared by all pipelines, wrappers left behind, orders and results kept too long | the stores agree; a run has a result of every node |
| Parallel engine, `sdk/execution/parallel_engine.py`, `stream_processor.py` | node tasks, topics, offsets, `running` | consume, execute, publish, save; `stop()`; automatic commits | lost publishes, crashes, joins, cancellation | results in order; a history holds only what was published |
| State manager, `sdk/execution/state_manager.py` | Redis: a list and a meta key per node and interval | `save_history`, `update_ttl`, clean-up, clearing, each of several commands | MULTIs that are sent again, commands of others in between | order and copies in the list; the meta key describes it |
| HTTP client, gateway, policies | retry counters, policy tables | retry on errors; authentication, ACL, error translation | see section 6 | |

How they interact: the Gateway calls the registry API over HTTP; the API handlers
call the node, strategy and snapshot services; each of these takes a Neo4j client
from the pool, which the garbage collector shares. The node service's
`get_ready_nodes` sorts the strategy's nodes with `GraphBuilder`, compares them with
a status map, and hands the list to the Redis queue, from which workers take it. In
the SDK, `Pipeline.execute` sorts the nodes and hands them to a local engine made for
the call, or to the parallel engine, whose tasks exchange results over Kafka topics
and keep their history in Redis through the state manager.

## 2. What is modelled

| Module | Models | Role |
|---|---|---|
| `DependencyExecution` | what the work queue promises: complete after the dependencies, record after completing | abstract specification |
| `WorkQueue` | schedulers, workers and Redis | detailed specification, implements `DependencyExecution` |
| `ConnectionPool` | the Neo4j pool and its three kinds of users | component |
| `TopologicalSort` | the recursive sort of `GraphBuilder` and of `Pipeline` | algorithm; `WorkQueue` and `LocalEngine` rely on it |
| `DagService` | the in-memory DAG and Kahn's sort | component |
| `Containment` | what the registry promises about CONTAINS: one relation | abstract specification |
| `NodeRegistry` | the in-memory node service: two maps, dependencies, statuses | component, extended by `RegistryApi` |
| `RegistryApi` | HTTP handlers and callers over `NodeRegistry`, callbacks in worker threads | composition, implements `Containment` |
| `GraphStore` | the registry in Neo4j, one step per query | component, extended by `GarbageCollection` |
| `GarbageCollection` | the collector and its daemon beside the writers of `GraphStore` | composition |
| `StatusService` | statuses, progress and times | component |
| `LocalEngine` | `Pipeline.execute` with query nodes, the local engine and its stores | component |
| `StreamEngine` | the parallel engine with topics, offsets and history | component |
| `StateManager` | a history in Redis shared by several processes | component |
| `WorkQueueProofs`, `ConnectionPoolProofs`, `RegistryApiProofs`, `LocalEngineProofs`, `StreamEngineProofs`, `StateManagerProofs` | | theorems about the module they are named after |
| `SortProofs` | | theorems about `TopologicalSort` and `DagService` |
| `ServiceProofs` | | theorems about `StatusService` and `GarbageCollection` |
| `MC...` | graphs, requests, settings, symmetry sets | instances for TLC |

A name that ends in `_Bug` is a faulty variant of the definition after it. No
specification uses it; putting it in that definition's place shows that a property
notices the fault.

### WorkQueue

`queue`, `processing`, `results` and `ttlArmed` are the four pieces of Redis state;
the processing list is a count per node id, since LREM with count 0 is the only
command that reads it. Each Redis command is one action, and so is each call of the
status update function, so `enqueue_ready_nodes` is `PushReady` then `MarkReady` for
each node, and `complete_node` is `ReportCompleted`, `RemoveProcessing`,
`RecordResult`, `SetExpiry`. A scheduler's `batch` is the list `get_ready_nodes`
returned, however old it is. Between any two steps a process may stop
(`SchedulerCrash`, `WorkerCrash`); an exception out of one of the calls has the same
effect. The status map is external: the code takes any function
`(node_id, status)`, so it is one map written atomically per node. A worker that
executes a node reports it COMPLETED: the repository has no consumer that reports
anything else through the queue, and a failing execution is `WorkerCrash`.

The graph is a constant, with the assumption `DagAssumption` that every dependency
is a node and that the push order is topological. This is what `TopologicalSort`
establishes for `build_dag`, which runs before every selection: the theorem
`SortedIsRanked` of `SortProofs` states it.

`completedOnce`, `recorded` and `enqueued` are history variables: statuses and
results themselves may be overwritten or expire, which is the point of the
properties.

### ConnectionPool

One action per attribute access or lock operation that another thread can observe.
The instance is a singleton whose `__init__` replaces list, semaphore and lock, so
semaphores and locks carry an index and a thread keeps the one it read: `Ask` reads
`_available`, `Acquire` takes a permit of that semaphore, `Post` releases the one
that is there by then. `Requests` never release, as the API dependencies; `Scoped`
threads use `with pool.client()`, as the garbage collector; `Closers` call
`close_all`. A client identity is reused once no thread and no list refers to it.

### TopologicalSort

`stack` is the call stack, `todo[n]` what the loop in `visit(n)` has not taken yet.
Both functions start from `Init`: GraphBuilder at once, Pipeline with
`_validate_dependencies`. Pipeline's three-valued `visited` is `tempMark` (1) and
`visited` (2). The choice of the next root and of the next dependency is free, which
covers every order of a list, a dict or a set.

### DagService

Adjacency lists are counts per entry, because `add_node` appends duplicates;
`reverse_adjacency_list` is a defaultdict, so a look-up inserts a key
(`reverseKeys`). `Verify` uses the meaning of the depth-first search (there is a
cycle or not) instead of its steps, which `TopologicalSort` models; Kahn's sort is
modelled turn by turn, with a free choice from the deque. Its definitions carry the
prefix `Dag` where `TopologicalSort` has one of the same name, so that `SortProofs`
can extend both; `GarbageCollection` has `Gc` for the same reason.

### NodeRegistry and RegistryApi

Every write of `InMemoryNodeService` holds its lock and is one operator of
`NodeRegistry`. `RegistryApi` puts callers and handlers around them. A call is a
request (`Call`), a handler that runs at any later time (`Create`, `Delete`,
`AddNodeToStrategy`, ...) and an answer (`Return`), or a caller that gives up
(`GiveUp`) while the request is still to be handled. A coroutine handler without an
await is one step; `unregister_callback` is a plain function, thus
`FilterCallbacks` and `StoreCallbacks` with anything in between. `clean[i]` records
that no call has been made since that asks for the opposite of call i (`Undoes`:
the opposite route with the same arguments, another status of the node, its creation
or its deletion), and that none was under way when i was handled; the property
claims a lasting effect only then. Which versions exist is a constant
(`KnownStrategies`): the service in the repository knows none, the tests put in one
that does.

### GraphStore and GarbageCollection

Each `execute_query` is one auto-commit transaction. `create_node` is `CheckNew` and
`CreateNew`; the dependency route is `CheckNode`, `CheckDependency` and
`MergeDependency`, the last over what the ids match by then. A vertex is a pair of
id and copy, so that two vertices with one id can be expressed; the uniqueness
constraint of `neo4j_schema.py` is what prevents them. The collector's loop reads
and writes this graph; `start_daemon` and `stop_daemon` are taken apart into the
reads and writes of `_stop_event` and `_daemon_thread`, which have no lock.

### StatusService

One lock makes each method one action. A message becomes a dict, is changed and is
parsed back; the model keeps what that does: a time that is set again is refused
(`FieldTwice`), and a result that is no dict is stored in the pipeline before the
node's field refuses it (`UpdateNodeText`). The number of calls is the clock.

### LocalEngine

`history` and `cache` are the class attributes that all pipelines share under node
names. A run is `Execute`, then `PassSource`, `StartNode` and `NodeReturns` or
`NodeRaises` for each node, and `Finish`. What a node computes is the number of the
run, enough to say which run a result is of. Query nodes are selected before the
run (`FindNodesByQuery`, `ApplySelectors`, the early return of the conditions
included) and answered from `resultsCache`. An order that is kept is any order that
`TopologicalSort` may return (`Orders`, see `SortedIsRanked`). `Live`, the list
comprehension of the clean-up, is written with the places of the items that have not
expired (`Unexpired`), because the provers do not see into `SelectSeq`; the
assumption `LiveFilters` of `MCLocalEngine` lets TLC compare the two.

### StreamEngine

Each node is an asyncio task that awaits at the end of its iteration, so `active`
is the one iteration in progress; Kafka, Redis, `stop()` and the death of the
process go on beside it. A message carries the stamp of the source's result it comes
from, the run in which it was published and the offset of the message it was
computed from. `PublishLost` is a flush that gave up, `IterationFails` and
`SaveFails` the exceptions that are only logged. A consumer has a position and the
group an offset, which `AutoCommit` may store at any time; `Crash` forgets the
first. `OrderedWithinRun` speaks of offsets, not stamps: after a restart a node
may publish a stamp again, and in a chain of three its downstream node then has two
messages with that stamp to process in one run.

### StateManager

One node and interval, one action per Redis command. `Multi` is LPUSH, LTRIM and
EXPIRE. `PushTimeout` moves a MULTI to `delayed`, from which Redis may still execute
it (`Late`), and the connection sends it once more. `Scan`, `ReadTtl` and
`Delete` are the cleaning loop; `Expire` is Redis ending a time to live. `acked`,
`prior`, `slow` and `undisturbed` are history variables of the properties.

## 3. What the runs show

| Run | Instance | Result |
|---|---|---|
| `queue_crash` | a join of 3 nodes, 2 schedulers, 2 workers, 3 selections, 2 crashes | `DependencyOrder`, `NoSilentLoss`, `ProcessingBounded` |
| `queue_live` | a chain of 2, 2 schedulers, 2 workers, 3 selections, no crash, states NONE or FAILED at the start | `NoResultLost`; every queued node is recorded (`QueuedWorkRecorded`); `ImplementsAbstract` |
| `pool_startup` | pool of 1 built by 2 requests and a scoped user at once, up to 3 initialisations | `ClientsPerInit`: each initialisation adds at most `max_size` clients; `ClientsUsable`: no client is in two hands or closed in somebody's, even so |
| `pool_live` | pool of 2, 3 scoped users, 1 closer, 2 errors | `PoolBound`, `ClientsUsable`; whoever asks is served (`Served`) |
| `sort_all_graphs` | all graphs over 3 nodes and 1 unknown id | `OrderRespectsDeps`, `OutcomeCorrect` |
| `dag_service_calls` | 3 ids, up to 2 dependencies, 3 calls, a sort after any | `DagTypeOK`; `OrderOfDeclared`: order, `verified`, roots and leaves are right if no node is added twice |
| `registry_api` | 2 nodes, 3 versions of which one is unknown, 2 callback targets, 4 calls, 1 caller that gives up | `MapsInverse`, `AcknowledgedLasts`, `ImplementsContainment` |
| `garbage_collection` | 2 node ids, 1 version, 2 writers with 2 calls, 2 controllers with 3 calls, 1 error | `OneVertexPerId`, `StartTakesEffect`, `StopReachesAll`, `Unravels` |
| `status_service` | 2 pipelines, 2 nodes, 5 calls | `ProgressAgrees`, `TimesKept`, `RaiseChangesNoStatus` |
| `local_engine` | 2 pipelines with the same two names, a query node, 2 intervals, 3 runs or saves | `StoresAgree`, `NewestFirst`, `FnRestored`, `QueryOneRunBehind`, `CompleteResults` |
| `stream_engine` | a source, a node below it and a join of both; 2 results, 2 runs, 1 error | `OrderedWithinRun`, `SavedWasPublished`, `OnlyChainsRun`, `CatchesUp`, `StopEnds` |
| `state_manager` | 2 processes, limits 1 and 3, 2 saves, 2 other calls, 2 faults | `NewestFirst`, `CopiesBounded`, `MetaAgrees` |

Type invariants are checked in the runs of `DagService` (`DagTypeOK`),
`GarbageCollection` (`GcTypeOK`) and `StateManager` (`TypeOK`); the type invariant of
every module is proved (section 4), and so is every other invariant that a run
checks.

What some of the properties do not claim:

- `AcknowledgedLasts` is silent on callbacks handled beside an unregistration of the
  same node, where the code does lose them.
- `Unravels` states what the collector does, not what it should: every node goes
  that is not on a cycle or below one. `MetaAgrees` is about calls that do not
  overlap. Both limits are findings.
- `ClientsUsable` is checked, and proved, with racing initialisations (`pool_startup`)
  and with a closer (`pool_live`), not with both: when an initialisation replaces the
  lock that close_all is in, a client can be popped that close_all has just closed,
  and TLC finds it. It claims clients open only until a close has failed.
- `OnlyChainsRun` is what the engine does with a node that has two upstreams: it
  never runs.

### Bounds

- Work queue: three nodes give a join, the smallest graph in which a node waits for
  two others; two processes of each kind and three selections let a node be selected
  while it is queued, while it runs and after it completed; two crashes stop a
  scheduler and a worker, or both workers of a node. `MaxRounds` and `MaxCrashes`
  are in the guards of `GetReadyNodes` and of the two crash actions.
- Pool: one user more than permits is the smallest case in which someone waits.
  `MaxInits` bounds re-initialisation, `MaxErrors` the exceptions, `MaxUses` the uses
  per thread. There is one client more than `MaxSize` in `pool_live`, so the bound
  is not an artefact of the instance.
- Sort: three nodes have shared dependencies, self dependencies, two- and three-node
  cycles, and the fourth id is unknown.
- DAG service: three calls (`MaxCalls`) can add, re-add and verify; `MaxDeps` bounds
  the dependencies of one node object.
- Registry: four calls (`MaxCalls`) are create, link, and two that race; a late
  request of a caller that gave up (`MaxTimeouts`) leaves room for three others.
  `MaxWaiting` is the number of callers that wait at once; with requests that were
  given up, two are under way.
- Garbage collection: `Copies = 2` lets two vertices share an id, two writers race,
  three controls (`MaxControls`) are start, stop, start; two `Threads` are what two
  starts create. `MaxWrites` bounds the writers' calls, `MaxErrors` the failures.
- Status service: five calls (`MaxCalls`) initialise a pipeline, bring a node to an
  end and try to start it again.
- Local engine: `MaxStamp = 3` is a run, a save from outside and another run, in
  either pipeline; `SaveLimit = 2` makes lists overflow.
- Stream engine: two runs (`MaxRuns`) with a crash between them make Kafka deliver
  a message again; `MaxStamp = 2` and `MaxErrors = 1` lose either of two results.
- State manager: two saves (`MaxSaves`) by two processes, each of which may time out
  and come late (`MaxFaults`), with two other calls (`MaxCalls`) in between.

Every invariant of every run is also proved, for any value of these bounds and under
the assumptions that section 4 names.

Runs over bounded calls disable the deadlock check: when the calls are used up, the
system stops. In the sort, the return of the call is the end. In the work queue an
idle worker polls for ever (`PopTimeout`), and in the stream engine `stop()` may
always be called, so there the check is on.

### Fairness

- Work queue: some worker pops, and a worker that popped goes on. A consumer is a
  loop over `pop` and `complete_node`, none of whose calls waits for another
  process. Nothing is assumed of schedulers, of crashes, or of the expiry of keys,
  and not that any given worker pops.
- Pool: each running thread runs on, weakly. A waiter for a permit or a lock has no
  strong fairness, since `threading` promises none; starting a use is not fair at
  all. `Served` holds because uses are finite in number.
- Garbage collection: a controller inside a call and a loop that is alive go on,
  weakly: a query and a wait with a time limit return. No call has to be made, and
  writers need not finish: `Unravels` is conditional on their having done so.
- Stream engine: the event loop gives every task its turn, Kafka assigns partitions,
  and `gather` returns when all tasks have ended. Not fair: sources, commits,
  `stop()`, failures and the cancellation by a timeout.

## 4. What is proved

TLAPS checks the following for every value of the constants that satisfies the
stated assumptions.

**Work queue** (`ConstantAssumption`, `DagAssumption`). `TypeCorrect` is `[]TypeOK`.
`DependencyOrderHolds`: `DependencyOrder` is inductive with the types once `Active`
is wide enough: it covers batches, the queue, the processing list, workers and past
completions, so a node becomes active only by selection, where its dependencies have
status COMPLETED; and status COMPLETED implies membership of `completedOnce`, the
second conjunct of `OrderInv`. `NoSilentLossHolds` needs
`ReportedBeforeRemoved`: a worker that is at LREM has reported its node, so what
LREM removes is completed. `ProcessingBoundedHolds` assumes finitely many workers.
`NoResultLostHolds` is stated for `MaxCrashes = 0`. Its
invariant adds that a worker that still executes a node, or has yet to remove its
entry, leaves either an entry or another worker about to store the result; LREM by
one worker turns the entries of all into its own duty to store.
`Implementation` proves `Spec => ImplementsAbstract`: `ReportCompleted` maps to
`Complete` or a stutter, `RecordResult` to `Record` or a stutter.

**Connection pool** (`PoolAssumption`). `TypeCorrect` holds with re-initialisation.
So does `ClientsPerInitHolds`: the permits in all semaphores, present and former
(`Free`), those of threads between acquire and release (`Holders`) and the leaked
ones are together at most `MaxSize * inits` (`PermitSupply`), because only the run of
`__init__` makes permits; a permit may be posted to another semaphore than it came
from. A thread that has seen the list empty holds a permit and no client, so the
client it is about to build is within the supply whatever happens to the list
meanwhile (`ClientSupply`). `PoolBoundHolds` is stated for `Started = TRUE`: then
there is one generation of list, semaphore and lock, a thread inside the lock is
alone there, what it found out about the list is still so, and permits are conserved
(free, held and leaked ones make `MaxSize`); the bound is the one per initialisation
with one initialisation. Without the assumption it is false: a second `__init__`
forgets the clients that are out. `ClientsUsableHolds` needs who owns a client (`Owned`): no client is twice in
the list, none in the list is in use or in two hands, and a closed one is in the
list only while close_all walks it. That is kept by each step alone, whatever locks
there are, but for one: nobody may pop while close_all walks the list (`Apart`). The
one lock of a started pool gives it, which is one case of the theorem's assumption;
that there is nobody to close gives it too, which is the other, with any number of
racing initialisations (`Started = TRUE \/ Closers = {}`).

**Topological sort** (`SortAssumption`). `OrderHolds` and `OutcomeHolds` rest on
`Path` (the stack is free of repetition and is exactly `tempMark`) and `Chain`
(the next node on the stack is a dependency of the one below, and a dependency no
longer in `todo` is visited or next on the stack). So a node that is left has only
visited dependencies; the visited set is closed under dependencies and, in order of
listing, well-founded, which excludes a cyclic set inside it; and a dependency that
is in `tempMark` closes a cycle: the part of the stack above it. `SortedIsRanked` says
what the other components take from the sort: a returned order is a rank as
`WorkQueue` assumes one of its graph (`DagAssumption`), and one of the `Orders` of
`LocalEngine`. `SortTerminates` is an action property, safety although it is about
the end: every step makes the first of four numbers smaller that it changes (nodes no
visit has begun, visits on the stack, dependencies the innermost has still to take,
what is left of the call), so the recursion ends for cyclic graphs as well.

**DAG service** (`DagServiceAssumption`). `DagTypeCorrect` includes that every node has
an entry in both adjacency lists. `OrderOfDeclaredHolds` rests on four parts:
`EdgesDeclared` (as long as no node is added twice, both adjacency lists hold each
declared dependency once), `VerifiedAcyclic` (`verified` is kept only as long as the
lists are), `KahnInv` (during a sort: what is listed comes once and after its
dependencies, the degree of a node counts its unlisted ones, and the queue has the
nodes without any) and `Answers`. A sort that ends with nodes left over has found
a set in which each waits for another or for an id without a node; the graph is
verified, so there is such an id.

**Registry** (`ApiAssumption`, `StatusAssumption`). `TypeCorrect` needs
`HeldAreRegistrations`: the list a worker thread holds is one of registrations,
although it is stored after the callbacks have moved on. `MapsInverseHolds` is
inductive with `OnlyKnown`, that only known versions are linked, since a deletion
clears the lists its own map entry names, which by the first part are all. The same
invariant gives `ReadsAgreeHolds` (what clients read from the two ends of the
relation agrees) and `Implementation`: `Spec => ImplementsContainment`, where each
handler maps to one step of `Containment` or to a stutter. `AcknowledgedLastsHolds`
is about calls that overlap: while a call's effect should last (`Lasting`), it
does, no call under way asks for its opposite, and no worker thread has a list in hand
that would undo it (`LastsInv`). The last part needs `HeldFiltered`: such a list has the
other targets of its node alone, so storing it takes away the one that was to go,
and others only if they were registered beside it, which `clean` excludes.

**Status service** (`StatusAssumption`). `TypeCorrect` shows that a progress is
always in 0..100 (`Percent`: a sum of two disjoint counts of nodes, halves
included, is at most the number of nodes). `ProgressAgreesHolds` is inductive with
the types. `TimesKeptHolds` and `RaiseHarmless` are action properties, shown for
every step from the types.

**Garbage collection** (`StoreAssumption`, `ControlAssumption`). `OneVertexPerIdHolds`
rests on `unique`, the constraint in Neo4j, which no step takes away: of two writers
that both found no vertex the second fails. `StartTakesEffectHolds` needs
`StartsCleared`: a start without a stop beside it that is past its `clear()` finds the
event cleared until it returns, because only a stop sets it, and has a thread to start.

**Local engine** (`EngineAssumption`, `RunAssumption`). `StoresAgreeHolds` is
inductive by itself: every action applies one function to both stores.
`FnRestoredHolds` needs that wrappers are on the node being executed only.
`CompleteResultsHolds` rests on `OrdersKept` (an order that is kept lists the nodes
there are, once each, which every addition of a node resets) and on `ResultsToCome` (a
node of the run is among the results, is still to do or is a source).
`NewestFirstHolds` needs `ItemsSorted`: the stamps of a list descend strictly, and a
node that the run has still to execute has only items older than the run. Truncation
keeps a prefix, and clean-up a subsequence (`LiveThins`, about `Live`), so neither
breaks the order. `QueryOneRunBehindHolds` needs `CachesOfOneRun` (all that a pipeline
keeps is of one run) and `QueriesCurrent` (what a run found for its query nodes is
still kept). `TypeCorrect` is a consequence of these.

**Stream engine** (`StreamAssumption`). `TypeCorrect` includes that offsets lie
within their topics and that no history is longer than `max_history`.
`SavedWasPublishedHolds` and `OnlyChainsRunHolds` share `IterationOK`: an iteration
that is about to save has published or lost its result, and is of a node with at
most one upstream. `OrderedWithinRunHolds` needs four more facts: no message is of a
run to come (`RunsPassed`), nothing works outside a run (`OnlyRunningWorks`), what a
node published in this run lies behind its consumer's position (`PublishedBehind`)
and what it is about to publish does not (`NextIsNew`). The second of these is why a
first assignment, which may jump back to a committed offset, is harmless: the
consumer had no position, so the node has published nothing in this run.

**State manager** (`ManagerAssumption`, `NoneAssumption`). `CopiesBoundedHolds` counts a
save's copies in the list together with its MULTIs that may still come (`Total`): none
before the first attempt, one at most when the MULTI is sent again (`Attempts`), two
at most after that, and only if the first one timed out (`Bounded`). Counting the
list alone is not inductive, since a late MULTI adds to it.
`NewestFirstHolds` adds that a save which was answered at its first attempt has no
MULTI under way (`Settled`), so a copy of it never comes to lie in front of a later
save (`Behind`). `MetaAgreesHolds` follows an undisturbed call from command to
command (`SaveAgrees`, `TtlAgrees`, `CleanAgrees`): between LPUSH and HSET the meta
key lags behind, and the invariant says by how much at each of them.

Model-checked only:

- liveness: `QueuedWorkRecorded`, `Served`, `StopReachesAll`, `Unravels`,
  `CatchesUp`, `StopEnds`; the provers have no rules for ENABLED that would reach
  them;
- what folds and other recursive definitions compute (`ApplySelectors` of
  `LocalEngine`): the theorems use of them only what holds of any selection;
- that `Live` is the filter it stands for (`LiveFilters`), for lists of up to three
  items.

## 5. Where the code disagrees with its documents

The disagreements were read off the code while it was modelled; `PROJECT.json`
quotes the lines. Several are limits of the properties above: a node may be pushed
twice and its result overwritten; a worker that stops between LREM and HSET leaves a
completed node without a result; a second `__init__` of the pool exceeds
`max_size`, and API requests never give their clients back; a node that is added to
the DAG service twice is sorted by its old dependencies; the collector deletes nodes
that versions contain; an unregistration drops callbacks; `clean_expired_data`
deletes only keys that are stored again meanwhile. The models contain the behaviour as it is; a property that
would be violated is stated for the part where it holds.

## 6. What is not modelled, and why

- Gateway: requests share no state, and the access check runs before
  authentication, so that in the shipped order of the middleware every protected
  path gets the same answer.
- `HTTPClient` and the retry decorator: used by tests only.
- Neo4j's status write and the event service: the first raises for every caller, the
  second is one publish per call. The snapshot routes fail before their first query.
- Values: results, tags, intervals, JSON and protobuf conversions, except where a
  conversion refuses or drops what it is given.
- `RedisQueueRepository.get_result`, analyzers and other readers, unless a property
  is about what they read.
- Python's recursion limit in the sorts, and process end (`__del__`).
- Network failures inside one Redis command of the work queue: a call that raises is
  a crash of its caller before or after the command.
- Deployment templates, visualisation, generated code, configuration.

## 7. What could follow

A refinement of `StateManager` to an abstract history that loses only what is
trimmed, expired or cleared. The liveness properties, if a prover with rules for
ENABLED becomes available: `SortTerminates` shows the form such a proof takes
without it.
