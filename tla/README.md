# A specification of dagorama

dagorama distributes the calls of a Python program as a graph of nodes (a DAG).
Clients create nodes, a broker written in Go keeps them and hands those whose
dependencies are complete to workers, and workers execute them and submit their
results.  This directory holds TLA+ modules of the broker and its clients, the
configurations that TLC checks them with, and proofs that TLAPS checks.

Paths below are relative to the repository.

## 1. Inventory

| component | code | state | operations |
|---|---|---|---|
| DAG instances and nodes | `broker/dag_instance.go`, `broker/dag_node.go` | per instance its order and nodes; per node sources, destinations, `completed`, `dequeueWorker`, `nextRetryAvailable`, failures | NewInstance, NewNode, ExecutionDidResolve, ExecutionDidFail, ReleaseWorkerLock, DependencyDidResolve |
| task queues, retry queue | `broker/broker.go`, `broker/heap.go` | a heap per queue name with a taint; the heap of nodes that wait for a retry | EnqueueNode, PopNextNode, getAllowedQueues |
| worker registry, garbage collection | `broker/broker.go` | per worker last ping, cached queues, claimed work, `invalidated` | NewWorker, Ping, GarbageCollectWorkers |
| retry scheduling | `broker/broker.go`, `broker/retry.go` | policy and attempts of each node | BackoffNode, getWaitIntervalMilliseconds, QueueFutureScheduled |
| gRPC handlers | `broker/server.go` | none of their own | CreateWorker, CreateInstance, CreateNode, Ping, GetNode, GetWork, SubmitWork, SubmitFailure |
| worker client | `dagorama/runner.py` | the node that is executed, a ping thread | the polling loop |
| node creation by clients | `dagorama/decorators.py`, `definition.py`, `retry.py` | promises | common_wrapper, resolve |
| promises and arguments | `dagorama/inspection.py`, `dagorama/models/` | none | find_promises, resolve_promises |
| persistence | `broker/database.go` and the upserts | tables of instances and nodes | upserts, LoadFromDatabase |
| function names, code signature | `dagorama/serializer.py`, `code_signature.py` | a cache of definitions | pure functions |
| start-up, configuration, launchers, logging, generated API | `broker/main.go`, `config.go`, `dagorama/cli.py`, ... | none that the protocol depends on | |

**How they interact.**  Everything goes through gRPC calls to the broker.  gRPC
runs each handler in a goroutine of its own, so calls of different clients
interleave with each other and with the two background loops
(`server.go:21-22`).  They share the nodes, queues and workers.  Seven kinds of lock
exist (task queues, retry queue, registry of instances, registry of workers, nodes of
an instance, claimed work of a worker, failures of a node), but much of what is
shared is read and written under none of them: `completed`, `dequeueWorker`,
`nextRetryAvailable`, `destinations`, `lastPing`, `invalidated`, and `claimedWork`
outside ReleaseWorkerLock.

**What is hard.**

* *Interleaving*: NewNode against the completion of a source; two sources that
  complete together; EnqueueNode, which decides between two queues before it takes
  the lock of one.
* *Failure*: workers die with nodes, or are taken for dead and go on; garbage
  collection races with their calls.
* *Timeouts and retries*: retries are scheduled by time, moved by a loop that holds
  a lock while it calls back into code that takes it.
* *Restarts of the broker*: with storage enabled, nodes are written one by one at the
  end of steps that other calls interleave with, and a restart reads back what is there.
* *Stale state*: cached queues, `invalidated` checked at the start of a call, the
  claimed work that is read, filtered and written back.

**What makes each component correct.**  Nodes: executed only after all their
dependencies, never forgotten, under the control of one worker, eventually done.
Queues: the first node that the worker may pull, taints honoured, caches up to date;
each heap a priority queue that loses nothing.  To a client: what is executed was
created and has its sources done, and what is delivered and resolved is what the
program means.
Workers: the work of a dead worker returns to the queues.  Retries: not early, not
too many, and the scheduler keeps running.  Database: what workers execute is on
record, completions on record are not overwritten, a restart resumes what is unfinished.
`PROJECT.json` lists every hazard at its
line with the property that covers it, or why none does.

## 2. Modules

| module | contents |
|---|---|
| `DagContract` | the abstract specification: nodes are created, started when their sources are done, finished or dropped |
| `RetryPolicies` | the retry policies and how CreateNode obtains one from the client's message |
| `Broker` | the state machine: instances, nodes, queues, workers, handlers, loops |
| `BrokerProperties` | invariants, action properties, the refinement of `DagContract`, fairness, the liveness property |
| `BrokerProofs`, `ContractProofs` | theorems about `Broker`; that it implements `DagContract` |
| `RootProofs`, `RetryProofs` | theorems about the nodes without dependencies, and about retries |
| `MCBroker` | the scenarios TLC checks, one `MCBroker_<run>.cfg` each |
| `PersistentBroker` | composes the steps of `Broker` with the database: upserts, the end of the broker's process, LoadFromDatabase; its properties |
| `MCPersistentBroker` | the scenarios for it, one `MCPersistentBroker_<run>.cfg` each |
| `PersistentProofs` | theorems about `PersistentBroker`, which rest on those about the steps of `Broker` |
| `PriorityQueue` | the abstract specification of a queue |
| `HeapQueue`, `MCHeapQueue` | the array of `container/heap` under `accessLock`, and that it implements `PriorityQueue` |
| `HeapProofs`, `HeapOrderProofs` | theorems about the heap; that it is ordered and implements `PriorityQueue` |
| `Client`, `MCClient` | programs, wrappers, promises, the execution of functions and resolve(), composed with `DagContract` |
| `ClientProofs` | theorems about `Client` |

```
Client ----extends----> DagContract <--refines-- Broker <--extends-- PersistentBroker
                                                   | abstracts its heaps
PriorityQueue <--refines-- HeapQueue  <------------+
```

### State and actions of `Broker`

A step of the specification is what the code does under one lock, or one access to
shared state that no lock protects.

| variable | code |
|---|---|
| `instances`, `order`, `nodes` | `broker.instances`, `DAGInstance.order`, `DAGInstance.nodes` |
| `creating` | a NewNode call between insertion and DependencyDidResolve; with `Busy` it is the `nodeLock` |
| `completed`, `dequeueWorker`, `nextRetryAvailable`, `failures` | fields of DAGNode (`failures`: their number) |
| `currentAttempt` | `RetryPolicy.currentAttempt` |
| `taskQueue`, `queueTaint`, `futureScheduled` | the heaps, as the number of entries of each node (and of each time), and the taint of each queue |
| `workers`, `invalidated`, `allowedQueues`, `claimedWork` | `broker.workers` and the fields of Worker; the slice `claimedWork` as a bag |
| `overdue` | `lastPing` compared with `requiredPingInterval` |
| `pc`, `current`, `release`, `notify` | where a worker's process or its call is, the node it has, the worker whose list ReleaseWorkerLock has looked up and the slice it is about to write, the destinations still to be notified |
| `toTask`, `toFuture` | EnqueueNode between its decision and its lock, per thread |
| `collecting`, `collected`, `draining` | where the two loops are |
| `now` | `time.Now()` |

| code | actions |
|---|---|
| NewInstance, NewNode | `CreateInstance`; `NewNode` then `ResolveNewNode` |
| NewWorker, Ping, the ping interval | `NewWorker`; `Ping`, `MissPing` |
| GetWork, PopNextNode | `GetWork` (the check of `invalidated`), `PopNextNode` |
| SubmitWork, ExecutionDidResolve | `SubmitWork`, `Complete`, `ReadOwner`, `ReadClaims`, `ReleaseWorkerLock`, `ReadDestinations`, `Notify`*, `Resolved` |
| SubmitFailure, ExecutionDidFail, BackoffNode | `SubmitFailure`, `ReadOwner`, `ReadClaims`, `ReleaseWorkerLock`, `BackoffNode`, `Requeue` |
| EnqueueNode | the operator `EnqueueNode` in the calling step, then `PushTask` or `PushFuture` |
| GarbageCollectWorkersExecute | `CollectWorker`, `FreeNode`*, `InvalidateWorker` |
| QueueFutureScheduledExecute | `LockFuture`, `PopDue`*, `UnlockFuture` |
| the worker's process | `Crash`, and `Refuse` within `GetWork`, `SubmitWork`, `SubmitFailure` |

### State and actions of `PersistentBroker`

Every step of `Broker` is taken as it is, with a condition on the locks that are held
during a write and, where the code calls UpsertIntoDatabase, the start of one.

| variable | code |
|---|---|
| `rows` | table `dag_node`: the destinations and the completed flag of each row |
| `instances`, `order` (of `Broker`) | also the table `dag_instance`: NewInstance inserts the row before it unlocks the registry |
| `upserts` | per thread the copy of a node that waits to be written, and the lock that is held until it is |
| `loading` | the nodes LoadFromDatabase has built and not yet enqueued |
| `hollow` | instances built by LoadFromDatabase, whose `nodes` is nil |
| `lives` | how often the process was started |
| `finished` | history: the nodes whose row has said that they are completed; no step looks at it |

| code | actions |
|---|---|
| EnqueueNode with storage | `Push` (a push and the start of the upsert), `EndUpsert` |
| the last lines of ExecutionDidResolve, ExecutionDidFail | `SaveResolved`, `SaveFailed`, then `EndUpsert` |
| the process ends and is started again | `BrokerCrash`; `Panic` if a call dereferences nil |
| LoadFromDatabase | `Loadable` within `Restart`, then `LoadNode`* |

### `DagContract` and its refinement

`DagContract` has four variables: the nodes that were created, their sources, the nodes
that are done, what each worker executes.  `Broker` implements it under the mapping
`created <- nodes`, `sources <- SourceSets`, `done <- completed`, and `Running`: the
node a worker has been handed, until the `completed` flag is set (`dag_node.go:68`) or
the worker reports a failure, dies or is refused.  Queues, claims, locks, collections
and retries are stutters.  The contract is weak where the code is: a node may be handed
out again, to several workers at a time, and after it was done.

`PersistentBroker` does not implement it: a restart forgets nodes and completions.

### State and actions of `HeapQueue`

`slot` and `length` are the slice, `priority` and `index` the fields of QueuedJob,
`holder` is `accessLock`; `task` and `at` are where `up` or `down` of `container/heap`
is, `updating` the goroutines between the two halves of UpdateItem.

| code | actions |
|---|---|
| PushItem, `heap.Push` | `PushItem`, then `Rise`* |
| PopItem, `heap.Pop` | `PopItem`, then `Sink`*, `Settle` |
| UpdateItem, `heap.Fix` | `UpdateItem` (the write before the lock), `FixItem`, then `Sink`*, `Settle`, `Rise`* |

`heap.Fix` on an item that was popped meanwhile uses its old index.  If that is the end of the
slice or beyond, `up` reads past it and the process panics (`task = "panic"`); but for
index 0 of an emptied heap, where neither `down` nor `up` reads anything and UpdateItem
returns.  The history variable `overlapped` says
whether an UpdateItem call ever overlapped another call.  Until then each pop takes an
item of least priority; afterwards the order is lost, but each item still comes out once.
The broker pushes and pops only, so it never overlaps, and `Broker` may treat its heaps
as bags with a least element.

### State and actions of `Client`

A program is its call sites: which site's function makes each call (`CallerOf`), which
values the call is passed (`Uses`), what its function returns (`Returns`: one of these
values, or of the calls it made, or one it computes).  `Falsy` functions compute a
falsy value; `Async` ones are decorated with `asyncfn`.  `Meant` is the value each site
would have if promises were fulfilled at once; a computed value is the record of its site
and of what was given to it, so that no two computations are confused.

| variable | code |
|---|---|
| `created`, `sources`, `done`, `running` | the broker, as its contract describes it |
| `site`, `given`, `value` | a node's functionName, arguments and resolvedValue |
| `args`, `made` | the arguments of the function a worker executes; the promises its calls have returned |
| `cursor`, `answer` | `current_return_value` of a resolve() call; what the last call returned |

| code | actions |
|---|---|
| DAGDefinition.`__call__` | `Launch` |
| common_wrapper, called by the program | `CommonWrapper` within `Launch` and `CallFunction` |
| execute_worker_async: GetWork, resolve_promises | `Execute` |
| ... the function returns, SubmitWork | `Submit` |
| ... an exception, SubmitFailure, the death of the worker | `Fail` |
| resolve, GetNode | `Resolve`, then `ResolveStep`* |

Two behaviours of the code shape this module.  A function may return a promise; it
becomes the result of the node, and a dependent is called *with the promise*, not with
the value (`runner.py:85-93`), which run `promise` holds against `models/promise.py`.  A
function that passes it on or returns it works; one that computes with it raises an
exception, so `Submit` is disabled and `Fail` remains.  And syncfn takes a falsy result for
no result (`decorators.py:97`): under `greedy_execution` it then returns
`payload.promise`, which is None.  asyncfn tests the coroutine instead, which is always true.

Definitions marked `Mistake:` are wrong versions of the definition that follows.  No
behaviour uses them; each was put in place of the right one to see that a property
notices (`mutants` in `PROJECT.json`).

### What is abstracted, and why it loses nothing the properties see

* *Heaps* are bags.  The top of a `container/heap` is an entry of least priority
  (`HeapQueue`), and which one depends on the history; the model allows any.  With priorities of
  different queues compared as in PopNextNode, the node it returns may be any node of
  least priority among those waiting in allowed queues (map order breaks ties).
* *Destinations* are derived: the back-links of a node are the nodes of `nodes` that
  have it as source, as often as they have it.  NewNode inserts the node and adds the
  back-links in one step; they are visible only through ReadDestinations.  The
  destinations are notified in any order.
* *DependencyDidResolve* reads the flags of all sources at once.  Flags are only ever
  set, so the loop, which stops at the first it finds unset, gives an answer that was
  right at some moment of the loop.
* *PopNextNode* is one step although `dequeueWorker` and `claimedWork` are written
  without their readers holding its lock.  A ReleaseWorkerLock that falls in between
  can lose the filter or the claim; either result is reached in the model by a
  ReleaseWorkerLock before or after.  The same goes for GetNode, which is merged with
  the check of `invalidated`, and the two writes of ReleaseWorkerLock and of
  InvalidateWorker.
* The *length check* of the scheduler is merged with taking the lock: only the
  scheduler removes entries.
* *Garbage collection* visits the workers in any order and any number of times.  A
  worker is never removed from `broker.workers`, so it is collected again as long as
  it is overdue.
* A process that dies during a call leaves a handler that runs to its end; the model
  lets it die after the call.
* *Time*: a unit is a second, jitter is 0 or 1.  Time is only compared with retry
  times, so `Tick` is enabled only while one lies ahead, which keeps `now` bounded.
* *Identifiers* are UUIDs: instances and nodes are created once.  Clients pass as
  sources promises of the same instance that CreateNode has returned.
* *Memory*: Go's data races are modelled as interleavings of the accesses.  Torn slice
  headers, the runtime's check of concurrent map access and stale reads by weakly
  ordered processors are not modelled.
* *Storage* is disabled in `Broker`, as by default.  In `PersistentBroker` a row is what
  changes and what a restart reads: failures, attempts and results are written, but
  LoadFromDatabase reads none of them.  An upsert copies the node in one step, together
  with the push or the last step before it, and writes the copy in another.  Errors of
  the database are left out: the code ignores those of writes.
* *A restart* is one step that ends the process and reads the tables, and one for each
  node that is enqueued; nothing else runs in between, since the server is not yet
  listening.  Workers in a call get an exception and end; those between two calls go on
  and are unknown to the new process.

## 3. Runs

Deadlock is checked in every run of `MCBroker` and `MCClient`: a state without a
successor would be an error of the model, since workers poll, fail and are given work
again for ever.  It is not checked in those of `MCPersistentBroker`, where after a restart every worker may
be dead and unknown to the collector, and every instance hollow, nor in that of
`MCHeapQueue`, where a panic ends the process.  All bounds are in the `.cfg` files.
`Horizon` bounds the time at which a retry may be scheduled (BackoffNode is disabled
beyond it); in each run it is large enough for every attempt of every policy.

| run | instance | distinct states | shows |
|---|---|---|---|
| `dag` | 3 nodes, c needs a and b, 2 workers, one of which may die, or be late and collected while it lives | 2.6 million | `TypeOK`, `DependenciesRealized`, `NoLostWakeup`, `MeetsContract` |
| `retry` | a node that is retried twice and one that has it for two arguments, 2 workers of which one may die | 165 thousand | `NoOrphan`, `RootSoleControl`, `RetryBudget`, `SchedulerRunsForever`, `RetryNotEarly`, `EventuallyDone` |
| `durable` | `PersistentBroker`: a chain of 2 nodes, a node of another instance with a retry, 3 queues, a taint, an include list and an exclude list, 2 workers that may die, 3 lives | 1.9 million | `PersistentTypeOK`, `RecordedBeforeHandedOut`, `CompletionRecorded`, `LoadedNotLost`, `CacheCoherent`, `TaintHonoured`, `PopsFirstAllowed` |
| `heap` | 5 items, 3 priorities, 2 goroutines that push, pop and update | 1.2 million | `HeapTypeOK`, `IndexCoherent`, `TopIsLeast`, `MeetsPriorityQueue` |
| `client` | 5 call sites that pass on and return promises, a falsy result of an async function, 6 nodes, 2 workers | 629 thousand | `ClientTypeOK`, `DeliversTruly`, `ResolvesTruly` |

These sizes are where the interesting cases first occur: a node with two sources (one
of them doubled) for the notifications, a second worker that takes over what the first
lost, a node of a later instance on a queue of its own, a first and a second retry, a
restart that a surviving worker's call turns into another one (`Lives` = 3), a heap with
three levels, one node more than the calls of the program, so that a function is
executed again and makes a call again (with two more, 8 million states, the properties
hold as well).
Symmetry (of workers, sources, items) is used only in runs without
liveness, and only where the constants do not tell the symmetric values apart.

### Where the code falls short of what it says

Seven runs look for a state that contradicts what the repository says, and TLC finds it.

* `sole`: *two workers execute a node at the same time.*  Both sources of a node
  complete together; each notification finds both flags set and enqueues the node
  (`dag_node.go:127-143`), against "the worker's sole control over this element"
  (`dag_node.go:109`).
* `reset`: *a node is lost.*  A worker that is late pops a node after garbage
  collection has read its claimed work and before it is reset (`broker.go:307`).  It is
  then refused, and no queue or worker has the node ("Free the currently processing
  nodes back into the pool", `broker.go:300`).
* `scheduler`: *the scheduler waits for itself.*  It pops a node whose retry time has
  since been moved on, EnqueueNode sends it to the retry queue and takes the lock that
  the scheduler holds (`broker.go:332`, `348`, `185`), against "will run forever"
  (`server.go:19-20`).  The node had been dispatched twice, as in `sole`.
* `resume`: *a restart forgets a node.*  A row is written when a node is enqueued, so one
  that waits for its dependencies has none (`dag_instance.go:69`, `broker.go:216-218`),
  against "to resume state in case of runtime interruptions" (`README.md:179`).
* `again`: *a completed node is executed again.*  A node is completed, and its row says so;
  after a restart a worker is handed it.  LoadFromDatabase loads every row without looking
  at that column, and enqueues the node (`broker.go:381-400`, `439-441`).  The
  second broker "should pick up where the first left off" (`broker_test.go:86`): lines
  98-100 expect of it the node that depends on the completed one.
* `promise`: *a worker is given a promise.*  A function returns the promise of a call it
  made; that becomes the result of its node, and the function that depends on it is
  called with it (`runner.py:85-91`), against "The runner will ensure that they are fully
  realized before the DAG function is called" (`models/promise.py:13-14`).
* `sample`: *a result is lost.*  In the sample program of the `README.md` (lines 85-108)
  `perform_work` returns 0 for some of its calls; syncfn takes that for no result,
  submits None, and `rollup_statuses` is given None (`decorators.py:97`).

Two more disagreements have no run of their own.

A release may *undo an update of claimed work*: it writes back the list it has read before
another node was appended (`dag_node.go:117`, `broker.go:280`), and if its node was dispatched
twice, that list may be of another worker, which is not in a call and free to pop.  With the two nodes of run
`retry`, a third that is independent of them, and workers that miss their pings
only when dead, TLC finds `NoOrphan` violated by a trace of 40 states: v and w execute
b, w looks up v as the owner of b, v fails with b and polls, w reads the list of v, v pops
c, w writes the list back without c, and when v dies nobody has a record of c.
`RootSoleControl` is violated in the same way by a release that is undone.

A *taint is a matter of the queue*, not of the node: a queue keeps the taint of its first node
(`broker.go:194-197`), so a tainted node that is sent to a queue which an untainted one
created is handed to workers that do not tolerate it, whatever `decorators.py:67`
promises.  The runs and theorems about taints give each queue one.

The passing runs say where the promises do hold.  Without doubled dispatch (nodes
without dependencies) and with workers that miss their pings only when dead, nodes are
executed by one worker at a time, are not lost, and the scheduler does not block: this
is the run `retry`, in which only a node without dependencies is retried.
`RetryBudget` counts the failures that are reported: a try that ends with its
worker is enqueued again by the collection, which counts nothing (`broker.go:301-305`), so that
a function that kills its workers is tried for ever.  `DependenciesRealized` and
`NoLostWakeup` hold without any such restriction, and so does the contract.  Across
restarts neither does: loaded nodes are enqueued whatever their sources (`broker.go:439`).
What `durable` shows is that the locks around the upserts do their work, that caches and queues
are as right after a restart as before, and that loaded nodes that are not completed stay in
the queues or with a worker, although no call about them can ever succeed.  `client`
says that whatever is delivered, value or promise, is the result of the call it belongs to.

### Fairness

`EventuallyDone` assumes (`Fairness` in `BrokerProperties`):

* weak fairness of each handler, of ResolveNewNode and of each pending push:
  goroutines are scheduled and mutexes are granted;
* weak fairness of GetWork and of submission: the client polls in a loop
  (`runner.py:69-80`) and the functions it executes end;
* weak fairness of a dead process's missing its ping interval, and of the clock;
* weak fairness of the scheduler and of the iteration of the collector; strong
  fairness of `CollectWorker(w)` for each worker, because each cycle of the loop visits
  every worker while the model's collector may be busy with another;
* nothing of the clients that create workers, instances and nodes, nor of Crash.

One worker (`Reliable`) does not die; without one, nothing can be promised.  In this
run only a node without dependencies is retried, since the retry of a node dispatched
twice can block the scheduler (run `scheduler`).

## 4. Proofs

`BrokerProofs` proves, for every graph of nodes, number of workers, queues, taints,
policies and horizon, from the assumptions named in `Broker` (`ThreadAssumption`,
`NodeAssumption`, `WorkerAssumption`, `HorizonAssumption`), which TLC evaluates in every
run:

| theorem | statement |
|---|---|
| `TypeCorrect` | `Spec => []TypeOK` |
| `ExecutedWhenRealized` | `Spec => []DependenciesRealized` |
| `WakeupsAreKept` | `Spec => []NoLostWakeup` |
| `CachesAreCoherent` | `Spec => []CacheCoherent` |
| `PopsAreFirstAllowed` | `Spec => PopsFirstAllowed` |
| `TaintsAreHonoured` | `OneTaintPerQueue` implies `Spec => []TaintHonoured` |

* *Types.*  `TypeOK` is inductive.  It includes that a worker in a call about a node has
  one (`Working`), and that `instances` is finite, so that its cardinality is a priority.
* *Dependencies.*  `DependenciesRealized` speaks of executing workers only, and the node
  they execute came from a queue, which got it from a thread, which got it from a
  notification, a collection, a retry...  `HandledRealized` says of each of these traces
  what the invariant says of its end: every node in a queue, a thread, a worker, a claim
  or a copy of claims has all its dependencies completed.  `StepHandled` shows that a
  trace stems from an older one or from a check of the dependencies, and that
  `completed` only grows.
* *Wake-ups.*  `NoLostWakeup` is inductive together with `TypeOK` and `CompletedFirst`:
  while ExecutionDidResolve releases a node, its flag is already set; otherwise the
  release, which clears `dequeueWorker`, could leave a ready node unattended.
  `StepReady` shows that only NewNode and Complete make a node ready and that the call
  that does so has yet to look at it; `StepAttended` goes through every step and shows
  that what attends a ready node passes it on: notification to EnqueueNode, to a push,
  to a queue, to a worker, to a completion or a failure.
* *Caches.*  The fresh value depends on `queueTaint` only, which changes only where a
  push creates a queue and clears every cache.  `PopsAreFirstAllowed` uses it: with a
  coherent cache, the queues PopNextNode searches are those the worker may pull from.
* *Taints.*  `OneTaintPerQueue`, that nodes of one queue ask for one taint, is
  needed: the code keeps one taint per queue.  Then the taint of a queue is that of every node that
  may ever be in it (`TaintOfQueue`), and a coherent cache does the rest.

### Nodes without dependencies, and retries

| module | theorem | assumed | statement |
|---|---|---|---|
| `RootProofs` | `RootsAreUnderSoleControl` | A | `Spec /\ []ClaimsCurrent => []RootSoleControl` |
| `RetryProofs` | `RetriesAreNotEarly` | A | `Spec /\ []ClaimsCurrent => RetryNotEarly` |
| `RetryProofs` | `RetriesAreWithinBudget` | A | `Spec /\ []ClaimsCurrent => []RetryBudget` |
| `RetryProofs` | `SchedulerIsNotSentBack` | A, R | `Spec /\ []ClaimsCurrent => []SchedulerRunsForever` |
| `RetryProofs` | `NoNodeIsOrphaned` | P | `Spec /\ []ClaimsCurrent /\ []CollectedAtRest => []NoOrphan` |

All are about any graph: other nodes are there and interfere.

The code updates claimed work without a common lock, and what these theorems promise fails
where an update is lost.  `ClaimsCurrent` and `CollectedAtRest` say that none is: a release writes
back a list that, but for the node it releases, is still what the list is; and the
worker whose list the collector empties is not in a GetWork call that has passed the check.
They are premises about behaviours, not about the graph, and each names the race that the
code has: run `reset` violates the second and loses a node, the three nodes above violate the
first.  In the bounds of `retry` and `durable` both hold in every state.

A is `LatePings = {}`: a worker misses its ping interval only when it has died; without
it a worker that is late goes on with a node that is handed out again.  It implies
`[]CollectedAtRest` (`DeadAreAtRest`).  `NoNodeIsOrphaned` does without it.  R is
`OnlyRootsAreRetried`: run `scheduler` shows what happens otherwise.  P is
`PowersAreNatural`, that a power of natural numbers is one: a fact of arithmetic of which the provers
know nothing, and whose proof is an induction.

* *Tokens.*  The invariants about roots are not inductive, nor does it help to say that
  a root is queued once: it may be queued, with a worker, and on a list of claims that
  some thread is about to write, and each turns into another.  `Token(n)`
  names the places a node can be in (`At`) and says that it is in one, once (`Sole`,
  `Once`); that a node which does not exist is in none and one that is completed only with
  the worker whose call completed it (`InCourse`); and that the record of claims, the
  owner of the node and the node in hand agree (`OnRecord`).  `WorkersInOrder` says of
  all nodes that a collected worker is dead and that an owner has its node in hand.  Each step
  leaves a root where it is, moves it, or lets it in (`StepPlaces`), from which the
  rest follows.
* *Retry times.*  `OnTime`: a root that is about to be pushed is due, as nobody else can move
  its time meanwhile.  The scheduler pops what is due; if a time it has popped was
  moved it would be sent back, which is the bug of run `scheduler`.
* *Attempts.* `InBudget`: the failures of a root are the retries its policy has counted,
  or one more, and then the root is nowhere and stays there. `RetryBudget` takes a
  negative `maxAttempts` of a client's message for 0, which is what the code makes of
  it.
* *No node is lost.*  `Reachable(n)`: a ready node is completed, exhausted, queued, `OnList`, or
  a call in progress is about to queue or complete it.  A node is on a list only as long
  as the list is not the one about to be emptied, or the collector has it still to free; a pop
  puts it on one (`PopsOnList`), and only the release by a call about the node takes it off
  without queueing it (`StepOnList`), which has set its flag before (`CompletedFirst`) or
  is to decide about a retry (`DecidesToRetry`).  No step needs to know how
  often the node was dispatched, which is why the graph may be any.

### Storage

| module | theorem | assumed | statement |
|---|---|---|---|
| `PersistentProofs` | `StoreIsTyped` | | `PersistentSpec => []PersistentTypeOK` |
| `PersistentProofs` | `HandedOutWhenRecorded` | | `PersistentSpec => []RecordedBeforeHandedOut` |
| `PersistentProofs` | `CompletionsAreRecorded` | A | `PersistentSpec /\ []ClaimsCurrent => []CompletionRecorded` |
| `PersistentProofs` | `LoadedNodesAreKept` | | `PersistentSpec /\ []ClaimsCurrent /\ []CollectedAtRest => []LoadedNotLost` |

They hold for any number of restarts (`LivesAssumption` asks for one life;
`StoreAssumption` says that the absent row is not a row).  Every step of the server is a
step of `Broker` or the end of an upsert (`ServeIsNext`), so the lemmas above apply to it.

* *Rows.*  `StoreInvariant` says that what is handled or to be written has an image
  (`ImagesExist`), that a thread waits for one thing at a time (`OneAtATime`), and that a node
  in a task queue has its row or an upsert is pending under the lock of the queues
  (`QueuedRecorded`); no pop takes place under that lock.
* *Lives.*  `OfThisLife`: the instances of an earlier life are hollow, a row without a node
  belongs to one, and calls find only nodes of this life.  A restart forgets every
  token of the earlier life, and loading a node touches no token of this one.
* *Completions.*  `Course(n)`: while a root without a policy is a token, an upsert of it
  is pending only when it was just pushed, under the lock that keeps it from being
  popped (so the image is written before the node can complete), or after the call about
  it, when it is nowhere for ever, so that no later image is taken.
* *Loaded nodes.*  `LoadedKept`: a loaded node is still to be enqueued, queued, or `OnList`, by
  the lemmas about `NoOrphan`; no call is about it, since calls find only nodes of this life
  (`OfThisLife`).  Which nodes are loaded is a matter of the rows, and these change while the server
  runs: `RowsInOrder` says that they and the pending upserts name as destinations
  only nodes of the same instance, and that those of a loaded node stay what they were.  As a hollow instance
  takes no new node, none becomes loadable later (`StepLoadable`).

### The other modules

The other modules prove, for all values of their constants:

| module | theorem | statement |
|---|---|---|
| `ContractProofs` | `BrokerMeetsContract` | `Spec => MeetsContract` |
| `ClientProofs` | `ClientIsTyped` | `ClientSpec => []ClientTypeOK` |
| `ClientProofs` | `DeliveriesAreTrue` | `TruthyResults` implies `ClientSpec => []DeliversTruly` |
| `ClientProofs` | `AnswersAreTrue` | `TruthyResults` implies `ClientSpec => []ResolvesTruly` |
| `HeapProofs` | `HeapTypeCorrect` | `HeapSpec => []HeapTypeOK` |
| `HeapProofs` | `IndexesAreCoherent` | `HeapSpec => []IndexCoherent` |
| `HeapOrderProofs` | `PeekedIsLeast` | `HeapSpec => []TopIsLeast` |
| `HeapOrderProofs` | `HeapMeetsQueue` | `HeapSpec => MeetsPriorityQueue` |

* *The contract.*  The contract starts a node only when it was created and its sources
  are done.  The second is `HandledRealized`; the first needs `HandledCreated`: what a
  queue, a thread, a worker or a notification has was created.  Then each step is
  mapped: NewNode to `Create`, a pop to `Start`, Complete to `Finish`, and what takes a
  node from a worker (a failure, a refusal, a death) to `Abandon`; all others
  leave `created`, `sources`, `done` and `running` as they are.
* *Programs.*  `StandsFor(x, s)` says that `x` is the value of the site `s`, or the
  promise of a node that has it.  `TruthInvariant` says that the arguments of nodes and
  of workers, the results of nodes and the promise a resolve() call has come to stand for
  what they belong to, and that a promise among the arguments is a source.  It is
  inductive because StandsFor survives one step of fulfilment.  Assumptions:
  `MeantAssumption`, which defines the value of each site, and `TruthyResults` of the
  theorems, that no function decorated with syncfn ends with a falsy result: the program
  of the run `client` satisfies it, that of `sample` does not, and TLC shows what then
  goes wrong.  `ClientIsTyped` needs neither: `ClientTypeOK` is inductive together with
  `PromisesKnown`, that every promise a client or worker has is of a node that was created.
* *The slice.*  `HeapInvariant` adds to types and coherent indexes that an
  item about to be fixed has been in the slice, so that its index is a position, or was
  one.  A Fix at index 0 of an emptied heap goes through the same sift as any other and
  ends.
* *The order.*  While a sift is under way the heap is ordered but for one position
  (`OrderedBut`): its children are not less than its parent, so that either direction
  can repair it.  `CallOrdered` says for each task what else holds: a rising position is
  not greater than its children, one that has sunk is not less than its parent, and
  during a pop the last position, outside the sifting, is the least.
  `UpdateOrdered` says that a written priority whose Fix waits for the lock is the only
  disturbance.  All are claimed until an update overlaps another call (`overlapped`).  That the
  top of an ordered heap is the least follows by well-foundedness: a least position with
  a smaller priority would have a parent with one.  For the refinement, only the end of
  a PopItem takes an item, the last one; swaps keep the set of queued items.

Only model-checked: `EventuallyDone`, since liveness and `ENABLED` are out of reach of the
provers used, and what the seven runs of section 3 refute.  Induction over data is out of
reach as well; hence P.

## 5. Plan

Done: 1 to 7.  Left: 8.

1. `RetryPolicies`, `Broker`, its properties, runs and theorems.
2. `PersistentBroker` and its runs.
3. `DagContract`, and that `Broker` implements it.
4. `PriorityQueue` and `HeapQueue`, which justify the heaps of `Broker`.
5. `Client`, on top of the contract; theorems about the contract, the heap and programs.
6. Theorems about roots, retries and the database.
7. What a restart does to completed nodes (run `again`); `NoOrphan` and `LoadedNotLost` for
   every graph.
8. A condition on programs, rather than on behaviours, from which `ClaimsCurrent` follows.

## 6. Not modelled

* Generated code (`broker/api`, `dagorama/api`): messages and stubs.
* Function names and code signatures: reflection without protocol state; a mismatch is a
  `Crash`.
* Configuration, start-up, launchers and logging (`main.go` but for the end of the
  process, `config.go`, `utilities_bun.go`, `cli.py`, `hot_reload.py`): environment
  variables, names of columns, sockets, processes.
* Arguments nested in lists and dictionaries, and pickling: map_promises keeps their
  shape, so a flat set of arguments shows the same deliveries.
* HeapQueue.Length: a read without effect.
* Requests that name instances, nodes or workers that never existed, and errors of the
  database.
