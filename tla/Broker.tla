------------------------------- MODULE Broker -------------------------------
(***************************************************************************)
(* The in-memory broker of dagorama: DAG instances and their nodes, the    *)
(* task queues, the retry queue, the workers, the handlers of the gRPC     *)
(* calls and the two background loops (worker garbage collection and the   *)
(* retry scheduler).                                                       *)
(*                                                                         *)
(* gRPC runs every handler in a goroutine of its own, so handlers and the  *)
(* two loops interleave.  A step of this specification is what the code    *)
(* does under one lock, or one access to shared state that no lock         *)
(* protects.  A handler that spans several steps keeps its place in pc.    *)
(*                                                                         *)
(* A definition marked "Mistake:" is a wrong version of the definition     *)
(* after it.  The specification does not use it; it serves to check that   *)
(* a property would notice the mistake.                                    *)
(***************************************************************************)
EXTENDS Integers, FiniteSets, RetryPolicies

CONSTANTS
  Instance,      \* identifiers of the DAG instances clients may create
  Node,          \* identifiers of the DAG nodes clients may create
  Worker,        \* identifiers of the workers
  QueueName,     \* names of task queues
  TaintName,     \* names of taints
  NoTaint,       \* the empty taint of a node or a queue
  Nil,           \* the nil pointer
  GC,            \* the goroutine of GarbageCollectWorkers
  Scheduler,     \* the goroutine of QueueFutureScheduled
  InstanceOf,    \* the instance each node belongs to
  Sources,       \* Sources[n][s]: how often s occurs in the sourceIds of n
  QueueOf,       \* the queue each node is sent to
  TaintOf,       \* the taint each node asks for
  RetryOf,       \* the RetryMessage of each node
  IncludeQueues, \* per worker; {} includes every queue
  ExcludeQueues,
  Tolerations,
  LatePings,     \* the workers that may miss their ping interval while alive
  Reliable,      \* the workers whose process never dies
  Horizon        \* bound: no retry is scheduled later than this

Thread == Worker \cup Instance \cup {GC, Scheduler}

SourcesOf(n) == {s \in Node : Sources[n][s] > 0}

ASSUME ThreadAssumption ==
  /\ Worker \cap Instance = {}
  /\ GC # Scheduler
  /\ {GC, Scheduler} \cap (Worker \cup Instance) = {}
  /\ Nil \notin Node \cup Thread \cup TaintName
  /\ NoTaint \notin TaintName \cup {Nil}

ASSUME NodeAssumption ==
  /\ InstanceOf \in [Node -> Instance]
  /\ Sources \in [Node -> [Node -> Nat]]
  /\ QueueOf \in [Node -> QueueName]
  /\ TaintOf \in [Node -> TaintName \cup {NoTaint}]
  /\ RetryOf \in [Node -> RetryMessage]
  /\ \A n \in Node : \A s \in SourcesOf(n) : InstanceOf[s] = InstanceOf[n]

ASSUME WorkerAssumption ==
  /\ IncludeQueues \in [Worker -> SUBSET QueueName]
  /\ ExcludeQueues \in [Worker -> SUBSET QueueName]
  /\ Tolerations \in [Worker -> SUBSET TaintName]
  /\ LatePings \subseteq Worker
  /\ Reliable \subseteq Worker

ASSUME HorizonAssumption == Horizon \in Nat

\* nextRetryAvailable and the priorities of the retry queue; -1: not relevant
Due == -1 .. Horizon

NoNodes == [n \in Node |-> 0]

\* The retry policy CreateNode gives the node.
PolicyOf(n) == PolicyOfMessage(RetryOf[n])

VARIABLES
  instances,          \* identifiers in broker.instances
  order,              \* DAGInstance.order
  nodes,              \* identifiers in DAGInstance.nodes, linked to their sources
  creating,           \* the node a NewNode call of the instance has yet to check
  completed,          \* nodes whose completed flag is set
  dequeueWorker,      \* DAGNode.dequeueWorker
  nextRetryAvailable, \* DAGNode.nextRetryAvailable
  currentAttempt,     \* RetryPolicy.currentAttempt of the node's policy
  failures,           \* length of DAGNode.failures
  taskQueue,          \* entries of each node in the heap of its task queue
  queueTaint,         \* HeapQueue.taint; Nil: broker.taskQueues has no such queue
  futureScheduled,    \* entries of each node, by priority, in futureScheduledNodes
  workers,            \* identifiers in broker.workers
  invalidated,        \* workers that were garbage collected
  overdue,            \* workers whose lastPing is older than requiredPingInterval
  allowedQueues,      \* Worker.allowedQueues; {}: to be computed
  claimedWork,        \* occurrences of each node in Worker.claimedWork
  pc,                 \* the client process of a worker and the handler of its call
  current,            \* the node that process executes or that handler is about
  release,            \* the claimed work a ReleaseWorkerLock call is about to write
  notify,             \* destinations ExecutionDidResolve has yet to notify
  toTask,             \* nodes EnqueueNode decided to add to a task queue
  toFuture,           \* nodes EnqueueNode decided to add to the retry queue
  collecting,         \* the worker being garbage collected
  collected,          \* its claimed nodes that are still to be freed
  draining,           \* does the scheduler hold futureScheduledNodesLock?
  now                 \* the wall clock

instanceVars  == <<instances, order, nodes, creating>>
nodeVars      == <<completed, dequeueWorker, nextRetryAvailable,
                   currentAttempt, failures>>
queueVars     == <<taskQueue, queueTaint, futureScheduled>>
workerVars    == <<workers, invalidated, overdue, allowedQueues, claimedWork>>
handlerVars   == <<pc, current, release, notify>>
enqueueVars   == <<toTask, toFuture>>
loopVars      == <<collecting, collected, draining>>
vars == <<instanceVars, nodeVars, queueVars, workerVars, handlerVars,
          enqueueVars, loopVars, now>>

PC == {"absent", "idle", "popping", "executing", "dead",
       "resolving", "releasing", "locking", "clearing", "resolved", "notifying",
       "failing", "lockingFailed", "clearingFailed", "backoff", "requeue"}

\* The places at which a worker or its call has a node.
Working == PC \ {"absent", "idle", "popping", "dead"}

Release == [owner : Worker \cup {Nil}, claims : [Node -> Nat]]
NoRelease == [owner |-> Nil, claims |-> NoNodes]

TypeOK ==
  /\ instances \subseteq Instance /\ IsFiniteSet(instances)
  /\ order \in [Instance -> Nat]
  /\ nodes \subseteq Node
  /\ creating \in [Instance -> Node \cup {Nil}]
  /\ completed \subseteq Node
  /\ dequeueWorker \in [Node -> Worker \cup {Nil}]
  /\ nextRetryAvailable \in [Node -> Due]
  /\ currentAttempt \in [Node -> Nat]
  /\ failures \in [Node -> Nat]
  /\ taskQueue \in [Node -> Nat]
  /\ queueTaint \in [QueueName -> TaintName \cup {NoTaint, Nil}]
  /\ futureScheduled \in [Node -> [Due -> Nat]]
  /\ workers \subseteq Worker
  /\ invalidated \subseteq Worker
  /\ overdue \subseteq Worker
  /\ allowedQueues \in [Worker -> SUBSET QueueName]
  /\ claimedWork \in [Worker -> [Node -> Nat]]
  /\ pc \in [Worker -> PC]
  /\ current \in [Worker -> Node \cup {Nil}]
  /\ \A w \in Worker : pc[w] \in Working => current[w] \in Node
  /\ release \in [Worker -> Release]
  /\ \A w \in Worker : pc[w] \in {"locking", "lockingFailed"} => release[w].owner # Nil
  /\ notify \in [Worker -> [Node -> Nat]]
  /\ toTask \in [Thread -> Node \cup {Nil}]
  /\ toFuture \in [Thread -> Node \cup {Nil}]
  /\ collecting \in Worker \cup {Nil}
  /\ collected \in [Node -> Nat]
  /\ draining \in BOOLEAN
  /\ now \in Nat

Init ==
  /\ instances = {}
  /\ order = [i \in Instance |-> 0]
  /\ nodes = {}
  /\ creating = [i \in Instance |-> Nil]
  /\ completed = {}
  /\ dequeueWorker = [n \in Node |-> Nil]
  /\ nextRetryAvailable = [n \in Node |-> -1]
  /\ currentAttempt = NoNodes
  /\ failures = NoNodes
  /\ taskQueue = NoNodes
  /\ queueTaint = [q \in QueueName |-> Nil]
  /\ futureScheduled = [n \in Node |-> [t \in Due |-> 0]]
  /\ workers = {}
  /\ invalidated = {}
  /\ overdue = {}
  /\ allowedQueues = [w \in Worker |-> {}]
  /\ claimedWork = [w \in Worker |-> NoNodes]
  /\ pc = [w \in Worker |-> "absent"]
  /\ current = [w \in Worker |-> Nil]
  /\ release = [w \in Worker |-> NoRelease]
  /\ notify = [w \in Worker |-> NoNodes]
  /\ toTask = [t \in Thread |-> Nil]
  /\ toFuture = [t \in Thread |-> Nil]
  /\ collecting = Nil
  /\ collected = NoNodes
  /\ draining = FALSE
  /\ now = 0

-----------------------------------------------------------------------------
(***************************************************************************)
(* EnqueueNode.  The choice between the two kinds of queue is made before  *)
(* the lock of the chosen one is taken, and is not reconsidered: a thread  *)
(* that has made it is busy until it has pushed the node.                  *)
(***************************************************************************)
Busy(t) == toTask[t] # Nil \/ toFuture[t] # Nil

\* Mistake: a node is due only after the time of its retry has passed.
BackedOffWhenDue(n) == nextRetryAvailable[n] > -1 /\ now <= nextRetryAvailable[n]
\* Mistake: the time of the retry is ignored.
BackedOffNever(n) == FALSE

BackedOff(n) == nextRetryAvailable[n] > -1 /\ now < nextRetryAvailable[n]

EnqueueNode(t, n) ==
  \/ /\ BackedOff(n)
     /\ toFuture' = [toFuture EXCEPT ![t] = n]
     /\ UNCHANGED toTask
  \/ /\ ~BackedOff(n)
     /\ toTask' = [toTask EXCEPT ![t] = n]
     /\ UNCHANGED toFuture

\* The taint and the cached allowed queues after a push of the node: the first
\* node of a queue creates it, and invalidates what every worker has cached.
QueueTaintsWith(n) ==
  [q \in QueueName |-> IF q = QueueOf[n] /\ queueTaint[q] = Nil THEN TaintOf[n]
                                                                ELSE queueTaint[q]]

\* Mistake: a new queue does not clear the caches.
CachesKept(n) == allowedQueues

CachesWith(n) ==
  IF queueTaint[QueueOf[n]] = Nil THEN [w \in Worker |-> {}] ELSE allowedQueues

\* The branch under taskQueuesLock.
PushTask(t) ==
  LET n == toTask[t]
  IN  /\ n # Nil
      /\ queueTaint' = QueueTaintsWith(n)
      /\ allowedQueues' = CachesWith(n)
      /\ nextRetryAvailable' = [nextRetryAvailable EXCEPT ![n] = -1]
      /\ taskQueue' = [taskQueue EXCEPT ![n] = @ + 1]
      /\ toTask' = [toTask EXCEPT ![t] = Nil]
      /\ UNCHANGED <<instanceVars, completed, dequeueWorker, currentAttempt,
                     failures, futureScheduled, workers, invalidated, overdue,
                     claimedWork, handlerVars, toFuture, loopVars, now>>

\* The branch under futureScheduledNodesLock, which is not reentrant: the
\* scheduler, which holds it while it drains the queue, never gets through.
PushFuture(t) ==
  LET n == toFuture[t]
  IN  /\ n # Nil
      /\ ~draining
      /\ futureScheduled' =
           [futureScheduled EXCEPT ![n][nextRetryAvailable[n]] = @ + 1]
      /\ toFuture' = [toFuture EXCEPT ![t] = Nil]
      /\ UNCHANGED <<instanceVars, nodeVars, taskQueue, queueTaint, workerVars,
                     handlerVars, toTask, loopVars, now>>

\* Mistake: one completed dependency is enough.
AnyDependencyComplete(n) ==
  SourcesOf(n) = {} \/ SourcesOf(n) \cap completed # {}

DependenciesComplete(n) == SourcesOf(n) \subseteq completed

\* Mistake: the notification is taken for the last one.
DependencyDidResolveUnchecked(t, n) == EnqueueNode(t, n)
\* Mistake: NewNode enqueues only nodes without dependencies.
DependencyDidResolveByNotice(t, n) ==
  IF DependenciesComplete(n) /\ (t \in Instance => SourcesOf(n) = {})
    THEN EnqueueNode(t, n)
    ELSE UNCHANGED enqueueVars

\* DependencyDidResolve: enqueue the node once all its sources are completed.
DependencyDidResolve(t, n) ==
  \/ /\ DependenciesComplete(n)
     /\ EnqueueNode(t, n)
  \/ /\ ~DependenciesComplete(n)
     /\ UNCHANGED enqueueVars

-----------------------------------------------------------------------------
(***************************************************************************)
(* CreateInstance and CreateNode.                                          *)
(***************************************************************************)
CreateInstance(i) ==
  /\ i \notin instances
  /\ instances' = instances \cup {i}
  /\ order' = [order EXCEPT ![i] = Cardinality(instances)]
  /\ UNCHANGED <<nodes, creating, nodeVars, queueVars, workerVars,
                 handlerVars, enqueueVars, loopVars, now>>

\* The instance's nodeLock is held from the insertion of a node until its
\* NewNode call has returned.
NodeLockFree(i) == creating[i] = Nil /\ ~Busy(i)

\* A client passes as sources only promises of earlier CreateNode calls.  From
\* here on the node is among the destinations of its sources.
NewNode(n) ==
  LET i == InstanceOf[n]
  IN  /\ i \in instances
      /\ n \notin nodes
      /\ SourcesOf(n) \subseteq nodes
      /\ NodeLockFree(i)
      /\ nodes' = nodes \cup {n}
      /\ creating' = [creating EXCEPT ![i] = n]
      /\ UNCHANGED <<instances, order, nodeVars, queueVars, workerVars,
                     handlerVars, enqueueVars, loopVars, now>>

ResolveNewNode(i) ==
  /\ creating[i] # Nil
  /\ ~Busy(i)
  /\ DependencyDidResolve(i, creating[i])
  /\ creating' = [creating EXCEPT ![i] = Nil]
  /\ UNCHANGED <<instances, order, nodes, nodeVars, queueVars, workerVars,
                 handlerVars, loopVars, now>>

-----------------------------------------------------------------------------
(***************************************************************************)
(* CreateWorker, Ping, and the passing of a ping interval.  The ping       *)
(* thread of a worker lives as long as its process; Ping asks nothing      *)
(* about invalidation.                                                     *)
(***************************************************************************)
NewWorker(w) ==
  /\ pc[w] = "absent"
  /\ workers' = workers \cup {w}
  /\ pc' = [pc EXCEPT ![w] = "idle"]
  /\ UNCHANGED <<instanceVars, nodeVars, queueVars, invalidated, overdue,
                 allowedQueues, claimedWork, current, release, notify, enqueueVars,
                 loopVars, now>>

Ping(w) ==
  /\ w \in overdue
  /\ pc[w] # "dead"
  /\ overdue' = overdue \ {w}
  /\ UNCHANGED <<instanceVars, nodeVars, queueVars, workers, invalidated,
                 allowedQueues, claimedWork, handlerVars, enqueueVars,
                 loopVars, now>>

MissPing(w) ==
  /\ w \in workers \ overdue
  /\ w \in LatePings \/ pc[w] = "dead"
  /\ overdue' = overdue \cup {w}
  /\ UNCHANGED <<instanceVars, nodeVars, queueVars, workers, invalidated,
                 allowedQueues, claimedWork, handlerVars, enqueueVars,
                 loopVars, now>>

\* The process of a worker ends: it is killed, or an exception reaches the top
\* of execute_worker_async (code mismatch, function not found).
Crash(w) ==
  /\ pc[w] \in {"idle", "executing"}
  /\ ~Busy(w)
  /\ w \notin Reliable
  /\ pc' = [pc EXCEPT ![w] = "dead"]
  /\ current' = [current EXCEPT ![w] = Nil]
  /\ UNCHANGED <<instanceVars, nodeVars, queueVars, workerVars, release, notify,
                 enqueueVars, loopVars, now>>

-----------------------------------------------------------------------------
(***************************************************************************)
(* GetWork.  A worker that was invalidated is refused; the exception ends  *)
(* its process.                                                            *)
(***************************************************************************)
Refuse(w) ==
  /\ w \in invalidated
  /\ pc' = [pc EXCEPT ![w] = "dead"]
  /\ current' = [current EXCEPT ![w] = Nil]

GetWork(w) ==
  /\ pc[w] = "idle"
  /\ ~Busy(w)
  /\ \/ Refuse(w)
     \/ /\ w \notin invalidated
        /\ pc' = [pc EXCEPT ![w] = "popping"]
        /\ UNCHANGED current
  /\ UNCHANGED <<instanceVars, nodeVars, queueVars, workerVars, release, notify,
                 enqueueVars, loopVars, now>>

\* Mistake: taints are not looked at.
AllowedQueuesAnyTaint(w) ==
  {q \in QueueName :
     /\ queueTaint[q] # Nil
     /\ IncludeQueues[w] = {} \/ q \in IncludeQueues[w]
     /\ q \notin ExcludeQueues[w]}

\* What getAllowedQueues computes when it has nothing cached.
FreshAllowedQueues(w) ==
  {q \in QueueName :
     /\ queueTaint[q] # Nil
     /\ IncludeQueues[w] = {} \/ q \in IncludeQueues[w]
     /\ q \notin ExcludeQueues[w]
     /\ queueTaint[q] = NoTaint \/ queueTaint[q] \in Tolerations[w]}

GetAllowedQueues(w) ==
  IF allowedQueues[w] # {} THEN allowedQueues[w] ELSE FreshAllowedQueues(w)

Priority(n) == order[InstanceOf[n]]

\* The nodes that wait in the given queues.
Waiting(queues) == {n \in Node : taskQueue[n] > 0 /\ QueueOf[n] \in queues}

\* Mistake: an empty heap is popped.
TopNodesUnchecked(queues) == {n \in Node : QueueOf[n] \in queues}
\* Mistake: the queues are not compared by priority.
TopNodesAnyPriority(queues) == Waiting(queues)

\* The nodes PopNextNode may return: those of one of the queues whose top has the
\* least priority (in map order), any node of that priority that its heap has on
\* top.
TopNodes(queues) ==
  {n \in Waiting(queues) : \A m \in Waiting(queues) : Priority(n) <= Priority(m)}

\* Mistake: the node is not added to the work of the worker.
ClaimNothing(w, n) == claimedWork

Claim(w, n) == [claimedWork EXCEPT ![w][n] = @ + 1]

\* PopNextNode, under taskQueuesLock.
PopNextNode(w) ==
  LET queues == GetAllowedQueues(w)
  IN  /\ pc[w] = "popping"
      /\ allowedQueues' = [allowedQueues EXCEPT ![w] = queues]
      /\ \/ /\ Waiting(queues) = {}
            /\ pc' = [pc EXCEPT ![w] = "idle"]
            /\ UNCHANGED <<taskQueue, dequeueWorker, claimedWork, current>>
         \/ \E n \in TopNodes(queues) :
              /\ taskQueue' = [taskQueue EXCEPT ![n] = @ - 1]
              /\ dequeueWorker' = [dequeueWorker EXCEPT ![n] = w]
              /\ claimedWork' = Claim(w, n)
              /\ pc' = [pc EXCEPT ![w] = "executing"]
              /\ current' = [current EXCEPT ![w] = n]
      /\ UNCHANGED <<instanceVars, completed, nextRetryAvailable,
                     currentAttempt, failures, queueTaint, futureScheduled,
                     workers, invalidated, overdue, release, notify, enqueueVars,
                     loopVars, now>>

-----------------------------------------------------------------------------
(***************************************************************************)
(* SubmitWork and ExecutionDidResolve.  GetNode reads instance.nodes under *)
(* nodeLock.                                                               *)
(***************************************************************************)
SubmitWork(w) ==
  /\ pc[w] = "executing"
  /\ \/ Refuse(w)
     \/ /\ w \notin invalidated
        /\ NodeLockFree(InstanceOf[current[w]])
        /\ pc' = [pc EXCEPT ![w] = "resolving"]
        /\ UNCHANGED current
  /\ UNCHANGED <<instanceVars, nodeVars, queueVars, workerVars, release, notify,
                 enqueueVars, loopVars, now>>

Complete(w) ==
  /\ pc[w] = "resolving"
  /\ completed' = completed \cup {current[w]}
  /\ pc' = [pc EXCEPT ![w] = "releasing"]
  /\ UNCHANGED <<instanceVars, dequeueWorker, nextRetryAvailable,
                 currentAttempt, failures, queueVars, workerVars, current,
                 release, notify, enqueueVars, loopVars, now>>

\* ReleaseWorkerLock reads which worker dequeued the node last, which need not be
\* the worker that submits.  If there is one, its claimedWorkLock is taken.
ReadOwner(w) ==
  LET owner == dequeueWorker[current[w]]
  IN  /\ \/ /\ pc[w] = "releasing"
            /\ pc' = [pc EXCEPT ![w] = IF owner = Nil THEN "clearing" ELSE "locking"]
         \/ /\ pc[w] = "failing"
            /\ pc' = [pc EXCEPT ![w] = IF owner = Nil THEN "clearingFailed"
                                                     ELSE "lockingFailed"]
      /\ release' = [release EXCEPT ![w].owner = owner]
      /\ UNCHANGED <<instanceVars, nodeVars, queueVars, workerVars, current,
                     notify, enqueueVars, loopVars, now>>

\* PopNextNode and GarbageCollectWorkers do not take this lock.
ClaimsLockFree(owner) ==
  \A w \in Worker : pc[w] \in {"clearing", "clearingFailed"} => release[w].owner # owner

\* Mistake: the comparison of the filter is always true.
ClaimsAll(owner, n) == claimedWork[owner]

ClaimsWithout(owner, n) == [claimedWork[owner] EXCEPT ![n] = 0]

\* Under the lock, the work of that worker is filtered.
ReadClaims(w) ==
  LET owner == release[w].owner
  IN  /\ \/ /\ pc[w] = "locking"
            /\ pc' = [pc EXCEPT ![w] = "clearing"]
         \/ /\ pc[w] = "lockingFailed"
            /\ pc' = [pc EXCEPT ![w] = "clearingFailed"]
      /\ ClaimsLockFree(owner)
      /\ release' = [release EXCEPT ![w].claims = ClaimsWithout(owner, current[w])]
      /\ UNCHANGED <<instanceVars, nodeVars, queueVars, workerVars, current,
                     notify, enqueueVars, loopVars, now>>

ReleaseWorkerLock(w) ==
  /\ \/ /\ pc[w] = "clearing"
        /\ pc' = [pc EXCEPT ![w] = "resolved"]
     \/ /\ pc[w] = "clearingFailed"
        /\ pc' = [pc EXCEPT ![w] = "backoff"]
  /\ claimedWork' = [v \in Worker |-> IF v = release[w].owner THEN release[w].claims
                                                             ELSE claimedWork[v]]
  /\ dequeueWorker' = [dequeueWorker EXCEPT ![current[w]] = Nil]
  /\ release' = [release EXCEPT ![w] = NoRelease]
  /\ UNCHANGED <<instanceVars, completed, nextRetryAvailable, currentAttempt,
                 failures, queueVars, workers, invalidated, overdue,
                 allowedQueues, current, notify, enqueueVars, loopVars, now>>

\* The range over node.destinations sees the destinations of this moment.
Destinations(n) == [d \in Node |-> IF d \in nodes THEN Sources[d][n] ELSE 0]

ReadDestinations(w) ==
  /\ pc[w] = "resolved"
  /\ notify' = [notify EXCEPT ![w] = Destinations(current[w])]
  /\ pc' = [pc EXCEPT ![w] = "notifying"]
  /\ UNCHANGED <<instanceVars, nodeVars, queueVars, workerVars, current, release,
                 enqueueVars, loopVars, now>>

Notify(w, d) ==
  /\ pc[w] = "notifying"
  /\ ~Busy(w)
  /\ notify[w][d] > 0
  /\ notify' = [notify EXCEPT ![w][d] = @ - 1]
  /\ DependencyDidResolve(w, d)
  /\ UNCHANGED <<instanceVars, nodeVars, queueVars, workerVars, pc, current,
                 release, loopVars, now>>

Resolved(w) ==
  /\ pc[w] = "notifying"
  /\ ~Busy(w)
  /\ notify[w] = NoNodes
  /\ pc' = [pc EXCEPT ![w] = "idle"]
  /\ current' = [current EXCEPT ![w] = Nil]
  /\ UNCHANGED <<instanceVars, nodeVars, queueVars, workerVars, release, notify,
                 enqueueVars, loopVars, now>>

-----------------------------------------------------------------------------
(***************************************************************************)
(* SubmitFailure, ExecutionDidFail and BackoffNode.                        *)
(***************************************************************************)
SubmitFailure(w) ==
  /\ pc[w] = "executing"
  /\ \/ Refuse(w)
     \/ /\ w \notin invalidated
        /\ NodeLockFree(InstanceOf[current[w]])
        /\ pc' = [pc EXCEPT ![w] = "failing"]
        /\ UNCHANGED current
  /\ UNCHANGED <<instanceVars, nodeVars, queueVars, workerVars, release, notify,
                 enqueueVars, loopVars, now>>

\* failuresLock of a node is held from the record of the failure until the node
\* is back in a queue.
FailuresLockFree(n) ==
  \A w \in Worker : /\ pc[w] = "requeue" => current[w] # n
                    /\ pc[w] = "idle" => n \notin {toTask[w], toFuture[w]}

BackoffNode(w) ==
  LET n == current[w]
  IN  /\ pc[w] = "backoff"
      /\ FailuresLockFree(n)
      /\ failures' = [failures EXCEPT ![n] = @ + 1]
      /\ currentAttempt' = [currentAttempt EXCEPT ![n] = NextAttempt(PolicyOf(n), @)]
      /\ \E jitter \in Jitter :
           LET wait == GetWaitInterval(PolicyOf(n), currentAttempt[n], jitter)
           IN  \/ /\ ~PolicyOf(n).enabled \/ wait = -1
                  /\ pc' = [pc EXCEPT ![w] = "idle"]
                  /\ current' = [current EXCEPT ![w] = Nil]
                  /\ UNCHANGED nextRetryAvailable
               \/ /\ PolicyOf(n).enabled /\ wait # -1
                  /\ now + wait \in Due
                  /\ nextRetryAvailable' = [nextRetryAvailable EXCEPT ![n] = now + wait]
                  /\ pc' = [pc EXCEPT ![w] = "requeue"]
                  /\ UNCHANGED current
      /\ UNCHANGED <<instanceVars, completed, dequeueWorker, queueVars,
                     workerVars, release, notify, enqueueVars, loopVars, now>>

Requeue(w) ==
  /\ pc[w] = "requeue"
  /\ ~Busy(w)
  /\ EnqueueNode(w, current[w])
  /\ pc' = [pc EXCEPT ![w] = "idle"]
  /\ current' = [current EXCEPT ![w] = Nil]
  /\ UNCHANGED <<instanceVars, nodeVars, queueVars, workerVars, release, notify,
                 loopVars, now>>

-----------------------------------------------------------------------------
(***************************************************************************)
(* GarbageCollectWorkers: the iteration of the loop for one worker.  It    *)
(* takes no lock; workers stay in broker.workers for ever.                 *)
(***************************************************************************)
CollectWorker(w) ==
  /\ collecting = Nil
  /\ w \in workers \cap overdue
  /\ collecting' = w
  /\ collected' = claimedWork[w]
  /\ UNCHANGED <<instanceVars, nodeVars, queueVars, workerVars, handlerVars,
                 enqueueVars, draining, now>>

FreeNode(n) ==
  /\ collecting # Nil
  /\ ~Busy(GC)
  /\ collected[n] > 0
  /\ collected' = [collected EXCEPT ![n] = @ - 1]
  /\ dequeueWorker' = [dequeueWorker EXCEPT ![n] = Nil]
  /\ EnqueueNode(GC, n)
  /\ UNCHANGED <<instanceVars, completed, nextRetryAvailable, currentAttempt,
                 failures, queueVars, workerVars, handlerVars, collecting,
                 draining, now>>

InvalidateWorker ==
  /\ collecting # Nil
  /\ ~Busy(GC)
  /\ collected = NoNodes
  /\ claimedWork' = [claimedWork EXCEPT ![collecting] = NoNodes]
  /\ invalidated' = invalidated \cup {collecting}
  /\ collecting' = Nil
  /\ UNCHANGED <<instanceVars, nodeVars, queueVars, workers, overdue,
                 allowedQueues, handlerVars, enqueueVars, collected, draining,
                 now>>

-----------------------------------------------------------------------------
(***************************************************************************)
(* QueueFutureScheduled.  The scheduler keeps futureScheduledNodesLock     *)
(* while it moves the nodes that are due, and calls EnqueueNode under it.  *)
(***************************************************************************)
FutureEntries == {e \in Node \X Due : futureScheduled[e[1]][e[2]] > 0}

LockFuture ==
  /\ ~draining
  /\ FutureEntries # {}
  /\ draining' = TRUE
  /\ UNCHANGED <<instanceVars, nodeVars, queueVars, workerVars, handlerVars,
                 enqueueVars, collecting, collected, now>>

PopDue(n, t) ==
  /\ draining
  /\ ~Busy(Scheduler)
  /\ <<n, t>> \in FutureEntries
  /\ \A e \in FutureEntries : t <= e[2]
  /\ t <= now
  /\ futureScheduled' = [futureScheduled EXCEPT ![n][t] = @ - 1]
  /\ EnqueueNode(Scheduler, n)
  /\ UNCHANGED <<instanceVars, nodeVars, taskQueue, queueTaint, workerVars,
                 handlerVars, loopVars, now>>

UnlockFuture ==
  /\ draining
  /\ ~Busy(Scheduler)
  /\ \A e \in FutureEntries : e[2] > now
  /\ draining' = FALSE
  /\ UNCHANGED <<instanceVars, nodeVars, queueVars, workerVars, handlerVars,
                 enqueueVars, collecting, collected, now>>

\* The clock is compared with retry times only, so it need not advance unless
\* one lies ahead.
Tick ==
  /\ \/ \E n \in Node : now < nextRetryAvailable[n]
     \/ \E e \in FutureEntries : now < e[2]
  /\ now' = now + 1
  /\ UNCHANGED <<instanceVars, nodeVars, queueVars, workerVars, handlerVars,
                 enqueueVars, loopVars>>

-----------------------------------------------------------------------------
ClientStep(w) ==
  \/ NewWorker(w) \/ Ping(w) \/ MissPing(w) \/ Crash(w)
  \/ GetWork(w) \/ SubmitWork(w) \/ SubmitFailure(w)

HandlerStep(w) ==
  \/ PopNextNode(w)
  \/ Complete(w) \/ ReadOwner(w) \/ ReadClaims(w) \/ ReleaseWorkerLock(w)
  \/ ReadDestinations(w)
  \/ (\E d \in Node : Notify(w, d)) \/ Resolved(w)
  \/ BackoffNode(w) \/ Requeue(w)

CreateStep(i) ==
  \/ CreateInstance(i)
  \/ \E n \in Node : InstanceOf[n] = i /\ NewNode(n)
  \/ ResolveNewNode(i)

CollectStep ==
  \/ \E w \in Worker : CollectWorker(w)
  \/ \E n \in Node : FreeNode(n)
  \/ InvalidateWorker

SchedulerStep ==
  \/ LockFuture
  \/ \E n \in Node, t \in Due : PopDue(n, t)
  \/ UnlockFuture

Next ==
  \/ \E w \in Worker : ClientStep(w) \/ HandlerStep(w)
  \/ \E i \in Instance : CreateStep(i)
  \/ \E t \in Thread : PushTask(t) \/ PushFuture(t)
  \/ CollectStep
  \/ SchedulerStep
  \/ Tick

Spec == Init /\ [][Next]_vars
=============================================================================
