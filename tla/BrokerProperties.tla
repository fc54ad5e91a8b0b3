------------------------- MODULE BrokerProperties -------------------------
(***************************************************************************)
(* What the broker is to guarantee, and the fairness of its threads.       *)
(***************************************************************************)
EXTENDS Broker

Realized(n) == SourcesOf(n) \subseteq completed

Ready(n) == n \in nodes /\ Realized(n)

\* BackoffNode left the node alone: it failed more often than it may be retried.
Exhausted(n) == failures[n] > currentAttempt[n]

Executing(w, n) == pc[w] = "executing" /\ current[w] = n

-----------------------------------------------------------------------------
(***************************************************************************)
(* The traces a node leaves.                                               *)
(***************************************************************************)
Queued(n) ==
  \/ taskQueue[n] > 0
  \/ \E t \in Due : futureScheduled[n][t] > 0
  \/ \E t \in Thread : n \in {toTask[t], toFuture[t]}

\* A call in progress has yet to look whether the dependencies of n are complete.
Awaited(n) ==
  \/ \E i \in Instance : creating[i] = n
  \/ \E w \in Worker :
       \/ pc[w] \in {"releasing", "locking", "clearing", "resolved"} /\ Sources[n][current[w]] > 0
       \/ pc[w] = "notifying" /\ notify[w][n] > 0

\* A SubmitFailure call in progress decides about the node.
Failing(n) ==
  \E w \in Worker :
    /\ current[w] = n
    /\ pc[w] \in {"failing", "lockingFailed", "clearingFailed", "backoff", "requeue"}

\* A SubmitWork call in progress is about to set the completed flag of the node.
Resolving(n) == \E w \in Worker : current[w] = n /\ pc[w] = "resolving"

Claimed(n) ==
  \/ \E w \in Worker : claimedWork[w][n] > 0
  \/ collected[n] > 0

\* The node has been handed to a queue or a worker, or a call in progress is still
\* to look at it.
Attended(n) ==
  \/ n \in completed
  \/ failures[n] > 0
  \/ Queued(n)
  \/ dequeueWorker[n] # Nil
  \/ Failing(n)
  \/ Awaited(n)

-----------------------------------------------------------------------------
(***************************************************************************)
(* Safety.                                                                 *)
(***************************************************************************)

\* A worker executes a node only once all dependencies of the node have been
\* realized (README.md, "API Notes"), whoever created, failed, retried or was
\* collected in the meantime.
DependenciesRealized ==
  \A w \in Worker : \A n \in Node : Executing(w, n) => Realized(n)

\* No wake-up is lost: when the dependencies of a node are complete, the node has
\* been handed to a queue or a worker, or a call in progress is still to look at
\* it.  This relates the flag that ExecutionDidResolve sets before it reads the
\* destinations to the back-links that NewNode adds before it reads the flags.
NoLostWakeup == \A n \in Node : Ready(n) => Attended(n)

\* The cached allowed queues of a worker are those a fresh computation of
\* getAllowedQueues would return: every new queue clears every cache.
CacheCoherent ==
  \A w \in Worker :
    allowedQueues[w] # {} => allowedQueues[w] = FreshAllowedQueues(w)

\* A worker executes tainted nodes only if it tolerates the taint, where all
\* nodes of a queue have one taint.
TaintHonoured ==
  \A w \in Worker : \A n \in Node :
    Executing(w, n) => TaintOf[n] \in Tolerations[w] \cup {NoTaint}

\* A node that is ready and neither completed nor out of attempts can still be
\* reached, whatever dies: it is queued, among the work of a worker from which a
\* garbage collection can free it, or a call in progress is about to complete or
\* to queue it.  To be executed by a worker that has no record of it is not enough.
NoOrphan ==
  \A n \in Node : Ready(n) =>
    \/ n \in completed
    \/ Exhausted(n)
    \/ Queued(n)
    \/ Claimed(n)
    \/ Failing(n)
    \/ Resolving(n)
    \/ Awaited(n)

\* The broker updates claimedWork without a common lock.  An update is lost when
\* one of these fails, and with it what is proved of nodes under them.  ReleaseWorkerLock
\* writes back a filtered list: of every other node, it has what the list still has.
ClaimsCurrent ==
  \A w \in Worker :
    pc[w] \in {"clearing", "clearingFailed"} /\ release[w].owner # Nil =>
      \A n \in Node \ {current[w]} :
        release[w].claims[n] = claimedWork[release[w].owner][n]

\* GarbageCollectWorkers empties a list: its worker is not about to be given a node.
CollectedAtRest == collecting # Nil => pc[collecting] # "popping"

\* The worker that dequeued a node has sole control over it: ReleaseWorkerLock
\* speaks of "the worker's sole control over this element".
SoleControl ==
  \A v, w \in Worker : \A n \in Node : Executing(v, n) /\ Executing(w, n) => v = w

\* For nodes without dependencies it does hold while only dead workers miss their
\* pings and no update of claimedWork is lost: a node that is executed is executed by
\* one worker, waits in no queue, and has not been completed before, through failures,
\* retries and collections.
RootSoleControl ==
  \A n \in Node : SourcesOf(n) = {} =>
    \A w \in Worker : Executing(w, n) =>
      /\ \A v \in Worker : Executing(v, n) => v = w
      /\ ~Queued(n)
      /\ n \notin completed

\* How often a node may be retried: never without a policy, nor with a maxAttempts
\* that is not positive (the field of the message is a signed integer).
Retries(n) ==
  IF PolicyOf(n).enabled /\ PolicyOf(n).maxAttempts > 0 THEN PolicyOf(n).maxAttempts
                                                       ELSE 0

\* Is the node to be executed, or executed?
Outstanding(n) == Queued(n) \/ \E w \in Worker : Executing(w, n)

\* A node without dependencies is queued or executed only while its reported failures
\* leave it a try: its policy allows one try and then one for each retry, whatever is
\* collected in between.  (A try that ends with its worker is not reported: the garbage
\* collection enqueues the node again and counts nothing, so that the number of tries
\* has no bound.)
RetryBudget ==
  \A n \in Node :
    SourcesOf(n) = {} /\ Outstanding(n) => failures[n] <= Retries(n)

\* The scheduler never waits for the lock it holds itself: QueueFutureScheduled
\* "will run forever" (server.go).
SchedulerRunsForever == ~(draining /\ toFuture[Scheduler] # Nil)

-----------------------------------------------------------------------------
(***************************************************************************)
(* Action properties.                                                      *)
(***************************************************************************)

\* May the worker pull the node, by its own configuration and the queue's taint?
MayPull(w, n) ==
  /\ IncludeQueues[w] # {} => QueueOf[n] \in IncludeQueues[w]
  /\ QueueOf[n] \notin ExcludeQueues[w]
  /\ queueTaint[QueueOf[n]] \in Tolerations[w] \cup {NoTaint}

\* PopNextNode hands a worker a node that it may pull, and never one of an
\* instance while a node of an instance created earlier waits that it also may
\* pull; it returns nothing only if nothing it may pull waits.
PopsFirstAllowed ==
  [][\A w \in Worker : pc[w] = "popping" /\ pc'[w] \in {"idle", "executing"} =>
       LET pullable == {n \in Node : taskQueue[n] > 0 /\ MayPull(w, n)}
       IN  \/ pullable = {} /\ pc'[w] = "idle"
           \/ /\ current'[w] \in pullable
              /\ \A m \in pullable :
                   order[InstanceOf[current'[w]]] <= order[InstanceOf[m]]]_vars

\* A failed node is not added to a task queue before the time of its retry, be it
\* by the failing call, the scheduler or the garbage collection.  (Of the nodes
\* without dependencies: EnqueueNode decides before it takes the lock, so a second
\* dispatch of the node could push it although it has failed since.)
RetryNotEarly ==
  [][\A n \in Node : SourcesOf(n) = {} /\ taskQueue'[n] > taskQueue[n] =>
       now >= nextRetryAvailable[n]]_vars

-----------------------------------------------------------------------------
(***************************************************************************)
(* Refinement.  To a client only this of the broker's state matters: which *)
(* nodes exist, which are completed, and what each worker executes, until  *)
(* the completed flag is set or the worker gives up.                       *)
(***************************************************************************)
SourceSets == [n \in Node |-> SourcesOf(n)]

Running ==
  [w \in Worker |-> IF pc[w] \in {"executing", "resolving"} THEN current[w] ELSE Nil]

Contract == INSTANCE DagContract
  WITH created <- nodes, sources <- SourceSets, done <- completed,
       running <- Running

\* The broker implements its contract: whatever two threads interleave, each step
\* creates a node after its sources, gives a worker a node that is created and has
\* all its sources completed, completes the node a worker had been given, takes it
\* from the worker, or changes nothing a client sees.
MeetsContract == Contract!ContractSpec

-----------------------------------------------------------------------------
(***************************************************************************)
(* Liveness.  Handlers and the two loops run on; a client polls for work   *)
(* and the functions it executes end; time passes while a retry lies       *)
(* ahead; a process that died misses its ping.  GarbageCollectWorkers      *)
(* visits every worker in every cycle.  Nothing is assumed of the clients  *)
(* that create workers, instances and nodes, nor of crashes.               *)
(***************************************************************************)
Fairness ==
  /\ \A w \in Worker : /\ WF_vars(HandlerStep(w))
                       /\ WF_vars(GetWork(w))
                       /\ WF_vars(SubmitWork(w) \/ SubmitFailure(w))
                       /\ WF_vars(pc[w] = "dead" /\ MissPing(w))
                       /\ SF_vars(CollectWorker(w))
  /\ \A i \in Instance : WF_vars(ResolveNewNode(i))
  /\ \A t \in Thread : WF_vars(PushTask(t)) /\ WF_vars(PushFuture(t))
  /\ WF_vars(InvalidateWorker \/ \E n \in Node : FreeNode(n))
  /\ WF_vars(SchedulerStep)
  /\ WF_vars(Tick)

FairSpec == Spec /\ Fairness

\* Every node that becomes ready while a worker that does not die is connected is
\* completed in the end, unless it uses up its attempts: through crashes of the
\* other workers, their garbage collection, retries and the scheduler.
EventuallyDone ==
  \A n \in Node :
    (Ready(n) /\ workers \cap Reliable # {}) ~> (n \in completed \/ Exhausted(n))
=============================================================================
