-------------------------- MODULE PersistentBroker --------------------------
(***************************************************************************)
(* The broker with storage enabled: the steps of Broker, the writes to the *)
(* database that go with them, and the end and restart of the broker's     *)
(* process, which keeps only what the database has.                        *)
(*                                                                         *)
(* The row of a DAG instance is inserted under instancesLock, as part of   *)
(* CreateInstance, and never changes, so that instances and order are also *)
(* what the table dag_instance holds.  The row of a node is written whole  *)
(* (an upsert): UpsertIntoDatabase copies the node in one step, the        *)
(* database takes over the copy in a later one.  A row is modelled by the  *)
(* fields that change or that a restart looks at; the sources never        *)
(* change, and failures and attempts are written but not read again.       *)
(***************************************************************************)
EXTENDS BrokerProperties

CONSTANT Lives   \* bound: how often the process of the broker is started

ASSUME LivesAssumption == Lives \in Nat \ {0}

VARIABLES
  rows,     \* the table dag_node; Nil: the node has no row
  upserts,  \* the upsert each thread waits for; Nil: none
  loading,  \* nodes LoadFromDatabase has yet to enqueue
  hollow,   \* instances LoadFromDatabase made: they have no nodes map
  lives,    \* how often the process was started
  finished  \* history: the nodes whose row has said that they are completed

storeVars == <<rows, upserts, loading, hollow, lives, finished>>

Row == [destinations : SUBSET Node, completed : BOOLEAN]

\* The lock that is held for the upsert and released after it: taskQueuesLock,
\* futureScheduledNodesLock, the failuresLock of the node, or none.
Upsert == [node : Node, row : Row, lock : {"task", "future", "failures", "none"}]

ASSUME StoreAssumption == Nil \notin Row \cup Upsert

PersistentTypeOK ==
  /\ TypeOK
  /\ rows \in [Node -> Row \cup {Nil}]
  /\ upserts \in [Thread -> Upsert \cup {Nil}]
  /\ loading \subseteq Node
  /\ hollow \subseteq instances
  /\ lives \in 1 .. Lives
  /\ finished \subseteq Node

PersistentInit ==
  /\ Init
  /\ rows = [n \in Node |-> Nil]
  /\ upserts = [t \in Thread |-> Nil]
  /\ loading = {}
  /\ hollow = {}
  /\ lives = 1
  /\ finished = {}

-----------------------------------------------------------------------------
(***************************************************************************)
(* UpsertIntoDatabase and the locks that are held meanwhile.               *)
(***************************************************************************)
Recorded(n) == rows[n] # Nil

\* A node that was loaded is not completed, and its destinations are those that
\* its row names.
Image(n) ==
  IF n \in nodes
    THEN [destinations |-> {d \in nodes : n \in SourcesOf(d)},
          completed    |-> n \in completed]
    ELSE [rows[n] EXCEPT !.completed = FALSE]

StartUpsert(t, n, lock) ==
  upserts' = [upserts EXCEPT ![t] = [node |-> n, row |-> Image(n), lock |-> lock]]

Idle(t) == upserts[t] = Nil

\* Mistake: EnqueueNode writes to the database after it has unlocked the queue.
NoQueueLock(lock) == TRUE

QueueLockFree(lock) == \A t \in Thread : ~Idle(t) => upserts[t].lock # lock

\* The upsert of EnqueueNode, in a SubmitFailure call, which is followed by one
\* of ExecutionDidFail.
FailsAgain(t) ==
  t \in Worker /\ pc[t] = "idle" /\ upserts[t].lock \in {"task", "future"}

\* The failuresLock of a node is held until the last upsert of the failing call.
RecordsFailure(n) ==
  \E w \in Worker : /\ ~Idle(w)
                    /\ upserts[w].node = n
                    /\ upserts[w].lock = "failures" \/ FailsAgain(w)

EndUpsert(t) ==
  /\ ~Idle(t)
  /\ rows' = [rows EXCEPT ![upserts[t].node] = upserts[t].row]
  /\ \/ FailsAgain(t) /\ StartUpsert(t, upserts[t].node, "failures")
     \/ ~FailsAgain(t) /\ upserts' = [upserts EXCEPT ![t] = Nil]
  /\ finished' = IF upserts[t].row.completed THEN finished \cup {upserts[t].node}
                                             ELSE finished
  /\ UNCHANGED <<vars, loading, hollow, lives>>

-----------------------------------------------------------------------------
(***************************************************************************)
(* The steps of Broker.  A thread takes none while it waits for an upsert. *)
(***************************************************************************)

\* EnqueueNode writes the node before it unlocks the queue.
Push(t) ==
  /\ \/ /\ PushTask(t)
        /\ QueueLockFree("task")
        /\ StartUpsert(t, toTask[t], "task")
     \/ /\ PushFuture(t)
        /\ QueueLockFree("future")
        /\ StartUpsert(t, toFuture[t], "future")
  /\ UNCHANGED <<rows, loading, hollow, lives, finished>>

\* Does a call of the worker about its node find both?  A worker of an earlier
\* life is unknown, and a node that was loaded is not in its instance.  The
\* nodeLock of the instance is held while NewNode enqueues.
Known(w) ==
  /\ w \in workers
  /\ \/ w \in invalidated
     \/ current[w] \in nodes /\ Idle(InstanceOf[current[w]])

\* The steps that end without an upsert.
WorkerStep(w) ==
  /\ Idle(w)
  /\ \/ NewWorker(w) \/ Ping(w) \/ MissPing(w) \/ Crash(w)
     \/ GetWork(w) /\ w \in workers
     \/ (SubmitWork(w) \/ SubmitFailure(w)) /\ Known(w)
     \/ PopNextNode(w) /\ QueueLockFree("task")
     \/ Complete(w) \/ ReadOwner(w) \/ ReadClaims(w) \/ ReleaseWorkerLock(w)
     \/ ReadDestinations(w)
     \/ (\E d \in Node : Notify(w, d))
     \/ Requeue(w)
  /\ UNCHANGED storeVars

\* The last step of ExecutionDidResolve.
SaveResolved(w) ==
  /\ Idle(w)
  /\ Resolved(w)
  /\ StartUpsert(w, current[w], "none")
  /\ UNCHANGED <<rows, loading, hollow, lives, finished>>

\* ExecutionDidFail writes the node after BackoffNode, which may enqueue it.
SaveFailed(w) ==
  /\ Idle(w)
  /\ BackoffNode(w)
  /\ ~RecordsFailure(current[w])
  /\ \/ pc'[w] = "idle" /\ StartUpsert(w, current[w], "failures")
     \/ pc'[w] = "requeue" /\ UNCHANGED upserts
  /\ UNCHANGED <<rows, loading, hollow, lives, finished>>

\* An instance that was loaded has no map for the node: see Panic.
CreatorStep(i) ==
  /\ Idle(i)
  /\ i \notin hollow
  /\ CreateStep(i)
  /\ UNCHANGED storeVars

LoopStep ==
  /\ \/ Idle(GC) /\ CollectStep
     \/ /\ Idle(Scheduler)
        /\ \/ LockFuture /\ QueueLockFree("future")
           \/ \E n \in Node, t \in Due : PopDue(n, t)
           \/ UnlockFuture
     \/ Tick
  /\ UNCHANGED storeVars

-----------------------------------------------------------------------------
(***************************************************************************)
(* The end of the process and LoadFromDatabase.                            *)
(***************************************************************************)

\* A node is dropped if one of its sources or destinations has no row.
Loadable ==
  {n \in Node :
     /\ Recorded(n)
     /\ \A m \in SourcesOf(n) \cup rows[n].destinations : Recorded(m)}

\* A worker process outlives the broker between two calls.
Survives(w) == pc[w] \in {"idle", "executing"} /\ ~Busy(w) /\ Idle(w)

\* Everything but the instances is as NewBroker makes it.
FreshMemory ==
  /\ nodes' = {}
  /\ creating' = [i \in Instance |-> Nil]
  /\ completed' = {}
  /\ dequeueWorker' = [n \in Node |-> Nil]
  /\ nextRetryAvailable' = [n \in Node |-> -1]
  /\ currentAttempt' = NoNodes
  /\ failures' = NoNodes
  /\ taskQueue' = NoNodes
  /\ queueTaint' = [q \in QueueName |-> Nil]
  /\ futureScheduled' = [n \in Node |-> [t \in Due |-> 0]]
  /\ workers' = {}
  /\ invalidated' = {}
  /\ overdue' = {}
  /\ allowedQueues' = [w \in Worker |-> {}]
  /\ claimedWork' = [w \in Worker |-> NoNodes]
  /\ release' = [w \in Worker |-> NoRelease]
  /\ notify' = [w \in Worker |-> NoNodes]
  /\ toTask' = [t \in Thread |-> Nil]
  /\ toFuture' = [t \in Thread |-> Nil]
  /\ collecting' = Nil
  /\ collected' = NoNodes
  /\ draining' = FALSE

\* The process ends, in the middle of whatever it does, along with the workers of
\* killed, and is started again.
Restart(killed) ==
  LET alive == {w \in Worker \ killed : Survives(w)}
  IN  /\ lives < Lives
      /\ lives' = lives + 1
      /\ FreshMemory
      /\ hollow' = instances
      /\ loading' = Loadable
      /\ pc' = [w \in Worker |-> IF w \in alive \/ pc[w] = "absent" THEN pc[w] ELSE "dead"]
      /\ current' = [w \in Worker |-> IF w \in alive THEN current[w] ELSE Nil]
      /\ upserts' = [t \in Thread |-> Nil]
      /\ UNCHANGED <<instances, order, rows, now, finished>>

BrokerCrash == Restart({})

\* A nil pointer is dereferenced, which no handler recovers from: GetWorker does
\* not know the worker, or GetNode the node.  The caller ends with the exception.
\* (A worker that is handed a loaded node with sources cannot unpickle their
\* results, which were not loaded, and ends before it calls: Crash.  The ping
\* thread of an unknown worker, and CreateNode or GetNode in an instance that was
\* loaded, end the broker in the same way, but not their caller: BrokerCrash.)
Panic(w) ==
  /\ loading = {}
  /\ Survives(w)
  /\ \/ w \notin workers
     \/ /\ w \notin invalidated
        /\ pc[w] = "executing"
        /\ current[w] \notin nodes
        /\ SourcesOf(current[w]) = {}
  /\ Restart({w})

\* The node is enqueued, and written in its loaded form: its completed flag is not
\* set, and its nextRetryAvailable, 0, is past.
LoadNode(n) ==
  /\ n \in loading
  /\ loading' = loading \ {n}
  /\ taskQueue' = [taskQueue EXCEPT ![n] = @ + 1]
  /\ queueTaint' = QueueTaintsWith(n)
  /\ rows' = [rows EXCEPT ![n] = Image(n)]
  /\ UNCHANGED <<instanceVars, nodeVars, futureScheduled, workerVars, handlerVars,
                 enqueueVars, loopVars, now, upserts, hollow, lives, finished>>

-----------------------------------------------------------------------------
\* The server and the loops start when the database is loaded.
Serve ==
  /\ loading = {}
  /\ \/ \E w \in Worker : WorkerStep(w) \/ SaveResolved(w) \/ SaveFailed(w)
     \/ \E i \in Instance : CreatorStep(i)
     \/ \E t \in Thread : Push(t) \/ EndUpsert(t)
     \/ LoopStep

PersistentNext ==
  \/ Serve
  \/ \E n \in Node : LoadNode(n)
  \/ BrokerCrash
  \/ \E w \in Worker : Panic(w)

PersistentSpec == PersistentInit /\ [][PersistentNext]_<<vars, storeVars>>

-----------------------------------------------------------------------------
(***************************************************************************)
(* What the database is to guarantee.                                      *)
(***************************************************************************)

\* A node has its row before a worker gets to see it, across restarts: EnqueueNode
\* writes it under the lock of the queue it has pushed it to.
RecordedBeforeHandedOut ==
  \A w \in Worker : current[w] # Nil => Recorded(current[w])

\* Once the call that completed a node has returned, its row says so: no older
\* image of the node is written over it.  (Of the nodes without dependencies that
\* are not retried: a node dispatched twice, or the failing call of an earlier
\* attempt, may write an image from before.)
CompletionRecorded ==
  \A n \in completed :
    \/ SourcesOf(n) # {} \/ PolicyOf(n).enabled
    \/ \E w \in Worker : current[w] = n
    \/ \E t \in Thread : ~Idle(t) /\ upserts[t].node = n
    \/ rows[n].completed

\* A node that was loaded, and has never been recorded as completed, is in a queue or
\* among the work of a worker, from which a garbage collection frees it, for as long as
\* the process lives: no call about it gets as far as to release it.
LoadedNotLost ==
  loading = {} => \A n \in (Loadable \ nodes) \ finished : Queued(n) \/ Claimed(n)

\* After a restart the work goes on where it stopped (broker_test.go: "pick up where
\* the first left off"): no worker is handed a node whose row has said that it is
\* completed.
FinishedNotRepeated ==
  \A w \in Worker : \A n \in Node : Executing(w, n) => n \notin finished

\* A restart may come at any moment, and the broker is then to "resume state"
\* (README.md, "Architecture"): it loads every node whose CreateNode call has
\* returned and that is not completed.
ResumesState ==
  loading = {} =>
    \A n \in nodes \ completed :
      \/ creating[InstanceOf[n]] = n
      \/ ~Idle(InstanceOf[n])
      \/ Busy(InstanceOf[n])
      \/ n \in Loadable
=============================================================================
