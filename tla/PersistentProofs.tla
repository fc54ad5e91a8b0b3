-------------------------- MODULE PersistentProofs --------------------------
(***************************************************************************)
(* Theorems about the broker with storage, for any number of restarts.     *)
(* The steps of the server are steps of Broker, so that the lemmas about   *)
(* those serve here as well; what is new are the upserts, the loading of   *)
(* the database, and the restart.                                          *)
(***************************************************************************)
EXTENDS PersistentBroker, RetryProofs

-----------------------------------------------------------------------------
(***************************************************************************)
(* What a node needs to be written, and when it has been.                  *)
(***************************************************************************)

\* The node has an image: its instance has it, or it was loaded from its row.
HasImage(n) == n \in nodes \/ Recorded(n)

\* A thread waits for an upsert of the node, under the lock of the task queues.
PushPending(n) ==
  \E t \in Thread : ~Idle(t) /\ upserts[t].node = n /\ upserts[t].lock = "task"

NoticedExist == \A n \in Node : Noticed(n) => n \in nodes

ImagesExist ==
  /\ \A n \in Node : Handled(n) => HasImage(n)
  /\ \A t \in Thread : ~Idle(t) => HasImage(upserts[t].node)
  /\ \A n \in loading : Recorded(n)

\* A thread that has a node to push waits for no upsert and has no other to push.
OneAtATime ==
  /\ \A t \in Thread : Busy(t) => Idle(t) /\ (toTask[t] = Nil \/ toFuture[t] = Nil)
  /\ \A w \in Worker : Busy(w) => pc[w] \in {"idle", "notifying"}

QueuedRecorded == \A n \in Node : taskQueue[n] > 0 => Recorded(n) \/ PushPending(n)

StoreInvariant ==
  /\ PersistentTypeOK /\ NoticedExist /\ ImagesExist /\ OneAtATime
  /\ QueuedRecorded /\ RecordedBeforeHandedOut

LEMMA ImageType ==
  ASSUME PersistentTypeOK, NEW n \in Node, HasImage(n)
  PROVE  Image(n) \in Row /\ Image(n) # Nil
<1>1. CASE n \in nodes
  <2>1. {d \in nodes : n \in SourcesOf(d)} \in SUBSET Node
    BY DEF PersistentTypeOK, TypeOK
  <2>2. (n \in completed) \in BOOLEAN
    OBVIOUS
  <2>3. Image(n) \in Row
    BY <1>1, <2>1, <2>2, ZenonT(30) DEF Image, Row
  <2> QED BY <2>3, StoreAssumption
<1>2. CASE n \notin nodes
  <2>1. rows[n] \in Row
    BY <1>2 DEF HasImage, Recorded, PersistentTypeOK
  <2> QED BY <1>2, <2>1, StoreAssumption DEF Image, Row
<1> QED BY <1>1, <1>2

LEMMA UpsertType ==
  ASSUME PersistentTypeOK, NEW t \in Thread, NEW n \in Node, HasImage(n),
         NEW lock \in {"task", "future", "failures", "none"}, StartUpsert(t, n, lock)
  PROVE  /\ upserts' \in [Thread -> Upsert \cup {Nil}]
         /\ upserts'[t] # Nil /\ upserts'[t].node = n /\ upserts'[t].lock = lock
         /\ upserts'[t].row = Image(n)
         /\ \A u \in Thread : u # t => upserts'[u] = upserts[u]
<1> DEFINE x == [node |-> n, row |-> Image(n), lock |-> lock]
<1>1. x \in Upsert /\ x # Nil
  BY ImageType, StoreAssumption DEF Upsert
<1>2. upserts \in [Thread -> Upsert \cup {Nil}] /\ upserts' = [upserts EXCEPT ![t] = x]
  BY DEF PersistentTypeOK, StartUpsert
<1>3. upserts'[t] = x
  BY <1>2
<1>4. upserts' \in [Thread -> Upsert \cup {Nil}]
  BY <1>1, <1>2
<1> HIDE DEF x
<1>5. \A u \in Thread : u # t => upserts'[u] = upserts[u]
  BY <1>2
<1>6. x.node = n /\ x.lock = lock /\ x.row = Image(n)
  BY DEF x
<1> QED BY <1>1, <1>3, <1>4, <1>5, <1>6

-----------------------------------------------------------------------------
(***************************************************************************)
(* The steps of Broker.                                                    *)
(***************************************************************************)

\* A call is about to look only at nodes there are: new ones and destinations.
LEMMA StepNoticed ==
  ASSUME TypeOK, [Next]_vars
  PROVE  /\ nodes \subseteq nodes' /\ instances \subseteq instances'
         /\ \A n \in Node : Noticed(n)' => Noticed(n) \/ n \in nodes'
<1> DEFINE Goal == /\ nodes \subseteq nodes' /\ instances \subseteq instances'
                   /\ \A n \in Node : Noticed(n)' => Noticed(n) \/ n \in nodes'
<1> SUFFICES Goal
  OBVIOUS
<1> USE DEF Noticed, vars, instanceVars, handlerVars
<1>1. ASSUME UNCHANGED <<instances, nodes, creating, notify>> PROVE Goal
  BY <1>1
<1>2. ASSUME NEW w \in Worker, ClientStep(w) PROVE Goal
  BY <1>1, <1>2 DEF ClientStep, NewWorker, Ping, MissPing, Crash, GetWork, SubmitWork,
                    SubmitFailure
<1>3. ASSUME NEW w \in Worker, HandlerStep(w) PROVE Goal
  <2>1. CASE ReadDestinations(w)
    <3>1. notify' = [notify EXCEPT ![w] = Destinations(current[w])]
      BY <2>1 DEF ReadDestinations
    <3>2. \A n \in Node : Destinations(current[w])[n] > 0 => n \in nodes
      BY DEF Destinations
    <3>3. \A n \in Node, v \in Worker : notify'[v][n] > 0 => notify[v][n] > 0 \/ n \in nodes
      BY <3>1, <3>2 DEF TypeOK
    <3> QED BY <2>1, <3>3 DEF ReadDestinations
  <2>2. ASSUME NEW d \in Node, Notify(w, d) PROVE Goal
    <3>1. \A n \in Node, v \in Worker : notify'[v][n] > 0 => notify[v][n] > 0
      BY <2>2 DEF Notify, TypeOK
    <3> QED BY <2>2, <3>1 DEF Notify
  <2>3. CASE PopNextNode(w) BY <1>1, <2>3 DEF PopNextNode
  <2>4. CASE \/ Complete(w) \/ ReadOwner(w) \/ ReadClaims(w) \/ ReleaseWorkerLock(w) \/ Resolved(w)
             \/ BackoffNode(w) \/ Requeue(w)
    BY <1>1, <2>4 DEF Complete, ReadOwner, ReadClaims, ReleaseWorkerLock, Resolved, BackoffNode, Requeue
  <2> QED BY <1>3, <2>1, <2>2, <2>3, <2>4 DEF HandlerStep
<1>4. ASSUME NEW i \in Instance, CreateStep(i) PROVE Goal
  <2>1. CASE CreateInstance(i)
    BY <2>1 DEF CreateInstance
  <2>2. ASSUME NEW m \in Node, NewNode(m) PROVE Goal
    <3>1. \A n \in Node, j \in Instance : creating'[j] = n => creating[j] = n \/ n = m
      BY <2>2 DEF NewNode, TypeOK
    <3> QED BY <2>2, <3>1 DEF NewNode
  <2>3. CASE ResolveNewNode(i)
    <3>1. \A n \in Node, j \in Instance : creating'[j] = n => creating[j] = n
      BY <2>3, ThreadAssumption DEF ResolveNewNode, TypeOK
    <3> QED BY <2>3, <3>1 DEF ResolveNewNode
  <2> QED BY <1>4, <2>1, <2>2, <2>3 DEF CreateStep
<1>5. ASSUME NEW t \in Thread, PushTask(t) \/ PushFuture(t) PROVE Goal
  BY <1>1, <1>5 DEF PushTask, PushFuture
<1>6. CASE CollectStep
  BY <1>1, <1>6 DEF CollectStep, CollectWorker, FreeNode, InvalidateWorker
<1>7. CASE SchedulerStep
  BY <1>1, <1>7 DEF SchedulerStep, LockFuture, PopDue, UnlockFuture
<1>8. CASE Tick \/ UNCHANGED vars
  BY <1>1, <1>8 DEF Tick
<1> QED BY <1>2, <1>3, <1>4, <1>5, <1>6, <1>7, <1>8 DEF Next

\* A step of Broker, with or without the start of an upsert of a node it handles.
LEMMA MemoryStep ==
  ASSUME StoreInvariant, [Next]_vars, UNCHANGED <<rows, loading, hollow, lives, finished>>,
         \/ UNCHANGED upserts
         \/ \E t \in Thread, n \in Node, lock \in {"task", "future", "failures", "none"} :
              Handled(n) /\ StartUpsert(t, n, lock)
  PROVE  PersistentTypeOK' /\ NoticedExist' /\ ImagesExist'
<1>0. TypeOK /\ TypeOK' /\ \A n \in Node : Recorded(n)' = Recorded(n)
  BY StepType DEF StoreInvariant, PersistentTypeOK, Recorded
<1>1. /\ nodes \subseteq nodes' /\ instances \subseteq instances'
      /\ \A n \in Node : Noticed(n)' => Noticed(n) \/ n \in nodes'
  BY <1>0, StepNoticed
<1>2. \A n \in Node : HasImage(n) => HasImage(n)'
  BY <1>0, <1>1 DEF HasImage
<1>3. NoticedExist'
  BY <1>1 DEF StoreInvariant, NoticedExist
<1>4. \A n \in Node : Handled(n)' => HasImage(n)'
  BY <1>0, <1>2, StepHandled DEF StoreInvariant, ImagesExist, NoticedExist, HasImage
<1>5. \A n \in loading' : Recorded(n)'
  BY <1>0 DEF StoreInvariant, ImagesExist, PersistentTypeOK
<1>6. /\ upserts' \in [Thread -> Upsert \cup {Nil}]
      /\ \A t \in Thread : ~Idle(t)' => HasImage(upserts[t].node)'
  <2>0. \A t \in Thread : ~Idle(t) => upserts[t].node \in Node /\ HasImage(upserts[t].node)
    BY DEF StoreInvariant, ImagesExist, PersistentTypeOK, Idle, Upsert
  <2>1. CASE UNCHANGED upserts
    <3>1. \A t \in Thread : ~Idle(t)' => ~Idle(t) /\ upserts'[t] = upserts[t]
      BY <2>1 DEF Idle
    <3>2. upserts' \in [Thread -> Upsert \cup {Nil}]
      BY <2>1 DEF StoreInvariant, PersistentTypeOK
    <3> QED BY <1>2, <2>0, <3>1, <3>2 DEF HasImage, Recorded
  <2>2. ASSUME NEW t \in Thread, NEW n \in Node,
               NEW lock \in {"task", "future", "failures", "none"},
               Handled(n), StartUpsert(t, n, lock)
        PROVE  /\ upserts' \in [Thread -> Upsert \cup {Nil}]
               /\ \A u \in Thread : ~Idle(u)' => HasImage(upserts[u].node)'
    <3>1. HasImage(n)
      BY <2>2 DEF StoreInvariant, ImagesExist
    <3>2. /\ upserts' \in [Thread -> Upsert \cup {Nil}]
          /\ upserts'[t].node = n
          /\ \A u \in Thread : u # t => upserts'[u] = upserts[u]
      BY <2>2, <3>1, UpsertType DEF StoreInvariant
    <3>3. \A u \in Thread : ~Idle(u)' => upserts'[u].node \in Node /\ HasImage(upserts'[u].node)
      BY <2>0, <3>1, <3>2 DEF Idle
    <3> QED BY <1>2, <3>2, <3>3 DEF HasImage, Recorded
  <2> QED BY <2>1, <2>2
<1>7. PersistentTypeOK'
  BY <1>0, <1>1, <1>6 DEF StoreInvariant, PersistentTypeOK
<1>8. ImagesExist'
  BY <1>4, <1>5, <1>6 DEF ImagesExist
<1> QED BY <1>3, <1>7, <1>8

-----------------------------------------------------------------------------
(***************************************************************************)
(* The steps of the server, one lemma per kind.                            *)
(***************************************************************************)
Hands == OneAtATime /\ QueuedRecorded /\ RecordedBeforeHandedOut

\* A step that pushes, pops and writes nothing, and hands no node to a worker.
LEMMA QuietStep ==
  ASSUME Hands, UNCHANGED <<enqueueVars, taskQueue, rows, upserts>>,
         \A w \in Worker : current'[w] \in {current[w], Nil},
         \A w \in Worker : Busy(w) => pc'[w] \in {"idle", "notifying"}
  PROVE  Hands'
<1> USE DEF Hands, enqueueVars
<1>1. OneAtATime'
  BY DEF OneAtATime, Busy, Idle
<1>2. QueuedRecorded'
  BY DEF QueuedRecorded, Recorded, PushPending, Idle
<1>3. RecordedBeforeHandedOut'
  BY DEF RecordedBeforeHandedOut, Recorded
<1> QED BY <1>1, <1>2, <1>3

\* A step in which a thread enqueues a node.
LEMMA EnqueueStep ==
  ASSUME TypeOK, Hands, NEW t \in Thread, NEW n \in Node, ~Busy(t), Idle(t),
         EnqueueNode(t, n) \/ UNCHANGED enqueueVars,
         UNCHANGED <<taskQueue, rows, upserts>>,
         \A w \in Worker : current'[w] \in {current[w], Nil},
         \A w \in Worker : Busy(w) \/ w = t => pc'[w] \in {"idle", "notifying"}
  PROVE  Hands'
<1> USE DEF Hands
<1>1. \A u \in Thread : u # t => toTask'[u] = toTask[u] /\ toFuture'[u] = toFuture[u]
  BY DEF EnqueueNode, enqueueVars, TypeOK
<1>2. toTask'[t] = Nil \/ toFuture'[t] = Nil
  BY DEF EnqueueNode, enqueueVars, TypeOK, Busy
<1>3. OneAtATime'
  BY <1>1, <1>2 DEF OneAtATime, Busy, Idle, Thread
<1>4. QueuedRecorded'
  BY DEF QueuedRecorded, Recorded, PushPending, Idle
<1>5. RecordedBeforeHandedOut'
  BY DEF RecordedBeforeHandedOut, Recorded
<1> QED BY <1>3, <1>4, <1>5

LEMMA WorkerKeeps ==
  ASSUME StoreInvariant, NEW w \in Worker, WorkerStep(w)
  PROVE  [Next]_vars /\ StoreInvariant'
<1>0. /\ TypeOK /\ Hands /\ Idle(w) /\ w \in Thread
      /\ UNCHANGED <<rows, upserts, loading, hollow, lives, finished>>
      /\ pc \in [Worker -> PC]
      /\ current \in [Worker -> Node \cup {Nil}]
      /\ \A u \in Worker : Busy(u) => pc[u] \in {"idle", "notifying"}
  BY DEF StoreInvariant, PersistentTypeOK, Hands, WorkerStep, storeVars, TypeOK, OneAtATime,
         Thread
<1>1. [Next]_vars
  <2>1. ClientStep(w) \/ HandlerStep(w)
    BY DEF WorkerStep, ClientStep, HandlerStep
  <2> QED BY <2>1 DEF Next
<1>2. Hands'
  <2> USE DEF instanceVars, nodeVars, queueVars, workerVars, handlerVars, loopVars
  <2>1. CASE NewWorker(w) \/ Ping(w) \/ MissPing(w)
    BY <1>0, <2>1, QuietStep DEF NewWorker, Ping, MissPing
  <2>2. CASE Crash(w) \/ GetWork(w)
    BY <1>0, <2>2, QuietStep DEF Crash, GetWork, Refuse
  <2>3. CASE SubmitWork(w) \/ SubmitFailure(w)
    BY <1>0, <2>3, QuietStep DEF SubmitWork, SubmitFailure, Refuse
  <2>4. CASE PopNextNode(w) /\ QueueLockFree("task")
    <3>1. CASE /\ pc' = [pc EXCEPT ![w] = "idle"]
               /\ UNCHANGED <<taskQueue, dequeueWorker, claimedWork, current>>
      BY <1>0, <2>4, <3>1, QuietStep DEF PopNextNode
    <3>2. ASSUME NEW n \in TopNodes(GetAllowedQueues(w)),
                 taskQueue' = [taskQueue EXCEPT ![n] = @ - 1],
                 pc' = [pc EXCEPT ![w] = "executing"],
                 current' = [current EXCEPT ![w] = n]
          PROVE  Hands'
      <4>1. n \in Node /\ taskQueue[n] > 0
        BY <3>2 DEF TopNodes, Waiting
      <4>2. Recorded(n)
        BY <2>4, <4>1, <1>0 DEF Hands, QueuedRecorded, PushPending, QueueLockFree
      <4>3. \A m \in Node : taskQueue'[m] > 0 => taskQueue[m] > 0
        BY <1>0, <3>2, <4>1 DEF TypeOK
      <4>4. UNCHANGED enqueueVars /\ ~Busy(w)
        BY <1>0, <2>4 DEF PopNextNode
      <4>5. OneAtATime'
        BY <1>0, <3>2, <4>4 DEF Hands, OneAtATime, Busy, Idle, enqueueVars
      <4>6. QueuedRecorded'
        BY <1>0, <4>3 DEF Hands, QueuedRecorded, Recorded, PushPending, Idle
      <4>7. RecordedBeforeHandedOut'
        BY <1>0, <3>2, <4>2 DEF Hands, RecordedBeforeHandedOut, Recorded
      <4> QED BY <4>5, <4>6, <4>7 DEF Hands
    <3> QED BY <2>4, <3>1, <3>2 DEF PopNextNode
  <2>5. CASE Complete(w) \/ ReadOwner(w) \/ ReadClaims(w)
    BY <1>0, <2>5, QuietStep DEF Complete, ReadOwner, ReadClaims
  <2>6. CASE ReleaseWorkerLock(w) \/ ReadDestinations(w)
    BY <1>0, <2>6, QuietStep DEF ReleaseWorkerLock, ReadDestinations
  <2>7. ASSUME NEW d \in Node, Notify(w, d) PROVE Hands'
    <3>1. EnqueueNode(w, d) \/ UNCHANGED enqueueVars
      BY <2>7 DEF Notify, DependencyDidResolve
    <3> QED BY <1>0, <2>7, <3>1, EnqueueStep DEF Notify
  <2>8. CASE Requeue(w)
    <3>1. current[w] \in Node
      BY <1>0, <2>8 DEF Requeue, TypeOK, Working, PC
    <3> QED BY <1>0, <2>8, <3>1, EnqueueStep DEF Requeue
  <2> QED BY <2>1, <2>2, <2>3, <2>4, <2>5, <2>6, <2>7, <2>8 DEF WorkerStep
<1>3. PersistentTypeOK' /\ NoticedExist' /\ ImagesExist'
  BY <1>0, <1>1, MemoryStep
<1> QED BY <1>1, <1>2, <1>3 DEF StoreInvariant, Hands

LEMMA CreatorKeeps ==
  ASSUME StoreInvariant, NEW i \in Instance, CreatorStep(i)
  PROVE  [Next]_vars /\ StoreInvariant'
<1>0. /\ TypeOK /\ Hands /\ Idle(i) /\ i \in Thread /\ i \notin Worker
      /\ CreateStep(i)
      /\ UNCHANGED <<rows, upserts, loading, hollow, lives, finished>>
      /\ \A u \in Worker : Busy(u) => pc[u] \in {"idle", "notifying"}
  BY ThreadAssumption
     DEF StoreInvariant, PersistentTypeOK, Hands, CreatorStep, storeVars, OneAtATime, Thread
<1>1. [Next]_vars
  BY <1>0 DEF Next
<1>2. Hands'
  <2> USE DEF instanceVars, nodeVars, queueVars, workerVars, handlerVars, loopVars
  <2>1. CASE CreateInstance(i)
    BY <1>0, <2>1, QuietStep DEF CreateInstance
  <2>2. ASSUME NEW n \in Node, NewNode(n) PROVE Hands'
    BY <1>0, <2>2, QuietStep DEF NewNode
  <2>3. CASE ResolveNewNode(i)
    <3>1. /\ creating[i] \in Node /\ ~Busy(i)
          /\ EnqueueNode(i, creating[i]) \/ UNCHANGED enqueueVars
          /\ UNCHANGED <<taskQueue, current, pc>>
      BY <1>0, <2>3 DEF ResolveNewNode, DependencyDidResolve, TypeOK
    <3> QED BY <1>0, <3>1, EnqueueStep
  <2> QED BY <1>0, <2>1, <2>2, <2>3 DEF CreateStep
<1>3. PersistentTypeOK' /\ NoticedExist' /\ ImagesExist'
  BY <1>0, <1>1, MemoryStep
<1> QED BY <1>1, <1>2, <1>3 DEF StoreInvariant, Hands

LEMMA LoopKeeps ==
  ASSUME StoreInvariant, LoopStep
  PROVE  [Next]_vars /\ StoreInvariant'
<1>0. /\ TypeOK /\ Hands
      /\ GC \in Thread \ Worker /\ Scheduler \in Thread \ Worker
      /\ UNCHANGED <<rows, upserts, loading, hollow, lives, finished>>
      /\ \A u \in Worker : Busy(u) => pc[u] \in {"idle", "notifying"}
  BY ThreadAssumption
     DEF StoreInvariant, PersistentTypeOK, Hands, LoopStep, storeVars, OneAtATime, Thread
<1>1. [Next]_vars
  BY DEF LoopStep, SchedulerStep, Next
<1>2. Hands'
  <2> USE DEF instanceVars, nodeVars, queueVars, workerVars, handlerVars, enqueueVars, loopVars
  <2>1. ASSUME NEW w \in Worker, CollectWorker(w) PROVE Hands'
    BY <1>0, <2>1, QuietStep DEF CollectWorker
  <2>2. ASSUME NEW n \in Node, FreeNode(n), Idle(GC) PROVE Hands'
    BY <1>0, <2>2, EnqueueStep DEF FreeNode
  <2>3. CASE InvalidateWorker
    BY <1>0, <2>3, QuietStep DEF InvalidateWorker
  <2>4. CASE LockFuture \/ UnlockFuture
    BY <1>0, <2>4, QuietStep DEF LockFuture, UnlockFuture
  <2>5. ASSUME NEW n \in Node, NEW d \in Due, PopDue(n, d), Idle(Scheduler) PROVE Hands'
    BY <1>0, <2>5, EnqueueStep DEF PopDue
  <2>6. CASE Tick
    BY <1>0, <2>6, QuietStep DEF Tick
  <2> QED BY <2>1, <2>2, <2>3, <2>4, <2>5, <2>6 DEF LoopStep, CollectStep
<1>3. PersistentTypeOK' /\ NoticedExist' /\ ImagesExist'
  BY <1>0, <1>1, MemoryStep
<1> QED BY <1>1, <1>2, <1>3 DEF StoreInvariant, Hands

\* EnqueueNode pushes the node and starts its upsert under one lock.
LEMMA PushKeeps ==
  ASSUME StoreInvariant, NEW t \in Thread, Push(t)
  PROVE  [Next]_vars /\ StoreInvariant'
<1>0. /\ TypeOK /\ PersistentTypeOK /\ Hands
      /\ UNCHANGED <<rows, loading, hollow, lives, finished>>
      /\ \A n \in Node : Handled(n) => HasImage(n)
  BY DEF StoreInvariant, PersistentTypeOK, Hands, Push, ImagesExist
<1>1. [Next]_vars
  BY DEF Push, Next
<1> DEFINE Pushed(n, lock) ==
             /\ Handled(n) /\ StartUpsert(t, n, lock)
             /\ toTask'[t] = Nil /\ toFuture'[t] = Nil
             /\ \A u \in Thread : u # t => toTask'[u] = toTask[u] /\ toFuture'[u] = toFuture[u]
             /\ UNCHANGED <<pc, current>>
             /\ \A m \in Node : taskQueue'[m] > 0 =>
                  \/ Recorded(m)
                  \/ \E u \in Thread : /\ u # t /\ ~Idle(u)
                                       /\ upserts[u].node = m /\ upserts[u].lock = "task"
                  \/ m = n /\ lock = "task"
<1>2. \E n \in Node, lock \in {"task", "future", "failures", "none"} : Pushed(n, lock)
  <2>1. CASE PushTask(t) /\ QueueLockFree("task") /\ StartUpsert(t, toTask[t], "task")
    <3>1. toTask[t] \in Node /\ Handled(toTask[t]) /\ Busy(t)
      BY <1>0, <2>1 DEF PushTask, TypeOK, Handled, Queued, Busy
    <3>2. \A m \in Node : taskQueue'[m] > 0 => taskQueue[m] > 0 \/ m = toTask[t]
      BY <1>0, <2>1, <3>1 DEF PushTask, TypeOK
    <3>3. \A m \in Node : taskQueue[m] > 0 => Recorded(m)
      BY <1>0, <2>1 DEF Hands, QueuedRecorded, PushPending, QueueLockFree
    <3>4. /\ toTask'[t] = Nil /\ toFuture'[t] = Nil
          /\ \A u \in Thread : u # t => toTask'[u] = toTask[u] /\ toFuture'[u] = toFuture[u]
          /\ UNCHANGED <<pc, current>>
      BY <1>0, <2>1, <3>1 DEF PushTask, handlerVars, TypeOK, Hands, OneAtATime
    <3>5. Pushed(toTask[t], "task")
      BY <2>1, <3>1, <3>2, <3>3, <3>4
    <3> QED BY <3>1, <3>5
  <2>2. CASE PushFuture(t) /\ StartUpsert(t, toFuture[t], "future")
    <3>1. toFuture[t] \in Node /\ Handled(toFuture[t]) /\ Busy(t)
      BY <1>0, <2>2 DEF PushFuture, TypeOK, Handled, Queued, Busy
    <3>2. Idle(t) /\ UNCHANGED taskQueue
      BY <1>0, <2>2, <3>1 DEF PushFuture, Hands, OneAtATime
    <3>3. \A m \in Node : taskQueue[m] > 0 =>
            \/ Recorded(m)
            \/ \E u \in Thread : /\ u # t /\ ~Idle(u)
                                 /\ upserts[u].node = m /\ upserts[u].lock = "task"
      BY <1>0, <3>2 DEF Hands, QueuedRecorded, PushPending
    <3>4. /\ toTask'[t] = Nil /\ toFuture'[t] = Nil
          /\ \A u \in Thread : u # t => toTask'[u] = toTask[u] /\ toFuture'[u] = toFuture[u]
          /\ UNCHANGED <<pc, current>>
      BY <1>0, <2>2, <3>1 DEF PushFuture, handlerVars, TypeOK, Hands, OneAtATime
    <3>5. Pushed(toFuture[t], "future")
      BY <2>2, <3>1, <3>2, <3>3, <3>4
    <3> QED BY <3>1, <3>5
  <2> QED BY <2>1, <2>2 DEF Push
<1>3. PICK n \in Node, lock \in {"task", "future", "failures", "none"} : Pushed(n, lock)
  BY <1>2
<1>4. /\ upserts'[t] # Nil /\ upserts'[t].node = n /\ upserts'[t].lock = lock
      /\ \A u \in Thread : u # t => upserts'[u] = upserts[u]
  BY <1>0, <1>3, UpsertType
<1>5. OneAtATime'
  <2>1. /\ toTask'[t] = Nil /\ toFuture'[t] = Nil /\ UNCHANGED pc
        /\ \A u \in Thread : u # t => toTask'[u] = toTask[u] /\ toFuture'[u] = toFuture[u]
    BY <1>3
  <2>2. \A u \in Thread : Busy(u)' => u # t /\ Busy(u)
    BY <2>1 DEF Busy
  <2> QED BY <1>0, <1>4, <2>1, <2>2 DEF Hands, OneAtATime, Idle, Thread
<1>6. QueuedRecorded'
  BY <1>0, <1>3, <1>4 DEF QueuedRecorded, PushPending, Recorded, Idle
<1>7. RecordedBeforeHandedOut'
  BY <1>0, <1>3 DEF Hands, RecordedBeforeHandedOut, Recorded
<1>8. PersistentTypeOK' /\ NoticedExist' /\ ImagesExist'
  BY <1>0, <1>1, <1>3, MemoryStep
<1> QED BY <1>1, <1>5, <1>6, <1>7, <1>8 DEF StoreInvariant

\* The calls about a result or a failure end with an upsert of their node.
LEMMA SaveKeeps ==
  ASSUME StoreInvariant, NEW w \in Worker, SaveResolved(w) \/ SaveFailed(w)
  PROVE  [Next]_vars /\ StoreInvariant'
<1>0. /\ TypeOK /\ PersistentTypeOK /\ Hands /\ Idle(w) /\ w \in Thread
      /\ UNCHANGED <<rows, loading, hollow, lives, finished>>
      /\ pc \in [Worker -> PC]
      /\ current \in [Worker -> Node \cup {Nil}]
      /\ \A u \in Worker : Busy(u) => pc[u] \in {"idle", "notifying"}
      /\ \A n \in Node : Handled(n) => HasImage(n)
  BY DEF StoreInvariant, PersistentTypeOK, Hands, SaveResolved, SaveFailed, TypeOK,
         OneAtATime, ImagesExist, Thread
<1>1. [Next]_vars
  BY DEF SaveResolved, SaveFailed, HandlerStep, Next
<1>2. /\ current[w] \in Node /\ Handled(current[w]) /\ ~Busy(w)
  <2>1. pc[w] \in {"notifying", "backoff"} /\ (pc[w] = "notifying" => ~Busy(w))
    BY DEF SaveResolved, SaveFailed, Resolved, BackoffNode
  <2> QED BY <1>0, <2>1 DEF TypeOK, Handled, Held, Working, PC
<1>3. /\ UNCHANGED <<taskQueue, toTask, toFuture>>
      /\ \A u \in Worker : current'[u] \in {current[u], Nil}
      /\ \A u \in Worker : u # w => pc'[u] = pc[u]
  BY <1>0 DEF SaveResolved, SaveFailed, Resolved, BackoffNode, queueVars, enqueueVars
<1>4. \/ UNCHANGED upserts
      \/ StartUpsert(w, current[w], "none") \/ StartUpsert(w, current[w], "failures")
  BY DEF SaveResolved, SaveFailed
<1>5. \A u \in Thread : u # w => upserts'[u] = upserts[u]
  BY <1>0, <1>2, <1>4, UpsertType
<1>6. OneAtATime'
  BY <1>0, <1>2, <1>3, <1>5 DEF Hands, OneAtATime, Busy, Idle
<1>7. QueuedRecorded'
  BY <1>0, <1>3, <1>5 DEF Hands, QueuedRecorded, PushPending, Recorded, Idle
<1>8. RecordedBeforeHandedOut'
  BY <1>0, <1>3 DEF Hands, RecordedBeforeHandedOut, Recorded
<1>9. PersistentTypeOK' /\ NoticedExist' /\ ImagesExist'
  BY <1>0, <1>1, <1>2, <1>4, MemoryStep
<1> QED BY <1>1, <1>6, <1>7, <1>8, <1>9 DEF StoreInvariant

\* The database takes over a row; the memory of the broker does not change.
LEMMA EndKeeps ==
  ASSUME StoreInvariant, NEW t \in Thread, EndUpsert(t)
  PROVE  UNCHANGED vars /\ StoreInvariant'
<1>0. /\ TypeOK /\ PersistentTypeOK
      /\ UNCHANGED <<vars, loading, hollow, lives>>
      /\ upserts[t] \in Upsert /\ upserts[t] # Nil
  BY DEF StoreInvariant, PersistentTypeOK, EndUpsert, Idle
<1>1. PICK n \in Node : n = upserts[t].node
  BY <1>0 DEF Upsert
<1>2. rows' = [rows EXCEPT ![n] = upserts[t].row] /\ upserts[t].row \in Row
  BY <1>0, <1>1 DEF EndUpsert, Upsert
<1>3. /\ rows' \in [Node -> Row \cup {Nil}]
      /\ Recorded(n)'
      /\ \A m \in Node : Recorded(m) => Recorded(m)'
  BY <1>0, <1>2, StoreAssumption DEF PersistentTypeOK, Recorded
<1>4. HasImage(n)
  BY <1>0, <1>1 DEF StoreInvariant, ImagesExist, Idle
<1>5. /\ upserts' \in [Thread -> Upsert \cup {Nil}]
      /\ \A u \in Thread : u # t => upserts'[u] = upserts[u]
      /\ upserts'[t] = Nil \/ upserts'[t].node = n
  <2>1. CASE StartUpsert(t, n, "failures")
    BY <1>0, <1>4, <2>1, UpsertType
  <2>2. CASE upserts' = [upserts EXCEPT ![t] = Nil]
    BY <1>0, <2>2 DEF PersistentTypeOK
  <2> QED BY <1>1, <2>1, <2>2 DEF EndUpsert
<1>6. UNCHANGED <<instances, nodes, pc, current, taskQueue, toTask, toFuture>>
  BY <1>0 DEF vars, instanceVars, queueVars, handlerVars, enqueueVars
<1>7. /\ TypeOK'
      /\ \A m \in Node : Handled(m)' = Handled(m) /\ Noticed(m)' = Noticed(m)
  <2> USE <1>0 DEF vars, instanceVars, nodeVars, queueVars, workerVars, handlerVars,
                   enqueueVars, loopVars
  <2>1. TypeOK'
    BY DEF TypeOK
  <2>2. \A m \in Node : Handled(m)' = Handled(m) /\ Noticed(m)' = Noticed(m)
    BY DEF Handled, Queued, Claimed, Held, Noticed
  <2> QED BY <2>1, <2>2
<1>8. PersistentTypeOK'
  <2>1. finished' \subseteq Node
    BY <1>0, <1>1 DEF PersistentTypeOK, EndUpsert
  <2> QED BY <1>0, <1>3, <1>5, <1>6, <1>7, <2>1 DEF PersistentTypeOK
<1>9. NoticedExist'
  BY <1>6, <1>7 DEF StoreInvariant, NoticedExist
<1>10. ImagesExist'
  <2>1. \A m \in Node : HasImage(m) => HasImage(m)'
    BY <1>3, <1>6 DEF HasImage
  <2>2. \A u \in Thread : ~Idle(u) => upserts[u].node \in Node /\ HasImage(upserts[u].node)
    BY DEF StoreInvariant, ImagesExist, PersistentTypeOK, Idle, Upsert
  <2>3. \A u \in Thread : ~Idle(u)' => upserts'[u].node \in Node /\ HasImage(upserts'[u].node)
    BY <1>4, <1>5, <2>2 DEF Idle
  <2>4. \A u \in Thread : ~Idle(u)' => HasImage(upserts[u].node)'
    BY <1>3, <1>6, <2>3 DEF HasImage, Recorded
  <2>5. \A m \in loading' : Recorded(m)'
    BY <1>0, <1>3 DEF StoreInvariant, ImagesExist, PersistentTypeOK
  <2> QED BY <1>7, <2>1, <2>4, <2>5 DEF StoreInvariant, ImagesExist
<1>11. OneAtATime'
  <2>1. ~Busy(t)
    BY <1>0 DEF StoreInvariant, OneAtATime, Idle
  <2> QED BY <1>5, <1>6, <2>1 DEF StoreInvariant, OneAtATime, Busy, Idle
<1>12. QueuedRecorded'
  BY <1>1, <1>3, <1>5, <1>6 DEF StoreInvariant, QueuedRecorded, PushPending, Idle
<1>13. RecordedBeforeHandedOut'
  BY <1>0, <1>3, <1>6 DEF StoreInvariant, RecordedBeforeHandedOut, TypeOK
<1> QED BY <1>0, <1>8, <1>9, <1>10, <1>11, <1>12, <1>13 DEF StoreInvariant

\* A node that is loaded is in its queue and has its row.
LEMMA LoadKeeps ==
  ASSUME StoreInvariant, NEW n \in Node, LoadNode(n)
  PROVE  StoreInvariant'
<1>0. /\ TypeOK /\ PersistentTypeOK /\ Recorded(n)
      /\ UNCHANGED <<instanceVars, nodeVars, futureScheduled, workerVars, handlerVars,
                     enqueueVars, loopVars, now, upserts, hollow, lives, finished>>
      /\ taskQueue' = [taskQueue EXCEPT ![n] = @ + 1]
      /\ queueTaint' = QueueTaintsWith(n)
      /\ rows' = [rows EXCEPT ![n] = Image(n)]
      /\ loading' = loading \ {n}
  BY DEF StoreInvariant, PersistentTypeOK, LoadNode, ImagesExist
<1>1. Image(n) \in Row /\ Image(n) # Nil
  BY <1>0, ImageType DEF HasImage
<1>2. /\ rows' \in [Node -> Row \cup {Nil}]
      /\ \A m \in Node : Recorded(m) => Recorded(m)'
      /\ Recorded(n)'
  BY <1>0, <1>1 DEF PersistentTypeOK, Recorded
<1>3. /\ taskQueue' \in [Node -> Nat]
      /\ queueTaint' \in [QueueName -> TaintName \cup {NoTaint, Nil}]
      /\ \A m \in Node : taskQueue'[m] > 0 => taskQueue[m] > 0 \/ m = n
  <2>1. queueTaint' \in [QueueName -> TaintName \cup {NoTaint, Nil}]
    BY <1>0, NodeAssumption DEF TypeOK, QueueTaintsWith
  <2>2. taskQueue \in [Node -> Nat] /\ taskQueue' = [taskQueue EXCEPT ![n] = @ + 1]
    BY <1>0 DEF TypeOK
  <2> QED BY <2>1, <2>2
<1>4. UNCHANGED <<instances, nodes, creating, pc, current, notify, release, toTask, toFuture,
                  claimedWork, collected, futureScheduled>>
  BY <1>0 DEF instanceVars, handlerVars, enqueueVars, workerVars, loopVars
<1>5. TypeOK'
  BY <1>0, <1>3 DEF TypeOK, instanceVars, nodeVars, workerVars, handlerVars, enqueueVars,
                    loopVars
<1>6. PersistentTypeOK'
  BY <1>0, <1>2, <1>4, <1>5 DEF PersistentTypeOK
<1>7. NoticedExist'
  BY <1>4 DEF StoreInvariant, NoticedExist, Noticed
<1>8. ImagesExist'
  <2>1. \A m \in Node : HasImage(m) => HasImage(m)'
    BY <1>2, <1>4 DEF HasImage
  <2>2. \A m \in Node : Handled(m)' => Handled(m) \/ m = n
    BY <1>3, <1>4 DEF Handled, Queued, Claimed, Held
  <2>3. \A u \in Thread : ~Idle(u) => upserts[u].node \in Node /\ HasImage(upserts[u].node)
    BY DEF StoreInvariant, ImagesExist, PersistentTypeOK, Idle, Upsert
  <2>4. \A u \in Thread : ~Idle(u)' => HasImage(upserts[u].node)'
    BY <1>0, <1>2, <1>4, <2>3 DEF HasImage, Recorded, Idle
  <2> QED BY <1>0, <1>2, <2>1, <2>2, <2>4
          DEF StoreInvariant, ImagesExist, HasImage, PersistentTypeOK
<1>9. OneAtATime'
  BY <1>0, <1>4 DEF StoreInvariant, OneAtATime, Busy, Idle
<1>10. QueuedRecorded'
  BY <1>0, <1>2, <1>3 DEF StoreInvariant, QueuedRecorded, PushPending, Idle
<1>11. RecordedBeforeHandedOut'
  BY <1>0, <1>2, <1>4 DEF StoreInvariant, RecordedBeforeHandedOut, TypeOK
<1> QED BY <1>6, <1>7, <1>8, <1>9, <1>10, <1>11 DEF StoreInvariant

\* After a restart the nodes that workers still execute are the only ones in hand.
LEMMA RestartKeeps ==
  ASSUME StoreInvariant, NEW killed, Restart(killed)
  PROVE  StoreInvariant'
<1> USE DEF Restart, FreshMemory
<1>0. TypeOK /\ PersistentTypeOK
  BY DEF StoreInvariant, PersistentTypeOK
<1>1. /\ pc' \in [Worker -> PC]
      /\ current' \in [Worker -> Node \cup {Nil}]
      /\ \A w \in Worker : pc'[w] \in Working => current'[w] \in Node
      /\ \A w \in Worker : current'[w] # Nil => current'[w] = current[w]
  BY <1>0 DEF TypeOK, PC, Working, Survives
<1>2. /\ \A m \in Node : ~Queued(m)' /\ ~Claimed(m)' /\ ~Noticed(m)'
      /\ \A m \in Node, w \in Worker : ~(release'[w].claims[m] > 0)
      /\ \A m \in Node : taskQueue'[m] = 0
      /\ \A t \in Thread : ~Busy(t)' /\ Idle(t)'
  BY ThreadAssumption DEF Queued, Claimed, Noticed, NoRelease, NoNodes, Busy, Idle
<1>3. TypeOK'
  <2>1. /\ nextRetryAvailable' \in [Node -> Due]
        /\ futureScheduled' \in [Node -> [Due -> Nat]]
    BY HorizonAssumption DEF Due
  <2>2. /\ currentAttempt' \in [Node -> Nat] /\ failures' \in [Node -> Nat]
        /\ taskQueue' \in [Node -> Nat] /\ collected' \in [Node -> Nat]
        /\ claimedWork' \in [Worker -> [Node -> Nat]]
        /\ release' \in [Worker -> Release]
        /\ notify' \in [Worker -> [Node -> Nat]]
    BY NoNodesType DEF Release, NoRelease
  <2>3. \A w \in Worker : pc'[w] \notin {"locking", "lockingFailed"}
    BY <1>0 DEF TypeOK, Survives
  <2>4. /\ order' \in [Instance -> Nat] /\ now' \in Nat
        /\ instances' \subseteq Instance /\ IsFiniteSet(instances')
        /\ creating' \in [Instance -> Node \cup {Nil}]
        /\ dequeueWorker' \in [Node -> Worker \cup {Nil}]
        /\ queueTaint' \in [QueueName -> TaintName \cup {NoTaint, Nil}]
        /\ allowedQueues' \in [Worker -> SUBSET QueueName]
        /\ toTask' \in [Thread -> Node \cup {Nil}]
        /\ toFuture' \in [Thread -> Node \cup {Nil}]
    BY <1>0 DEF TypeOK
  <2> HIDE DEF Restart, FreshMemory
  <2>5. /\ nodes' = {} /\ completed' = {} /\ workers' = {} /\ invalidated' = {}
        /\ overdue' = {} /\ collecting' = Nil /\ draining' = FALSE
    BY DEF Restart, FreshMemory
  <2> QED BY <1>1, <2>1, <2>2, <2>3, <2>4, <2>5 DEF TypeOK
<1>4. \A m \in Node : Recorded(m)' = Recorded(m)
  BY DEF Recorded
<1>5. PersistentTypeOK'
  <2>1. lives' \in 1 .. Lives
    BY <1>0, LivesAssumption DEF PersistentTypeOK
  <2>2. /\ rows' = rows /\ finished' = finished /\ hollow' = instances /\ instances' = instances
        /\ upserts' = [t \in Thread |-> Nil] /\ loading' \subseteq Node
    BY DEF Loadable
  <2> QED BY <1>0, <1>3, <2>1, <2>2 DEF PersistentTypeOK
<1>6. RecordedBeforeHandedOut'
  BY <1>0, <1>1, <1>4 DEF StoreInvariant, RecordedBeforeHandedOut, TypeOK
<1>7. ImagesExist'
  <2>1. \A m \in Node : Handled(m)' => Recorded(m)'
    BY <1>2, <1>6, ThreadAssumption DEF Handled, Held, RecordedBeforeHandedOut
  <2>2. \A m \in loading' : Recorded(m)'
    BY <1>4 DEF Loadable
  <2> QED BY <1>2, <2>1, <2>2 DEF ImagesExist, HasImage
<1>8. NoticedExist' /\ OneAtATime' /\ QueuedRecorded'
  <2>1. NoticedExist' /\ QueuedRecorded'
    BY <1>2 DEF NoticedExist, QueuedRecorded
  <2>2. OneAtATime'
    BY <1>2 DEF OneAtATime, Thread
  <2> QED BY <2>1, <2>2
<1> QED BY <1>5, <1>6, <1>7, <1>8 DEF StoreInvariant

LEMMA StoreInit == PersistentInit => StoreInvariant
<1> SUFFICES ASSUME PersistentInit PROVE StoreInvariant
  OBVIOUS
<1> USE DEF PersistentInit
<1>1. TypeOK
  BY InitType
<1>2. PersistentTypeOK
  BY <1>1, LivesAssumption DEF PersistentTypeOK
<1>3. /\ \A m \in Node : ~Handled(m) /\ ~Noticed(m) /\ taskQueue[m] = 0
      /\ \A t \in Thread : ~Busy(t) /\ Idle(t)
      /\ \A w \in Worker : current[w] = Nil
      /\ loading = {}
  <2>1. \A m \in Node : ~Queued(m) /\ ~Claimed(m) /\ taskQueue[m] = 0
    BY ThreadAssumption DEF Init, Queued, Claimed, NoNodes
  <2>2. \A m \in Node : ~Held(m) /\ ~Noticed(m)
    BY ThreadAssumption DEF Init, Held, Noticed, NoNodes
  <2>3. \A m \in Node, w \in Worker : ~(release[w].claims[m] > 0)
    BY DEF Init, NoRelease, NoNodes
  <2>4. \A t \in Thread : ~Busy(t) /\ Idle(t)
    BY DEF Init, Busy, Idle
  <2>5. loading = {} /\ \A w \in Worker : current[w] = Nil
    BY DEF Init
  <2> QED BY <2>1, <2>2, <2>3, <2>4, <2>5 DEF Handled
<1>4. NoticedExist /\ ImagesExist /\ QueuedRecorded /\ RecordedBeforeHandedOut
  BY <1>3 DEF NoticedExist, ImagesExist, QueuedRecorded, RecordedBeforeHandedOut
<1>5. OneAtATime
  BY <1>3 DEF OneAtATime, Thread
<1> QED BY <1>2, <1>4, <1>5 DEF StoreInvariant

LEMMA StoreStep ==
  ASSUME StoreInvariant, [PersistentNext]_<<vars, storeVars>>
  PROVE  StoreInvariant'
<1>1. CASE Serve
  BY <1>1, WorkerKeeps, SaveKeeps, CreatorKeeps, PushKeeps, EndKeeps, LoopKeeps DEF Serve
<1>2. CASE UNCHANGED <<vars, storeVars>>
  BY <1>2
     DEF vars, storeVars, instanceVars, nodeVars, queueVars, workerVars, handlerVars,
         enqueueVars, loopVars, StoreInvariant, PersistentTypeOK, TypeOK, NoticedExist,
         ImagesExist, OneAtATime, QueuedRecorded, PushPending, RecordedBeforeHandedOut,
         HasImage, Recorded, Handled, Queued, Claimed, Held, Noticed, Busy, Idle
<1> QED
  BY <1>1, <1>2, LoadKeeps, RestartKeeps DEF PersistentNext, BrokerCrash, Panic

LEMMA StoreInvariantHolds == PersistentSpec => []StoreInvariant
BY StoreInit, StoreStep, PTL DEF PersistentSpec

-----------------------------------------------------------------------------
\* The memory, the table and the upserts keep their types over every restart: in
\* particular, whatever is written of a node has an image to be written.
THEOREM StoreIsTyped == PersistentSpec => []PersistentTypeOK
<1>1. StoreInvariant => PersistentTypeOK
  BY DEF StoreInvariant
<1> QED BY <1>1, StoreInvariantHolds, PTL

\* A worker gets to see a node only when the database has it, so that a restart finds
\* what any worker is executing.
THEOREM HandedOutWhenRecorded == PersistentSpec => []RecordedBeforeHandedOut
<1>1. StoreInvariant => RecordedBeforeHandedOut
  BY DEF StoreInvariant
<1> QED BY <1>1, StoreInvariantHolds, PTL
-----------------------------------------------------------------------------
(***************************************************************************)
(* Lives of the broker.  The instances of an earlier life are hollow: they *)
(* have no nodes in memory, and a row without a node is one of theirs.     *)
(* Everything the steps of Broker make of a node happens in one life.      *)
(***************************************************************************)
Hollow(n) == InstanceOf[n] \in hollow

\* The places at which a call has found its node.
Calling == {"resolving", "releasing", "locking", "clearing", "resolved", "notifying",
            "failing", "lockingFailed", "clearingFailed", "backoff", "requeue"}

OfThisLife ==
  /\ \A n \in nodes : InstanceOf[n] \in instances /\ ~Hollow(n)
  /\ \A n \in Node : Recorded(n) => n \in nodes \/ Hollow(n)
  /\ loading # {} => nodes = {}
  /\ completed \subseteq nodes
  /\ \A w \in Worker : pc[w] \in Calling => current[w] \in nodes
  /\ \A w \in Worker : pc[w] \in Finishing => current[w] \in completed

ThisLife == StoreInvariant /\ OfThisLife

\* What a step of the server does to the calls and what they have completed.
CallsInOrder ==
  /\ \A n \in nodes' \ nodes : InstanceOf[n] \in instances /\ ~Hollow(n)
  /\ completed' \subseteq nodes
  /\ \A w \in Worker : pc'[w] \in Calling => current'[w] \in nodes
  /\ \A w \in Worker : pc'[w] \in Finishing => current'[w] \in completed'

LEMMA QuietCalls ==
  ASSUME OfThisLife, UNCHANGED <<nodes, completed>>,
         \A w \in Worker :
           \/ pc'[w] = pc[w] /\ current'[w] = current[w]
           \/ pc'[w] \notin Calling
           \/ pc[w] \in Finishing /\ pc'[w] \in Finishing /\ current'[w] = current[w]
           \/ pc[w] \in Calling /\ pc'[w] \notin Finishing /\ current'[w] = current[w]
           \/ pc'[w] \notin Finishing /\ current'[w] \in nodes
  PROVE  CallsInOrder
BY DEF OfThisLife, CallsInOrder, Calling, Finishing

LEMMA WorkerCalls ==
  ASSUME ThisLife, NEW w \in Worker,
         WorkerStep(w) \/ SaveResolved(w) \/ SaveFailed(w)
  PROVE  CallsInOrder
<1>0. /\ OfThisLife
      /\ pc \in [Worker -> PC]
      /\ current \in [Worker -> Node \cup {Nil}]
  BY DEF ThisLife, StoreInvariant, PersistentTypeOK, TypeOK
<1> USE DEF Calling, Finishing, instanceVars, nodeVars, handlerVars
<1>1. CASE NewWorker(w) \/ Ping(w) \/ MissPing(w)
  BY <1>0, <1>1, QuietCalls DEF NewWorker, Ping, MissPing
<1>2. CASE Crash(w) \/ GetWork(w)
  BY <1>0, <1>2, QuietCalls DEF Crash, GetWork, Refuse
<1>3. CASE (SubmitWork(w) \/ SubmitFailure(w)) /\ Known(w)
  BY <1>0, <1>3, QuietCalls DEF SubmitWork, SubmitFailure, Refuse, Known
<1>4. CASE PopNextNode(w)
  <2>1. /\ UNCHANGED <<nodes, completed>>
        /\ \A v \in Worker : v # w => pc'[v] = pc[v] /\ current'[v] = current[v]
        /\ pc'[w] \in {"idle", "executing"}
    BY <1>0, <1>4 DEF PopNextNode
  <2> QED BY <1>0, <2>1, QuietCalls
<1>5. CASE Complete(w)
  <2>1. current[w] \in nodes
    BY <1>0, <1>5 DEF Complete, OfThisLife
  <2> QED BY <1>0, <1>5, <2>1 DEF Complete, OfThisLife, CallsInOrder
<1>6. CASE ReadOwner(w) \/ ReadClaims(w) \/ ReleaseWorkerLock(w)
  BY <1>0, <1>6, QuietCalls DEF ReadOwner, ReadClaims, ReleaseWorkerLock
<1>7. CASE ReadDestinations(w)
  BY <1>0, <1>7, QuietCalls DEF ReadDestinations
<1>8. ASSUME NEW d \in Node, Notify(w, d) PROVE CallsInOrder
  BY <1>0, <1>8, QuietCalls DEF Notify
<1>9. CASE Requeue(w) \/ Resolved(w)
  BY <1>0, <1>9, QuietCalls DEF Requeue, Resolved
<1>10. CASE BackoffNode(w)
  BY <1>0, <1>10, QuietCalls DEF BackoffNode
<1> QED
  BY <1>1, <1>2, <1>3, <1>4, <1>5, <1>6, <1>7, <1>8, <1>9, <1>10
     DEF WorkerStep, SaveResolved, SaveFailed

LEMMA OtherCalls ==
  ASSUME ThisLife,
         \/ \E i \in Instance : CreatorStep(i)
         \/ \E t \in Thread : Push(t)
         \/ LoopStep
  PROVE  CallsInOrder /\ UNCHANGED <<pc, current, completed>>
<1>0. OfThisLife
  BY DEF ThisLife
<1> USE DEF instanceVars, nodeVars, handlerVars
<1>1. ASSUME NEW i \in Instance, CreatorStep(i)
      PROVE  CallsInOrder /\ UNCHANGED <<pc, current, completed>>
  <2>1. CASE CreateInstance(i) \/ ResolveNewNode(i)
    BY <1>0, <2>1, QuietCalls DEF CreateInstance, ResolveNewNode
  <2>2. ASSUME NEW n \in Node, InstanceOf[n] = i, NewNode(n)
        PROVE  CallsInOrder /\ UNCHANGED <<pc, current, completed>>
    <3>1. /\ i \in instances /\ i \notin hollow /\ nodes' = nodes \cup {n}
          /\ UNCHANGED <<pc, current, completed>>
      BY <1>1, <2>2 DEF CreatorStep, NewNode
    <3> QED BY <1>0, <2>2, <3>1 DEF OfThisLife, CallsInOrder, Hollow
  <2> QED BY <1>1, <2>1, <2>2 DEF CreatorStep, CreateStep
<1>2. ASSUME NEW t \in Thread, Push(t)
      PROVE  CallsInOrder /\ UNCHANGED <<pc, current, completed>>
  BY <1>0, <1>2, QuietCalls DEF Push, PushTask, PushFuture
<1>3. CASE LoopStep
  BY <1>0, <1>3, QuietCalls
     DEF LoopStep, CollectStep, CollectWorker, FreeNode, InvalidateWorker, LockFuture,
         PopDue, UnlockFuture, Tick
<1> QED BY <1>1, <1>2, <1>3

\* The steps of the server that are not the end of an upsert are steps of Broker.
LEMMA ServeIsNext ==
  ASSUME StoreInvariant, Serve
  PROVE  \/ [Next]_vars /\ UNCHANGED <<rows, loading, hollow, lives>>
         \/ \E t \in Thread : EndUpsert(t)
<1>1. ASSUME NEW w \in Worker, WorkerStep(w) \/ SaveResolved(w) \/ SaveFailed(w)
      PROVE  [Next]_vars /\ UNCHANGED <<rows, loading, hollow, lives>>
  BY <1>1, WorkerKeeps, SaveKeeps DEF WorkerStep, SaveResolved, SaveFailed, storeVars
<1>2. ASSUME NEW i \in Instance, CreatorStep(i)
      PROVE  [Next]_vars /\ UNCHANGED <<rows, loading, hollow, lives>>
  BY <1>2, CreatorKeeps DEF CreatorStep, storeVars
<1>3. ASSUME NEW t \in Thread, Push(t)
      PROVE  [Next]_vars /\ UNCHANGED <<rows, loading, hollow, lives>>
  BY <1>3, PushKeeps DEF Push
<1>4. CASE LoopStep
  BY <1>4, LoopKeeps DEF LoopStep, storeVars
<1> QED BY <1>1, <1>2, <1>3, <1>4 DEF Serve

LEMMA LifeServed ==
  ASSUME ThisLife, Serve
  PROVE  ThisLife'
<1>0. /\ StoreInvariant /\ TypeOK /\ OfThisLife /\ loading = {}
      /\ StoreInvariant'
  <2>1. StoreInvariant /\ TypeOK /\ OfThisLife /\ loading = {}
    BY DEF ThisLife, StoreInvariant, PersistentTypeOK, Serve
  <2> QED BY <2>1, StoreStep DEF PersistentNext
<1>1. CASE \E t \in Thread : EndUpsert(t)
  <2>1. PICK t \in Thread : EndUpsert(t)
    BY <1>1
  <2>2. PICK n \in Node : n = upserts[t].node /\ HasImage(n)
    BY <1>0, <2>1 DEF EndUpsert, StoreInvariant, PersistentTypeOK, ImagesExist, Idle, Upsert
  <2>3. /\ \A m \in Node : Recorded(m)' => Recorded(m) \/ m = n
        /\ UNCHANGED <<vars, loading, hollow>>
    BY <1>0, <2>1, <2>2 DEF EndUpsert, StoreInvariant, PersistentTypeOK, Recorded
  <2>4. UNCHANGED <<instances, nodes, completed, pc, current>>
    BY <2>3 DEF vars, instanceVars, nodeVars, handlerVars
  <2>5. OfThisLife'
    BY <1>0, <2>2, <2>3, <2>4 DEF OfThisLife, Hollow, HasImage
  <2> QED BY <1>0, <2>5 DEF ThisLife
<1>2. CASE ~\E t \in Thread : EndUpsert(t)
  <2>1. [Next]_vars /\ UNCHANGED <<rows, loading, hollow>>
    BY <1>0, <1>2, ServeIsNext
  <2>2. CallsInOrder
    BY <1>2, WorkerCalls, OtherCalls DEF Serve
  <2>3. nodes \subseteq nodes' /\ instances \subseteq instances'
    BY <1>0, <2>1, StepNoticed
  <2>4. OfThisLife'
    BY <1>0, <2>1, <2>2, <2>3 DEF OfThisLife, CallsInOrder, Hollow, Recorded
  <2> QED BY <1>0, <2>4 DEF ThisLife
<1> QED BY <1>1, <1>2

LEMMA LifeLoaded ==
  ASSUME ThisLife, NEW n \in Node, LoadNode(n)
  PROVE  ThisLife'
<1>0. StoreInvariant' /\ Recorded(n) /\ OfThisLife
  BY LoadKeeps DEF ThisLife, StoreInvariant, ImagesExist, LoadNode
<1>1. /\ UNCHANGED <<instances, nodes, completed, pc, current, hollow>>
      /\ loading' \subseteq loading
      /\ \A m \in Node : Recorded(m)' => Recorded(m) \/ m = n
  BY DEF LoadNode, instanceVars, nodeVars, handlerVars, Recorded, ThisLife, StoreInvariant,
         PersistentTypeOK
<1>2. OfThisLife'
  BY <1>0, <1>1 DEF OfThisLife, Hollow
<1> QED BY <1>0, <1>2 DEF ThisLife

LEMMA LifeRestarted ==
  ASSUME ThisLife, NEW killed, Restart(killed)
  PROVE  ThisLife'
<1>0. StoreInvariant' /\ OfThisLife /\ TypeOK
  BY RestartKeeps DEF ThisLife, StoreInvariant, PersistentTypeOK
<1>1. /\ nodes' = {} /\ completed' = {} /\ hollow' = instances /\ UNCHANGED rows
      /\ \A w \in Worker : pc'[w] \notin Calling
  BY <1>0 DEF Restart, FreshMemory, Survives, Calling, TypeOK, PC
<1>2. \A n \in Node : Recorded(n) => InstanceOf[n] \in instances
  BY <1>0 DEF OfThisLife, Hollow, ThisLife, StoreInvariant, PersistentTypeOK
<1>3. OfThisLife'
  BY <1>1, <1>2 DEF OfThisLife, Hollow, Recorded, Calling, Finishing
<1> QED BY <1>0, <1>3 DEF ThisLife

LEMMA LifeInit == PersistentInit => ThisLife
<1> SUFFICES ASSUME PersistentInit PROVE ThisLife
  OBVIOUS
<1>1. StoreInvariant
  BY StoreInit
<1>2. OfThisLife
  BY DEF PersistentInit, Init, OfThisLife, Recorded, Calling, Finishing
<1> QED BY <1>1, <1>2 DEF ThisLife

LEMMA LifeStep ==
  ASSUME ThisLife, [PersistentNext]_<<vars, storeVars>>
  PROVE  ThisLife'
<1>1. CASE UNCHANGED <<vars, storeVars>>
  <2>1. StoreInvariant'
    BY <1>1, StoreStep DEF ThisLife
  <2>2. OfThisLife'
    BY <1>1
       DEF vars, storeVars, instanceVars, nodeVars, handlerVars, ThisLife, OfThisLife,
           Hollow, Recorded
  <2> QED BY <2>1, <2>2 DEF ThisLife
<1> QED
  BY <1>1, LifeServed, LifeLoaded, LifeRestarted DEF PersistentNext, BrokerCrash, Panic

\* A step of the broker, the end of an upsert, the loading of a node, or a restart.
LEMMA PersistentStep ==
  ASSUME StoreInvariant, [PersistentNext]_<<vars, storeVars>>
  PROVE  \/ [Next]_vars /\ UNCHANGED <<rows, loading, hollow>>
         \/ \E t \in Thread : EndUpsert(t)
         \/ \E n \in Node : LoadNode(n)
         \/ \E killed \in SUBSET Worker : Restart(killed)
<1>1. ASSUME NEW w \in Worker, Panic(w) PROVE \E killed \in SUBSET Worker : Restart(killed)
  BY <1>1 DEF Panic
<1>2. BrokerCrash => \E killed \in SUBSET Worker : Restart(killed)
  BY DEF BrokerCrash
<1> QED BY <1>1, <1>2, ServeIsNext DEF PersistentNext, storeVars

-----------------------------------------------------------------------------
(***************************************************************************)
(* No old image is written over a completed node.  While a root without a  *)
(* retry policy is a token, an upsert of it is pending only at the ends of *)
(* its course: when it is pushed, under the lock that keeps workers from   *)
(* the queue, and after the one call about it.                             *)
(***************************************************************************)
LifeInvariant == ThisLife /\ WorkersInOrder

SimpleRoot(n) == SourcesOf(n) = {} /\ ~PolicyOf(n).enabled /\ ~Hollow(n)

\* No worker is to push the node: workers push what is notified or retried.
NotRetried(n) ==
  \A w \in Worker : toTask[w] # n /\ (pc[w] = "requeue" => current[w] # n)

PendingInCourse(n) ==
  \A t \in Thread : ~Idle(t) /\ upserts[t].node = n =>
    \/ upserts[t].lock = "task" /\ taskQueue[n] > 0 /\ t \notin Worker
    \/ upserts[t].lock = "failures" /\ Nowhere(n) /\ n \notin completed
    \/ upserts[t].lock = "none" /\ Nowhere(n) /\ upserts[t].row.completed

CompletionKept(n) ==
  n \in completed =>
    \/ \E w \in Worker : current[w] = n /\ pc[w] \in Finishing
    \/ \E t \in Thread : ~Idle(t) /\ upserts[t].node = n
    \/ rows[n].completed

Course(n) ==
  Token(n) /\ NotRetried(n) /\ Unscheduled(n) /\ PendingInCourse(n) /\ CompletionKept(n)

\* A node of this life that is nowhere will never be anywhere.
LEMMA NowhereForEver ==
  ASSUME LatePings = {}, WorkersInOrder, ClaimsCurrent, [Next]_vars,
         NEW n \in Node, SourcesOf(n) = {}, Token(n), n \in nodes, Nowhere(n)
  PROVE  Nowhere(n)'
BY StepPlaces DEF Nowhere, Stays, Moves, Enters

LEMMA StepNotRetried ==
  ASSUME TypeOK, [Next]_vars, NEW n \in Node, ~PolicyOf(n).enabled,
         OnRecord(n), NotRetried(n)
  PROVE  NotRetried(n)'
<1> USE DEF NotRetried, vars, handlerVars, enqueueVars
<1>0. /\ pc \in [Worker -> PC]
      /\ current \in [Worker -> Node \cup {Nil}]
      /\ Worker \subseteq Thread /\ Nil # n
      /\ toTask \in [Thread -> Node \cup {Nil}]
  BY ThreadAssumption DEF TypeOK, Thread
<1>1. ASSUME UNCHANGED <<toTask, pc, current>> PROVE NotRetried(n)'
  BY <1>1
<1>2. ASSUME NEW w \in Worker, ClientStep(w) PROVE NotRetried(n)'
  BY <1>0, <1>2 DEF ClientStep, NewWorker, Ping, MissPing, Crash, GetWork, SubmitWork,
                    SubmitFailure, Refuse
<1>3. ASSUME NEW w \in Worker, HandlerStep(w) PROVE NotRetried(n)'
  <2>1. CASE PopNextNode(w) BY <1>0, <2>1 DEF PopNextNode
  <2>2. CASE Complete(w) BY <1>0, <2>2 DEF Complete
  <2>3. CASE ReadOwner(w) \/ ReadClaims(w)
    BY <1>0, <2>3 DEF ReadOwner, ReadClaims
  <2>4. CASE ReleaseWorkerLock(w) BY <1>0, <2>4 DEF ReleaseWorkerLock
  <2>5. CASE ReadDestinations(w) BY <1>0, <2>5 DEF ReadDestinations
  <2>6. ASSUME NEW d \in Node, Notify(w, d) PROVE NotRetried(n)'
    <3>1. d # n /\ (EnqueueNode(w, d) \/ UNCHANGED enqueueVars) /\ UNCHANGED <<pc, current>>
      BY <2>6 DEF Notify, DependencyDidResolve, OnRecord
    <3>2. \A v \in Worker : toTask'[v] # n
      BY <1>0, <3>1 DEF EnqueueNode
    <3> QED BY <3>1, <3>2
  <2>7. CASE Resolved(w) BY <1>0, <2>7 DEF Resolved
  <2>8. CASE BackoffNode(w)
    <3>1. pc'[w] = "requeue" => current[w] # n
      BY <1>0, <2>8 DEF BackoffNode
    <3> QED BY <1>0, <2>8, <3>1 DEF BackoffNode
  <2>9. CASE Requeue(w)
    <3>1. /\ current[w] # n /\ EnqueueNode(w, current[w])
          /\ pc' = [pc EXCEPT ![w] = "idle"] /\ current' = [current EXCEPT ![w] = Nil]
      BY <2>9 DEF Requeue
    <3>2. \A v \in Worker : toTask'[v] # n
      BY <1>0, <3>1 DEF EnqueueNode
    <3> QED BY <1>0, <3>1, <3>2
  <2> QED
    BY <1>3, <2>1, <2>2, <2>3, <2>4, <2>5, <2>6, <2>7, <2>8, <2>9 DEF HandlerStep
<1>4. ASSUME NEW i \in Instance, CreateStep(i) PROVE NotRetried(n)'
  <2>1. i \in Thread /\ i \notin Worker
    BY ThreadAssumption DEF Thread
  <2>2. CASE ResolveNewNode(i)
    <3>1. /\ EnqueueNode(i, creating[i]) \/ UNCHANGED toTask
          /\ UNCHANGED <<pc, current>>
      BY <2>2 DEF ResolveNewNode, DependencyDidResolve
    <3>2. \A v \in Worker : toTask'[v] = toTask[v]
      BY <1>0, <2>1, <3>1 DEF EnqueueNode
    <3> QED BY <3>1, <3>2
  <2> QED BY <1>1, <1>4, <2>2 DEF CreateStep, CreateInstance, NewNode
<1>5. ASSUME NEW t \in Thread, PushTask(t) \/ PushFuture(t) PROVE NotRetried(n)'
  BY <1>0, <1>5 DEF PushTask, PushFuture
<1>6. CASE CollectStep \/ SchedulerStep
  <2>1. GC \in Thread \ Worker /\ Scheduler \in Thread \ Worker
    BY ThreadAssumption DEF Thread
  <2>2. ASSUME NEW m \in Node, FreeNode(m) PROVE NotRetried(n)'
    BY <1>0, <2>1, <2>2 DEF FreeNode, EnqueueNode
  <2>3. ASSUME NEW m \in Node, NEW d \in Due, PopDue(m, d) PROVE NotRetried(n)'
    BY <1>0, <2>1, <2>3 DEF PopDue, EnqueueNode
  <2> QED
    BY <1>1, <1>6, <2>2, <2>3
       DEF CollectStep, SchedulerStep, CollectWorker, InvalidateWorker, LockFuture, UnlockFuture
<1>7. CASE Tick \/ UNCHANGED vars
  BY <1>1, <1>7 DEF Tick
<1> QED BY <1>2, <1>3, <1>4, <1>5, <1>6, <1>7 DEF Next

\* A step that writes nothing of the node and takes it from no queue under its lock.
LEMMA QuietCourse ==
  ASSUME LatePings = {}, LifeInvariant, ClaimsCurrent, [Next]_vars, UNCHANGED <<rows, hollow>>,
         NEW n \in Node, SimpleRoot(n), Course(n),
         \A t \in Thread : ~Idle(t) /\ upserts[t].node = n => upserts'[t] = upserts[t],
         \A t \in Thread : ~Idle(t)' /\ upserts'[t].node = n => upserts'[t] = upserts[t],
         taskQueue[n] > 0 /\ ~QueueLockFree("task") => taskQueue'[n] > 0,
         \A w \in Worker : current[w] = n /\ pc[w] \in Finishing =>
           current'[w] = n /\ pc'[w] \in Finishing,
         n \in completed' \ completed =>
           \E w \in Worker : /\ current[w] = n /\ pc[w] \in Working
                             /\ current'[w] = n /\ pc'[w] \in Finishing
  PROVE  Course(n)'
<1>0. TypeOK /\ WorkersInOrder /\ StoreInvariant /\ OfThisLife /\ Token(n) /\ SourcesOf(n) = {}
  BY DEF LifeInvariant, ThisLife, StoreInvariant, PersistentTypeOK, Course, SimpleRoot
<1>1. Token(n)' /\ NotRetried(n)' /\ Unscheduled(n)'
  BY <1>0, TokenKept, StepNotRetried, StepUnscheduled DEF Course, SimpleRoot, Token
<1>2. PendingInCourse(n)'
  <2> SUFFICES ASSUME NEW t \in Thread, ~Idle(t)', upserts'[t].node = n
               PROVE  \/ upserts'[t].lock = "task" /\ taskQueue'[n] > 0 /\ t \notin Worker
                      \/ upserts'[t].lock = "failures" /\ Nowhere(n)' /\ n \notin completed'
                      \/ upserts'[t].lock = "none" /\ Nowhere(n)' /\ upserts'[t].row.completed
    BY DEF PendingInCourse
  <2>1. upserts'[t] = upserts[t] /\ ~Idle(t) /\ upserts[t].node = n
    BY DEF Idle
  <2>2. n \in nodes
    BY <1>0, <2>1 DEF StoreInvariant, ImagesExist, HasImage, OfThisLife, SimpleRoot
  <2>3. Nowhere(n) => Nowhere(n)'
    BY <1>0, <2>2, NowhereForEver
  <2>4. Nowhere(n) /\ n \notin completed => n \notin completed'
    <3>1. \A w \in Worker : current[w] = n /\ pc[w] \in Working => At(n, "worker", w)
      BY DEF At, HeldBy
    <3> QED BY <3>1 DEF Nowhere
  <2>5. upserts[t].lock = "task" => ~QueueLockFree("task")
    BY <2>1 DEF QueueLockFree
  <2> QED BY <2>1, <2>3, <2>4, <2>5 DEF Course, PendingInCourse
<1>3. CompletionKept(n)'
  <2> SUFFICES ASSUME n \in completed'
               PROVE  \/ \E w \in Worker : current'[w] = n /\ pc'[w] \in Finishing
                      \/ \E t \in Thread : ~Idle(t)' /\ upserts'[t].node = n
                      \/ rows'[n].completed
    BY DEF CompletionKept
  <2>1. CASE n \in completed
    <3>1. \A t \in Thread : ~Idle(t) /\ upserts[t].node = n => ~Idle(t)' /\ upserts'[t].node = n
      BY DEF Idle
    <3> QED BY <2>1, <3>1 DEF Course, CompletionKept
  <2>2. CASE n \notin completed
    BY <2>2
  <2> QED BY <2>1, <2>2
<1> QED BY <1>1, <1>2, <1>3 DEF Course

LEMMA WorkerCourse ==
  ASSUME LatePings = {}, LifeInvariant, ClaimsCurrent, NEW w \in Worker, WorkerStep(w),
         NEW n \in Node, SimpleRoot(n), Course(n)
  PROVE  Course(n)'
<1>0. /\ StoreInvariant /\ [Next]_vars /\ UNCHANGED <<rows, hollow, upserts>>
      /\ pc \in [Worker -> PC]
      /\ current \in [Worker -> Node \cup {Nil}]
  BY WorkerKeeps DEF LifeInvariant, ThisLife, StoreInvariant, PersistentTypeOK, TypeOK, WorkerStep,
                     storeVars
<1> DEFINE Goal == /\ taskQueue[n] > 0 /\ ~QueueLockFree("task") => taskQueue'[n] > 0
                   /\ \A v \in Worker : current[v] = n /\ pc[v] \in Finishing =>
                        current'[v] = n /\ pc'[v] \in Finishing
                   /\ n \in completed' \ completed =>
                        \E v \in Worker : /\ current[v] = n /\ pc[v] \in Working
                                          /\ current'[v] = n /\ pc'[v] \in Finishing
<1> USE DEF Finishing, Working, PC, instanceVars, nodeVars, queueVars, handlerVars
<1>1. Goal
  <2>1. CASE NewWorker(w) \/ Ping(w) \/ MissPing(w)
    BY <1>0, <2>1 DEF NewWorker, Ping, MissPing
  <2>2. CASE Crash(w) \/ GetWork(w)
    BY <1>0, <2>2 DEF Crash, GetWork, Refuse
  <2>3. CASE SubmitWork(w) \/ SubmitFailure(w)
    BY <1>0, <2>3 DEF SubmitWork, SubmitFailure, Refuse
  <2>4. CASE PopNextNode(w) /\ QueueLockFree("task")
    <3>1. UNCHANGED completed /\ pc[w] = "popping"
      BY <2>4 DEF PopNextNode
    <3>2. \A v \in Worker : v # w => pc'[v] = pc[v] /\ current'[v] = current[v]
      BY <1>0, <2>4 DEF PopNextNode
    <3> QED BY <2>4, <3>1, <3>2
  <2>5. CASE Complete(w)
    BY <1>0, <2>5 DEF Complete
  <2>6. CASE ReadOwner(w) \/ ReadClaims(w) \/ ReleaseWorkerLock(w)
    BY <1>0, <2>6 DEF ReadOwner, ReadClaims, ReleaseWorkerLock
  <2>7. CASE ReadDestinations(w)
    BY <1>0, <2>7 DEF ReadDestinations
  <2>8. ASSUME NEW d \in Node, Notify(w, d) PROVE Goal
    BY <1>0, <2>8 DEF Notify
  <2>9. CASE Requeue(w)
    BY <1>0, <2>9 DEF Requeue
  <2> QED
    BY <2>1, <2>2, <2>3, <2>4, <2>5, <2>6, <2>7, <2>8, <2>9 DEF WorkerStep
<1> HIDE DEF Finishing, Working, PC
<1> QED BY <1>0, <1>1, QuietCourse

LEMMA OtherCourse ==
  ASSUME LatePings = {}, LifeInvariant, ClaimsCurrent,
         (\E i \in Instance : CreatorStep(i)) \/ LoopStep,
         NEW n \in Node, SimpleRoot(n), Course(n)
  PROVE  Course(n)'
<1>1. [Next]_vars /\ UNCHANGED <<rows, hollow, upserts>>
  BY CreatorKeeps, LoopKeeps DEF LifeInvariant, ThisLife, CreatorStep, LoopStep, storeVars
<1>2. UNCHANGED taskQueue
  BY DEF CreatorStep, CreateStep, CreateInstance, NewNode, ResolveNewNode, LoopStep,
         CollectStep, CollectWorker, FreeNode, InvalidateWorker, LockFuture, PopDue,
         UnlockFuture, Tick, queueVars
<1>3. UNCHANGED <<pc, current, completed>>
  BY OtherCalls DEF LifeInvariant
<1> QED BY <1>1, <1>2, <1>3, QuietCourse

\* The worker that finishes or fails a simple root is the last to have it.
LEMMA LastHand ==
  ASSUME LatePings = {}, WorkersInOrder, NEW n \in Node, Token(n),
         NEW w \in Worker, current[w] = n, pc[w] \in {"notifying", "backoff"},
         UNCHANGED <<creating, enqueueVars, taskQueue, futureScheduled, collecting,
                     collected, claimedWork>>,
         pc'[w] = "idle",
         \A v \in Worker : v # w => pc'[v] = pc[v] /\ current'[v] = current[v]
  PROVE  Nowhere(n)' /\ ~Nowhere(n)
<1>1. Sole(n) /\ OnRecord(n) /\ claimedWork \in [Worker -> [Node -> Nat]]
  BY DEF Token, WorkersInOrder, TypeOK
<1>2. At(n, "worker", w)
  BY DEF At, HeldBy, Working, PC
<1>3. \A place, x : At(n, place, x) => place = "worker" /\ x = w
  BY <1>1, <1>2 DEF Sole
<1>4. ~(claimedWork[w][n] > 0)
  BY <1>1 DEF OnRecord, Claiming
<1>5. \A v \in Worker : ~HeldBy(v, n)'
  <2>1. ~HeldBy(w, n)'
    BY <1>4 DEF HeldBy, Working
  <2>2. \A v \in Worker : v # w => ~HeldBy(v, n)
    BY <1>3 DEF At
  <2> QED BY <2>1, <2>2 DEF HeldBy
<1>6. \A place, x : ~At(n, place, x)'
  BY <1>3, <1>5 DEF At, enqueueVars
<1> QED BY <1>2, <1>6 DEF Nowhere

LEMMA SaveCourse ==
  ASSUME LatePings = {}, LifeInvariant, ClaimsCurrent, NEW w \in Worker, SaveResolved(w) \/ SaveFailed(w),
         NEW n \in Node, SimpleRoot(n), Course(n)
  PROVE  Course(n)'
<1>0. /\ StoreInvariant /\ TypeOK /\ PersistentTypeOK /\ WorkersInOrder /\ OfThisLife
      /\ [Next]_vars /\ UNCHANGED <<rows, hollow>> /\ Token(n) /\ SourcesOf(n) = {}
      /\ pc \in [Worker -> PC]
      /\ current \in [Worker -> Node \cup {Nil}]
      /\ Idle(w) /\ w \in Thread
  BY SaveKeeps
     DEF LifeInvariant, ThisLife, StoreInvariant, PersistentTypeOK, TypeOK, SaveResolved, SaveFailed,
         Course, SimpleRoot, Thread
<1>1. /\ current[w] \in Node /\ HasImage(current[w])
      /\ pc[w] \in {"notifying", "backoff"}
      /\ UNCHANGED <<creating, enqueueVars, taskQueue, futureScheduled, collecting,
                     collected, claimedWork, completed>>
      /\ \A v \in Worker : v # w => pc'[v] = pc[v] /\ current'[v] = current[v]
  <2>1. pc[w] \in {"notifying", "backoff"}
    BY DEF SaveResolved, SaveFailed, Resolved, BackoffNode
  <2>2. current[w] \in Node /\ Handled(current[w])
    BY <1>0, <2>1 DEF TypeOK, Working, PC, Handled, Held
  <2>3. UNCHANGED <<creating, enqueueVars, taskQueue, futureScheduled, collecting,
                    collected, claimedWork, completed>>
    BY DEF SaveResolved, SaveFailed, Resolved, BackoffNode, instanceVars, nodeVars,
           queueVars, workerVars, loopVars
  <2>4. \A v \in Worker : v # w => pc'[v] = pc[v] /\ current'[v] = current[v]
    BY <1>0 DEF SaveResolved, SaveFailed, Resolved, BackoffNode
  <2> QED BY <1>0, <2>1, <2>2, <2>3, <2>4 DEF StoreInvariant, ImagesExist
<1>2. \/ UNCHANGED upserts
      \/ /\ upserts'[w].node = current[w] /\ upserts'[w] # Nil
         /\ upserts'[w].row = Image(current[w])
         /\ upserts'[w].lock = IF pc[w] = "notifying" THEN "none" ELSE "failures"
  <2>1. CASE SaveResolved(w)
    BY <1>0, <1>1, <2>1, UpsertType DEF SaveResolved, Resolved
  <2>2. CASE SaveFailed(w)
    BY <1>0, <1>1, <2>2, UpsertType DEF SaveFailed, BackoffNode
  <2> QED BY <2>1, <2>2
<1>3. \A t \in Thread : t # w => upserts'[t] = upserts[t]
  BY <1>0, <1>1, UpsertType DEF SaveResolved, SaveFailed
<1>4. CASE current[w] # n
  BY <1>0, <1>1, <1>2, <1>3, <1>4, QuietCourse DEF LifeInvariant, ThisLife, Idle
<1>5. CASE current[w] = n
  <2>1. pc'[w] = "idle" /\ ~UNCHANGED upserts
    <3>1. pc'[w] = "idle"
      BY <1>0, <1>5 DEF SaveResolved, SaveFailed, Resolved, BackoffNode, SimpleRoot
    <3>2. StartUpsert(w, n, "none") \/ StartUpsert(w, n, "failures")
      BY <1>5, <3>1 DEF SaveResolved, SaveFailed
    <3>3. upserts'[w] # Nil
      BY <1>0, <1>1, <1>5, <3>2, UpsertType
    <3> QED BY <1>0, <3>1, <3>3 DEF Idle
  <2>2. Nowhere(n)' /\ ~Nowhere(n)
    BY <1>0, <1>1, <1>5, <2>1, LastHand
  <2>3. Token(n)' /\ NotRetried(n)' /\ Unscheduled(n)'
    BY <1>0, TokenKept, StepNotRetried, StepUnscheduled DEF Course, SimpleRoot, Token
  <2>4. \A t \in Thread : ~Idle(t) => upserts[t].node # n
    <3>1. ~(taskQueue[n] > 0)
      <4>1. At(n, "worker", w)
        BY <1>1, <1>5 DEF At, HeldBy, Working, PC
      <4>2. taskQueue[n] > 0 => At(n, "queue", Nil)
        BY DEF At
      <4> QED BY <1>0, <4>1, <4>2 DEF Token, Sole
    <3> QED BY <2>2, <3>1 DEF Course, PendingInCourse
  <2>5. pc[w] = "notifying" => Image(n).completed
    <3> SUFFICES ASSUME pc[w] = "notifying" PROVE Image(n).completed
      OBVIOUS
    <3>1. n \in nodes /\ n \in completed
      BY <1>0, <1>5 DEF OfThisLife, Calling, Finishing
    <3> QED BY <3>1 DEF Image
  <2>6. pc[w] = "backoff" => n \notin completed'
    BY <1>0, <1>1, <1>5 DEF Token, InCourse, Finishing, At, HeldBy, Working, PC
  <2>7. PendingInCourse(n)'
    BY <1>1, <1>2, <1>3, <1>5, <2>1, <2>2, <2>4, <2>5, <2>6 DEF PendingInCourse, Idle
  <2>8. CompletionKept(n)'
    BY <1>0, <1>2, <1>5, <2>1 DEF CompletionKept, Idle
  <2> QED BY <2>3, <2>7, <2>8 DEF Course
<1> QED BY <1>4, <1>5

\* The node of the upsert that Push starts is not pending, and it is queued; or it is
\* another node.
LEMMA PushCourse ==
  ASSUME LatePings = {}, LifeInvariant, ClaimsCurrent, NEW t \in Thread, Push(t),
         NEW n \in Node, SimpleRoot(n), Course(n)
  PROVE  Course(n)'
<1>0. /\ StoreInvariant /\ TypeOK /\ PersistentTypeOK /\ WorkersInOrder
      /\ [Next]_vars /\ UNCHANGED <<rows, hollow>> /\ Token(n) /\ SourcesOf(n) = {}
      /\ UNCHANGED <<pc, current, completed>>
  BY PushKeeps, OtherCalls
     DEF LifeInvariant, ThisLife, StoreInvariant, PersistentTypeOK, Push, Course, SimpleRoot
<1>1. Busy(t) => Idle(t)
  BY DEF LifeInvariant, ThisLife, StoreInvariant, OneAtATime
<1>2. \A m \in Node : Handled(m) => HasImage(m)
  BY <1>0 DEF StoreInvariant, ImagesExist
<1>3. ASSUME NEW m \in Node, m # n, Idle(t), NEW lock \in {"task", "future"},
             Handled(m), StartUpsert(t, m, lock), taskQueue'[n] = taskQueue[n]
      PROVE  Course(n)'
  <2>1. /\ upserts'[t].node = m
        /\ \A u \in Thread : u # t => upserts'[u] = upserts[u]
    BY <1>0, <1>2, <1>3, UpsertType
  <2>2. \A u \in Thread : ~Idle(u) /\ upserts[u].node = n => upserts'[u] = upserts[u]
    BY <1>3, <2>1
  <2>3. \A u \in Thread : ~Idle(u)' /\ upserts'[u].node = n => upserts'[u] = upserts[u]
    BY <1>3, <2>1
  <2> QED BY <1>0, <1>3, <2>2, <2>3, QuietCourse
<1>4. CASE PushTask(t) /\ QueueLockFree("task") /\ StartUpsert(t, toTask[t], "task")
  <2>1. toTask[t] \in Node /\ Handled(toTask[t]) /\ Busy(t)
    BY <1>0, <1>4 DEF PushTask, TypeOK, Handled, Queued, Busy
  <2>2. taskQueue \in [Node -> Nat] /\ taskQueue' = [taskQueue EXCEPT ![toTask[t]] = @ + 1]
    BY <1>0, <1>4 DEF PushTask, TypeOK
  <2>3. CASE toTask[t] # n
    BY <1>1, <1>3, <1>4, <2>1, <2>2, <2>3
  <2>4. CASE toTask[t] = n
    <3>1. taskQueue'[n] > 0
      BY <2>2, <2>4
    <3>2. t \notin Worker
      BY <2>4 DEF Course, NotRetried
    <3>3. At(n, "toTask", t) /\ ~Nowhere(n)
      BY <2>4 DEF At, Nowhere
    <3>4. \A u \in Thread : ~Idle(u) => upserts[u].node # n
      BY <1>4, <3>3 DEF QueueLockFree, Course, PendingInCourse
    <3>5. /\ upserts'[t].node = n /\ upserts'[t].lock = "task"
          /\ \A u \in Thread : u # t => upserts'[u] = upserts[u]
      BY <1>0, <1>2, <1>4, <2>1, <2>4, UpsertType
    <3>6. PendingInCourse(n)'
      BY <3>1, <3>2, <3>4, <3>5 DEF PendingInCourse, Idle
    <3>7. n \notin completed
      BY <1>0, <3>3 DEF Token, InCourse
    <3>8. Token(n)' /\ NotRetried(n)' /\ Unscheduled(n)'
      BY <1>0, TokenKept, StepNotRetried, StepUnscheduled DEF Course, SimpleRoot, Token
    <3> QED BY <1>0, <3>6, <3>7, <3>8 DEF Course, CompletionKept
  <2> QED BY <2>3, <2>4
<1>5. CASE PushFuture(t) /\ StartUpsert(t, toFuture[t], "future")
  <2>1. /\ toFuture[t] \in Node /\ Handled(toFuture[t]) /\ Busy(t)
        /\ UNCHANGED taskQueue
    BY <1>0, <1>5 DEF PushFuture, TypeOK, Handled, Queued, Busy
  <2>2. toFuture[t] # n
    BY DEF Course, Unscheduled
  <2> QED BY <1>1, <1>3, <1>5, <2>1, <2>2
<1> QED BY <1>4, <1>5 DEF Push

\* What an upsert leaves in the table is what the course of the node asks for.
LEMMA EndCourse ==
  ASSUME LatePings = {}, LifeInvariant, ClaimsCurrent, NEW t \in Thread, EndUpsert(t),
         NEW n \in Node, SimpleRoot(n), Course(n)
  PROVE  Course(n)'
<1>0. /\ StoreInvariant /\ TypeOK /\ PersistentTypeOK /\ WorkersInOrder
      /\ UNCHANGED <<vars, hollow>> /\ Token(n) /\ SourcesOf(n) = {} /\ ~Idle(t)
  BY DEF LifeInvariant, ThisLife, StoreInvariant, PersistentTypeOK, EndUpsert, Course, SimpleRoot
<1>1. PICK m \in Node : m = upserts[t].node /\ HasImage(m)
  BY <1>0 DEF StoreInvariant, ImagesExist, PersistentTypeOK, Idle, Upsert
<1>2. /\ rows' = [rows EXCEPT ![m] = upserts[t].row]
      /\ rows \in [Node -> Row \cup {Nil}]
  BY <1>0, <1>1 DEF EndUpsert, PersistentTypeOK
<1>3. /\ UNCHANGED <<pc, current, completed, taskQueue>>
      /\ Nowhere(n)' = Nowhere(n)
  <2>1. UNCHANGED <<creating, enqueueVars, taskQueue, futureScheduled, collecting,
                    collected, claimedWork, pc, current, completed>>
    BY <1>0 DEF vars, instanceVars, nodeVars, queueVars, workerVars, handlerVars, loopVars
  <2>2. \A place, x : At(n, place, x)' <=> At(n, place, x)
    BY <2>1 DEF At, HeldBy, enqueueVars
  <2> QED BY <2>1, <2>2 DEF Nowhere
<1>4. Token(n)' /\ NotRetried(n)' /\ Unscheduled(n)'
  BY <1>0, TokenKept, StepNotRetried, StepUnscheduled DEF Course, SimpleRoot, Token
<1>5. /\ \A u \in Thread : u # t => upserts'[u] = upserts[u]
      /\ \/ FailsAgain(t) /\ upserts'[t] # Nil /\ upserts'[t].node = m
         \/ upserts'[t] = Nil
  <2>1. CASE FailsAgain(t) /\ StartUpsert(t, m, "failures")
    BY <1>0, <1>1, <2>1, UpsertType
  <2>2. CASE upserts' = [upserts EXCEPT ![t] = Nil]
    BY <1>0, <2>2 DEF PersistentTypeOK
  <2> QED BY <1>1, <2>1, <2>2 DEF EndUpsert
<1>6. CASE m # n
  <2>1. PendingInCourse(n)'
    BY <1>1, <1>3, <1>5, <1>6 DEF Course, PendingInCourse, Idle
  <2>2. CompletionKept(n)'
    BY <1>1, <1>2, <1>3, <1>5, <1>6 DEF Course, CompletionKept, Idle
  <2> QED BY <1>4, <2>1, <2>2 DEF Course
<1>7. CASE m = n
  <2>1. \/ upserts[t].lock = "task" /\ taskQueue[n] > 0 /\ t \notin Worker
        \/ upserts[t].lock = "failures" /\ n \notin completed
        \/ upserts[t].lock = "none" /\ upserts[t].row.completed
    BY <1>0, <1>1, <1>7 DEF Course, PendingInCourse
  <2>2. upserts'[t] = Nil
    BY <1>5, <2>1 DEF FailsAgain
  <2>3. PendingInCourse(n)'
    BY <1>3, <1>5, <2>2 DEF Course, PendingInCourse, Idle
  <2>4. taskQueue[n] > 0 => n \notin completed
    BY <1>0 DEF Token, InCourse, At
  <2>5. rows'[n] = upserts[t].row
    BY <1>2, <1>7
  <2>6. CompletionKept(n)'
    BY <1>3, <2>1, <2>4, <2>5 DEF CompletionKept
  <2> QED BY <1>4, <2>3, <2>6 DEF Course
<1> QED BY <1>6, <1>7

\* What is loaded is of an earlier life, and no matter of a node of this one.
LEMMA LoadToken ==
  ASSUME LifeInvariant, NEW m \in Node, LoadNode(m),
         NEW n \in Node, ~Hollow(n), Token(n)
  PROVE  /\ Token(n)' /\ Nowhere(n)' = Nowhere(n)
         /\ rows'[n] = rows[n] /\ taskQueue'[n] = taskQueue[n]
         /\ UNCHANGED <<completed, pc, current, toTask, toFuture, nextRetryAvailable,
                        futureScheduled, upserts, hollow>>
<1>1. m # n
  BY DEF LifeInvariant, ThisLife, StoreInvariant, ImagesExist, OfThisLife, LoadNode
<1>2. /\ UNCHANGED <<nodes, completed, dequeueWorker, nextRetryAvailable, claimedWork,
                     futureScheduled, creating, collecting, collected, pc, current,
                     release, notify, toTask, toFuture, upserts, hollow>>
      /\ taskQueue' = [taskQueue EXCEPT ![m] = @ + 1]
      /\ rows' = [rows EXCEPT ![m] = Image(m)]
  BY DEF LoadNode, instanceVars, nodeVars, workerVars, handlerVars, enqueueVars, loopVars
<1>3. rows'[n] = rows[n] /\ taskQueue'[n] = taskQueue[n]
  BY <1>1, <1>2 DEF LifeInvariant, ThisLife, StoreInvariant, PersistentTypeOK, TypeOK
<1>4. /\ \A place, x : At(n, place, x)' <=> At(n, place, x)
      /\ Nowhere(n)' = Nowhere(n)
  <2>1. \A place, x : At(n, place, x)' <=> At(n, place, x)
    BY <1>2, <1>3 DEF At, HeldBy
  <2> QED BY <2>1 DEF Nowhere
<1>5. Sole(n)'
  BY <1>4 DEF Token, Sole
<1>6. Once(n)' /\ OnRecord(n)'
  BY <1>2, <1>3 DEF Token, Once, OnRecord
<1>7. InCourse(n)'
  BY <1>2, <1>4 DEF Token, InCourse
<1> QED BY <1>2, <1>3, <1>4, <1>5, <1>6, <1>7 DEF Token

LEMMA LoadCourse ==
  ASSUME LifeInvariant, NEW m \in Node, LoadNode(m),
         NEW n \in Node, SimpleRoot(n), Course(n)
  PROVE  Course(n)'
<1>1. /\ Token(n)' /\ Nowhere(n)' = Nowhere(n)
      /\ rows'[n] = rows[n] /\ taskQueue'[n] = taskQueue[n]
      /\ UNCHANGED <<completed, pc, current, toTask, toFuture, nextRetryAvailable,
                     futureScheduled, upserts>>
  BY LoadToken DEF SimpleRoot, Course
<1>2. NotRetried(n)' /\ Unscheduled(n)'
  BY <1>1 DEF Course, NotRetried, Unscheduled
<1>3. PendingInCourse(n)' /\ CompletionKept(n)'
  BY <1>1 DEF Course, PendingInCourse, CompletionKept, Idle
<1> QED BY <1>1, <1>2, <1>3 DEF Course

\* Nothing is left over of the node.
Untouched(n) ==
  /\ n \notin completed /\ nextRetryAvailable[n] = -1 /\ taskQueue = NoNodes
  /\ \A i \in Instance : creating[i] = Nil
  /\ \A t \in Thread : toTask[t] = Nil /\ toFuture[t] = Nil /\ Idle(t)
  /\ \A t \in Due : futureScheduled[n][t] = 0
  /\ \A w \in Worker : /\ current[w] # n /\ claimedWork[w] = NoNodes
                       /\ release[w] = NoRelease /\ notify[w] = NoNodes
  /\ collected = NoNodes

UntouchedInCourse == \A n \in Node : Untouched(n) => Course(n)

LEMMA CourseStarts == UntouchedInCourse
<1> SUFFICES ASSUME NEW n \in Node, Untouched(n) PROVE Course(n)
  BY DEF UntouchedInCourse
<1> USE DEF Untouched
<1>0. Nil # n /\ Worker \subseteq Thread
  BY ThreadAssumption DEF Thread
<1>1. Nowhere(n)
  BY <1>0 DEF Nowhere, At, HeldBy, NoNodes
<1>2. Token(n)
  <2>1. Sole(n) /\ InCourse(n)
    BY <1>1 DEF Nowhere, Sole, InCourse
  <2>2. Once(n) /\ OnRecord(n)
    BY DEF Once, OnRecord, NoNodes, NoRelease
  <2> QED BY <2>1, <2>2 DEF Token
<1>3. NotRetried(n) /\ Unscheduled(n)
  BY <1>0 DEF NotRetried, Unscheduled
<1> QED BY <1>2, <1>3 DEF Course, PendingInCourse, CompletionKept

LEMMA CourseInit ==
  ASSUME PersistentInit, NEW n \in Node
  PROVE  Course(n)
BY CourseStarts, ThreadAssumption
   DEF PersistentInit, Init, UntouchedInCourse, Untouched, Idle

LEMMA RestartCourse ==
  ASSUME LifeInvariant, NEW killed, Restart(killed), NEW n \in Node, ~Hollow(n)'
  PROVE  Course(n)'
<1>1. InstanceOf[n] \notin instances
  BY DEF Hollow, Restart
<1>2. ~Recorded(n)
  BY <1>1 DEF LifeInvariant, ThisLife, OfThisLife, Hollow, StoreInvariant, PersistentTypeOK
<1>3. \A w \in Worker : current[w] # n
  BY <1>2, ThreadAssumption DEF LifeInvariant, ThisLife, StoreInvariant, RecordedBeforeHandedOut
<1>4. \A w \in Worker : current'[w] # n
  BY <1>3, ThreadAssumption DEF Restart
<1>5. Untouched(n)'
  BY <1>4 DEF Restart, FreshMemory, Untouched, Idle
<1>6. UntouchedInCourse'
  BY CourseStarts, PTL
<1> QED BY <1>5, <1>6 DEF UntouchedInCourse

LEMMA WorkersStep ==
  ASSUME LatePings = {}, LifeInvariant, [PersistentNext]_<<vars, storeVars>>
  PROVE  WorkersInOrder'
<1>0. StoreInvariant /\ WorkersInOrder /\ TypeOK'
  BY StoreStep DEF LifeInvariant, ThisLife, StoreInvariant, PersistentTypeOK
<1>1. CASE [Next]_vars
  BY <1>0, <1>1, StepWorkers
<1>2. ASSUME NEW t \in Thread, EndUpsert(t) PROVE WorkersInOrder'
  BY <1>0, <1>2, StepWorkers DEF EndUpsert
<1>3. ASSUME NEW n \in Node, LoadNode(n) PROVE WorkersInOrder'
  <2>1. UNCHANGED <<dequeueWorker, overdue, pc, current, collecting, collected>>
    BY <1>3 DEF LoadNode, nodeVars, workerVars, handlerVars, loopVars
  <2> QED BY <1>0, <2>1 DEF WorkersInOrder, OnlyDeadOverdue, DequeuedInHand, NoNodes
<1>4. ASSUME NEW killed, Restart(killed) PROVE WorkersInOrder'
  BY <1>0, <1>4, ThreadAssumption
     DEF Restart, FreshMemory, WorkersInOrder, OnlyDeadOverdue, DequeuedInHand, Thread, NoNodes
<1> QED BY <1>0, <1>1, <1>2, <1>3, <1>4, PersistentStep

LEMMA CourseStep ==
  ASSUME LatePings = {}, LifeInvariant, ClaimsCurrent, [PersistentNext]_<<vars, storeVars>>,
         NEW n \in Node, SimpleRoot(n) => Course(n), SimpleRoot(n)'
  PROVE  Course(n)'
<1>1. CASE Serve
  <2>1. UNCHANGED hollow
    BY <1>1, ServeIsNext DEF LifeInvariant, ThisLife, EndUpsert
  <2>2. SimpleRoot(n) /\ Course(n)
    BY <2>1 DEF SimpleRoot, Hollow
  <2> QED BY <1>1, <2>2, WorkerCourse, SaveCourse, OtherCourse, PushCourse, EndCourse DEF Serve
<1>2. ASSUME NEW m \in Node, LoadNode(m) PROVE Course(n)'
  <2>1. SimpleRoot(n) /\ Course(n)
    BY <1>2 DEF LoadNode, SimpleRoot, Hollow
  <2> QED BY <1>2, <2>1, LoadCourse
<1>3. ASSUME NEW killed, Restart(killed) PROVE Course(n)'
  BY <1>3, RestartCourse DEF SimpleRoot
<1>4. CASE UNCHANGED <<vars, storeVars>>
  <2>1. /\ UNCHANGED <<rows, hollow, upserts, taskQueue, pc, current, completed>>
        /\ [Next]_vars
    BY <1>4 DEF vars, storeVars, queueVars, handlerVars, nodeVars
  <2>2. SimpleRoot(n) /\ Course(n)
    BY <2>1 DEF SimpleRoot, Hollow
  <2> QED BY <2>1, <2>2, QuietCourse
<1> QED BY <1>1, <1>2, <1>3, <1>4 DEF PersistentNext, BrokerCrash, Panic

\* While only dead workers miss their pings: once the call that completed a node
\* without dependencies and retries has returned, the row of the node says so, and no
\* image from before is written over it, whatever else the broker does.
THEOREM CompletionsAreRecorded ==
  ASSUME LatePings = {}
  PROVE  PersistentSpec /\ []ClaimsCurrent => []CompletionRecorded
<1> DEFINE InCourses == \A n \in Node : SimpleRoot(n) => Course(n)
<1>1. PersistentInit => InCourses
  BY CourseInit
<1>2. LifeInvariant /\ InCourses => CompletionRecorded
  <2> SUFFICES ASSUME LifeInvariant, InCourses, NEW n \in completed,
                      SourcesOf(n) = {}, ~PolicyOf(n).enabled
               PROVE  \/ \E w \in Worker : current[w] = n
                      \/ \E t \in Thread : ~Idle(t) /\ upserts[t].node = n
                      \/ rows[n].completed
    BY DEF CompletionRecorded
  <2>1. n \in Node /\ ~Hollow(n)
    BY DEF LifeInvariant, ThisLife, OfThisLife, StoreInvariant, PersistentTypeOK, TypeOK
  <2>2. CompletionKept(n)
    BY <2>1 DEF SimpleRoot, Course
  <2> QED BY <2>2 DEF CompletionKept
<1>3. LifeInvariant /\ ClaimsCurrent /\ InCourses /\ [PersistentNext]_<<vars, storeVars>>
        => InCourses'
  BY CourseStep
<1>4. PersistentInit => WorkersInOrder
  BY InitType, ThreadAssumption
     DEF PersistentInit, Init, WorkersInOrder, OnlyDeadOverdue, DequeuedInHand, Thread
<1>5. LifeInvariant /\ [PersistentNext]_<<vars, storeVars>> => WorkersInOrder'
  BY WorkersStep
<1>6. LifeInvariant <=> ThisLife /\ WorkersInOrder
  BY DEF LifeInvariant
<1> QED
  BY <1>1, <1>2, <1>3, <1>4, <1>5, <1>6, LifeInit, LifeStep, PTL DEF PersistentSpec

-----------------------------------------------------------------------------
(***************************************************************************)
(* Nodes that were loaded, of whatever graph.  A call finds only nodes of  *)
(* this life, so that none is about a loaded one: it goes round between    *)
(* the queues and the lists of the workers and the collector.  That no     *)
(* other node is to be loaded once the server runs is a matter of the      *)
(* rows: they name nodes of one instance, and the instances of the rows    *)
(* without a node take no new ones.                                        *)
(***************************************************************************)
RowsInOrder ==
  /\ \A n \in Node : Recorded(n) => \A d \in rows[n].destinations : n \in SourcesOf(d)
  /\ \A t \in Thread : ~Idle(t) =>
       /\ \A d \in upserts[t].row.destinations : upserts[t].node \in SourcesOf(d)
       /\ upserts[t].node \in nodes
            \/ upserts[t].row.destinations = rows[upserts[t].node].destinations

LoadedKept ==
  \A n \in Loadable \ nodes : n \in loading \/ Queued(n) \/ OnList(n)

LoadedInvariant == ThisLife /\ CollectsOne /\ RowsInOrder

\* The image of a node names as destinations only nodes it is a source of; if it was
\* loaded, those of its row.
LEMMA ImageInOrder ==
  ASSUME LoadedInvariant, NEW n \in Node, HasImage(n)
  PROVE  /\ \A d \in Image(n).destinations : n \in SourcesOf(d)
         /\ n \in nodes \/ Image(n).destinations = rows[n].destinations
<1>1. CASE n \in nodes
  BY <1>1 DEF Image
<1>2. CASE n \notin nodes
  <2>1. rows[n] \in Row /\ Recorded(n)
    BY <1>2 DEF HasImage, Recorded, LoadedInvariant, ThisLife, StoreInvariant,
                PersistentTypeOK
  <2>2. Image(n).destinations = rows[n].destinations
    BY <1>2, <2>1 DEF Image, Row
  <2> QED BY <2>1, <2>2 DEF LoadedInvariant, RowsInOrder
<1> QED BY <1>1, <1>2

\* Each upsert that begins is of a node that has an image, and takes that image.
LEMMA UpsertsBegin ==
  ASSUME StoreInvariant, [PersistentNext]_<<vars, storeVars>>,
         NEW t \in Thread, ~Idle(t)', upserts'[t] # upserts[t]
  PROVE  \E n \in Node : /\ HasImage(n)
                         /\ upserts'[t].node = n /\ upserts'[t].row = Image(n)
                         /\ UNCHANGED nodes
<1> DEFINE Begins == \E n \in Node : /\ HasImage(n)
                                     /\ upserts'[t].node = n /\ upserts'[t].row = Image(n)
                                     /\ UNCHANGED nodes
<1>0. /\ PersistentTypeOK /\ TypeOK
      /\ \A n \in Node : Handled(n) => HasImage(n)
      /\ \A u \in Thread : ~Idle(u) => upserts[u].node \in Node /\ HasImage(upserts[u].node)
  BY DEF StoreInvariant, PersistentTypeOK, ImagesExist, Idle, Upsert
<1>1. ASSUME NEW u \in Thread, NEW n \in Node, HasImage(n), UNCHANGED nodes,
             NEW lock \in {"task", "future", "failures", "none"}, StartUpsert(u, n, lock)
      PROVE  Begins
  <2>1. u = t
    BY <1>0, <1>1, UpsertType
  <2> QED BY <1>0, <1>1, <2>1, UpsertType
<1> HIDE DEF Begins
<1>2. ASSUME NEW u \in Thread, Push(u) PROVE Begins
  <2>1. CASE PushTask(u) /\ StartUpsert(u, toTask[u], "task")
    <3>1. toTask[u] \in Node /\ Handled(toTask[u]) /\ UNCHANGED nodes
      BY <1>0, <2>1 DEF PushTask, TypeOK, Handled, Queued, instanceVars
    <3> QED BY <1>0, <1>1, <2>1, <3>1
  <2>2. CASE PushFuture(u) /\ StartUpsert(u, toFuture[u], "future")
    <3>1. toFuture[u] \in Node /\ Handled(toFuture[u]) /\ UNCHANGED nodes
      BY <1>0, <2>2 DEF PushFuture, TypeOK, Handled, Queued, instanceVars
    <3> QED BY <1>0, <1>1, <2>2, <3>1
  <2> QED BY <1>2, <2>1, <2>2 DEF Push
<1>3. ASSUME NEW w \in Worker, SaveResolved(w) \/ SaveFailed(w) PROVE Begins
  <2>1. w \in Thread /\ ~UNCHANGED upserts
    BY DEF Thread
  <2>2. pc[w] \in {"notifying", "backoff"} /\ UNCHANGED nodes
    BY <1>3 DEF SaveResolved, SaveFailed, Resolved, BackoffNode, instanceVars
  <2>3. current[w] \in Node /\ Handled(current[w])
    BY <1>0, <2>2 DEF TypeOK, Handled, Held, Working, PC
  <2> QED BY <1>0, <1>1, <1>3, <2>1, <2>2, <2>3 DEF SaveResolved, SaveFailed
<1>4. ASSUME NEW u \in Thread, EndUpsert(u) PROVE Begins
  <2>1. CASE FailsAgain(u) /\ StartUpsert(u, upserts[u].node, "failures")
    <3>1. UNCHANGED nodes /\ ~Idle(u)
      BY <1>4 DEF EndUpsert, vars, instanceVars
    <3> QED BY <1>0, <1>1, <2>1, <3>1
  <2>2. CASE upserts' = [upserts EXCEPT ![u] = Nil]
    BY <1>0, <2>2 DEF PersistentTypeOK, Idle
  <2> QED BY <1>4, <2>1, <2>2 DEF EndUpsert
<1>5. ASSUME NEW killed, Restart(killed) PROVE Begins
  BY <1>5 DEF Restart, Idle
<1>6. ASSUME UNCHANGED upserts PROVE Begins
  BY <1>6
<1> QED
  BY <1>2, <1>3, <1>4, <1>5, <1>6
  DEF PersistentNext, Serve, WorkerStep, CreatorStep, LoopStep, LoadNode, BrokerCrash, Panic,
      storeVars, Begins

\* A row changes to an image: its destinations are in order, and those of a node that
\* was loaded stay the same.
LEMMA RowChanges ==
  ASSUME LoadedInvariant, [PersistentNext]_<<vars, storeVars>>,
         NEW n \in Node, rows'[n] # rows[n]
  PROVE  /\ \A d \in rows'[n].destinations : n \in SourcesOf(d)
         /\ n \in nodes \/ (Recorded(n) /\ rows'[n].destinations = rows[n].destinations)
<1>0. /\ StoreInvariant /\ RowsInOrder
      /\ rows \in [Node -> Row \cup {Nil}]
      /\ \A m \in Node : HasImage(m) <=> m \in nodes \/ Recorded(m)
  BY DEF LoadedInvariant, ThisLife, StoreInvariant, PersistentTypeOK, HasImage
<1>1. ASSUME NEW t \in Thread, EndUpsert(t)
      PROVE  ~Idle(t) /\ upserts[t].node = n /\ rows'[n] = upserts[t].row /\ HasImage(n)
  BY <1>0, <1>1 DEF EndUpsert, StoreInvariant, ImagesExist
<1>2. ASSUME NEW m \in Node, LoadNode(m)
      PROVE  m = n /\ rows'[n] = Image(n) /\ HasImage(n)
  BY <1>0, <1>2 DEF LoadNode, StoreInvariant, ImagesExist
<1>3. ASSUME NEW killed, Restart(killed) PROVE FALSE
  BY <1>3 DEF Restart
<1>4. CASE \E t \in Thread : EndUpsert(t)
  BY <1>0, <1>1, <1>4 DEF RowsInOrder
<1>5. CASE \E m \in Node : LoadNode(m)
  <2>1. rows'[n] = Image(n) /\ HasImage(n)
    BY <1>2, <1>5
  <2> QED BY <1>0, <2>1, ImageInOrder
<1> QED BY <1>0, <1>3, <1>4, <1>5, PersistentStep

LEMMA StepRows ==
  ASSUME LoadedInvariant, [PersistentNext]_<<vars, storeVars>>
  PROVE  RowsInOrder'
<1>0. /\ StoreInvariant /\ RowsInOrder /\ StoreInvariant'
      /\ \A t \in Thread : ~Idle(t) => upserts[t].node \in Node /\ HasImage(upserts[t].node)
  BY StoreStep DEF LoadedInvariant, ThisLife, StoreInvariant, PersistentTypeOK, ImagesExist,
                   Idle, Upsert
<1>1. ASSUME NEW n \in Node, Recorded(n)', NEW d \in (rows[n].destinations)'
      PROVE  n \in SourcesOf(d)
  BY <1>0, <1>1, RowChanges DEF RowsInOrder, Recorded
<1>2. \A n \in Node \ nodes : (rows[n].destinations)' = rows[n].destinations
  BY RowChanges
<1>3. ASSUME NEW t \in Thread, ~Idle(t)'
      PROVE  /\ \A d \in (upserts[t].row.destinations)' : (upserts[t].node)' \in SourcesOf(d)
             /\ (upserts[t].node \in nodes)'
                  \/ (upserts[t].row.destinations)' = (rows[upserts[t].node].destinations)'
  <2>1. CASE upserts'[t] = upserts[t]
    <3>1. ~Idle(t) /\ ~\E killed \in SUBSET Worker : Restart(killed)
      BY <1>3, <2>1 DEF Idle, Restart
    <3>2. nodes \subseteq nodes'
      <4>1. [Next]_vars => nodes \subseteq nodes'
        BY <1>0, StepNoticed DEF StoreInvariant, PersistentTypeOK
      <4>2. ASSUME NEW u \in Thread, EndUpsert(u) PROVE nodes' = nodes
        BY <4>2 DEF EndUpsert, vars, instanceVars
      <4>3. ASSUME NEW n \in Node, LoadNode(n) PROVE nodes' = nodes
        BY <4>3 DEF LoadNode, instanceVars
      <4> QED BY <1>0, <3>1, <4>1, <4>2, <4>3, PersistentStep
    <3> QED BY <1>0, <1>2, <2>1, <3>1, <3>2 DEF RowsInOrder
  <2>2. CASE upserts'[t] # upserts[t]
    <3>1. PICK n \in Node : /\ HasImage(n)
                            /\ upserts'[t].node = n /\ upserts'[t].row = Image(n)
                            /\ UNCHANGED nodes
      BY <1>0, <1>3, <2>2, UpsertsBegin
    <3> QED BY <1>2, <3>1, ImageInOrder
  <2> QED BY <2>1, <2>2
<1> QED BY <1>1, <1>3 DEF RowsInOrder

\* Once the database is loaded, no node is added to those that are to be loaded.
LEMMA StepLoadable ==
  ASSUME LoadedInvariant, [PersistentNext]_<<vars, storeVars>>, nodes \subseteq nodes',
         NEW n \in (Loadable \ nodes)'
  PROVE  n \in Loadable \ nodes
<1>0. OfThisLife /\ RowsInOrder /\ rows \in [Node -> Row \cup {Nil}]
  BY DEF LoadedInvariant, ThisLife, StoreInvariant, PersistentTypeOK
<1>1. n \in Node /\ n \notin nodes /\ Recorded(n)'
  BY DEF Loadable
<1>2. Recorded(n) /\ rows'[n].destinations = rows[n].destinations
  BY <1>1, RowChanges DEF Recorded
<1>3. ASSUME NEW m \in SourcesOf(n) \cup rows[n].destinations, ~Recorded(m)
      PROVE  FALSE
  <2>1. m \in SourcesOf(n) \/ n \in SourcesOf(m)
    BY <1>0, <1>1, <1>2 DEF RowsInOrder
  <2>2. CASE m \in Node
    <3>1. Recorded(m)'
      BY <1>2 DEF Loadable
    <3>2. m \in nodes
      BY <1>3, <2>2, <3>1, RowChanges DEF Recorded
    <3>3. InstanceOf[m] = InstanceOf[n]
      BY <1>1, <2>1, <2>2, NodeAssumption
    <3> QED BY <1>0, <1>1, <1>2, <3>2, <3>3 DEF OfThisLife, Hollow
  <2>3. m \in Node
    BY <1>0, <1>1, <1>2, <1>3 DEF SourcesOf, Recorded, Row
  <2> QED BY <2>2, <2>3
<1> QED BY <1>1, <1>2, <1>3 DEF Loadable

\* A loaded node comes off a list only to be queued, and out of a queue only to be
\* put on a list.
LEMMA StepLoadedKept ==
  ASSUME LoadedInvariant, ClaimsCurrent, CollectedAtRest, LoadedKept,
         [PersistentNext]_<<vars, storeVars>>
  PROVE  LoadedKept'
<1>0. StoreInvariant /\ OfThisLife /\ CollectsOne /\ TypeOK
  BY DEF LoadedInvariant, ThisLife, StoreInvariant, PersistentTypeOK
<1> DEFINE Kept(n) == n \in loading \/ Queued(n) \/ OnList(n)
<1>1. ASSUME nodes \subseteq nodes', \A n \in Node \ nodes : Kept(n) => Kept(n)'
      PROVE  LoadedKept'
  BY <1>1, StepLoadable DEF LoadedKept, Loadable
<1>2. CASE [Next]_vars /\ UNCHANGED loading
  <2>1. nodes \subseteq nodes'
    BY <1>0, <1>2, StepNoticed
  <2>2. ASSUME NEW n \in Node \ nodes, OnList(n) PROVE Kept(n)'
    <3>1. ~\E w \in Worker : ReleaseWorkerLock(w) /\ current[w] = n
      BY <1>0, <2>2 DEF ReleaseWorkerLock, OfThisLife, Calling
    <3> QED BY <1>0, <1>2, <2>2, <3>1, StepOnList
  <2>3. ASSUME NEW n \in Node \ nodes, Queued(n) PROVE Kept(n)'
    BY <1>0, <1>2, <2>3, StepTraces, PopsOnList
  <2> QED BY <1>1, <1>2, <2>1, <2>2, <2>3
<1>3. ASSUME NEW t \in Thread, EndUpsert(t) PROVE LoadedKept'
  <2>1. UNCHANGED <<nodes, loading, taskQueue, futureScheduled, toTask, toFuture,
                    claimedWork, collecting, collected>>
    BY <1>3 DEF EndUpsert, vars, instanceVars, queueVars, workerVars, enqueueVars, loopVars
  <2> QED BY <1>1, <2>1 DEF Queued, OnList
<1>4. ASSUME NEW m \in Node, LoadNode(m) PROVE LoadedKept'
  <2>1. /\ UNCHANGED <<nodes, futureScheduled, toTask, toFuture, claimedWork, collecting,
                       collected>>
        /\ loading' = loading \ {m}
        /\ taskQueue' = [taskQueue EXCEPT ![m] = @ + 1]
    BY <1>4 DEF LoadNode, instanceVars, workerVars, enqueueVars, loopVars
  <2>2. \A n \in Node : /\ n # m => taskQueue'[n] = taskQueue[n]
                        /\ n = m => taskQueue'[n] > 0
    BY <1>0, <2>1 DEF TypeOK
  <2>3. \A n \in Node : Kept(n) => Kept(n)'
    BY <2>1, <2>2 DEF Queued, OnList
  <2> QED BY <1>1, <2>1, <2>3
<1>5. ASSUME NEW killed, Restart(killed) PROVE LoadedKept'
  BY <1>5 DEF Restart, LoadedKept, Loadable, Recorded
<1> QED BY <1>0, <1>2, <1>3, <1>4, <1>5, PersistentStep

LEMMA StepLoadedInvariant ==
  LoadedInvariant /\ [PersistentNext]_<<vars, storeVars>> => LoadedInvariant'
<1> SUFFICES ASSUME LoadedInvariant, [PersistentNext]_<<vars, storeVars>>
             PROVE  LoadedInvariant'
  OBVIOUS
<1>0. StoreInvariant /\ CollectsOne /\ TypeOK
  BY DEF LoadedInvariant, ThisLife, StoreInvariant, PersistentTypeOK
<1>1. CollectsOne'
  <2>1. ASSUME NEW t \in Thread, EndUpsert(t) PROVE CollectsOne'
    BY <1>0, <2>1 DEF EndUpsert, vars, loopVars, CollectsOne, NoNodes
  <2>2. ASSUME NEW n \in Node, LoadNode(n) PROVE CollectsOne'
    BY <1>0, <2>2 DEF LoadNode, loopVars, CollectsOne, NoNodes
  <2>3. ASSUME NEW killed, Restart(killed) PROVE CollectsOne'
    BY <2>3 DEF Restart, FreshMemory, CollectsOne, NoNodes
  <2> QED BY <1>0, <2>1, <2>2, <2>3, StepCollectsOne, PersistentStep
<1> QED BY <1>1, StepRows, LifeStep DEF LoadedInvariant

\* Whatever the graph and however often the broker is restarted, a node that was
\* loaded stays queued or claimed as long as no update of claimedWork is lost.
THEOREM LoadedNodesAreKept ==
  PersistentSpec /\ []ClaimsCurrent /\ []CollectedAtRest => []LoadedNotLost
<1>1. PersistentInit => LoadedInvariant /\ LoadedKept
  <2> SUFFICES ASSUME PersistentInit PROVE LoadedInvariant /\ LoadedKept
    OBVIOUS
  <2>1. \A n \in Node : ~Recorded(n)
    BY DEF PersistentInit, Recorded
  <2>2. \A t \in Thread : Idle(t)
    BY DEF PersistentInit, Idle
  <2>3. CollectsOne
    BY DEF PersistentInit, Init, CollectsOne
  <2> QED
    BY LifeInit, <2>1, <2>2, <2>3 DEF LoadedInvariant, LoadedKept, RowsInOrder, Loadable
<1>2. LoadedKept => LoadedNotLost
  BY DEF LoadedKept, LoadedNotLost, OnList, Claimed
<1>3. LoadedKept /\ LoadedInvariant /\ ClaimsCurrent /\ CollectedAtRest
        /\ [PersistentNext]_<<vars, storeVars>> => LoadedKept'
  BY StepLoadedKept
<1> QED
  BY <1>1, <1>2, <1>3, StepLoadedInvariant, PTL DEF PersistentSpec

=============================================================================
