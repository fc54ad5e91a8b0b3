--------------------------- MODULE BrokerProofs ---------------------------
(***************************************************************************)
(* Theorems about the broker, for all values of its constants.             *)
(***************************************************************************)
EXTENDS BrokerProperties, FiniteSetTheorems, TLAPS

\* The empty bag of nodes.
LEMMA NoNodesType == NoNodes \in [Node -> Nat]
BY DEF NoNodes

\* The initial state is of the right type.
LEMMA InitType == Init => TypeOK
<1> SUFFICES ASSUME Init PROVE TypeOK
  OBVIOUS
<1> USE DEF Init
<1>1. instances \subseteq Instance /\ IsFiniteSet(instances)
  BY FS_EmptySet
<1>2. /\ nextRetryAvailable \in [Node -> Due]
      /\ futureScheduled \in [Node -> [Due -> Nat]]
  BY HorizonAssumption DEF Due
<1>3. /\ claimedWork \in [Worker -> [Node -> Nat]]
      /\ release \in [Worker -> Release]
      /\ notify \in [Worker -> [Node -> Nat]]
  BY NoNodesType DEF Release, NoRelease
<1>4. /\ pc \in [Worker -> PC]
      /\ \A w \in Worker : pc[w] \notin Working
  BY DEF PC, Working
<1> QED
  BY <1>1, <1>2, <1>3, <1>4, NoNodesType DEF TypeOK

\* Whatever DependencyDidResolve decides, a thread has at most a node to push.
LEMMA DependencyDidResolveType ==
  ASSUME TypeOK, NEW t \in Thread, NEW n \in Node, DependencyDidResolve(t, n)
  PROVE  /\ toTask' \in [Thread -> Node \cup {Nil}]
         /\ toFuture' \in [Thread -> Node \cup {Nil}]
<1>1. CASE EnqueueNode(t, n)
  BY <1>1 DEF EnqueueNode, TypeOK
<1>2. CASE UNCHANGED enqueueVars
  BY <1>2 DEF enqueueVars, TypeOK
<1> QED
  BY <1>1, <1>2 DEF DependencyDidResolve

\* Every step preserves the types.
LEMMA StepType == TypeOK /\ [Next]_vars => TypeOK'
<1> SUFFICES ASSUME TypeOK, [Next]_vars PROVE TypeOK'
  OBVIOUS
<1> USE NoNodesType
<1> USE DEF TypeOK, vars, instanceVars, nodeVars, queueVars, workerVars,
            handlerVars, enqueueVars, loopVars
<1>1. ASSUME NEW w \in Worker, ClientStep(w) PROVE TypeOK'
  <2>1. CASE NewWorker(w) BY <2>1 DEF NewWorker, PC, Working
  <2>2. CASE Ping(w) BY <2>2 DEF Ping
  <2>3. CASE MissPing(w) BY <2>3 DEF MissPing
  <2>4. CASE Crash(w) BY <2>4 DEF Crash, PC, Working
  <2>5. CASE GetWork(w) BY <2>5 DEF GetWork, Refuse, PC, Working
  <2>6. CASE SubmitWork(w) BY <2>6 DEF SubmitWork, Refuse, PC, Working
  <2>7. CASE SubmitFailure(w) BY <2>7 DEF SubmitFailure, Refuse, PC, Working
  <2> QED BY <1>1, <2>1, <2>2, <2>3, <2>4, <2>5, <2>6, <2>7 DEF ClientStep
<1>2. ASSUME NEW w \in Worker, HandlerStep(w) PROVE TypeOK'
  <2>1. CASE PopNextNode(w)
    <3>1. allowedQueues' \in [Worker -> SUBSET QueueName]
      BY <2>1 DEF PopNextNode, GetAllowedQueues, FreshAllowedQueues
    <3>2. CASE /\ pc' = [pc EXCEPT ![w] = "idle"]
               /\ UNCHANGED <<taskQueue, dequeueWorker, claimedWork, current>>
      BY <2>1, <3>1, <3>2 DEF PopNextNode, PC, Working
    <3>3. ASSUME NEW n \in TopNodes(GetAllowedQueues(w)),
                 taskQueue' = [taskQueue EXCEPT ![n] = @ - 1],
                 dequeueWorker' = [dequeueWorker EXCEPT ![n] = w],
                 claimedWork' = Claim(w, n),
                 pc' = [pc EXCEPT ![w] = "executing"],
                 current' = [current EXCEPT ![w] = n]
          PROVE TypeOK'
      <4>1. n \in Node /\ taskQueue[n] > 0
        BY <3>3 DEF TopNodes, Waiting
      <4>2. taskQueue' \in [Node -> Nat]
        BY <3>3, <4>1
      <4>3. claimedWork' \in [Worker -> [Node -> Nat]]
        BY <3>3, <4>1 DEF Claim
      <4> QED BY <2>1, <3>1, <3>3, <4>1, <4>2, <4>3 DEF PopNextNode, PC, Working
    <3> QED BY <2>1, <3>2, <3>3 DEF PopNextNode
  <2>2. CASE Complete(w) BY <2>2 DEF Complete, PC, Working
  <2>3. CASE ReadOwner(w) \/ ReadClaims(w)
    <3>1. /\ current[w] \in Node
          /\ release[w].owner \in Worker \cup {Nil}
          /\ pc[w] \in {"locking", "lockingFailed"} => release[w].owner \in Worker
      BY <2>3 DEF ReadOwner, ReadClaims, Release, PC, Working
    <3>2. CASE ReadOwner(w)
      <4> DEFINE owner == dequeueWorker[current[w]]
      <4>1. /\ owner \in Worker \cup {Nil}
            /\ release' = [release EXCEPT ![w].owner = owner]
            /\ \E next \in {"locking", "lockingFailed", "clearing", "clearingFailed"} :
                 /\ pc' = [pc EXCEPT ![w] = next]
                 /\ next \in {"locking", "lockingFailed"} => owner # Nil
        BY <3>1, <3>2 DEF ReadOwner
      <4> HIDE DEF owner
      <4>2. release' \in [Worker -> Release]
        <5>1. release[w] \in Release /\ owner \in Worker \cup {Nil}
          BY <4>1
        <5>2. [release[w] EXCEPT !.owner = owner] \in Release
          BY <5>1 DEF Release
        <5> QED BY <4>1, <5>2
      <4>3. \A v \in Worker :
              pc'[v] \in {"locking", "lockingFailed"} => release'[v].owner # Nil
        BY <4>1 DEF Release
      <4>4. /\ pc' \in [Worker -> PC]
            /\ \A v \in Worker : pc'[v] \in Working => current[v] \in Node
        BY <3>1, <4>1 DEF PC, Working
      <4> QED BY <3>2, <4>2, <4>3, <4>4 DEF ReadOwner
    <3>3. CASE ReadClaims(w)
      <4>1. ClaimsWithout(release[w].owner, current[w]) \in [Node -> Nat]
        BY <3>1, <3>3 DEF ReadClaims, ClaimsWithout
      <4>2. release' \in [Worker -> Release]
        <5> DEFINE claims == ClaimsWithout(release[w].owner, current[w])
        <5>1. release' = [release EXCEPT ![w].claims = claims] /\ claims \in [Node -> Nat]
          BY <3>3, <4>1 DEF ReadClaims
        <5> HIDE DEF claims
        <5>2. [release[w] EXCEPT !.claims = claims] \in Release
          BY <5>1 DEF Release
        <5> QED BY <5>1, <5>2
      <4>3. \A v \in Worker :
              pc'[v] \in {"locking", "lockingFailed"} => release'[v].owner # Nil
        BY <3>3 DEF ReadClaims, Release
      <4>4. /\ pc' \in [Worker -> PC]
            /\ \A v \in Worker : pc'[v] \in Working => current[v] \in Node
        BY <3>1, <3>3 DEF ReadClaims, PC, Working
      <4> QED BY <3>3, <4>2, <4>3, <4>4 DEF ReadClaims
    <3> QED BY <2>3, <3>2, <3>3
  <2>4. CASE ReleaseWorkerLock(w) BY <2>4 DEF ReleaseWorkerLock, Release, NoRelease, PC, Working
  <2>5. CASE ReadDestinations(w)
    <3>1. current[w] \in Node
      BY <2>5 DEF ReadDestinations, PC, Working
    <3>2. Destinations(current[w]) \in [Node -> Nat]
      BY <3>1, NodeAssumption DEF Destinations
    <3> QED BY <2>5, <3>2 DEF ReadDestinations, PC, Working
  <2>6. ASSUME NEW d \in Node, Notify(w, d) PROVE TypeOK'
    <3>1. notify' \in [Worker -> [Node -> Nat]]
      BY <2>6 DEF Notify
    <3>2. /\ toTask' \in [Thread -> Node \cup {Nil}]
          /\ toFuture' \in [Thread -> Node \cup {Nil}]
      BY <2>6, DependencyDidResolveType DEF Notify, Thread
    <3> QED BY <2>6, <3>1, <3>2 DEF Notify
  <2>7. CASE Resolved(w) BY <2>7 DEF Resolved, PC, Working
  <2>8. CASE BackoffNode(w)
    <3>1. current[w] \in Node
      BY <2>8 DEF BackoffNode, PC, Working
    <3>2. failures' \in [Node -> Nat] /\ currentAttempt' \in [Node -> Nat]
      BY <2>8, <3>1 DEF BackoffNode, NextAttempt
    <3>3. nextRetryAvailable' \in [Node -> Due]
      BY <2>8, <3>1 DEF BackoffNode
    <3>4. /\ pc' \in [Worker -> PC]
          /\ current' \in [Worker -> Node \cup {Nil}]
          /\ \A v \in Worker : pc'[v] \in Working => current'[v] \in Node
      <4>1. CASE pc' = [pc EXCEPT ![w] = "idle"] /\ current' = [current EXCEPT ![w] = Nil]
        BY <4>1 DEF PC, Working
      <4>2. CASE pc' = [pc EXCEPT ![w] = "requeue"] /\ UNCHANGED current
        BY <3>1, <4>2 DEF PC, Working
      <4> QED BY <2>8, <4>1, <4>2 DEF BackoffNode
    <3> QED BY <2>8, <3>2, <3>3, <3>4 DEF BackoffNode
  <2>9. CASE Requeue(w) BY <2>9 DEF Requeue, EnqueueNode, Thread, PC, Working
  <2> QED
    BY <1>2, <2>1, <2>2, <2>3, <2>4, <2>5, <2>6, <2>7, <2>8, <2>9 DEF HandlerStep
<1>3. ASSUME NEW i \in Instance, CreateStep(i) PROVE TypeOK'
  <2>1. CASE CreateInstance(i)
    <3>1. /\ IsFiniteSet(instances \cup {i})
          /\ Cardinality(instances) \in Nat
      BY FS_AddElement, FS_CardinalityType
    <3> QED BY <2>1, <3>1 DEF CreateInstance
  <2>2. ASSUME NEW n \in Node, InstanceOf[n] = i, NewNode(n) PROVE TypeOK'
    BY <2>2, NodeAssumption DEF NewNode
  <2>3. CASE ResolveNewNode(i)
    <3>1. creating[i] \in Node
      BY <2>3 DEF ResolveNewNode
    <3>2. /\ toTask' \in [Thread -> Node \cup {Nil}]
          /\ toFuture' \in [Thread -> Node \cup {Nil}]
      BY <2>3, <3>1, DependencyDidResolveType DEF ResolveNewNode, Thread
    <3> QED BY <2>3, <3>2 DEF ResolveNewNode
  <2> QED BY <1>3, <2>1, <2>2, <2>3 DEF CreateStep
<1>4. ASSUME NEW t \in Thread, PushTask(t) PROVE TypeOK'
  <2>1. toTask[t] \in Node
    BY <1>4 DEF PushTask
  <2>2. queueTaint' \in [QueueName -> TaintName \cup {NoTaint, Nil}]
    BY <1>4, <2>1, NodeAssumption DEF PushTask, QueueTaintsWith
  <2>3. allowedQueues' \in [Worker -> SUBSET QueueName]
    BY <1>4 DEF PushTask, CachesWith
  <2>4. nextRetryAvailable' \in [Node -> Due]
    BY <1>4, HorizonAssumption DEF PushTask, Due
  <2> QED BY <1>4, <2>2, <2>3, <2>4 DEF PushTask
<1>5. ASSUME NEW t \in Thread, PushFuture(t) PROVE TypeOK'
  BY <1>5 DEF PushFuture
<1>6. CASE CollectStep
  <2>1. ASSUME NEW w \in Worker, CollectWorker(w) PROVE TypeOK'
    BY <2>1 DEF CollectWorker
  <2>2. ASSUME NEW n \in Node, FreeNode(n) PROVE TypeOK'
    BY <2>2 DEF FreeNode, EnqueueNode, Thread
  <2>3. CASE InvalidateWorker BY <2>3 DEF InvalidateWorker
  <2> QED BY <1>6, <2>1, <2>2, <2>3 DEF CollectStep
<1>7. CASE SchedulerStep
  <2>1. CASE LockFuture BY <2>1 DEF LockFuture
  <2>2. ASSUME NEW n \in Node, NEW t \in Due, PopDue(n, t) PROVE TypeOK'
    BY <2>2 DEF PopDue, EnqueueNode, Thread, FutureEntries
  <2>3. CASE UnlockFuture BY <2>3 DEF UnlockFuture
  <2> QED BY <1>7, <2>1, <2>2, <2>3 DEF SchedulerStep
<1>8. CASE Tick BY <1>8 DEF Tick
<1>9. CASE UNCHANGED vars BY <1>9
<1> QED BY <1>1, <1>2, <1>3, <1>4, <1>5, <1>6, <1>7, <1>8, <1>9 DEF Next

\* Every reachable state is of the right type.
THEOREM TypeCorrect == Spec => []TypeOK
BY InitType, StepType, PTL DEF Spec

-----------------------------------------------------------------------------
(***************************************************************************)
(* Dependencies are realized before a node is executed.  What makes this   *)
(* inductive is that every trace of a node, in a queue, in the work of a   *)
(* worker or in a handler, stems from an older trace of it or from a check *)
(* of its dependencies, and that no node is ever incomplete again.         *)
(***************************************************************************)
Held(n) == \E w \in Worker : current[w] = n /\ pc[w] \in Working

Handled(n) ==
  \/ Queued(n)
  \/ Claimed(n)
  \/ Held(n)
  \/ \E w \in Worker : release[w].claims[n] > 0

HandledRealized == \A n \in Node : Handled(n) => Realized(n)

\* A call in progress is about to look at the node's dependencies.
Noticed(n) ==
  \/ \E i \in Instance : creating[i] = n
  \/ \E w \in Worker : notify[w][n] > 0

\* The node a thread gets to push is the one it enqueues, and it enqueues a node
\* it was notified about only if the dependencies are complete.
LEMMA EnqueueTraces ==
  ASSUME TypeOK, NEW t \in Thread, NEW n \in Node, EnqueueNode(t, n),
         NEW m \in Node, NEW u \in Thread, m \in {toTask'[u], toFuture'[u]}
  PROVE  m = n \/ m \in {toTask[u], toFuture[u]}
BY DEF EnqueueNode, TypeOK

\* DependencyDidResolve leaves at most the traces of EnqueueNode, and those only
\* for a node whose dependencies are complete.
LEMMA ResolveTraces ==
  ASSUME TypeOK, NEW t \in Thread, NEW n \in Node, DependencyDidResolve(t, n),
         NEW m \in Node, NEW u \in Thread, m \in {toTask'[u], toFuture'[u]}
  PROVE  (m = n /\ Realized(m)) \/ m \in {toTask[u], toFuture[u]}
<1>1. CASE DependenciesComplete(n) /\ EnqueueNode(t, n)
  BY <1>1, EnqueueTraces DEF DependenciesComplete, Realized
<1>2. CASE UNCHANGED enqueueVars
  BY <1>2 DEF enqueueVars
<1> QED
  BY <1>1, <1>2 DEF DependencyDidResolve

\* A step leaves a trace only of nodes that had one, or that were looked at and have
\* their dependencies complete, and it completes nodes for good.
LEMMA StepHandled ==
  ASSUME TypeOK, [Next]_vars
  PROVE  /\ completed \subseteq completed'
         /\ \A n \in Node : Handled(n)' => Handled(n) \/ (Noticed(n) /\ Realized(n))
<1> DEFINE Goal == /\ completed \subseteq completed'
                   /\ \A n \in Node :
                        Handled(n)' => Handled(n) \/ (Noticed(n) /\ Realized(n))
<1>0. /\ pc \in [Worker -> PC]
      /\ current \in [Worker -> Node \cup {Nil}]
  BY DEF TypeOK
<1> USE DEF Handled, Queued, Claimed, Held
<1> USE DEF vars, instanceVars, nodeVars, queueVars, workerVars, handlerVars,
            loopVars
<1>1. ASSUME NEW w \in Worker, ClientStep(w) PROVE Goal
  <2>1. CASE NewWorker(w) BY <1>0, <2>1 DEF NewWorker, enqueueVars, PC, Working
  <2>2. CASE Ping(w) BY <2>2 DEF Ping, enqueueVars
  <2>3. CASE MissPing(w) BY <2>3 DEF MissPing, enqueueVars
  <2>4. CASE Crash(w) BY <1>0, <2>4 DEF Crash, enqueueVars, PC, Working
  <2>5. CASE GetWork(w) BY <1>0, <2>5 DEF GetWork, Refuse, enqueueVars, PC, Working
  <2>6. CASE SubmitWork(w)
    BY <1>0, <2>6 DEF SubmitWork, Refuse, enqueueVars, PC, Working
  <2>7. CASE SubmitFailure(w)
    BY <1>0, <2>7 DEF SubmitFailure, Refuse, enqueueVars, PC, Working
  <2> QED BY <1>1, <2>1, <2>2, <2>3, <2>4, <2>5, <2>6, <2>7 DEF ClientStep
<1>2. ASSUME NEW w \in Worker, HandlerStep(w) PROVE Goal
  <2>1. CASE PopNextNode(w)
    <3>1. CASE /\ pc' = [pc EXCEPT ![w] = "idle"]
               /\ UNCHANGED <<taskQueue, dequeueWorker, claimedWork, current>>
      BY <1>0, <2>1, <3>1 DEF PopNextNode, enqueueVars, PC, Working
    <3>2. ASSUME NEW n \in TopNodes(GetAllowedQueues(w)),
                 taskQueue' = [taskQueue EXCEPT ![n] = @ - 1],
                 claimedWork' = Claim(w, n),
                 pc' = [pc EXCEPT ![w] = "executing"],
                 current' = [current EXCEPT ![w] = n]
          PROVE  Goal
      <4>1. n \in Node /\ taskQueue[n] > 0
        BY <3>2 DEF TopNodes, Waiting
      <4>2. \A m \in Node : taskQueue'[m] > 0 => taskQueue[m] > 0
        BY <3>2, <4>1 DEF TypeOK
      <4>3. \A m \in Node, x \in Worker :
              claimedWork'[x][m] > 0 => claimedWork[x][m] > 0 \/ m = n
        BY <3>2, <4>1 DEF Claim, TypeOK
      <4>4. \A m \in Node : Held(m)' => Held(m) \/ m = n
        BY <3>2, <4>1 DEF TypeOK, PC, Working
      <4>5. UNCHANGED <<completed, futureScheduled, toTask, toFuture, collected,
                        release>>
        BY <2>1 DEF PopNextNode, enqueueVars
      <4> QED BY <4>1, <4>2, <4>3, <4>4, <4>5
    <3> QED BY <2>1, <3>1, <3>2 DEF PopNextNode
  <2>2. CASE Complete(w) BY <1>0, <2>2 DEF Complete, enqueueVars, PC, Working
  <2>3. CASE ReadOwner(w) \/ ReadClaims(w)
    <3>1. /\ release \in [Worker -> Release]
          /\ pc[w] \in {"locking", "lockingFailed"} => release[w].owner \in Worker
          /\ claimedWork \in [Worker -> [Node -> Nat]]
      BY DEF TypeOK, Release
    <3>2. \A m \in Node, x \in Worker :
            release'[x].claims[m] > 0 => Claimed(m) \/ release[x].claims[m] > 0
      <4>1. CASE ReadOwner(w)
        BY <3>1, <4>1 DEF ReadOwner, Release
      <4>2. CASE ReadClaims(w)
        <5>1. \A x \in Worker \ {w} : release'[x].claims = release[x].claims
          BY <3>1, <4>2 DEF ReadClaims
        <5>2. release'[w].claims = ClaimsWithout(release[w].owner, current[w])
          BY <3>1, <4>2 DEF ReadClaims, Release
        <5>3. \A m \in Node : release'[w].claims[m] > 0 => Claimed(m)
          BY <3>1, <4>2, <5>2 DEF ReadClaims, ClaimsWithout, Claimed
        <5> QED BY <5>1, <5>3
      <4> QED BY <2>3, <4>1, <4>2
    <3>3. \A m \in Node : Held(m)' => Held(m)
      BY <1>0, <2>3 DEF ReadOwner, ReadClaims, PC, Working
    <3>4. UNCHANGED <<completed, taskQueue, futureScheduled, toTask, toFuture,
                      claimedWork, collected>>
      BY <2>3 DEF ReadOwner, ReadClaims, enqueueVars
    <3> QED BY <3>2, <3>3, <3>4
  <2>4. CASE ReleaseWorkerLock(w)
    <3>1. \A m \in Node, x \in Worker :
            claimedWork'[x][m] > 0 =>
              claimedWork[x][m] > 0 \/ release[w].claims[m] > 0
      BY <2>4 DEF ReleaseWorkerLock, TypeOK
    <3>2. \A m \in Node, x \in Worker :
            release'[x].claims[m] > 0 => release[x].claims[m] > 0
      BY <2>4 DEF ReleaseWorkerLock, NoRelease, NoNodes, TypeOK
    <3>3. \A m \in Node : Held(m)' => Held(m)
      BY <1>0, <2>4 DEF ReleaseWorkerLock, PC, Working
    <3>4. UNCHANGED <<completed, taskQueue, futureScheduled, toTask, toFuture,
                      collected>>
      BY <2>4 DEF ReleaseWorkerLock, enqueueVars
    <3> QED BY <3>1, <3>2, <3>3, <3>4
  <2>5. CASE ReadDestinations(w)
    BY <1>0, <2>5 DEF ReadDestinations, enqueueVars, PC, Working
  <2>6. ASSUME NEW d \in Node, Notify(w, d) PROVE Goal
    <3>1. Noticed(d)
      BY <2>6 DEF Notify, Noticed
    <3>2. \A m \in Node, u \in Thread :
            m \in {toTask'[u], toFuture'[u]} =>
              (m = d /\ Realized(m)) \/ m \in {toTask[u], toFuture[u]}
      BY <2>6, ResolveTraces DEF Notify, Thread
    <3>3. UNCHANGED <<completed, taskQueue, futureScheduled, claimedWork, collected,
                      pc, current, release>>
      BY <2>6 DEF Notify
    <3> QED BY <3>1, <3>2, <3>3
  <2>7. CASE Resolved(w) BY <1>0, <2>7 DEF Resolved, enqueueVars, PC, Working
  <2>8. CASE BackoffNode(w)
    <3>1. \A m \in Node : Held(m)' => Held(m)
      BY <1>0, <2>8 DEF BackoffNode, PC, Working
    <3>2. UNCHANGED <<completed, taskQueue, futureScheduled, toTask, toFuture,
                      claimedWork, collected, release>>
      BY <2>8 DEF BackoffNode, enqueueVars
    <3> QED BY <3>1, <3>2
  <2>9. CASE Requeue(w)
    <3>1. current[w] \in Node /\ Held(current[w])
      BY <1>0, <2>9 DEF Requeue, TypeOK, PC, Working
    <3>2. \A m \in Node : Held(m)' => Held(m)
      BY <1>0, <2>9 DEF Requeue, PC, Working
    <3>3. \A m \in Node, u \in Thread :
            m \in {toTask'[u], toFuture'[u]} =>
              m = current[w] \/ m \in {toTask[u], toFuture[u]}
      BY <2>9, <3>1, EnqueueTraces DEF Requeue, Thread
    <3>4. UNCHANGED <<completed, taskQueue, futureScheduled, claimedWork, collected,
                      release>>
      BY <2>9 DEF Requeue
    <3> QED BY <3>1, <3>2, <3>3, <3>4
  <2> QED
    BY <1>2, <2>1, <2>2, <2>3, <2>4, <2>5, <2>6, <2>7, <2>8, <2>9 DEF HandlerStep
<1>3. ASSUME NEW i \in Instance, CreateStep(i) PROVE Goal
  <2>1. CASE CreateInstance(i) BY <2>1 DEF CreateInstance, enqueueVars
  <2>2. ASSUME NEW n \in Node, NewNode(n) PROVE Goal
    BY <2>2 DEF NewNode, enqueueVars
  <2>3. CASE ResolveNewNode(i)
    <3>1. creating[i] \in Node /\ Noticed(creating[i])
      BY <2>3 DEF ResolveNewNode, TypeOK, Noticed
    <3>2. \A m \in Node, u \in Thread :
            m \in {toTask'[u], toFuture'[u]} =>
              (m = creating[i] /\ Realized(m)) \/ m \in {toTask[u], toFuture[u]}
      BY <2>3, <3>1, ResolveTraces DEF ResolveNewNode, Thread
    <3>3. UNCHANGED <<completed, taskQueue, futureScheduled, claimedWork, collected,
                      pc, current, release>>
      BY <2>3 DEF ResolveNewNode
    <3> QED BY <3>1, <3>2, <3>3
  <2> QED BY <1>3, <2>1, <2>2, <2>3 DEF CreateStep
<1>4. ASSUME NEW t \in Thread, PushTask(t) PROVE Goal
  <2>1. toTask[t] \in Node
    BY <1>4 DEF PushTask, TypeOK
  <2>2. \A m \in Node : taskQueue'[m] > 0 => taskQueue[m] > 0 \/ m = toTask[t]
    BY <1>4 DEF PushTask, TypeOK
  <2>3. \A m \in Node, u \in Thread : m = toTask'[u] => m = toTask[u]
    BY <1>4, ThreadAssumption DEF PushTask, TypeOK
  <2>4. UNCHANGED <<completed, futureScheduled, toFuture, claimedWork, collected,
                    pc, current, release>>
    BY <1>4 DEF PushTask
  <2> QED BY <2>1, <2>2, <2>3, <2>4
<1>5. ASSUME NEW t \in Thread, PushFuture(t) PROVE Goal
  <2>1. toFuture[t] \in Node /\ nextRetryAvailable[toFuture[t]] \in Due
    BY <1>5 DEF PushFuture, TypeOK
  <2>2. \A m \in Node, due \in Due :
          futureScheduled'[m][due] > 0 => futureScheduled[m][due] > 0 \/ m = toFuture[t]
    BY <1>5, <2>1 DEF PushFuture, TypeOK
  <2>3. \A m \in Node, u \in Thread : m = toFuture'[u] => m = toFuture[u]
    BY <1>5, ThreadAssumption DEF PushFuture, TypeOK
  <2>4. UNCHANGED <<completed, taskQueue, toTask, claimedWork, collected,
                    pc, current, release>>
    BY <1>5 DEF PushFuture
  <2> QED BY <2>1, <2>2, <2>3, <2>4
<1>6. CASE CollectStep
  <2>1. ASSUME NEW w \in Worker, CollectWorker(w) PROVE Goal
    BY <2>1 DEF CollectWorker, enqueueVars
  <2>2. ASSUME NEW n \in Node, FreeNode(n) PROVE Goal
    <3>1. \A m \in Node : collected'[m] > 0 => collected[m] > 0
      BY <2>2 DEF FreeNode, TypeOK
    <3>2. \A m \in Node, u \in Thread :
            m \in {toTask'[u], toFuture'[u]} =>
              m = n \/ m \in {toTask[u], toFuture[u]}
      BY <2>2, EnqueueTraces DEF FreeNode, Thread
    <3>3. collected[n] > 0
      BY <2>2 DEF FreeNode
    <3>4. UNCHANGED <<completed, taskQueue, futureScheduled, claimedWork,
                      pc, current, release>>
      BY <2>2 DEF FreeNode
    <3> QED BY <3>1, <3>2, <3>3, <3>4
  <2>3. CASE InvalidateWorker
    BY <2>3 DEF InvalidateWorker, NoNodes, enqueueVars, TypeOK
  <2> QED BY <1>6, <2>1, <2>2, <2>3 DEF CollectStep
<1>7. CASE SchedulerStep
  <2>1. CASE LockFuture BY <2>1 DEF LockFuture, enqueueVars
  <2>2. ASSUME NEW n \in Node, NEW t \in Due, PopDue(n, t) PROVE Goal
    <3>1. futureScheduled[n][t] > 0
      BY <2>2 DEF PopDue, FutureEntries
    <3>2. \A m \in Node, due \in Due :
            futureScheduled'[m][due] > 0 => futureScheduled[m][due] > 0
      BY <2>2, <3>1 DEF PopDue, TypeOK
    <3>3. \A m \in Node, u \in Thread :
            m \in {toTask'[u], toFuture'[u]} =>
              m = n \/ m \in {toTask[u], toFuture[u]}
      BY <2>2, EnqueueTraces DEF PopDue, Thread
    <3>4. UNCHANGED <<completed, taskQueue, claimedWork, collected, pc, current,
                      release>>
      BY <2>2 DEF PopDue
    <3> QED BY <3>1, <3>2, <3>3, <3>4
  <2>3. CASE UnlockFuture BY <2>3 DEF UnlockFuture, enqueueVars
  <2> QED BY <1>7, <2>1, <2>2, <2>3 DEF SchedulerStep
<1>8. CASE Tick BY <1>8 DEF Tick, enqueueVars
<1>9. CASE UNCHANGED vars BY <1>9 DEF enqueueVars
<1> QED BY <1>1, <1>2, <1>3, <1>4, <1>5, <1>6, <1>7, <1>8, <1>9 DEF Next

\* Only nodes whose dependencies are complete are handled.
LEMMA HandledRealizedInvariant == Spec => [](TypeOK /\ HandledRealized)
<1>1. Init => HandledRealized
  <2> SUFFICES ASSUME Init, NEW n \in Node PROVE ~Handled(n)
    BY DEF HandledRealized
  <2>1. ~Queued(n)
    BY ThreadAssumption DEF Init, Queued, NoNodes
  <2>2. ~Claimed(n)
    BY DEF Init, Claimed, NoNodes
  <2>3. ~Held(n) /\ \A w \in Worker : ~(release[w].claims[n] > 0)
    BY DEF Init, Held, NoRelease, NoNodes, PC, Working
  <2> QED BY <2>1, <2>2, <2>3 DEF Handled
<1>2. TypeOK /\ HandledRealized /\ [Next]_vars => HandledRealized'
  BY StepHandled DEF HandledRealized, Realized
<1> QED
  BY InitType, StepType, <1>1, <1>2, PTL DEF Spec

\* A node is executed only when all its dependencies are completed.
THEOREM ExecutedWhenRealized == Spec => []DependenciesRealized
<1>1. HandledRealized => DependenciesRealized
  BY DEF HandledRealized, Handled, Held, DependenciesRealized, Executing,
         PC, Working
<1> QED
  BY HandledRealizedInvariant, <1>1, PTL

-----------------------------------------------------------------------------
(***************************************************************************)
(* The caches of allowed queues, and with them what PopNextNode returns.   *)
(* The fresh value depends on the queues that exist and their taints only; *)
(* both change in PushTask alone, which then clears every cache.           *)
(***************************************************************************)
\* Every step keeps the caches coherent.
LEMMA StepCache ==
  ASSUME TypeOK, CacheCoherent, [Next]_vars
  PROVE  CacheCoherent'
<1> USE DEF CacheCoherent, FreshAllowedQueues
<1>1. ASSUME UNCHANGED <<queueTaint, allowedQueues>> PROVE CacheCoherent'
  BY <1>1
<1>2. ASSUME NEW w \in Worker, PopNextNode(w) PROVE CacheCoherent'
  <2>1. allowedQueues \in [Worker -> SUBSET QueueName]
    BY DEF TypeOK
  <2> QED BY <1>2, <2>1 DEF PopNextNode, GetAllowedQueues
<1>3. ASSUME NEW t \in Thread, PushTask(t) PROVE CacheCoherent'
  <2>1. toTask[t] \in Node
    BY <1>3 DEF PushTask, TypeOK
  <2>2. CASE queueTaint[QueueOf[toTask[t]]] = Nil
    BY <1>3, <2>2 DEF PushTask, CachesWith
  <2>3. CASE queueTaint[QueueOf[toTask[t]]] # Nil
    <3>1. queueTaint' = queueTaint
      BY <1>3, <2>1, <2>3, NodeAssumption DEF PushTask, QueueTaintsWith, TypeOK
    <3>2. allowedQueues' = allowedQueues
      BY <1>3, <2>3 DEF PushTask, CachesWith
    <3> QED BY <1>1, <3>1, <3>2
  <2> QED BY <2>2, <2>3
<1>4. \/ UNCHANGED <<queueTaint, allowedQueues>>
      \/ \E w \in Worker : PopNextNode(w)
      \/ \E t \in Thread : PushTask(t)
  <2> USE DEF vars, queueVars, workerVars
  <2>1. ASSUME NEW w \in Worker, ClientStep(w)
        PROVE  UNCHANGED <<queueTaint, allowedQueues>>
    BY <2>1 DEF ClientStep, NewWorker, Ping, MissPing, Crash, GetWork, SubmitWork,
                SubmitFailure
  <2>2. ASSUME NEW w \in Worker, HandlerStep(w), ~PopNextNode(w)
        PROVE  UNCHANGED <<queueTaint, allowedQueues>>
    BY <2>2 DEF HandlerStep, Complete, ReadOwner, ReadClaims, ReleaseWorkerLock,
                ReadDestinations, Notify, Resolved, BackoffNode, Requeue
  <2>3. ASSUME NEW i \in Instance, CreateStep(i)
        PROVE  UNCHANGED <<queueTaint, allowedQueues>>
    BY <2>3 DEF CreateStep, CreateInstance, NewNode, ResolveNewNode
  <2>4. ASSUME NEW t \in Thread, PushFuture(t)
        PROVE  UNCHANGED <<queueTaint, allowedQueues>>
    BY <2>4 DEF PushFuture
  <2>5. CASE CollectStep
    BY <2>5 DEF CollectStep, CollectWorker, FreeNode, InvalidateWorker
  <2>6. CASE SchedulerStep
    BY <2>6 DEF SchedulerStep, LockFuture, PopDue, UnlockFuture
  <2>7. CASE Tick BY <2>7 DEF Tick
  <2>8. CASE UNCHANGED vars BY <2>8
  <2> QED BY <2>1, <2>2, <2>3, <2>4, <2>5, <2>6, <2>7, <2>8 DEF Next
<1> QED
  BY <1>1, <1>2, <1>3, <1>4

\* The caches are coherent in every reachable state.
LEMMA CacheInvariant == Spec => [](TypeOK /\ CacheCoherent)
<1>1. Init => CacheCoherent
  BY DEF Init, CacheCoherent
<1> QED
  BY InitType, StepType, StepCache, <1>1, PTL DEF Spec

\* No worker uses a cached list of queues that is out of date.
THEOREM CachesAreCoherent == Spec => []CacheCoherent
BY CacheInvariant, PTL

\* A worker that polls gets the first node it may pull; it gets nothing only when
\* there is none.
THEOREM PopsAreFirstAllowed == Spec => PopsFirstAllowed
<1> DEFINE Pullable(w) == {n \in Node : taskQueue[n] > 0 /\ MayPull(w, n)}
           PopsWell(w) ==
             \/ Pullable(w) = {} /\ pc'[w] = "idle"
             \/ /\ current'[w] \in Pullable(w)
                /\ \A m \in Pullable(w) :
                     order[InstanceOf[current'[w]]] <= order[InstanceOf[m]]
<1>1. ASSUME TypeOK, CacheCoherent, NEW w \in Worker, PopNextNode(w)
      PROVE  PopsWell(w)
  <2>1. GetAllowedQueues(w) = FreshAllowedQueues(w)
    BY <1>1 DEF GetAllowedQueues, CacheCoherent
  <2>2. \A n \in Node : MayPull(w, n) <=> QueueOf[n] \in FreshAllowedQueues(w)
    BY <1>1, NodeAssumption, WorkerAssumption, ThreadAssumption
    DEF MayPull, FreshAllowedQueues, TypeOK
  <2>3. Pullable(w) = Waiting(FreshAllowedQueues(w))
    BY <2>2 DEF Waiting
  <2>4. TopNodes(FreshAllowedQueues(w)) =
          {n \in Pullable(w) : \A m \in Pullable(w) : Priority(n) <= Priority(m)}
    BY <2>3 DEF TopNodes
  <2>5. CASE Waiting(FreshAllowedQueues(w)) = {} /\ pc' = [pc EXCEPT ![w] = "idle"]
    BY <2>3, <2>5, <1>1 DEF TypeOK
  <2>6. ASSUME NEW n \in TopNodes(FreshAllowedQueues(w)),
               current' = [current EXCEPT ![w] = n]
        PROVE  PopsWell(w)
    BY <2>4, <2>6, <1>1 DEF Priority, TypeOK
  <2> QED BY <1>1, <2>1, <2>5, <2>6 DEF PopNextNode
<1>2. ASSUME TypeOK, [Next]_vars,
             NEW w \in Worker, pc[w] = "popping", pc'[w] # "popping"
      PROVE  PopNextNode(w)
  <2> USE DEF vars, handlerVars, TypeOK
  <2>1. ASSUME NEW x \in Worker, ClientStep(x) PROVE FALSE
    BY <1>2, <2>1 DEF ClientStep, NewWorker, Ping, MissPing, Crash, GetWork,
                      SubmitWork, SubmitFailure, Refuse
  <2>2. ASSUME NEW x \in Worker, HandlerStep(x), ~PopNextNode(w) PROVE FALSE
    BY <1>2, <2>2 DEF HandlerStep, PopNextNode, Complete, ReadOwner, ReadClaims,
                      ReleaseWorkerLock, ReadDestinations, Notify, Resolved,
                      BackoffNode, Requeue
  <2>3. ASSUME NEW i \in Instance, CreateStep(i) PROVE FALSE
    BY <1>2, <2>3 DEF CreateStep, CreateInstance, NewNode, ResolveNewNode
  <2>4. ASSUME NEW t \in Thread, PushTask(t) \/ PushFuture(t) PROVE FALSE
    BY <1>2, <2>4 DEF PushTask, PushFuture
  <2>5. CASE CollectStep
    BY <1>2, <2>5 DEF CollectStep, CollectWorker, FreeNode, InvalidateWorker
  <2>6. CASE SchedulerStep
    BY <1>2, <2>6 DEF SchedulerStep, LockFuture, PopDue, UnlockFuture
  <2>7. CASE Tick BY <1>2, <2>7 DEF Tick
  <2> QED BY <1>2, <2>1, <2>2, <2>3, <2>4, <2>5, <2>6, <2>7 DEF Next
<1>3. TypeOK /\ CacheCoherent /\ [Next]_vars =>
        [\A w \in Worker :
           pc[w] = "popping" /\ pc'[w] \in {"idle", "executing"} => PopsWell(w)]_vars
  BY <1>1, <1>2
<1> QED
  BY CacheInvariant, <1>3, PTL DEF Spec, PopsFirstAllowed

-----------------------------------------------------------------------------
(***************************************************************************)
(* Taints.  A queue takes the taint of the first node pushed to it, and    *)
(* PopNextNode looks at the queue's.  That is as good as looking at the    *)
(* node's where all nodes of a queue ask for the same taint.               *)
(***************************************************************************)
OneTaintPerQueue ==
  \A m, n \in Node : QueueOf[m] = QueueOf[n] => TaintOf[m] = TaintOf[n]

TaintOfQueue ==
  /\ \A n \in Node : queueTaint[QueueOf[n]] \in {Nil, TaintOf[n]}
  /\ \A n \in Node : taskQueue[n] > 0 => queueTaint[QueueOf[n]] = TaintOf[n]

\* Every step preserves the taints of the queues and those of what is executed.
LEMMA StepTaint ==
  ASSUME OneTaintPerQueue, TypeOK, CacheCoherent, TaintOfQueue, TaintHonoured,
         [Next]_vars
  PROVE  TaintOfQueue' /\ TaintHonoured'
<1> DEFINE Goal == TaintOfQueue' /\ TaintHonoured'
<1> USE DEF vars, instanceVars, nodeVars, queueVars, workerVars, handlerVars, loopVars
<1>0. /\ pc \in [Worker -> PC]
      /\ current \in [Worker -> Node \cup {Nil}]
  BY DEF TypeOK
<1>1. ASSUME UNCHANGED <<queueTaint, taskQueue>>,
             \A w \in Worker : \A n \in Node : Executing(w, n)' => Executing(w, n)
      PROVE  Goal
  BY <1>1 DEF TaintOfQueue, TaintHonoured
<1>2. ASSUME NEW w \in Worker, ClientStep(w) PROVE Goal
  BY <1>0, <1>1, <1>2
  DEF Executing, ClientStep, NewWorker, Ping, MissPing, Crash, GetWork, SubmitWork,
      SubmitFailure, Refuse
<1>3. ASSUME NEW w \in Worker, PopNextNode(w) PROVE Goal
  <2>1. CASE /\ pc' = [pc EXCEPT ![w] = "idle"]
             /\ UNCHANGED <<taskQueue, dequeueWorker, claimedWork, current>>
    BY <1>0, <1>1, <1>3, <2>1 DEF PopNextNode, Executing
  <2>2. ASSUME NEW n \in TopNodes(GetAllowedQueues(w)),
               taskQueue' = [taskQueue EXCEPT ![n] = @ - 1],
               pc' = [pc EXCEPT ![w] = "executing"],
               current' = [current EXCEPT ![w] = n]
        PROVE  Goal
    <3>1. n \in Node /\ taskQueue[n] > 0 /\ QueueOf[n] \in FreshAllowedQueues(w)
      BY <2>2 DEF TopNodes, Waiting, GetAllowedQueues, CacheCoherent
    <3>2. TaintOf[n] \in Tolerations[w] \cup {NoTaint}
      BY <3>1 DEF FreshAllowedQueues, TaintOfQueue
    <3>3. queueTaint' = queueTaint
      BY <1>3 DEF PopNextNode
    <3>4. \A m \in Node : taskQueue'[m] > 0 => taskQueue[m] > 0
      BY <2>2, <3>1 DEF TypeOK
    <3>5. \A v \in Worker : \A m \in Node :
            Executing(v, m)' => Executing(v, m) \/ (v = w /\ m = n)
      BY <1>0, <2>2 DEF Executing
    <3> QED BY <3>2, <3>3, <3>4, <3>5 DEF TaintOfQueue, TaintHonoured
  <2> QED BY <1>3, <2>1, <2>2 DEF PopNextNode
<1>4. ASSUME NEW w \in Worker, HandlerStep(w), ~PopNextNode(w) PROVE Goal
  <2>1. UNCHANGED <<queueTaint, taskQueue>>
    BY <1>4 DEF HandlerStep, Complete, ReadOwner, ReadClaims, ReleaseWorkerLock,
                ReadDestinations, Notify, Resolved, BackoffNode, Requeue
  <2>2. \A v \in Worker : \A n \in Node : Executing(v, n)' => Executing(v, n)
    BY <1>0, <1>4
    DEF Executing, HandlerStep, Complete, ReadOwner, ReadClaims, ReleaseWorkerLock,
        ReadDestinations, Notify, Resolved, BackoffNode, Requeue
  <2> QED BY <1>1, <2>1, <2>2
<1>5. ASSUME NEW i \in Instance, CreateStep(i) PROVE Goal
  BY <1>1, <1>5 DEF Executing, CreateStep, CreateInstance, NewNode, ResolveNewNode
<1>6. ASSUME NEW t \in Thread, PushTask(t) PROVE Goal
  <2>1. toTask[t] \in Node
    BY <1>6 DEF PushTask, TypeOK
  <2>2. queueTaint' = QueueTaintsWith(toTask[t])
    BY <1>6 DEF PushTask
  <2>3. \A n \in Node : queueTaint[QueueOf[n]] = TaintOf[n]
                          => queueTaint'[QueueOf[n]] = TaintOf[n]
    BY <2>2, NodeAssumption, ThreadAssumption DEF QueueTaintsWith
  <2>4. \A n \in Node : QueueOf[n] = QueueOf[toTask[t]]
                          => queueTaint'[QueueOf[n]] = TaintOf[n]
    BY <2>1, <2>2, NodeAssumption DEF QueueTaintsWith, TaintOfQueue, OneTaintPerQueue
  <2>5. \A n \in Node : QueueOf[n] # QueueOf[toTask[t]]
                          => queueTaint'[QueueOf[n]] = queueTaint[QueueOf[n]]
    BY <2>2, NodeAssumption DEF QueueTaintsWith
  <2>6. \A n \in Node : taskQueue'[n] > 0 => taskQueue[n] > 0 \/ n = toTask[t]
    BY <1>6, <2>1 DEF PushTask, TypeOK
  <2>7. TaintOfQueue'
    BY <2>1, <2>3, <2>4, <2>5, <2>6 DEF TaintOfQueue
  <2> QED BY <1>6, <2>7 DEF PushTask, TaintHonoured, Executing
<1>7. ASSUME NEW t \in Thread, PushFuture(t) PROVE Goal
  BY <1>1, <1>7 DEF Executing, PushFuture
<1>8. CASE CollectStep
  BY <1>1, <1>8 DEF Executing, CollectStep, CollectWorker, FreeNode, InvalidateWorker
<1>9. CASE SchedulerStep
  BY <1>1, <1>9 DEF Executing, SchedulerStep, LockFuture, PopDue, UnlockFuture
<1>10. CASE Tick BY <1>1, <1>10 DEF Executing, Tick
<1>11. CASE UNCHANGED vars BY <1>1, <1>11 DEF Executing
<1> QED
  BY <1>2, <1>3, <1>4, <1>5, <1>6, <1>7, <1>8, <1>9, <1>10, <1>11 DEF Next

\* Where all nodes of a queue ask for the same taint, a worker executes tainted nodes
\* only if it tolerates the taint, whichever node created the queue and whenever.
THEOREM TaintsAreHonoured ==
  ASSUME OneTaintPerQueue
  PROVE  Spec => []TaintHonoured
<1>1. Init => TaintOfQueue /\ TaintHonoured
  BY NodeAssumption DEF Init, TaintOfQueue, TaintHonoured, Executing, NoNodes
<1> QED
  BY InitType, StepType, CacheInvariant, StepTaint, <1>1, PTL DEF Spec

-----------------------------------------------------------------------------
(***************************************************************************)
(* No wake-up is lost.  The invariant is inductive together with the order *)
(* in which ExecutionDidResolve works: it sets the completed flag before   *)
(* it releases the node, so that the release leaves no node unattended.    *)
(***************************************************************************)
CompletedFirst ==
  \A w \in Worker : pc[w] \in {"releasing", "locking", "clearing"} => current[w] \in completed

\* Every step preserves that order.
LEMMA StepCompletedFirst ==
  ASSUME TypeOK, CompletedFirst, [Next]_vars
  PROVE  CompletedFirst'
<1> USE DEF CompletedFirst, vars, nodeVars, handlerVars
<1>0. /\ pc \in [Worker -> PC]
      /\ current \in [Worker -> Node \cup {Nil}]
  BY DEF TypeOK
<1>1. ASSUME UNCHANGED <<completed, pc, current>> PROVE CompletedFirst'
  BY <1>1
<1>2. ASSUME NEW w \in Worker, ClientStep(w) PROVE CompletedFirst'
  BY <1>0, <1>2 DEF ClientStep, NewWorker, Ping, MissPing, Crash, GetWork, SubmitWork,
                    SubmitFailure, Refuse
<1>3. ASSUME NEW w \in Worker, HandlerStep(w) PROVE CompletedFirst'
  <2>1. CASE PopNextNode(w) BY <1>0, <2>1 DEF PopNextNode
  <2>2. CASE Complete(w) BY <1>0, <2>2 DEF Complete
  <2>3. CASE ReadOwner(w) \/ ReadClaims(w)
    BY <1>0, <2>3 DEF ReadOwner, ReadClaims
  <2>4. CASE ReleaseWorkerLock(w) BY <1>0, <2>4 DEF ReleaseWorkerLock
  <2>5. CASE ReadDestinations(w) BY <1>0, <2>5 DEF ReadDestinations
  <2>6. ASSUME NEW d \in Node, Notify(w, d) PROVE CompletedFirst'
    BY <1>0, <2>6 DEF Notify
  <2>7. CASE Resolved(w) BY <1>0, <2>7 DEF Resolved
  <2>8. CASE BackoffNode(w) BY <1>0, <2>8 DEF BackoffNode
  <2>9. CASE Requeue(w) BY <1>0, <2>9 DEF Requeue
  <2> QED
    BY <1>3, <2>1, <2>2, <2>3, <2>4, <2>5, <2>6, <2>7, <2>8, <2>9 DEF HandlerStep
<1>4. ASSUME NEW i \in Instance, CreateStep(i) PROVE CompletedFirst'
  BY <1>1, <1>4 DEF CreateStep, CreateInstance, NewNode, ResolveNewNode
<1>5. ASSUME NEW t \in Thread, PushTask(t) \/ PushFuture(t) PROVE CompletedFirst'
  BY <1>1, <1>5 DEF PushTask, PushFuture
<1>6. CASE CollectStep
  BY <1>1, <1>6 DEF CollectStep, CollectWorker, FreeNode, InvalidateWorker
<1>7. CASE SchedulerStep
  BY <1>1, <1>7 DEF SchedulerStep, LockFuture, PopDue, UnlockFuture
<1>8. CASE Tick BY <1>1, <1>8 DEF Tick
<1>9. CASE UNCHANGED vars BY <1>1, <1>9
<1> QED BY <1>2, <1>3, <1>4, <1>5, <1>6, <1>7, <1>8, <1>9 DEF Next

\* A thread that enqueues a node is about to push it.
LEMMA EnqueuePushes ==
  ASSUME TypeOK, NEW t \in Thread, NEW n \in Node, EnqueueNode(t, n), ~Busy(t)
  PROVE  /\ n \in {toTask'[t], toFuture'[t]}
         /\ \A m \in Node, u \in Thread :
              m \in {toTask[u], toFuture[u]} => m \in {toTask'[u], toFuture'[u]}
BY ThreadAssumption DEF EnqueueNode, Busy, TypeOK

\* The steps after which a node that was queued, or that a failing call was to decide
\* about, may be neither.
Pops(w, n) == PopNextNode(w) /\ pc'[w] = "executing" /\ current'[w] = n
Decides(w, n) == BackoffNode(w) /\ current[w] = n

\* No other step makes the broker forget a node.
LEMMA StepTraces ==
  ASSUME TypeOK, [Next]_vars, NEW n \in Node
  PROVE  /\ n \in completed => n \in completed'
         /\ Queued(n) => Queued(n)' \/ \E w \in Worker : Pops(w, n)
         /\ Failing(n) => Failing(n)' \/ Queued(n)' \/ \E w \in Worker : Decides(w, n)
         /\ Ready(n) /\ Awaited(n) => Awaited(n)' \/ Queued(n)'
<1> DEFINE Goal ==
      /\ n \in completed => n \in completed'
      /\ Queued(n) => Queued(n)' \/ \E w \in Worker : Pops(w, n)
      /\ Failing(n) => Failing(n)' \/ Queued(n)' \/ \E w \in Worker : Decides(w, n)
      /\ Ready(n) /\ Awaited(n) => Awaited(n)' \/ Queued(n)'
<1> SUFFICES Goal
  OBVIOUS
<1> USE DEF vars, instanceVars, nodeVars, queueVars, workerVars, handlerVars,
            enqueueVars, loopVars
<1>1. ASSUME UNCHANGED <<creating, completed, taskQueue,
                         futureScheduled, pc, current, notify, enqueueVars>>
      PROVE  Goal
  BY <1>1 DEF Queued, Failing, Awaited
<1>2. /\ pc \in [Worker -> PC]
      /\ current \in [Worker -> Node \cup {Nil}]
      /\ notify \in [Worker -> [Node -> Nat]]
      /\ taskQueue \in [Node -> Nat]
      /\ creating \in [Instance -> Node \cup {Nil}]
  BY DEF TypeOK
<1>3. ASSUME NEW t \in Thread, NEW m \in Node, EnqueueNode(t, m), ~Busy(t)
      PROVE  \A k \in Node :
               k = m \/ (\E u \in Thread : k \in {toTask[u], toFuture[u]})
                 => \E u \in Thread : k \in {toTask'[u], toFuture'[u]}
  BY <1>3, EnqueuePushes
<1>4. ASSUME NEW w \in Worker, ClientStep(w) PROVE Goal
  <2>1. UNCHANGED <<creating, completed, taskQueue,
                    futureScheduled, notify, enqueueVars>>
    BY <1>4 DEF ClientStep, NewWorker, Ping, MissPing, Crash, GetWork, SubmitWork,
                SubmitFailure
  <2>2. \A v \in Worker :
          \/ pc'[v] = pc[v] /\ current'[v] = current[v]
          \/ pc[v] \in {"absent", "idle", "executing"}
    BY <1>2, <1>4 DEF ClientStep, NewWorker, Ping, MissPing, Crash, GetWork,
                      SubmitWork, SubmitFailure, Refuse
  <2>3. Failing(n) => Failing(n)'
    BY <2>2 DEF Failing
  <2>4. Awaited(n) => Awaited(n)'
    BY <2>1, <2>2 DEF Awaited
  <2> QED BY <2>1, <2>3, <2>4 DEF Queued
<1>5. ASSUME NEW w \in Worker, HandlerStep(w) PROVE Goal
  <2>1. CASE PopNextNode(w)
    <3>1. UNCHANGED <<creating, completed, futureScheduled, notify,
                      enqueueVars>>
      BY <2>1 DEF PopNextNode
    <3>2. \A v \in Worker :
            \/ pc'[v] = pc[v] /\ current'[v] = current[v]
            \/ pc[v] = "popping"
      BY <1>2, <2>1 DEF PopNextNode
    <3>3. (Failing(n) => Failing(n)') /\ (Awaited(n) => Awaited(n)')
      BY <3>1, <3>2 DEF Failing, Awaited
    <3>4. taskQueue[n] > 0 => taskQueue'[n] > 0 \/ Pops(w, n)
      BY <1>2, <2>1 DEF PopNextNode, Pops, TopNodes, Waiting
    <3> QED BY <3>1, <3>3, <3>4 DEF Queued
  <2>2. CASE Complete(w)
    <3>1. UNCHANGED <<creating, taskQueue, futureScheduled,
                      notify, current, enqueueVars>>
      BY <2>2 DEF Complete
    <3>2. \A v \in Worker : pc'[v] = pc[v] \/ pc[v] = "resolving"
      BY <1>2, <2>2 DEF Complete
    <3>3. (Failing(n) => Failing(n)') /\ (Awaited(n) => Awaited(n)')
      BY <3>1, <3>2 DEF Failing, Awaited
    <3>4. n \in completed => n \in completed'
      BY <2>2 DEF Complete
    <3> QED BY <3>1, <3>3, <3>4 DEF Queued
  <2>3. CASE ReadOwner(w) \/ ReadClaims(w)
    <3>1. UNCHANGED <<creating, completed, taskQueue,
                      futureScheduled, notify, current, enqueueVars>>
      BY <2>3 DEF ReadOwner, ReadClaims
    <3>2. \A v \in Worker :
            \/ pc'[v] = pc[v]
            \/ /\ pc[v] \in {"releasing", "locking"}
               /\ pc'[v] \in {"locking", "clearing"}
            \/ /\ pc[v] \in {"failing", "lockingFailed"}
               /\ pc'[v] \in {"lockingFailed", "clearingFailed"}
      BY <1>2, <2>3 DEF ReadOwner, ReadClaims
    <3>3. (Failing(n) => Failing(n)') /\ (Awaited(n) => Awaited(n)')
      BY <3>1, <3>2 DEF Failing, Awaited
    <3> QED BY <3>1, <3>3 DEF Queued
  <2>4. CASE ReleaseWorkerLock(w)
    <3>1. UNCHANGED <<creating, completed, taskQueue, futureScheduled,
                      notify, current, enqueueVars>>
      BY <2>4 DEF ReleaseWorkerLock
    <3>2. \A v \in Worker :
            \/ pc'[v] = pc[v]
            \/ pc[v] = "clearing" /\ pc'[v] = "resolved"
            \/ pc[v] = "clearingFailed" /\ pc'[v] = "backoff"
      BY <1>2, <2>4 DEF ReleaseWorkerLock
    <3>3. (Failing(n) => Failing(n)') /\ (Awaited(n) => Awaited(n)')
      BY <3>1, <3>2 DEF Failing, Awaited
    <3> QED BY <3>1, <3>3 DEF Queued
  <2>5. CASE ReadDestinations(w)
    <3>1. UNCHANGED <<creating, completed, taskQueue,
                      futureScheduled, current, enqueueVars>>
      BY <2>5 DEF ReadDestinations
    <3>2. \A v \in Worker :
            \/ pc'[v] = pc[v] /\ notify'[v] = notify[v]
            \/ /\ v = w /\ pc[v] = "resolved" /\ pc'[v] = "notifying"
               /\ notify'[v] = Destinations(current[v])
      BY <1>2, <2>5 DEF ReadDestinations
    <3>3. Failing(n) => Failing(n)'
      BY <3>1, <3>2 DEF Failing
    <3>4. Ready(n) => Destinations(current[w])[n] = Sources[n][current[w]]
      BY DEF Destinations, Ready
    <3>5. Ready(n) /\ Awaited(n) => Awaited(n)'
      BY <3>1, <3>2, <3>4 DEF Awaited
    <3> QED BY <3>1, <3>3, <3>5 DEF Queued
  <2>6. ASSUME NEW d \in Node, Notify(w, d) PROVE Goal
    <3>1. UNCHANGED <<creating, completed, taskQueue,
                      futureScheduled, pc, current>>
      BY <2>6 DEF Notify
    <3>2. (\E u \in Thread : n \in {toTask[u], toFuture[u]})
            => \E u \in Thread : n \in {toTask'[u], toFuture'[u]}
      <4>1. CASE EnqueueNode(w, d) BY <1>3, <2>6, <4>1 DEF Notify, Thread
      <4>2. CASE UNCHANGED enqueueVars BY <4>2
      <4> QED BY <2>6, <4>1, <4>2 DEF Notify, DependencyDidResolve
    <3>3. CASE d = n
      <4>1. Ready(n) => EnqueueNode(w, n)
        BY <2>6, <3>3 DEF Notify, DependencyDidResolve, DependenciesComplete,
                          Ready, Realized
      <4>2. Ready(n) => Queued(n)'
        BY <1>3, <2>6, <4>1 DEF Notify, Thread, Queued
      <4> QED BY <3>1, <3>2, <4>2 DEF Queued, Failing
    <3>4. CASE d # n
      <4>1. \A v \in Worker : notify'[v][n] = notify[v][n]
        BY <1>2, <2>6, <3>4 DEF Notify
      <4>2. (Failing(n) => Failing(n)') /\ (Awaited(n) => Awaited(n)')
        BY <3>1, <4>1 DEF Failing, Awaited
      <4> QED BY <3>1, <3>2, <4>2 DEF Queued
    <3> QED BY <3>3, <3>4
  <2>7. CASE Resolved(w)
    <3>1. UNCHANGED <<creating, completed, taskQueue,
                      futureScheduled, notify, enqueueVars>>
      BY <2>7 DEF Resolved
    <3>2. \A v \in Worker :
            \/ pc'[v] = pc[v] /\ current'[v] = current[v]
            \/ pc[v] = "notifying" /\ notify[v][n] = 0
      BY <1>2, <2>7 DEF Resolved, NoNodes
    <3>3. (Failing(n) => Failing(n)') /\ (Awaited(n) => Awaited(n)')
      BY <3>1, <3>2 DEF Failing, Awaited
    <3> QED BY <3>1, <3>3 DEF Queued
  <2>8. CASE BackoffNode(w)
    <3>1. UNCHANGED <<creating, completed, taskQueue,
                      futureScheduled, notify, enqueueVars>>
      BY <2>8 DEF BackoffNode
    <3>2. \A v \in Worker : v # w => pc'[v] = pc[v] /\ current'[v] = current[v]
      BY <1>2, <2>8 DEF BackoffNode
    <3>3. pc[w] = "backoff"
      BY <2>8 DEF BackoffNode
    <3>4. Failing(n) => Failing(n)' \/ Decides(w, n)
      BY <2>8, <3>2 DEF Failing, Decides
    <3>5. Awaited(n) => Awaited(n)'
      BY <3>1, <3>2, <3>3 DEF Awaited
    <3> QED BY <3>1, <3>4, <3>5 DEF Queued
  <2>9. CASE Requeue(w)
    <3>1. UNCHANGED <<creating, completed, taskQueue,
                      futureScheduled, notify>>
      BY <2>9 DEF Requeue
    <3>2. \A v \in Worker : v # w => pc'[v] = pc[v] /\ current'[v] = current[v]
      BY <1>2, <2>9 DEF Requeue
    <3>3. pc[w] = "requeue" /\ current[w] \in Node
      BY <2>9 DEF Requeue, TypeOK, PC, Working
    <3>4. \A k \in Node :
            k = current[w] \/ (\E u \in Thread : k \in {toTask[u], toFuture[u]})
              => \E u \in Thread : k \in {toTask'[u], toFuture'[u]}
      BY <1>3, <2>9, <3>3 DEF Requeue, Thread
    <3>5. Failing(n) => Failing(n)' \/ current[w] = n
      BY <3>2 DEF Failing
    <3>6. Awaited(n) => Awaited(n)'
      BY <3>1, <3>2, <3>3 DEF Awaited
    <3> QED BY <3>1, <3>4, <3>5, <3>6 DEF Queued
  <2> QED
    BY <1>5, <2>1, <2>2, <2>3, <2>4, <2>5, <2>6, <2>7, <2>8, <2>9 DEF HandlerStep
<1>6. ASSUME NEW i \in Instance, CreateStep(i) PROVE Goal
  <2>1. CASE CreateInstance(i) BY <1>1, <2>1 DEF CreateInstance
  <2>2. ASSUME NEW m \in Node, NewNode(m) PROVE Goal
    <3>1. UNCHANGED <<completed, taskQueue,
                      futureScheduled, pc, current, notify, enqueueVars>>
      BY <2>2 DEF NewNode
    <3>2. \A j \in Instance : creating[j] # Nil => creating'[j] = creating[j]
      BY <1>2, <2>2 DEF NewNode, NodeLockFree
    <3>3. Awaited(n) => Awaited(n)'
      BY <3>1, <3>2, ThreadAssumption DEF Awaited
    <3> QED BY <3>1, <3>3 DEF Queued, Failing
  <2>3. CASE ResolveNewNode(i)
    <3>1. UNCHANGED <<completed, taskQueue,
                      futureScheduled, pc, current, notify>>
      BY <2>3 DEF ResolveNewNode
    <3>2. creating[i] \in Node /\ ~Busy(i) /\ DependencyDidResolve(i, creating[i])
      BY <1>2, <2>3 DEF ResolveNewNode
    <3>3. (\E u \in Thread : n \in {toTask[u], toFuture[u]})
            => \E u \in Thread : n \in {toTask'[u], toFuture'[u]}
      <4>1. CASE EnqueueNode(i, creating[i])
        BY <1>3, <3>2, <4>1 DEF Thread
      <4>2. CASE UNCHANGED enqueueVars BY <4>2
      <4> QED BY <3>2, <4>1, <4>2 DEF DependencyDidResolve
    <3>4. CASE creating[i] = n
      <4>1. Ready(n) => EnqueueNode(i, n)
        BY <3>2, <3>4 DEF DependencyDidResolve, DependenciesComplete, Ready, Realized
      <4>2. Ready(n) => Queued(n)'
        BY <1>3, <3>2, <4>1 DEF Thread, Queued
      <4> QED BY <3>1, <3>3, <4>2 DEF Queued, Failing
    <3>5. CASE creating[i] # n
      <4>1. \A j \in Instance : creating[j] = n => creating'[j] = n
        BY <1>2, <2>3, <3>5 DEF ResolveNewNode
      <4>2. (Failing(n) => Failing(n)') /\ (Awaited(n) => Awaited(n)')
        BY <3>1, <4>1 DEF Failing, Awaited
      <4> QED BY <3>1, <3>3, <4>2 DEF Queued
    <3> QED BY <3>4, <3>5
  <2> QED BY <1>6, <2>1, <2>2, <2>3 DEF CreateStep
<1>7. ASSUME NEW t \in Thread, PushTask(t) PROVE Goal
  <2>1. UNCHANGED <<creating, completed, futureScheduled,
                    pc, current, notify, toFuture>>
    BY <1>7 DEF PushTask
  <2>2. toTask[t] = n => taskQueue'[n] > 0
    BY <1>7 DEF PushTask, TypeOK
  <2>3. taskQueue[n] > 0 => taskQueue'[n] > 0
    BY <1>7 DEF PushTask, TypeOK
  <2>4. \A u \in Thread : toTask[u] = n => toTask'[u] = n \/ u = t
    BY <1>7 DEF PushTask, TypeOK
  <2>5. Queued(n) => Queued(n)'
    BY <2>1, <2>2, <2>3, <2>4 DEF Queued
  <2> QED BY <2>1, <2>5 DEF Failing, Awaited
<1>8. ASSUME NEW t \in Thread, PushFuture(t) PROVE Goal
  <2>1. UNCHANGED <<creating, completed, taskQueue,
                    pc, current, notify, toTask>>
    BY <1>8 DEF PushFuture
  <2>2. toFuture[t] = n => futureScheduled'[n][nextRetryAvailable[n]] > 0
    BY <1>8 DEF PushFuture, TypeOK
  <2>3. \A due \in Due : futureScheduled[n][due] > 0 => futureScheduled'[n][due] > 0
    BY <1>8 DEF PushFuture, TypeOK
  <2>4. \A u \in Thread : toFuture[u] = n => toFuture'[u] = n \/ u = t
    BY <1>8 DEF PushFuture, TypeOK
  <2>5. nextRetryAvailable[n] \in Due
    BY DEF TypeOK
  <2>6. Queued(n) => Queued(n)'
    BY <2>1, <2>2, <2>3, <2>4, <2>5 DEF Queued
  <2> QED BY <2>1, <2>6 DEF Failing, Awaited
<1>9. CASE CollectStep
  <2>1. ASSUME NEW w \in Worker, CollectWorker(w) PROVE Goal
    BY <1>1, <2>1 DEF CollectWorker
  <2>2. ASSUME NEW m \in Node, FreeNode(m) PROVE Goal
    <3>1. UNCHANGED <<creating, completed, taskQueue, futureScheduled,
                      pc, current, notify>>
      BY <2>2 DEF FreeNode
    <3>2. \A k \in Node :
            k = m \/ (\E u \in Thread : k \in {toTask[u], toFuture[u]})
              => \E u \in Thread : k \in {toTask'[u], toFuture'[u]}
      BY <1>3, <2>2 DEF FreeNode, Thread
    <3> QED BY <3>1, <3>2 DEF Queued, Failing, Awaited
  <2>3. CASE InvalidateWorker BY <1>1, <2>3 DEF InvalidateWorker
  <2> QED BY <1>9, <2>1, <2>2, <2>3 DEF CollectStep
<1>10. CASE SchedulerStep
  <2>1. CASE LockFuture BY <1>1, <2>1 DEF LockFuture
  <2>2. ASSUME NEW m \in Node, NEW t \in Due, PopDue(m, t) PROVE Goal
    <3>1. UNCHANGED <<creating, completed, taskQueue,
                      pc, current, notify>>
      BY <2>2 DEF PopDue
    <3>2. \A k \in Node :
            k = m \/ (\E u \in Thread : k \in {toTask[u], toFuture[u]})
              => \E u \in Thread : k \in {toTask'[u], toFuture'[u]}
      BY <1>3, <2>2 DEF PopDue, Thread
    <3>3. futureScheduled'[n] = futureScheduled[n] \/ n = m
      BY <2>2 DEF PopDue, TypeOK
    <3> QED BY <3>1, <3>2, <3>3 DEF Queued, Failing, Awaited
  <2>3. CASE UnlockFuture BY <1>1, <2>3 DEF UnlockFuture
  <2> QED BY <1>10, <2>1, <2>2, <2>3 DEF SchedulerStep
<1>11. CASE Tick BY <1>1, <1>11 DEF Tick
<1>12. CASE UNCHANGED vars BY <1>1, <1>12
<1> QED
  BY <1>4, <1>5, <1>6, <1>7, <1>8, <1>9, <1>10, <1>11, <1>12 DEF Next

\* Nodes are created for good, and only BackoffNode counts failures.
LEMMA OnlyBackoffCounts ==
  ASSUME TypeOK, [Next]_vars, NEW n \in Node
  PROVE  /\ nodes \subseteq nodes'
         /\ \/ failures'[n] = failures[n] /\ currentAttempt'[n] = currentAttempt[n]
            \/ \E w \in Worker : BackoffNode(w) /\ current[w] = n
<1> DEFINE Same == UNCHANGED <<failures, currentAttempt>> /\ nodes \subseteq nodes'
<1> USE DEF vars, nodeVars, instanceVars
<1>1. ASSUME NEW w \in Worker, ClientStep(w) PROVE Same
  BY <1>1 DEF ClientStep, NewWorker, Ping, MissPing, Crash, GetWork, SubmitWork,
              SubmitFailure
<1>2. ASSUME NEW w \in Worker, HandlerStep(w), ~BackoffNode(w) PROVE Same
  BY <1>2 DEF HandlerStep, PopNextNode, Complete, ReadOwner, ReadClaims, ReleaseWorkerLock,
              ReadDestinations, Notify, Resolved, Requeue
<1>3. ASSUME NEW w \in Worker, BackoffNode(w)
      PROVE  /\ nodes' = nodes
             /\ current[w] # n => failures'[n] = failures[n]
                                  /\ currentAttempt'[n] = currentAttempt[n]
  <2>1. failures \in [Node -> Nat] /\ currentAttempt \in [Node -> Nat]
    BY DEF TypeOK
  <2> QED BY <1>3, <2>1 DEF BackoffNode
<1>4. ASSUME NEW i \in Instance, CreateStep(i) PROVE Same
  BY <1>4 DEF CreateStep, CreateInstance, NewNode, ResolveNewNode
<1>5. ASSUME NEW t \in Thread, PushTask(t) \/ PushFuture(t) PROVE Same
  BY <1>5 DEF PushTask, PushFuture
<1>6. CollectStep => Same
  BY DEF CollectStep, CollectWorker, FreeNode, InvalidateWorker
<1>7. SchedulerStep => Same
  BY DEF SchedulerStep, LockFuture, PopDue, UnlockFuture
<1>8. Tick => Same
  BY DEF Tick
<1>9. UNCHANGED vars => Same
  OBVIOUS
<1> QED
  BY <1>1, <1>2, <1>3, <1>4, <1>5, <1>6, <1>7, <1>8, <1>9 DEF Next

\* A node loses its worker only when a call releases it or the collection frees it.
LEMMA OwnerDropped ==
  ASSUME TypeOK, [Next]_vars, NEW n \in Node,
         dequeueWorker[n] # Nil, dequeueWorker'[n] = Nil
  PROVE  \/ \E w \in Worker : ReleaseWorkerLock(w) /\ current[w] = n
         \/ FreeNode(n)
<1> USE DEF vars, nodeVars
<1>0. /\ dequeueWorker \in [Node -> Worker \cup {Nil}]
      /\ current \in [Worker -> Node \cup {Nil}]
      /\ Nil \notin Worker
  BY ThreadAssumption DEF TypeOK, Thread
<1>1. dequeueWorker' # dequeueWorker
  OBVIOUS
<1>2. ASSUME NEW w \in Worker, ClientStep(w) PROVE FALSE
  BY <1>1, <1>2 DEF ClientStep, NewWorker, Ping, MissPing, Crash, GetWork, SubmitWork,
                    SubmitFailure
<1>3. ASSUME NEW w \in Worker, PopNextNode(w) PROVE FALSE
  BY <1>0, <1>3 DEF PopNextNode
<1>4. ASSUME NEW w \in Worker, ReleaseWorkerLock(w) PROVE current[w] = n
  BY <1>0, <1>4 DEF ReleaseWorkerLock
<1>5. ASSUME NEW w \in Worker, HandlerStep(w), ~PopNextNode(w), ~ReleaseWorkerLock(w)
      PROVE  FALSE
  BY <1>1, <1>5 DEF HandlerStep, Complete, ReadOwner, ReadClaims, ReadDestinations, Notify,
                    Resolved, BackoffNode, Requeue
<1>6. ASSUME NEW i \in Instance, CreateStep(i) PROVE FALSE
  BY <1>1, <1>6 DEF CreateStep, CreateInstance, NewNode, ResolveNewNode
<1>7. ASSUME NEW t \in Thread, PushTask(t) \/ PushFuture(t) PROVE FALSE
  BY <1>1, <1>7 DEF PushTask, PushFuture
<1>8. ASSUME NEW m \in Node, FreeNode(m) PROVE m = n
  BY <1>0, <1>8 DEF FreeNode
<1>9. ASSUME CollectStep, ~\E m \in Node : FreeNode(m) PROVE FALSE
  BY <1>1, <1>9 DEF CollectStep, CollectWorker, InvalidateWorker
<1>10. ~SchedulerStep /\ ~Tick /\ ~UNCHANGED vars
  BY <1>1 DEF SchedulerStep, LockFuture, PopDue, UnlockFuture, Tick
<1> QED
  BY <1>2, <1>3, <1>4, <1>5, <1>6, <1>7, <1>8, <1>9, <1>10 DEF Next

\* A node that is attended remains so, whatever step is taken.
LEMMA StepAttended ==
  ASSUME TypeOK, CompletedFirst, [Next]_vars,
         NEW n \in Node, Ready(n), Attended(n)
  PROVE  Attended(n)'
<1>0. /\ failures \in [Node -> Nat]
      /\ dequeueWorker \in [Node -> Worker \cup {Nil}]
      /\ pc \in [Worker -> PC]
      /\ current \in [Worker -> Node \cup {Nil}]
      /\ Nil \notin Worker
  BY ThreadAssumption DEF TypeOK, Thread
<1>1. ASSUME NEW w \in Worker, Pops(w, n) PROVE dequeueWorker'[n] # Nil
  BY <1>0, <1>1 DEF Pops, PopNextNode
<1>2. ASSUME NEW w \in Worker, Decides(w, n) PROVE failures'[n] > 0
  BY <1>0, <1>2 DEF Decides, BackoffNode
<1>3. failures[n] > 0 => failures'[n] > 0
  BY <1>0, <1>2, OnlyBackoffCounts DEF Decides
<1>4. ASSUME NEW w \in Worker, ReleaseWorkerLock(w), current[w] = n PROVE Attended(n)'
  <2>1. CASE pc[w] = "clearing"
    BY <1>4, <2>1, StepTraces DEF CompletedFirst, Attended
  <2>2. CASE pc[w] = "clearingFailed"
    BY <1>0, <1>4, <2>2 DEF ReleaseWorkerLock, Attended, Failing
  <2> QED BY <1>4, <2>1, <2>2 DEF ReleaseWorkerLock
<1>5. ASSUME FreeNode(n) PROVE Queued(n)'
  BY <1>5, EnqueuePushes DEF FreeNode, Queued, Thread
<1> QED
  BY <1>1, <1>2, <1>3, <1>4, <1>5, OwnerDropped, StepTraces DEF Attended

\* A node becomes ready when it is created or when a node it depends on is
\* completed, and the call that does it has yet to look at the node.
LEMMA StepReady ==
  ASSUME TypeOK, [Next]_vars, NEW n \in Node, ~Ready(n), Ready(n)'
  PROVE  Awaited(n)'
<1> USE DEF vars, instanceVars, nodeVars
<1>1. CASE \E m \in Node : NewNode(m)
  <2>1. PICK m \in Node : NewNode(m)
    BY <1>1
  <2>2. m = n
    BY <2>1 DEF NewNode, Ready, Realized
  <2> QED BY <2>1, <2>2, NodeAssumption DEF NewNode, Awaited, TypeOK
<1>2. CASE \E w \in Worker : Complete(w)
  <2>1. PICK w \in Worker : Complete(w)
    BY <1>2
  <2>2. n \in nodes /\ current[w] \in SourcesOf(n)
    BY <2>1 DEF Complete, Ready, Realized
  <2>3. pc'[w] = "releasing" /\ current'[w] = current[w]
    BY <2>1 DEF Complete, TypeOK
  <2> QED BY <2>2, <2>3 DEF SourcesOf, Awaited
<1>3. \/ UNCHANGED <<nodes, completed>>
      \/ \E m \in Node : NewNode(m)
      \/ \E w \in Worker : Complete(w)
  <2>1. ASSUME NEW w \in Worker, ClientStep(w) PROVE UNCHANGED <<nodes, completed>>
    BY <2>1 DEF ClientStep, NewWorker, Ping, MissPing, Crash, GetWork, SubmitWork,
                SubmitFailure
  <2>2. ASSUME NEW w \in Worker, HandlerStep(w), ~Complete(w)
        PROVE  UNCHANGED <<nodes, completed>>
    BY <2>2 DEF HandlerStep, PopNextNode, ReadOwner, ReadClaims, ReleaseWorkerLock,
                ReadDestinations, Notify, Resolved, BackoffNode, Requeue
  <2>3. ASSUME NEW i \in Instance, CreateStep(i), ~(\E m \in Node : NewNode(m))
        PROVE  UNCHANGED <<nodes, completed>>
    BY <2>3 DEF CreateStep, CreateInstance, ResolveNewNode
  <2>4. ASSUME NEW t \in Thread, PushTask(t) \/ PushFuture(t)
        PROVE  UNCHANGED <<nodes, completed>>
    BY <2>4 DEF PushTask, PushFuture
  <2>5. CASE CollectStep
    BY <2>5 DEF CollectStep, CollectWorker, FreeNode, InvalidateWorker
  <2>6. CASE SchedulerStep
    BY <2>6 DEF SchedulerStep, LockFuture, PopDue, UnlockFuture
  <2>7. CASE Tick BY <2>7 DEF Tick
  <2>8. CASE UNCHANGED vars BY <2>8
  <2> QED BY <2>1, <2>2, <2>3, <2>4, <2>5, <2>6, <2>7, <2>8 DEF Next
<1>4. CASE UNCHANGED <<nodes, completed>>
  BY <1>4 DEF Ready, Realized
<1> QED BY <1>1, <1>2, <1>3, <1>4

\* However creation and completion interleave, no node that may run is forgotten.
THEOREM WakeupsAreKept == Spec => []NoLostWakeup
<1>1. Init => CompletedFirst /\ NoLostWakeup
  BY DEF Init, CompletedFirst, NoLostWakeup, Ready
<1>2. TypeOK /\ CompletedFirst /\ NoLostWakeup /\ [Next]_vars => NoLostWakeup'
  <2> SUFFICES ASSUME TypeOK, CompletedFirst, NoLostWakeup, [Next]_vars,
                      NEW n \in Node, Ready(n)'
               PROVE  Attended(n)'
    BY DEF NoLostWakeup
  <2>1. CASE Ready(n)
    BY <2>1, StepAttended DEF NoLostWakeup
  <2>2. CASE ~Ready(n)
    BY <2>2, StepReady DEF Attended
  <2> QED BY <2>1, <2>2
<1> QED
  BY InitType, StepType, StepCompletedFirst, <1>1, <1>2, PTL DEF Spec

=============================================================================
