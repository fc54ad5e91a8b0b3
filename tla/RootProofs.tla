---------------------------- MODULE RootProofs ----------------------------
(***************************************************************************)
(* Theorems about the nodes without dependencies, the roots, while only    *)
(* dead workers miss their pings: a root is a token.  It is in one place   *)
(* at a time (about to be looked at by NewNode, about to be pushed, in a   *)
(* queue, with a worker, or with the garbage collector), and each step     *)
(* leaves it there or moves it to another place.                           *)
(***************************************************************************)
EXTENDS BrokerProofs

-----------------------------------------------------------------------------
(***************************************************************************)
(* What holds of every node.  Claiming are the places of a worker that may *)
(* be recorded as the one that dequeued its node.                          *)
(***************************************************************************)
Claiming == {"executing", "resolving", "releasing", "locking", "clearing",
             "failing", "lockingFailed", "clearingFailed"}

OnlyDeadOverdue ==
  /\ \A w \in overdue : pc[w] = "dead"
  /\ collecting # Nil => pc[collecting] = "dead"
  /\ collecting = Nil => collected = NoNodes

DequeuedInHand ==
  \A w \in Worker : \A n \in Node : dequeueWorker[n] = w =>
    pc[w] = "dead" \/ (pc[w] \in Claiming /\ current[w] = n)

WorkersInOrder == TypeOK /\ OnlyDeadOverdue /\ DequeuedInHand

\* Every step preserves what holds of the workers.
LEMMA StepWorkers ==
  ASSUME LatePings = {}, WorkersInOrder, [Next]_vars
  PROVE  WorkersInOrder'
<1> DEFINE Goal == OnlyDeadOverdue' /\ DequeuedInHand'
<1> SUFFICES Goal
  BY StepType DEF WorkersInOrder
<1> USE DEF vars, instanceVars, nodeVars, queueVars, workerVars, handlerVars, loopVars
<1>0. /\ pc \in [Worker -> PC]
      /\ current \in [Worker -> Node \cup {Nil}]
      /\ dequeueWorker \in [Node -> Worker \cup {Nil}]
      /\ overdue \subseteq Worker
      /\ collecting \in Worker \cup {Nil}
      /\ Nil \notin Worker
      /\ OnlyDeadOverdue /\ DequeuedInHand
  BY ThreadAssumption DEF WorkersInOrder, TypeOK, Thread
<1> USE DEF OnlyDeadOverdue, DequeuedInHand, Claiming, NoNodes
<1>1. ASSUME NEW w \in Worker, ClientStep(w) PROVE Goal
  <2>1. CASE NewWorker(w) BY <1>0, <2>1 DEF NewWorker
  <2>2. CASE Ping(w) BY <1>0, <2>2 DEF Ping
  <2>3. CASE MissPing(w) BY <1>0, <2>3 DEF MissPing
  <2>4. CASE Crash(w) BY <1>0, <2>4 DEF Crash
  <2>5. CASE GetWork(w) BY <1>0, <2>5 DEF GetWork, Refuse
  <2>6. CASE SubmitWork(w) BY <1>0, <2>6 DEF SubmitWork, Refuse
  <2>7. CASE SubmitFailure(w) BY <1>0, <2>7 DEF SubmitFailure, Refuse
  <2> QED BY <1>1, <2>1, <2>2, <2>3, <2>4, <2>5, <2>6, <2>7 DEF ClientStep
<1>2. ASSUME NEW w \in Worker, HandlerStep(w) PROVE Goal
  <2>1. CASE PopNextNode(w)
    <3>1. CASE /\ pc' = [pc EXCEPT ![w] = "idle"]
               /\ UNCHANGED <<taskQueue, dequeueWorker, claimedWork, current>>
      BY <1>0, <2>1, <3>1 DEF PopNextNode
    <3>2. ASSUME NEW n \in TopNodes(GetAllowedQueues(w)),
                 dequeueWorker' = [dequeueWorker EXCEPT ![n] = w],
                 pc' = [pc EXCEPT ![w] = "executing"],
                 current' = [current EXCEPT ![w] = n]
          PROVE  Goal
      <4>1. n \in Node
        BY <3>2 DEF TopNodes, Waiting
      <4> QED BY <1>0, <2>1, <3>2, <4>1 DEF PopNextNode
    <3> QED BY <2>1, <3>1, <3>2 DEF PopNextNode
  <2>2. CASE Complete(w) BY <1>0, <2>2 DEF Complete
  <2>3. CASE ReadOwner(w) \/ ReadClaims(w)
    <3>1. /\ UNCHANGED <<dequeueWorker, current, overdue, collecting, collected>>
          /\ pc[w] \in Claiming
          /\ \E next \in Claiming : pc' = [pc EXCEPT ![w] = next]
      BY <2>3 DEF ReadOwner, ReadClaims
    <3> QED BY <1>0, <3>1
  <2>4. CASE ReleaseWorkerLock(w) BY <1>0, <2>4 DEF ReleaseWorkerLock
  <2>5. CASE ReadDestinations(w) BY <1>0, <2>5 DEF ReadDestinations
  <2>6. ASSUME NEW d \in Node, Notify(w, d) PROVE Goal BY <1>0, <2>6 DEF Notify
  <2>7. CASE Resolved(w) BY <1>0, <2>7 DEF Resolved
  <2>8. CASE BackoffNode(w) BY <1>0, <2>8 DEF BackoffNode
  <2>9. CASE Requeue(w) BY <1>0, <2>9 DEF Requeue
  <2> QED
    BY <1>2, <2>1, <2>2, <2>3, <2>4, <2>5, <2>6, <2>7, <2>8, <2>9 DEF HandlerStep
<1>3. ASSUME NEW i \in Instance, CreateStep(i) PROVE Goal
  BY <1>0, <1>3 DEF CreateStep, CreateInstance, NewNode, ResolveNewNode
<1>4. ASSUME NEW t \in Thread, PushTask(t) PROVE Goal BY <1>0, <1>4 DEF PushTask
<1>5. ASSUME NEW t \in Thread, PushFuture(t) PROVE Goal BY <1>0, <1>5 DEF PushFuture
<1>6. CASE CollectStep
  <2>1. ASSUME NEW w \in Worker, CollectWorker(w) PROVE Goal
    BY <1>0, <2>1 DEF CollectWorker
  <2>2. ASSUME NEW n \in Node, FreeNode(n) PROVE Goal BY <1>0, <2>2 DEF FreeNode
  <2>3. CASE InvalidateWorker BY <1>0, <2>3 DEF InvalidateWorker
  <2> QED BY <1>6, <2>1, <2>2, <2>3 DEF CollectStep
<1>7. CASE SchedulerStep
  BY <1>0, <1>7 DEF SchedulerStep, LockFuture, PopDue, UnlockFuture
<1>8. CASE Tick BY <1>0, <1>8 DEF Tick
<1>9. CASE UNCHANGED vars BY <1>0, <1>9
<1> QED
  BY <1>1, <1>2, <1>3, <1>4, <1>5, <1>6, <1>7, <1>8, <1>9 DEF Next

\* A worker that is collected is dead, and an owner of a node has it in hand.
LEMMA WorkersInvariant ==
  ASSUME LatePings = {}
  PROVE  Spec => []WorkersInOrder
<1>1. Init => WorkersInOrder
  BY InitType, ThreadAssumption
  DEF Init, WorkersInOrder, OnlyDeadOverdue, DequeuedInHand, Thread
<1> QED
  BY StepWorkers, <1>1, PTL DEF Spec

-----------------------------------------------------------------------------
(***************************************************************************)
(* The places a node can be in.  A worker has a node while it works on it, *)
(* and while it has a record of it that the collector has not taken over.  *)
(***************************************************************************)
HeldBy(w, n) ==
  \/ current[w] = n /\ pc[w] \in Working
  \/ claimedWork[w][n] > 0 /\ collecting # w

At(n, place, x) ==
  \/ place = "creating" /\ x \in Instance /\ creating[x] = n
  \/ place = "toTask" /\ x \in Thread /\ toTask[x] = n
  \/ place = "toFuture" /\ x \in Thread /\ toFuture[x] = n
  \/ place = "queue" /\ x = Nil /\ taskQueue[n] > 0
  \/ place = "future" /\ x \in Due /\ futureScheduled[n][x] > 0
  \/ place = "worker" /\ x \in Worker /\ HeldBy(x, n)
  \/ place = "collector" /\ x = Nil /\ collected[n] > 0

Nowhere(n) == \A place, x : ~At(n, place, x)

\* One place at a time, and once in it.
Sole(n) ==
  \A p1, p2, x1, x2 : At(n, p1, x1) /\ At(n, p2, x2) => p1 = p2 /\ x1 = x2

Once(n) ==
  /\ taskQueue[n] <= 1
  /\ collected[n] <= 1
  /\ \A t \in Due : futureScheduled[n][t] <= 1
  /\ \A w \in Worker : claimedWork[w][n] <= 1

\* A node that does not exist yet is nowhere; one that is completed is at most with
\* the worker whose call completed it.
Finishing == {"releasing", "locking", "clearing", "resolved", "notifying"}

InCourse(n) ==
  /\ n \notin nodes => Nowhere(n) /\ n \notin completed
  /\ n \in completed => \A place, x : At(n, place, x) =>
       place = "worker" /\ current[x] = n /\ pc[x] \in Finishing

\* The record of a worker and the node it has in hand agree, the call about the node
\* releases it from that record, and no call is about to notify it.
OnRecord(n) ==
  \A w \in Worker :
    /\ notify[w][n] = 0
    /\ claimedWork[w][n] > 0 =>
         /\ pc[w] = "dead" \/ (pc[w] \in Claiming /\ current[w] = n)
         /\ \A m \in Node : dequeueWorker[m] = w => m = n
    /\ current[w] = n /\ pc[w] \in Claiming => dequeueWorker[n] = w
    /\ current[w] = n =>
         /\ pc[w] \in {"locking", "lockingFailed"} => release[w].owner = w
         /\ pc[w] \in {"clearing", "clearingFailed"} =>
              release[w].owner = w /\ release[w].claims[n] = 0

Token(n) == Sole(n) /\ Once(n) /\ InCourse(n) /\ OnRecord(n)

\* What a step may do with a node.
Stays(n) == \A place, x : At(n, place, x)' => At(n, place, x)

Only(n, p, x) == \A place, y : At(n, place, y) => place = p /\ y = x

Moves(n) ==
  /\ n \notin completed
  /\ \E place, x : At(n, place, x)
  /\ \E place, x : Only(n, place, x)'

Enters(n) ==
  /\ n \notin nodes /\ n \in nodes'
  /\ \E place, x : Only(n, place, x)'

\* A release changes one record of a root: that of the worker that releases it.
LEMMA ReleaseOfOne ==
  ASSUME TypeOK, ClaimsCurrent, NEW n \in Node, OnRecord(n),
         NEW w \in Worker, ReleaseWorkerLock(w)
  PROVE  \A u \in Worker :
           claimedWork'[u][n] = IF u = w /\ current[w] = n THEN 0 ELSE claimedWork[u][n]
<1>1. pc[w] \in {"clearing", "clearingFailed"}
  BY DEF ReleaseWorkerLock
<1>2. claimedWork' = [v \in Worker |-> IF v = release[w].owner THEN release[w].claims
                                                              ELSE claimedWork[v]]
  BY DEF ReleaseWorkerLock
<1>3. CASE current[w] = n
  BY <1>1, <1>2, <1>3 DEF OnRecord
<1>4. CASE current[w] # n
  <2>1. release[w].owner # Nil => release[w].claims[n] = claimedWork[release[w].owner][n]
    BY <1>1, <1>4 DEF ClaimsCurrent
  <2>2. Nil \notin Worker
    BY ThreadAssumption DEF Thread
  <2> QED BY <1>2, <1>4, <2>1, <2>2
<1> QED BY <1>3, <1>4

\* The thread that enqueues a root has it to push, and nothing else has changed.
LEMMA EnqueueMoves ==
  ASSUME TypeOK, NEW n \in Node, NEW m \in Node, NEW t \in Thread, EnqueueNode(t, m)
  PROVE  /\ \A u \in Thread : toTask'[u] = n => toTask[u] = n \/ (u = t /\ m = n /\ ~BackedOff(n))
         /\ \A u \in Thread : toFuture'[u] = n => toFuture[u] = n \/ (u = t /\ m = n /\ BackedOff(n))
BY DEF EnqueueNode, TypeOK

\* A node that is nowhere but with the thread that enqueues it is in one place after.
LEMMA EnqueueOnly ==
  ASSUME TypeOK, NEW n \in Node, NEW t \in Thread, EnqueueNode(t, n),
         \A u \in Thread : toTask[u] # n /\ toFuture[u] # n,
         \A place, x : At(n, place, x)' => place \in {"toTask", "toFuture"}
  PROVE  \E place, x : Only(n, place, x)'
<1>1. CASE BackedOff(n)
  <2>1. \A u \in Thread : toTask'[u] # n /\ (toFuture'[u] = n => u = t)
    BY <1>1, EnqueueMoves
  <2>2. Only(n, "toFuture", t)'
    BY <2>1 DEF Only, At
  <2> QED BY <2>2
<1>2. CASE ~BackedOff(n)
  <2>1. \A u \in Thread : toFuture'[u] # n /\ (toTask'[u] = n => u = t)
    BY <1>2, EnqueueMoves
  <2>2. Only(n, "toTask", t)'
    BY <2>1 DEF Only, At
  <2> QED BY <2>2
<1> QED BY <1>1, <1>2

\* A root that was in one place is in one place after a step.
LEMMA StepPlaces ==
  ASSUME LatePings = {}, WorkersInOrder, ClaimsCurrent, [Next]_vars,
         NEW n \in Node, SourcesOf(n) = {}, Token(n)
  PROVE  Stays(n) \/ Moves(n) \/ Enters(n)
<1> DEFINE Goal == Stays(n) \/ Moves(n) \/ Enters(n)
<1> SUFFICES Goal
  OBVIOUS
<1> USE DEF vars, instanceVars, nodeVars, queueVars, workerVars, handlerVars, loopVars
<1>0. /\ TypeOK /\ OnlyDeadOverdue /\ DequeuedInHand
      /\ Sole(n) /\ Once(n) /\ InCourse(n) /\ OnRecord(n)
      /\ pc \in [Worker -> PC]
      /\ current \in [Worker -> Node \cup {Nil}]
      /\ claimedWork \in [Worker -> [Node -> Nat]]
      /\ Nil \notin Worker
  BY ThreadAssumption DEF WorkersInOrder, Token, TypeOK, Thread
<1> HIDE DEF Goal
<1>1. ASSUME UNCHANGED <<creating, enqueueVars, taskQueue, futureScheduled, collected>>,
             \A w \in Worker : HeldBy(w, n)' => HeldBy(w, n)
      PROVE  Goal
  BY <1>1 DEF Goal, Stays, At, enqueueVars
<1>2. ASSUME NEW w \in Worker, ClientStep(w) PROVE Goal
  <2>1. UNCHANGED <<creating, enqueueVars, taskQueue, futureScheduled, collected>>
    BY <1>2 DEF ClientStep, NewWorker, Ping, MissPing, Crash, GetWork, SubmitWork,
                SubmitFailure
  <2>2. \A u \in Worker : HeldBy(u, n)' => HeldBy(u, n)
    BY <1>0, <1>2
    DEF HeldBy, ClientStep, NewWorker, Ping, MissPing, Crash, GetWork, SubmitWork,
        SubmitFailure, Refuse, PC, Working
  <2> QED BY <1>1, <2>1, <2>2
<1>3. ASSUME NEW w \in Worker, HandlerStep(w) PROVE Goal
  <2>1. CASE PopNextNode(w)
    <3>1. CASE /\ pc' = [pc EXCEPT ![w] = "idle"]
               /\ UNCHANGED <<taskQueue, dequeueWorker, claimedWork, current>>
      BY <1>0, <1>1, <2>1, <3>1 DEF PopNextNode, HeldBy, PC, Working
    <3>2. ASSUME NEW m \in TopNodes(GetAllowedQueues(w)),
                 taskQueue' = [taskQueue EXCEPT ![m] = @ - 1],
                 claimedWork' = Claim(w, m),
                 pc' = [pc EXCEPT ![w] = "executing"],
                 current' = [current EXCEPT ![w] = m]
          PROVE  Goal
      <4>1. m \in Node /\ taskQueue[m] > 0
        BY <3>2 DEF TopNodes, Waiting
      <4>2. UNCHANGED <<creating, enqueueVars, futureScheduled, collecting, collected>>
        BY <2>1 DEF PopNextNode
      <4>3. \A u \in Worker : HeldBy(u, n)' => HeldBy(u, n) \/ (u = w /\ m = n)
        BY <1>0, <3>2, <4>1, <4>2 DEF HeldBy, Claim, PC, Working
      <4>4. taskQueue'[n] > 0 => taskQueue[n] > 0 /\ m # n
        BY <1>0, <3>2, <4>1 DEF Once, TypeOK
      <4>5. CASE m # n
        BY <4>2, <4>3, <4>4, <4>5 DEF Goal, Stays, At, enqueueVars
      <4>6. CASE m = n
        <5>1. At(n, "queue", Nil)
          BY <4>1, <4>6 DEF At
        <5>2. \A place, x : At(n, place, x) => place = "queue"
          BY <1>0, <5>1 DEF Sole
        <5>3. Only(n, "worker", w)'
          BY <4>2, <4>3, <4>4, <4>6, <5>2 DEF Only, At, enqueueVars
        <5>4. n \notin completed
          BY <1>0, <5>1 DEF InCourse
        <5> QED BY <5>1, <5>3, <5>4 DEF Goal, Moves
      <4> QED BY <4>5, <4>6
    <3> QED BY <2>1, <3>1, <3>2 DEF PopNextNode
  <2>2. CASE Complete(w)
    BY <1>0, <1>1, <2>2 DEF Complete, HeldBy, PC, Working
  <2>3. CASE ReadOwner(w) \/ ReadClaims(w)
    BY <1>0, <1>1, <2>3 DEF ReadOwner, ReadClaims, HeldBy, PC, Working
  <2>4. CASE ReleaseWorkerLock(w)
    <3>1. \A u \in Worker : claimedWork'[u][n] > 0 => claimedWork[u][n] > 0
      BY <1>0, <2>4, ReleaseOfOne
    <3>2. \A u \in Worker : HeldBy(u, n)' => HeldBy(u, n)
      BY <1>0, <2>4, <3>1 DEF ReleaseWorkerLock, HeldBy, PC, Working
    <3> QED BY <1>1, <2>4, <3>2 DEF ReleaseWorkerLock
  <2>5. CASE ReadDestinations(w)
    BY <1>0, <1>1, <2>5 DEF ReadDestinations, HeldBy, PC, Working
  <2>6. ASSUME NEW d \in Node, Notify(w, d) PROVE Goal
    <3>1. d # n /\ w \in Thread
      BY <1>0, <2>6 DEF Notify, OnRecord, Thread
    <3>2. \A u \in Thread : /\ toTask'[u] = n => toTask[u] = n
                            /\ toFuture'[u] = n => toFuture[u] = n
      BY <1>0, <2>6, <3>1, EnqueueMoves DEF Notify, DependencyDidResolve, enqueueVars
    <3> QED BY <2>6, <3>2 DEF Notify, Goal, Stays, At, HeldBy
  <2>7. CASE Resolved(w)
    BY <1>0, <1>1, <2>7 DEF Resolved, HeldBy, PC, Working
  <2>8. CASE BackoffNode(w)
    BY <1>0, <1>1, <2>8 DEF BackoffNode, HeldBy, PC, Working
  <2>9. CASE Requeue(w)
    <3>1. /\ current[w] \in Node /\ w \in Thread /\ pc[w] = "requeue"
          /\ EnqueueNode(w, current[w])
          /\ UNCHANGED <<creating, taskQueue, futureScheduled, collecting, collected,
                         claimedWork>>
      BY <1>0, <2>9 DEF Requeue, TypeOK, Working, PC, Thread
    <3>2. \A u \in Worker : HeldBy(u, n)' => HeldBy(u, n) /\ (u = w => current[w] # n)
      BY <1>0, <2>9, <3>1 DEF Requeue, HeldBy, OnRecord, Claiming, PC, Working
    <3>3. CASE current[w] # n
      <4>1. \A u \in Thread : /\ toTask'[u] = n => toTask[u] = n
                              /\ toFuture'[u] = n => toFuture[u] = n
        BY <1>0, <3>1, <3>3, EnqueueMoves
      <4> QED BY <3>1, <3>2, <4>1 DEF Goal, Stays, At
    <3>4. CASE current[w] = n
      <4>1. At(n, "worker", w)
        BY <1>0, <3>1, <3>4 DEF At, HeldBy, Working, PC
      <4>2. \A place, x : At(n, place, x) => place = "worker" /\ x = w
        BY <1>0, <4>1 DEF Sole
      <4>3. n \notin completed
        BY <1>0, <3>1, <4>1 DEF InCourse, Finishing
      <4>4. \A u \in Thread : toTask[u] # n /\ toFuture[u] # n
        BY <4>2 DEF At
      <4>5. \A place, x : At(n, place, x)' => place \in {"toTask", "toFuture"}
        <5>1. \A place, x : At(n, place, x)' =>
                At(n, place, x) \/ place \in {"toTask", "toFuture"}
          BY <3>1, <3>2 DEF At
        <5> QED BY <3>2, <3>4, <4>2, <5>1 DEF At
      <4>6. \E place, x : Only(n, place, x)'
        BY <1>0, <3>1, <3>4, <4>4, <4>5, EnqueueOnly
      <4> QED BY <4>1, <4>3, <4>6 DEF Goal, Moves
    <3> QED BY <3>3, <3>4
  <2> QED
    BY <1>3, <2>1, <2>2, <2>3, <2>4, <2>5, <2>6, <2>7, <2>8, <2>9 DEF HandlerStep
<1>4. ASSUME NEW i \in Instance, CreateStep(i) PROVE Goal
  <2>1. CASE CreateInstance(i) BY <1>1, <2>1 DEF CreateInstance, HeldBy
  <2>2. ASSUME NEW m \in Node, NewNode(m) PROVE Goal
    <3>1. /\ UNCHANGED <<enqueueVars, taskQueue, futureScheduled, collecting, collected,
                         pc, current, claimedWork>>
          /\ creating' = [creating EXCEPT ![InstanceOf[m]] = m]
          /\ m \notin nodes /\ nodes' = nodes \cup {m}
          /\ creating \in [Instance -> Node \cup {Nil}]
      BY <1>0, <2>2 DEF NewNode, TypeOK
    <3>2. CASE m # n
      BY <3>1, <3>2 DEF Goal, Stays, At, HeldBy, enqueueVars
    <3>3. CASE m = n
      <4>1. Nowhere(n)
        BY <1>0, <3>1, <3>3 DEF InCourse
      <4>2. Only(n, "creating", InstanceOf[n])'
        BY <3>1, <3>3, <4>1 DEF Nowhere, Only, At, HeldBy, enqueueVars
      <4> QED BY <3>1, <3>3, <4>2 DEF Goal, Enters
    <3> QED BY <3>2, <3>3
  <2>3. CASE ResolveNewNode(i)
    <3>1. /\ UNCHANGED <<taskQueue, futureScheduled, collecting, collected, pc, current,
                         claimedWork>>
          /\ creating' = [creating EXCEPT ![i] = Nil]
          /\ DependencyDidResolve(i, creating[i])
          /\ creating \in [Instance -> Node \cup {Nil}]
          /\ creating[i] \in Node
          /\ i \in Thread
          /\ n # Nil
      BY <1>0, <2>3, ThreadAssumption DEF ResolveNewNode, TypeOK, Thread
    <3>2. CASE creating[i] # n
      <4>1. \A u \in Thread : /\ toTask'[u] = n => toTask[u] = n
                              /\ toFuture'[u] = n => toFuture[u] = n
        BY <1>0, <3>1, <3>2, EnqueueMoves DEF DependencyDidResolve, enqueueVars
      <4> QED BY <3>1, <4>1 DEF Goal, Stays, At, HeldBy
    <3>3. CASE creating[i] = n
      <4>1. At(n, "creating", i)
        BY <3>3 DEF At
      <4>2. \A place, x : At(n, place, x) => place = "creating" /\ x = i
        BY <1>0, <4>1 DEF Sole
      <4>3. n \notin completed
        BY <1>0, <4>1 DEF InCourse
      <4>4. EnqueueNode(i, n)
        BY <3>1, <3>3 DEF DependencyDidResolve, DependenciesComplete
      <4>5. \A u \in Thread : toTask[u] # n /\ toFuture[u] # n
        BY <4>2 DEF At
      <4>6. \A place, x : At(n, place, x)' => place \in {"toTask", "toFuture"}
        BY <3>1, <4>2 DEF At, HeldBy
      <4>7. \E place, x : Only(n, place, x)'
        BY <1>0, <3>1, <4>4, <4>5, <4>6, EnqueueOnly
      <4> QED BY <4>1, <4>3, <4>7 DEF Goal, Moves
    <3> QED BY <3>2, <3>3
  <2> QED BY <1>4, <2>1, <2>2, <2>3 DEF CreateStep
<1>5. ASSUME NEW t \in Thread, PushTask(t) PROVE Goal
  <2>1. /\ UNCHANGED <<creating, toFuture, futureScheduled, collecting, collected, pc,
                       current, claimedWork>>
        /\ toTask' = [toTask EXCEPT ![t] = Nil]
        /\ taskQueue' = [taskQueue EXCEPT ![toTask[t]] = @ + 1]
        /\ toTask \in [Thread -> Node \cup {Nil}]
        /\ taskQueue \in [Node -> Nat]
        /\ n # Nil
    BY <1>0, <1>5, ThreadAssumption DEF PushTask, TypeOK
  <2>2. CASE toTask[t] # n
    BY <2>1, <2>2 DEF Goal, Stays, At, HeldBy
  <2>3. CASE toTask[t] = n
    <3>1. At(n, "toTask", t)
      BY <2>3 DEF At
    <3>2. \A place, x : At(n, place, x) => place = "toTask" /\ x = t
      BY <1>0, <3>1 DEF Sole
    <3>3. n \notin completed
      BY <1>0, <3>1 DEF InCourse
    <3>4. Only(n, "queue", Nil)'
      BY <2>1, <3>2 DEF Only, At, HeldBy
    <3> QED BY <3>1, <3>3, <3>4 DEF Goal, Moves
  <2> QED BY <2>2, <2>3
<1>6. ASSUME NEW t \in Thread, PushFuture(t) PROVE Goal
  <2>1. /\ UNCHANGED <<creating, toTask, taskQueue, collecting, collected, pc,
                       current, claimedWork>>
        /\ toFuture' = [toFuture EXCEPT ![t] = Nil]
        /\ futureScheduled' = [futureScheduled EXCEPT
             ![toFuture[t]][nextRetryAvailable[toFuture[t]]] = @ + 1]
        /\ toFuture \in [Thread -> Node \cup {Nil}]
        /\ toFuture[t] \in Node
        /\ futureScheduled \in [Node -> [Due -> Nat]]
        /\ n # Nil
    BY <1>0, <1>6, ThreadAssumption DEF PushFuture, TypeOK
  <2>2. CASE toFuture[t] # n
    BY <2>1, <2>2 DEF Goal, Stays, At, HeldBy
  <2>3. CASE toFuture[t] = n
    <3>1. At(n, "toFuture", t)
      BY <2>3 DEF At
    <3>2. \A place, x : At(n, place, x) => place = "toFuture" /\ x = t
      BY <1>0, <3>1 DEF Sole
    <3>3. n \notin completed
      BY <1>0, <3>1 DEF InCourse
    <3>4. \A x \in Due : ~(futureScheduled[n][x] > 0)
      BY <3>2 DEF At
    <3>5. \A x \in Due : futureScheduled'[n][x] > 0 => x = nextRetryAvailable[n]
      BY <2>1, <2>3, <3>4
    <3>6. \A place, x : At(n, place, x)' => place = "future" /\ x \in Due
      BY <2>1, <3>2 DEF At, HeldBy
    <3>7. \A place, x : At(n, place, x)' => place = "future" /\ x = nextRetryAvailable[n]
      BY <3>5, <3>6 DEF At
    <3>8. PICK due : due = nextRetryAvailable[n]
      OBVIOUS
    <3>9. Only(n, "future", due)'
      BY <3>7, <3>8 DEF Only
    <3> QED BY <3>1, <3>3, <3>9 DEF Goal, Moves
  <2> QED BY <2>2, <2>3
<1>7. CASE CollectStep
  <2>1. ASSUME NEW w \in Worker, CollectWorker(w) PROVE Goal
    <3>1. /\ UNCHANGED <<creating, enqueueVars, taskQueue, futureScheduled, pc, current,
                         claimedWork>>
          /\ collected' = claimedWork[w] /\ collecting' = w
          /\ collecting = Nil
          /\ pc[w] = "dead"
      BY <1>0, <2>1 DEF CollectWorker, OnlyDeadOverdue
    <3>2. \A u \in Worker : HeldBy(u, n)' => HeldBy(u, n) /\ u # w
      BY <1>0, <3>1 DEF HeldBy, Working, PC
    <3>3. CASE claimedWork[w][n] > 0
      <4>1. At(n, "worker", w)
        BY <1>0, <3>1, <3>3 DEF At, HeldBy
      <4>2. \A place, x : At(n, place, x) => place = "worker" /\ x = w
        BY <1>0, <4>1 DEF Sole
      <4>3. n \notin completed
        BY <1>0, <3>1, <4>1 DEF InCourse, Finishing
      <4>4. Only(n, "collector", Nil)'
        BY <3>1, <3>2, <4>2 DEF Only, At, enqueueVars
      <4> QED BY <4>1, <4>3, <4>4 DEF Goal, Moves
    <3>4. CASE ~(claimedWork[w][n] > 0)
      BY <3>1, <3>2, <3>4 DEF Goal, Stays, At, enqueueVars
    <3> QED BY <3>3, <3>4
  <2>2. ASSUME NEW m \in Node, FreeNode(m) PROVE Goal
    <3>1. /\ UNCHANGED <<creating, taskQueue, futureScheduled, collecting, pc, current,
                         claimedWork>>
          /\ collected[m] > 0
          /\ collected' = [collected EXCEPT ![m] = @ - 1]
          /\ collected \in [Node -> Nat]
          /\ GC \in Thread
          /\ EnqueueNode(GC, m)
      BY <1>0, <2>2 DEF FreeNode, TypeOK, Thread
    <3>2. CASE m # n
      <4>1. \A u \in Thread : /\ toTask'[u] = n => toTask[u] = n
                              /\ toFuture'[u] = n => toFuture[u] = n
        BY <1>0, <3>1, <3>2, EnqueueMoves
      <4> QED BY <3>1, <3>2, <4>1 DEF Goal, Stays, At, HeldBy
    <3>3. CASE m = n
      <4>1. At(n, "collector", Nil)
        BY <3>1, <3>3 DEF At
      <4>2. \A place, x : At(n, place, x) => place = "collector" /\ x = Nil
        BY <1>0, <4>1 DEF Sole
      <4>3. n \notin completed
        BY <1>0, <4>1 DEF InCourse
      <4>4. \A u \in Thread : toTask[u] # n /\ toFuture[u] # n
        BY <4>2 DEF At
      <4>5. ~(collected'[n] > 0)
        BY <1>0, <3>1, <3>3 DEF Once
      <4>6. \A place, x : At(n, place, x)' => place \in {"toTask", "toFuture"}
        BY <3>1, <4>2, <4>5 DEF At, HeldBy
      <4>7. \E place, x : Only(n, place, x)'
        BY <1>0, <3>1, <3>3, <4>4, <4>6, EnqueueOnly
      <4> QED BY <4>1, <4>3, <4>7 DEF Goal, Moves
    <3> QED BY <3>2, <3>3
  <2>3. CASE InvalidateWorker
    <3>1. UNCHANGED <<creating, enqueueVars, taskQueue, futureScheduled, collected>>
      BY <2>3 DEF InvalidateWorker
    <3>2. \A u \in Worker : HeldBy(u, n)' => HeldBy(u, n)
      BY <1>0, <2>3 DEF InvalidateWorker, HeldBy, NoNodes
    <3> QED BY <1>1, <3>1, <3>2
  <2> QED BY <1>7, <2>1, <2>2, <2>3 DEF CollectStep
<1>8. CASE SchedulerStep
  <2>1. CASE LockFuture BY <1>1, <2>1 DEF LockFuture, HeldBy
  <2>2. ASSUME NEW m \in Node, NEW t \in Due, PopDue(m, t) PROVE Goal
    <3>1. /\ UNCHANGED <<creating, taskQueue, collecting, collected, pc, current,
                         claimedWork>>
          /\ futureScheduled[m][t] > 0
          /\ futureScheduled' = [futureScheduled EXCEPT ![m][t] = @ - 1]
          /\ futureScheduled \in [Node -> [Due -> Nat]]
          /\ Scheduler \in Thread
          /\ EnqueueNode(Scheduler, m)
      BY <1>0, <2>2 DEF PopDue, FutureEntries, TypeOK, Thread
    <3>2. CASE m # n
      <4>1. \A u \in Thread : /\ toTask'[u] = n => toTask[u] = n
                              /\ toFuture'[u] = n => toFuture[u] = n
        BY <1>0, <3>1, <3>2, EnqueueMoves
      <4> QED BY <3>1, <3>2, <4>1 DEF Goal, Stays, At, HeldBy
    <3>3. CASE m = n
      <4>1. At(n, "future", t)
        BY <3>1, <3>3 DEF At
      <4>2. \A place, x : At(n, place, x) => place = "future" /\ x = t
        BY <1>0, <4>1 DEF Sole
      <4>3. n \notin completed
        BY <1>0, <4>1 DEF InCourse
      <4>4. \A u \in Thread : toTask[u] # n /\ toFuture[u] # n
        BY <4>2 DEF At
      <4>5. \A x \in Due : x # t => ~(futureScheduled[n][x] > 0)
        BY <4>2 DEF At
      <4>6. \A x \in Due : ~(futureScheduled'[n][x] > 0)
        BY <1>0, <3>1, <3>3, <4>5 DEF Once
      <4>7. \A place, x : At(n, place, x)' => place \in {"toTask", "toFuture"}
        BY <3>1, <4>2, <4>6 DEF At, HeldBy
      <4>8. \E place, x : Only(n, place, x)'
        BY <1>0, <3>1, <3>3, <4>4, <4>7, EnqueueOnly
      <4> QED BY <4>1, <4>3, <4>8 DEF Goal, Moves
    <3> QED BY <3>2, <3>3
  <2>3. CASE UnlockFuture BY <1>1, <2>3 DEF UnlockFuture, HeldBy
  <2> QED BY <1>8, <2>1, <2>2, <2>3 DEF SchedulerStep
<1>9. CASE Tick BY <1>1, <1>9 DEF Tick, HeldBy
<1>10. CASE UNCHANGED vars BY <1>1, <1>10 DEF HeldBy
<1> QED
  BY <1>2, <1>3, <1>4, <1>5, <1>6, <1>7, <1>8, <1>9, <1>10 DEF Next

\* No queue and no worker gets a root a second time.
LEMMA StepOnce ==
  ASSUME LatePings = {}, WorkersInOrder, ClaimsCurrent, [Next]_vars,
         NEW n \in Node, SourcesOf(n) = {}, Token(n)
  PROVE  Once(n)'
<1> USE DEF vars, instanceVars, nodeVars, queueVars, workerVars, handlerVars, loopVars
<1>0. /\ TypeOK /\ OnlyDeadOverdue
      /\ Sole(n) /\ Once(n) /\ OnRecord(n)
      /\ NoNodes[n] = 0
      /\ \A w \in Worker : claimedWork[w][n] \in Nat
      /\ \A t \in Due : futureScheduled[n][t] \in Nat
  BY DEF WorkersInOrder, Token, NoNodes, TypeOK
<1>1. ASSUME UNCHANGED <<taskQueue, collected, futureScheduled, claimedWork>>
      PROVE  Once(n)'
  BY <1>0, <1>1 DEF Once
<1>2. ASSUME NEW w \in Worker, ClientStep(w) PROVE Once(n)'
  BY <1>1, <1>2 DEF ClientStep, NewWorker, Ping, MissPing, Crash, GetWork, SubmitWork,
                    SubmitFailure
<1>3. ASSUME NEW w \in Worker, HandlerStep(w) PROVE Once(n)'
  <2>1. CASE PopNextNode(w)
    <3>1. CASE UNCHANGED <<taskQueue, dequeueWorker, claimedWork, current>>
      BY <1>1, <2>1, <3>1 DEF PopNextNode
    <3>2. ASSUME NEW m \in TopNodes(GetAllowedQueues(w)),
                 taskQueue' = [taskQueue EXCEPT ![m] = @ - 1],
                 claimedWork' = Claim(w, m)
          PROVE  Once(n)'
      <4>1. m \in Node
        BY <3>2 DEF TopNodes, Waiting
      <4>2. claimedWork[w][n] = 0
        BY <1>0, <2>1 DEF PopNextNode, OnRecord, Claiming
      <4> QED BY <1>0, <2>1, <3>2, <4>1, <4>2 DEF PopNextNode, Claim, Once, TypeOK
    <3> QED BY <2>1, <3>1, <3>2 DEF PopNextNode
  <2>2. CASE ReleaseWorkerLock(w)
    <3>1. \A u \in Worker : claimedWork'[u][n] <= 1
      BY <1>0, <2>2, ReleaseOfOne DEF Once
    <3> QED BY <1>0, <2>2, <3>1 DEF ReleaseWorkerLock, Once
  <2>3. CASE ~PopNextNode(w) /\ ~ReleaseWorkerLock(w)
    BY <1>1, <1>3, <2>3 DEF HandlerStep, Complete, ReadOwner, ReadClaims, ReadDestinations, Notify,
                            Resolved, BackoffNode, Requeue
  <2> QED BY <2>1, <2>2, <2>3
<1>4. ASSUME NEW i \in Instance, CreateStep(i) PROVE Once(n)'
  BY <1>1, <1>4 DEF CreateStep, CreateInstance, NewNode, ResolveNewNode
<1>5. ASSUME NEW t \in Thread, PushTask(t) PROVE Once(n)'
  <2>1. toTask[t] = n => taskQueue[n] = 0
    <3>1. toTask[t] = n => At(n, "toTask", t)
      BY DEF At
    <3>2. taskQueue[n] > 0 => At(n, "queue", Nil)
      BY DEF At
    <3> QED BY <1>0, <3>1, <3>2 DEF Sole, TypeOK
  <2> QED BY <1>0, <1>5, <2>1 DEF PushTask, Once, TypeOK
<1>6. ASSUME NEW t \in Thread, PushFuture(t) PROVE Once(n)'
  <2>1. toFuture[t] = n => \A x \in Due : futureScheduled[n][x] = 0
    <3>1. toFuture[t] = n => At(n, "toFuture", t)
      BY DEF At
    <3>2. \A x \in Due : futureScheduled[n][x] > 0 => At(n, "future", x)
      BY DEF At
    <3> QED BY <1>0, <3>1, <3>2 DEF Sole
  <2> QED BY <1>0, <1>6, <2>1 DEF PushFuture, Once, TypeOK
<1>7. CASE CollectStep
  <2>1. ASSUME NEW w \in Worker, CollectWorker(w) PROVE Once(n)'
    BY <1>0, <2>1 DEF CollectWorker, Once
  <2>2. ASSUME NEW m \in Node, FreeNode(m) PROVE Once(n)'
    BY <1>0, <2>2 DEF FreeNode, Once, TypeOK
  <2>3. CASE InvalidateWorker
    BY <1>0, <2>3 DEF InvalidateWorker, Once, TypeOK
  <2> QED BY <1>7, <2>1, <2>2, <2>3 DEF CollectStep
<1>8. CASE SchedulerStep
  <2>1. CASE LockFuture BY <1>1, <2>1 DEF LockFuture
  <2>2. ASSUME NEW m \in Node, NEW t \in Due, PopDue(m, t) PROVE Once(n)'
    BY <1>0, <2>2 DEF PopDue, Once, TypeOK
  <2>3. CASE UnlockFuture BY <1>1, <2>3 DEF UnlockFuture
  <2> QED BY <1>8, <2>1, <2>2, <2>3 DEF SchedulerStep
<1>9. CASE Tick BY <1>1, <1>9 DEF Tick
<1>10. CASE UNCHANGED vars BY <1>1, <1>10
<1> QED
  BY <1>2, <1>3, <1>4, <1>5, <1>6, <1>7, <1>8, <1>9, <1>10 DEF Next

\* Only the call that completes a root goes on with it.
LEMMA StepInCourse ==
  ASSUME LatePings = {}, WorkersInOrder, ClaimsCurrent, [Next]_vars,
         NEW n \in Node, SourcesOf(n) = {}, Token(n)
  PROVE  InCourse(n)'
<1> USE DEF vars, instanceVars, nodeVars, queueVars, workerVars, handlerVars, loopVars
<1>0. /\ TypeOK
      /\ Sole(n) /\ InCourse(n) /\ OnRecord(n)
      /\ pc \in [Worker -> PC]
      /\ current \in [Worker -> Node \cup {Nil}]
      /\ \A w \in Worker : claimedWork[w][n] \in Nat
  BY DEF WorkersInOrder, Token, TypeOK
<1>1. ASSUME NEW w \in Worker, Complete(w) PROVE InCourse(n)'
  <2>1. \A p, x : At(n, p, x)' => At(n, p, x)
    BY <1>0, <1>1 DEF Complete, At, HeldBy, enqueueVars, PC, Working
  <2>2. /\ nodes' = nodes
        /\ completed' = completed \cup {current[w]}
        /\ current' = current
        /\ pc[w] = "resolving"
        /\ pc' = [pc EXCEPT ![w] = "releasing"]
    BY <1>1 DEF Complete
  <2>3. CASE current[w] = n
    <3>1. At(n, "worker", w)
      BY <2>2, <2>3 DEF At, HeldBy, PC, Working
    <3>2. \A p, x : At(n, p, x)' => p = "worker" /\ x = w
      BY <1>0, <2>1, <3>1 DEF Sole
    <3>3. n \in nodes
      BY <1>0, <3>1 DEF InCourse, Nowhere
    <3> QED BY <1>0, <2>2, <2>3, <3>2, <3>3 DEF InCourse, Finishing
  <2>4. CASE current[w] # n
    <3>1. n \notin nodes' => Nowhere(n)' /\ n \notin completed'
      BY <1>0, <2>1, <2>2, <2>4 DEF InCourse, Nowhere
    <3>2. ASSUME n \in completed', NEW p, NEW x, At(n, p, x)'
          PROVE  p = "worker" /\ current'[x] = n /\ pc'[x] \in Finishing
      <4>1. p = "worker" /\ current[x] = n /\ pc[x] \in Finishing
        BY <1>0, <2>1, <2>2, <2>4, <3>2 DEF InCourse
      <4> QED BY <1>0, <2>2, <2>4, <4>1
    <3> QED BY <3>1, <3>2 DEF InCourse
  <2> QED BY <2>3, <2>4
<1>2. ASSUME \A w \in Worker : ~Complete(w) PROVE InCourse(n)'
  <2> DEFINE Goal ==
        /\ completed' = completed /\ nodes \subseteq nodes'
        /\ \A x \in Worker : current[x] = n /\ pc[x] \in Finishing /\ HeldBy(x, n)'
                               => current'[x] = n /\ pc'[x] \in Finishing
  <2>1. Goal
    <3>1. ASSUME NEW w \in Worker, ClientStep(w) PROVE Goal
      BY <1>0, <3>1 DEF ClientStep, NewWorker, Ping, MissPing, Crash, GetWork, SubmitWork,
                        SubmitFailure, Refuse, Finishing
    <3>2. ASSUME NEW w \in Worker, HandlerStep(w) PROVE Goal
      <4>1. CASE Resolved(w)
        <5>1. claimedWork[w][n] = 0
          BY <1>0, <4>1 DEF Resolved, OnRecord, Claiming
        <5>2. ~HeldBy(w, n)'
          BY <1>0, <4>1, <5>1 DEF Resolved, HeldBy, Working, PC
        <5> QED BY <1>0, <4>1, <5>2 DEF Resolved
      <4>2. CASE PopNextNode(w)
        BY <1>0, <4>2 DEF PopNextNode, Finishing
      <4>3. CASE BackoffNode(w) \/ Requeue(w)
        BY <1>0, <4>3 DEF BackoffNode, Requeue, Finishing
      <4>4. CASE ReadOwner(w)
        BY <1>0, <4>4 DEF ReadOwner, Finishing
      <4>6. CASE ReadClaims(w) \/ ReleaseWorkerLock(w) \/ ReadDestinations(w)
        BY <1>0, <4>6 DEF ReadClaims, ReleaseWorkerLock, ReadDestinations, Finishing
      <4>5. ASSUME NEW d \in Node, Notify(w, d) PROVE Goal
        BY <4>5 DEF Notify
      <4> QED BY <1>2, <3>2, <4>1, <4>2, <4>3, <4>4, <4>5, <4>6 DEF HandlerStep
    <3>3. ASSUME NEW i \in Instance, CreateStep(i) PROVE Goal
      BY <3>3 DEF CreateStep, CreateInstance, NewNode, ResolveNewNode
    <3>4. ASSUME NEW t \in Thread, PushTask(t) \/ PushFuture(t) PROVE Goal
      BY <3>4 DEF PushTask, PushFuture
    <3>5. CASE CollectStep
      BY <3>5 DEF CollectStep, CollectWorker, FreeNode, InvalidateWorker
    <3>6. CASE SchedulerStep
      BY <3>6 DEF SchedulerStep, LockFuture, PopDue, UnlockFuture
    <3>7. CASE Tick BY <3>7 DEF Tick
    <3>8. CASE UNCHANGED vars BY <3>8
    <3> QED BY <3>1, <3>2, <3>3, <3>4, <3>5, <3>6, <3>7, <3>8 DEF Next
  <2>2. CASE Stays(n)
    <3>1. n \notin nodes' => Nowhere(n)' /\ n \notin completed'
      BY <1>0, <2>1, <2>2 DEF InCourse, Nowhere, Stays
    <3>2. ASSUME n \in completed', NEW p, NEW x, At(n, p, x)'
          PROVE  p = "worker" /\ current'[x] = n /\ pc'[x] \in Finishing
      <4>1. p = "worker" /\ current[x] = n /\ pc[x] \in Finishing
        BY <1>0, <2>1, <2>2, <3>2 DEF InCourse, Stays
      <4>2. x \in Worker /\ HeldBy(x, n)'
        BY <3>2, <4>1 DEF At
      <4> QED BY <2>1, <4>1, <4>2
    <3> QED BY <3>1, <3>2 DEF InCourse
  <2>3. CASE Moves(n)
    BY <1>0, <2>1, <2>3 DEF Moves, InCourse, Nowhere
  <2>4. CASE Enters(n)
    BY <1>0, <2>1, <2>4 DEF Enters, InCourse
  <2> QED BY <2>2, <2>3, <2>4, StepPlaces
<1> QED BY <1>1, <1>2

\* A root stays on the record of the worker that has it in hand.
LEMMA StepOnRecord ==
  ASSUME LatePings = {}, WorkersInOrder, ClaimsCurrent, [Next]_vars,
         NEW n \in Node, SourcesOf(n) = {}, Token(n)
  PROVE  OnRecord(n)'
<1> USE DEF vars, instanceVars, nodeVars, queueVars, workerVars, handlerVars, loopVars
<1>0. /\ TypeOK /\ OnlyDeadOverdue /\ DequeuedInHand
      /\ Sole(n) /\ OnRecord(n)
      /\ NoNodes[n] = 0
      /\ pc \in [Worker -> PC]
      /\ current \in [Worker -> Node \cup {Nil}]
      /\ release \in [Worker -> Release]
      /\ dequeueWorker \in [Node -> Worker \cup {Nil}]
      /\ \A w \in Worker : claimedWork[w][n] \in Nat
      /\ Nil \notin Worker /\ n # Nil
  BY ThreadAssumption DEF WorkersInOrder, Token, NoNodes, TypeOK, Thread
<1>1. \A u, v \in Worker : HeldBy(u, n) /\ HeldBy(v, n) => u = v
  <2>1. \A u \in Worker : HeldBy(u, n) => At(n, "worker", u)
    BY DEF At
  <2> QED BY <1>0, <2>1 DEF Sole
<1>2. \A u \in Worker : HeldBy(u, n) => taskQueue[n] = 0 /\ collected[n] = 0
  <2>1. \A u \in Worker : HeldBy(u, n) => At(n, "worker", u)
    BY DEF At
  <2>2. (taskQueue[n] > 0 => At(n, "queue", Nil)) /\ (collected[n] > 0 => At(n, "collector", Nil))
    BY DEF At
  <2> QED BY <1>0, <2>1, <2>2 DEF Sole, TypeOK
<1>3. \A u \in Worker : current[u] = n /\ pc[u] \in Claiming => HeldBy(u, n)
  BY DEF HeldBy, Claiming, Working, PC
<1>4. ASSUME UNCHANGED <<claimedWork, dequeueWorker, pc, current, release, notify>>
      PROVE  OnRecord(n)'
  BY <1>0, <1>4 DEF OnRecord
<1>5. ASSUME NEW w \in Worker, ClientStep(w) PROVE OnRecord(n)'
  <2>1. /\ UNCHANGED <<claimedWork, dequeueWorker, release, notify>>
        /\ \A u \in Worker : u # w => pc'[u] = pc[u] /\ current'[u] = current[u]
        /\ pc[w] = "dead" => pc'[w] = "dead" /\ current'[w] = current[w]
        /\ pc[w] \in Claiming => \/ pc'[w] = "dead" /\ current'[w] = Nil
                                 \/ /\ pc'[w] \in {pc[w], "resolving", "failing"}
                                    /\ current'[w] = current[w]
        /\ pc'[w] \in Claiming => /\ current'[w] = current[w] /\ pc[w] \in Claiming
                                  /\ pc'[w] \in {pc[w], "resolving", "failing"}
    BY <1>0, <1>5 DEF ClientStep, NewWorker, Ping, MissPing, Crash, GetWork, SubmitWork,
                      SubmitFailure, Refuse, Claiming
  <2> QED BY <1>0, <2>1 DEF OnRecord, Claiming
<1>6. ASSUME NEW w \in Worker, HandlerStep(w) PROVE OnRecord(n)'
  <2>1. CASE PopNextNode(w)
    <3>1. claimedWork[w][n] = 0 /\ \A m \in Node : dequeueWorker[m] # w
      BY <1>0, <2>1 DEF PopNextNode, OnRecord, DequeuedInHand, Claiming
    <3>2. CASE /\ pc' = [pc EXCEPT ![w] = "idle"]
               /\ UNCHANGED <<taskQueue, dequeueWorker, claimedWork, current>>
      BY <1>0, <2>1, <3>1, <3>2 DEF PopNextNode, OnRecord, Claiming
    <3>3. ASSUME NEW m \in TopNodes(GetAllowedQueues(w)),
                 dequeueWorker' = [dequeueWorker EXCEPT ![m] = w],
                 claimedWork' = Claim(w, m),
                 pc' = [pc EXCEPT ![w] = "executing"],
                 current' = [current EXCEPT ![w] = m]
          PROVE  OnRecord(n)'
      <4>1. m \in Node /\ taskQueue[m] > 0
        BY <3>3 DEF TopNodes, Waiting
      <4>2. /\ claimedWork'[w][n] > 0 => m = n
            /\ \A u \in Worker : u # w => claimedWork'[u][n] = claimedWork[u][n]
        BY <1>0, <3>1, <3>3, <4>1 DEF Claim, TypeOK
      <4>3. UNCHANGED <<release, notify>>
        BY <2>1 DEF PopNextNode
      <4>4. m = n => \A u \in Worker : ~HeldBy(u, n)
        BY <1>2, <4>1
      <4> QED BY <1>0, <1>3, <3>1, <3>3, <4>1, <4>2, <4>3, <4>4 DEF OnRecord, Claiming
    <3> QED BY <2>1, <3>2, <3>3 DEF PopNextNode
  <2>2. CASE Complete(w)
    BY <1>0, <2>2 DEF Complete, OnRecord, Claiming
  <2>3. CASE ReadOwner(w) \/ ReadClaims(w)
    <3>1. /\ UNCHANGED <<claimedWork, dequeueWorker, current, notify>>
          /\ \A u \in Worker : u # w => pc'[u] = pc[u] /\ release'[u] = release[u]
          /\ pc[w] \in Claiming /\ pc'[w] \in Claiming
      BY <1>0, <2>3 DEF ReadOwner, ReadClaims, Claiming
    <3>2. CASE ReadOwner(w)
      <4>1. current[w] = n => /\ pc'[w] \notin {"clearing", "clearingFailed"}
                              /\ release'[w].owner = w
        BY <1>0, <3>1, <3>2 DEF ReadOwner, OnRecord, Release
      <4> QED BY <1>0, <3>1, <4>1 DEF OnRecord, Claiming
    <3>3. CASE ReadClaims(w)
      <4>1. current[w] = n => release[w].owner = w
        BY <1>0, <3>3 DEF ReadClaims, OnRecord
      <4>2. current[w] = n => ClaimsWithout(w, n)[n] = 0
        BY <1>0, <3>3 DEF ClaimsWithout, TypeOK
      <4>3. current[w] = n => release'[w].owner = w /\ release'[w].claims[n] = 0
        BY <1>0, <3>3, <4>1, <4>2 DEF ReadClaims, Release
      <4>4. pc'[w] \in {"clearing", "clearingFailed"}
        BY <1>0, <3>3 DEF ReadClaims
      <4> QED BY <1>0, <3>1, <4>3, <4>4 DEF OnRecord, Claiming
    <3> QED BY <2>3, <3>2, <3>3
  <2>4. CASE ReleaseWorkerLock(w)
    <3>1. /\ UNCHANGED <<current, notify>>
          /\ \A u \in Worker : u # w => pc'[u] = pc[u]
          /\ pc[w] \in {"clearing", "clearingFailed"}
          /\ pc'[w] \notin Claiming
          /\ current[w] \in Node
          /\ dequeueWorker' = [dequeueWorker EXCEPT ![current[w]] = Nil]
          /\ release' = [release EXCEPT ![w] = NoRelease]
      BY <1>0, <2>4 DEF ReleaseWorkerLock, Claiming, TypeOK, PC, Working
    <3>2. \A u \in Worker :
            claimedWork'[u][n] = IF u = w /\ current[w] = n THEN 0 ELSE claimedWork[u][n]
      BY <1>0, <2>4, ReleaseOfOne
    <3>3. ~(claimedWork'[w][n] > 0)
      BY <1>0, <3>1, <3>2 DEF OnRecord, Claiming
    <3>4. \A u \in Worker : claimedWork'[u][n] > 0 => claimedWork[u][n] > 0 /\ u # w
      BY <1>0, <3>2, <3>3
    <3>5. \A u \in Worker : u # w /\ current[u] = n /\ pc[u] \in Claiming => current[w] # n
      BY <1>1, <1>3, <3>1 DEF Claiming
    <3>6. \A u \in Worker : u # w => release'[u] = release[u]
      BY <1>0, <3>1
    <3> QED BY <1>0, <3>1, <3>3, <3>4, <3>5, <3>6 DEF OnRecord, Claiming
  <2>5. CASE ReadDestinations(w)
    <3>1. current[w] \in Node
      BY <1>0, <2>5 DEF ReadDestinations, TypeOK, PC, Working
    <3>2. Destinations(current[w])[n] = 0
      BY <3>1, NodeAssumption DEF Destinations, SourcesOf
    <3>3. \A u \in Worker : notify'[u][n] = 0
      BY <1>0, <2>5, <3>2 DEF ReadDestinations, OnRecord, TypeOK
    <3> QED BY <1>0, <2>5, <3>3 DEF ReadDestinations, OnRecord, Claiming
  <2>6. ASSUME NEW d \in Node, Notify(w, d) PROVE OnRecord(n)'
    <3>1. d # n
      BY <1>0, <2>6 DEF Notify, OnRecord
    <3>2. \A u \in Worker : notify'[u][n] = 0
      BY <1>0, <2>6, <3>1 DEF Notify, OnRecord, TypeOK
    <3> QED BY <1>0, <2>6, <3>2 DEF Notify, OnRecord
  <2>7. CASE Resolved(w)
    BY <1>0, <2>7 DEF Resolved, OnRecord, Claiming
  <2>8. CASE BackoffNode(w)
    BY <1>0, <2>8 DEF BackoffNode, OnRecord, Claiming
  <2>9. CASE Requeue(w)
    BY <1>0, <2>9 DEF Requeue, OnRecord, Claiming
  <2> QED
    BY <1>6, <2>1, <2>2, <2>3, <2>4, <2>5, <2>6, <2>7, <2>8, <2>9 DEF HandlerStep
<1>7. ASSUME NEW i \in Instance, CreateStep(i) PROVE OnRecord(n)'
  BY <1>4, <1>7 DEF CreateStep, CreateInstance, NewNode, ResolveNewNode
<1>8. ASSUME NEW t \in Thread, PushTask(t) \/ PushFuture(t) PROVE OnRecord(n)'
  BY <1>4, <1>8 DEF PushTask, PushFuture
<1>9. CASE CollectStep
  <2>1. ASSUME NEW w \in Worker, CollectWorker(w) PROVE OnRecord(n)'
    BY <1>4, <2>1 DEF CollectWorker
  <2>2. ASSUME NEW m \in Node, FreeNode(m) PROVE OnRecord(n)'
    <3>1. /\ UNCHANGED <<claimedWork, pc, current, release, notify>>
          /\ dequeueWorker' = [dequeueWorker EXCEPT ![m] = Nil]
          /\ collected[m] > 0
      BY <2>2 DEF FreeNode
    <3>2. m = n => \A u \in Worker : ~(current[u] = n /\ pc[u] \in Claiming)
      BY <1>2, <1>3, <3>1
    <3> QED BY <1>0, <3>1, <3>2 DEF OnRecord
  <2>3. CASE InvalidateWorker
    <3>1. \A u \in Worker : claimedWork'[u][n] > 0 => claimedWork[u][n] > 0
      BY <1>0, <2>3 DEF InvalidateWorker, TypeOK
    <3> QED BY <1>0, <2>3, <3>1 DEF InvalidateWorker, OnRecord
  <2> QED BY <1>9, <2>1, <2>2, <2>3 DEF CollectStep
<1>10. CASE SchedulerStep
  BY <1>4, <1>10 DEF SchedulerStep, LockFuture, PopDue, UnlockFuture
<1>11. CASE Tick BY <1>4, <1>11 DEF Tick
<1>12. CASE UNCHANGED vars BY <1>4, <1>12
<1> QED
  BY <1>5, <1>6, <1>7, <1>8, <1>9, <1>10, <1>11, <1>12 DEF Next

\* A root that is a token remains one.
LEMMA TokenKept ==
  ASSUME LatePings = {}, WorkersInOrder, ClaimsCurrent, [Next]_vars,
         NEW n \in Node, SourcesOf(n) = {}, Token(n)
  PROVE  Token(n)'
<1>1. Sole(n)'
  BY StepPlaces DEF Token, Sole, Stays, Moves, Enters, Only
<1> QED
  BY <1>1, StepOnce, StepInCourse, StepOnRecord DEF Token

\* Every root is a token.
RootsAreTokens == \A n \in Node : SourcesOf(n) = {} => Token(n)

LEMMA StepToken ==
  ASSUME LatePings = {}, WorkersInOrder, ClaimsCurrent, RootsAreTokens, [Next]_vars
  PROVE  RootsAreTokens'
<1> SUFFICES ASSUME NEW n \in Node, SourcesOf(n) = {}, Token(n)
             PROVE  Token(n)'
  BY DEF RootsAreTokens
<1> QED BY TokenKept

\* While only dead workers miss their pings, every root is a token for ever.
LEMMA TokenInvariant ==
  ASSUME LatePings = {}
  PROVE  Spec /\ []ClaimsCurrent => [](WorkersInOrder /\ RootsAreTokens)
<1>1. Init => RootsAreTokens
  <2> SUFFICES ASSUME Init, NEW n \in Node PROVE Token(n)
    BY DEF RootsAreTokens
  <2>1. n # Nil /\ n \notin nodes /\ n \notin completed
    BY ThreadAssumption DEF Init
  <2>2. Nowhere(n)
    BY <2>1 DEF Init, Nowhere, At, HeldBy, NoNodes, Working
  <2>3. OnRecord(n)
    BY <2>1 DEF Init, OnRecord, NoRelease, NoNodes, Claiming
  <2>4. Once(n)
    BY DEF Init, Once, NoNodes
  <2> QED BY <2>1, <2>2, <2>3, <2>4 DEF Token, Sole, InCourse, Nowhere
<1> QED
  BY WorkersInvariant, StepToken, <1>1, PTL DEF Spec

\* The worker that executes a root has sole control over it, whatever graph the other
\* nodes form: no other worker executes it, no queue has it, and it is not completed.
THEOREM RootsAreUnderSoleControl ==
  ASSUME LatePings = {}
  PROVE  Spec /\ []ClaimsCurrent => []RootSoleControl
<1>1. WorkersInOrder /\ RootsAreTokens => RootSoleControl
  <2> SUFFICES ASSUME RootsAreTokens, NEW n \in Node, SourcesOf(n) = {},
                      NEW w \in Worker, Executing(w, n)
               PROVE  /\ \A v \in Worker : Executing(v, n) => v = w
                      /\ ~Queued(n)
                      /\ n \notin completed
    BY DEF RootSoleControl
  <2>1. Sole(n) /\ InCourse(n)
    BY DEF RootsAreTokens, Token
  <2>2. \A v \in Worker : Executing(v, n) => At(n, "worker", v)
    BY DEF Executing, At, HeldBy, PC, Working
  <2>3. \A v \in Worker : Executing(v, n) => v = w
    BY <2>1, <2>2 DEF Sole
  <2>4. \A place, x : At(n, place, x) => place = "worker"
    BY <2>1, <2>2 DEF Sole
  <2>5. ~Queued(n)
    BY <2>4 DEF Queued, At
  <2>6. n \notin completed
    BY <2>1, <2>2 DEF InCourse, Executing, Finishing
  <2> QED BY <2>3, <2>5, <2>6
<1> QED
  BY TokenInvariant, <1>1, PTL
=============================================================================
