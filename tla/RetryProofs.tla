---------------------------- MODULE RetryProofs ----------------------------
(***************************************************************************)
(* Theorems about retries: their times, how many there are, and that the   *)
(* scheduler survives them, which rest on the roots being tokens           *)
(* (RootProofs); and that no node of any graph is lost on the way.         *)
(***************************************************************************)
EXTENDS RootProofs

-----------------------------------------------------------------------------
(***************************************************************************)
(* The time of a retry.  BackoffNode sets it while the root is with its    *)
(* worker and PushTask clears it as the root enters the queue, so it does  *)
(* not change while a thread that has compared it with the clock is about  *)
(* to push the root, or while the retry queue has it.                      *)
(***************************************************************************)
OnTime(n) ==
  /\ \A t \in Thread : toTask[t] = n => nextRetryAvailable[n] <= now
  /\ \A t \in Due : futureScheduled[n][t] > 0 => nextRetryAvailable[n] = t

\* The time is set only while the root is with a worker, or cleared by its push.
LEMMA RetryTimeChanges ==
  ASSUME TypeOK, [Next]_vars, NEW n \in Node, nextRetryAvailable'[n] # nextRetryAvailable[n]
  PROVE  \/ \E t \in Thread : PushTask(t) /\ toTask[t] = n
         \/ \E w \in Worker : BackoffNode(w) /\ current[w] = n
<1> USE DEF vars, nodeVars, queueVars
<1>0. /\ nextRetryAvailable \in [Node -> Due]
      /\ toTask \in [Thread -> Node \cup {Nil}]
      /\ current \in [Worker -> Node \cup {Nil}]
  BY DEF TypeOK
<1>1. ASSUME NEW w \in Worker, ClientStep(w) PROVE nextRetryAvailable' = nextRetryAvailable
  BY <1>1 DEF ClientStep, NewWorker, Ping, MissPing, Crash, GetWork, SubmitWork,
              SubmitFailure
<1>2. ASSUME NEW w \in Worker, HandlerStep(w), ~BackoffNode(w)
      PROVE  nextRetryAvailable' = nextRetryAvailable
  BY <1>2 DEF HandlerStep, PopNextNode, Complete, ReadOwner, ReadClaims, ReleaseWorkerLock,
              ReadDestinations, Notify, Resolved, Requeue
<1>3. ASSUME NEW w \in Worker, BackoffNode(w) PROVE current[w] = n
  BY <1>0, <1>3 DEF BackoffNode
<1>4. ASSUME NEW i \in Instance, CreateStep(i)
      PROVE  nextRetryAvailable' = nextRetryAvailable
  BY <1>4 DEF CreateStep, CreateInstance, NewNode, ResolveNewNode
<1>5. ASSUME NEW t \in Thread, PushTask(t) PROVE toTask[t] = n
  BY <1>0, <1>5 DEF PushTask
<1>6. ASSUME NEW t \in Thread, PushFuture(t) PROVE nextRetryAvailable' = nextRetryAvailable
  BY <1>6 DEF PushFuture
<1>7. CollectStep => nextRetryAvailable' = nextRetryAvailable
  BY DEF CollectStep, CollectWorker, FreeNode, InvalidateWorker
<1>8. SchedulerStep => nextRetryAvailable' = nextRetryAvailable
  BY DEF SchedulerStep, LockFuture, PopDue, UnlockFuture
<1>9. Tick => nextRetryAvailable' = nextRetryAvailable
  BY DEF Tick
<1>10. UNCHANGED vars => nextRetryAvailable' = nextRetryAvailable
  OBVIOUS
<1> QED
  BY <1>1, <1>2, <1>3, <1>4, <1>5, <1>6, <1>7, <1>8, <1>9, <1>10 DEF Next

\* A thread gets a node to push only when its time has come, and the retry queue
\* gets it with its time.
LEMMA DueWhenPushed ==
  ASSUME TypeOK, [Next]_vars, NEW n \in Node
  PROVE  /\ now <= now'
         /\ \A t \in Thread : toTask'[t] = n =>
              toTask[t] = n \/ nextRetryAvailable[n] <= now
         /\ \A t \in Due : futureScheduled'[n][t] > 0 =>
              \/ futureScheduled[n][t] > 0
              \/ nextRetryAvailable[n] = t /\ \E u \in Thread : toFuture[u] = n
<1> DEFINE Pushes == \A t \in Thread : toTask'[t] = n =>
                       toTask[t] = n \/ nextRetryAvailable[n] <= now
           Goal == /\ now <= now'
                   /\ Pushes
                   /\ \A t \in Due : futureScheduled'[n][t] > 0 =>
                        \/ futureScheduled[n][t] > 0
                        \/ /\ nextRetryAvailable[n] = t
                           /\ \E u \in Thread : toFuture[u] = n
<1> USE DEF vars, nodeVars, queueVars
<1>0. /\ nextRetryAvailable \in [Node -> Due]
      /\ toTask \in [Thread -> Node \cup {Nil}]
      /\ creating \in [Instance -> Node \cup {Nil}]
      /\ current \in [Worker -> Node \cup {Nil}]
      /\ futureScheduled \in [Node -> [Due -> Nat]]
      /\ now \in Nat
      /\ n # Nil
      /\ GC \in Thread /\ Scheduler \in Thread
  BY ThreadAssumption DEF TypeOK, Thread
<1>a. \A m \in Node : nextRetryAvailable[m] \in Int
  BY <1>0, HorizonAssumption DEF Due
<1>1. ASSUME NEW t \in Thread, NEW m \in Node, EnqueueNode(t, m) PROVE Pushes
  <2>1. CASE BackedOff(m)
    BY <1>1, <2>1 DEF EnqueueNode
  <2>2. CASE ~BackedOff(m)
    <3>1. nextRetryAvailable[m] <= now
      BY <1>0, <1>a, <2>2 DEF BackedOff
    <3> QED BY <1>0, <1>1, <2>2, <3>1 DEF EnqueueNode
  <2> QED BY <2>1, <2>2
<1>2. ASSUME NEW t \in Thread, NEW m \in Node, DependencyDidResolve(t, m) PROVE Pushes
  BY <1>1, <1>2 DEF DependencyDidResolve, enqueueVars
<1> HIDE DEF Pushes
<1>3. ASSUME UNCHANGED toTask PROVE Pushes
  BY <1>3 DEF Pushes
<1>4. ASSUME NEW w \in Worker, ClientStep(w) PROVE Goal
  BY <1>0, <1>3, <1>4
  DEF ClientStep, NewWorker, Ping, MissPing, Crash, GetWork, SubmitWork, SubmitFailure,
      enqueueVars
<1>5. ASSUME NEW w \in Worker, HandlerStep(w) PROVE Goal
  <2>1. ASSUME NEW d \in Node, Notify(w, d) PROVE Goal
    BY <1>0, <1>2, <2>1 DEF Notify, Thread
  <2>2. CASE Requeue(w)
    <3>1. current[w] \in Node
      BY <2>2 DEF Requeue, TypeOK, Working, PC
    <3> QED BY <1>0, <1>1, <2>2, <3>1 DEF Requeue, Thread
  <2>3. CASE ~Requeue(w) /\ ~\E d \in Node : Notify(w, d)
    BY <1>0, <1>3, <1>5, <2>3
    DEF HandlerStep, PopNextNode, Complete, ReadOwner, ReadClaims, ReleaseWorkerLock,
        ReadDestinations, Resolved, BackoffNode, enqueueVars
  <2> QED BY <2>1, <2>2, <2>3
<1>6. ASSUME NEW i \in Instance, CreateStep(i) PROVE Goal
  <2>1. CASE ResolveNewNode(i)
    <3>1. creating[i] \in Node
      BY <1>0, <2>1 DEF ResolveNewNode
    <3> QED BY <1>0, <1>2, <2>1, <3>1 DEF ResolveNewNode, Thread
  <2>2. CASE ~ResolveNewNode(i)
    BY <1>0, <1>3, <1>6, <2>2 DEF CreateStep, CreateInstance, NewNode, enqueueVars
  <2> QED BY <2>1, <2>2
<1>7. ASSUME NEW t \in Thread, PushTask(t) PROVE Goal
  BY <1>0, <1>7 DEF PushTask, Pushes
<1>8. ASSUME NEW t \in Thread, PushFuture(t) PROVE Goal
  <2>1. /\ toFuture[t] \in Node
        /\ futureScheduled' = [futureScheduled EXCEPT
             ![toFuture[t]][nextRetryAvailable[toFuture[t]]] = @ + 1]
    BY <1>8 DEF PushFuture, TypeOK
  <2> QED BY <1>0, <1>3, <1>8, <2>1 DEF PushFuture
<1>9. CollectStep => Goal
  <2>1. ASSUME NEW m \in Node, FreeNode(m) PROVE Goal
    <3>1. Pushes
      BY <1>0, <1>1, <2>1 DEF FreeNode
    <3> QED BY <1>0, <2>1, <3>1 DEF FreeNode
  <2>2. ASSUME CollectStep, ~\E m \in Node : FreeNode(m) PROVE Goal
    BY <1>0, <1>3, <2>2 DEF CollectStep, CollectWorker, InvalidateWorker, enqueueVars
  <2> QED BY <2>1, <2>2
<1>10. SchedulerStep => Goal
  <2>1. ASSUME NEW m \in Node, NEW t \in Due, PopDue(m, t) PROVE Goal
    <3>1. \A x \in Due : futureScheduled'[n][x] > 0 => futureScheduled[n][x] > 0
      BY <1>0, <2>1 DEF PopDue
    <3>2. Pushes
      BY <1>0, <1>1, <2>1 DEF PopDue
    <3> QED BY <1>0, <2>1, <3>1, <3>2 DEF PopDue
  <2>2. ASSUME SchedulerStep, ~\E m \in Node, t \in Due : PopDue(m, t) PROVE Goal
    BY <1>0, <1>3, <2>2 DEF SchedulerStep, LockFuture, UnlockFuture, enqueueVars
  <2> QED BY <2>1, <2>2
<1>11. Tick => Goal
  BY <1>0, <1>3 DEF Tick, enqueueVars
<1>12. UNCHANGED vars => Goal
  BY <1>0, <1>3 DEF enqueueVars
<1>13. Goal
  BY <1>4, <1>5, <1>6, <1>7, <1>8, <1>9, <1>10, <1>11, <1>12 DEF Next
<1> QED BY <1>13 DEF Pushes

\* A node that gains an entry in its task queue was about to be pushed there.
LEMMA QueuedByPush ==
  ASSUME TypeOK, [Next]_vars, NEW n \in Node, taskQueue'[n] > taskQueue[n]
  PROVE  \E t \in Thread : toTask[t] = n
<1> USE DEF vars, queueVars
<1>0. taskQueue \in [Node -> Nat] /\ toTask \in [Thread -> Node \cup {Nil}]
  BY DEF TypeOK
<1>1. ASSUME UNCHANGED taskQueue PROVE FALSE
  BY <1>0, <1>1
<1>2. ASSUME NEW w \in Worker, PopNextNode(w) PROVE FALSE
  <2>1. ASSUME NEW m \in TopNodes(GetAllowedQueues(w)),
               taskQueue' = [taskQueue EXCEPT ![m] = @ - 1]
        PROVE  FALSE
    <3>1. m \in Node
      BY <2>1 DEF TopNodes, Waiting
    <3> QED BY <1>0, <2>1, <3>1
  <2> QED BY <1>1, <1>2, <2>1 DEF PopNextNode
<1>3. ASSUME NEW t \in Thread, PushTask(t) PROVE toTask[t] = n
  BY <1>0, <1>3 DEF PushTask
<1>4. ASSUME NEW w \in Worker, ClientStep(w) PROVE FALSE
  BY <1>1, <1>4 DEF ClientStep, NewWorker, Ping, MissPing, Crash, GetWork, SubmitWork,
                    SubmitFailure
<1>5. ASSUME NEW w \in Worker, HandlerStep(w) PROVE FALSE
  BY <1>1, <1>2, <1>5
  DEF HandlerStep, Complete, ReadOwner, ReadClaims, ReleaseWorkerLock, ReadDestinations, Notify,
      Resolved, BackoffNode, Requeue
<1>6. ASSUME NEW i \in Instance, CreateStep(i) PROVE FALSE
  BY <1>1, <1>6 DEF CreateStep, CreateInstance, NewNode, ResolveNewNode
<1>7. ASSUME NEW t \in Thread, PushFuture(t) PROVE FALSE
  BY <1>1, <1>7 DEF PushFuture
<1>8. ~CollectStep
  BY <1>1 DEF CollectStep, CollectWorker, FreeNode, InvalidateWorker
<1>9. ~SchedulerStep
  BY <1>1 DEF SchedulerStep, LockFuture, PopDue, UnlockFuture
<1>10. ~Tick /\ ~UNCHANGED vars
  BY <1>1 DEF Tick
<1> QED
  BY <1>3, <1>4, <1>5, <1>6, <1>7, <1>8, <1>9, <1>10 DEF Next

\* Every step keeps the times of a root.
LEMMA StepOnTime ==
  ASSUME WorkersInOrder, [Next]_vars, NEW n \in Node, Token(n), OnTime(n)
  PROVE  OnTime(n)'
<1>0. TypeOK /\ Sole(n) /\ TypeOK'
  BY StepType DEF WorkersInOrder, Token
<1>a. now \in Nat /\ now' \in Nat /\ nextRetryAvailable[n] \in Int
  BY <1>0, HorizonAssumption DEF TypeOK, Due
<1>1. CASE nextRetryAvailable'[n] = nextRetryAvailable[n]
  BY <1>0, <1>a, <1>1, DueWhenPushed DEF OnTime
<1>2. ASSUME NEW w \in Worker, BackoffNode(w), current[w] = n PROVE OnTime(n)'
  <2>1. At(n, "worker", w)
    BY <1>2 DEF BackoffNode, At, HeldBy, PC, Working
  <2>2. /\ \A t \in Thread : toTask[t] # n
        /\ \A t \in Due : ~(futureScheduled[n][t] > 0)
    BY <1>0, <2>1 DEF Sole, At
  <2> QED BY <1>2, <2>2 DEF BackoffNode, OnTime, queueVars, enqueueVars
<1>3. ASSUME NEW t \in Thread, PushTask(t), toTask[t] = n PROVE OnTime(n)'
  <2>1. At(n, "toTask", t)
    BY <1>3 DEF At
  <2>2. /\ \A u \in Thread : toTask[u] = n => u = t
        /\ \A u \in Due : ~(futureScheduled[n][u] > 0)
    BY <1>0, <2>1 DEF Sole, At
  <2>3. \A u \in Thread : toTask'[u] # n
    BY <1>0, <1>3, <2>2 DEF PushTask, TypeOK
  <2> QED BY <1>3, <2>2, <2>3 DEF PushTask, OnTime
<1> QED BY <1>0, <1>1, <1>2, <1>3, RetryTimeChanges

LEMMA OnTimeInvariant ==
  ASSUME LatePings = {}
  PROVE  Spec /\ []ClaimsCurrent => []\A n \in Node : SourcesOf(n) = {} => OnTime(n)
<1> DEFINE RootsOnTime == \A n \in Node : SourcesOf(n) = {} => OnTime(n)
<1>1. Init => RootsOnTime
  BY ThreadAssumption DEF Init, OnTime
<1>2. WorkersInOrder /\ RootsAreTokens /\ RootsOnTime /\ [Next]_vars => RootsOnTime'
  BY StepOnTime DEF RootsAreTokens
<1> QED
  BY TokenInvariant, <1>1, <1>2, PTL DEF Spec

\* No thread pushes a root to a task queue before the time of its retry.
THEOREM RetriesAreNotEarly ==
  ASSUME LatePings = {}
  PROVE  Spec /\ []ClaimsCurrent => RetryNotEarly
<1> DEFINE RootsOnTime == \A n \in Node : SourcesOf(n) = {} => OnTime(n)
           Early == \A n \in Node : SourcesOf(n) = {} /\ taskQueue'[n] > taskQueue[n] =>
                      now >= nextRetryAvailable[n]
<1>1. WorkersInOrder /\ RootsOnTime /\ [Next]_vars => [Early]_vars
  <2> SUFFICES ASSUME WorkersInOrder, RootsOnTime, [Next]_vars,
                      NEW n \in Node, SourcesOf(n) = {}, taskQueue'[n] > taskQueue[n]
               PROVE  now >= nextRetryAvailable[n]
    OBVIOUS
  <2>1. OnTime(n) /\ TypeOK
    BY DEF WorkersInOrder
  <2>2. now \in Nat /\ nextRetryAvailable[n] \in Int
    BY <2>1, HorizonAssumption DEF TypeOK, Due
  <2> QED BY <2>1, <2>2, QueuedByPush DEF OnTime
<1> QED
  BY TokenInvariant, OnTimeInvariant, <1>1, PTL DEF Spec, RetryNotEarly

-----------------------------------------------------------------------------
(***************************************************************************)
(* The attempts of a root.  They are counted while the root is with the    *)
(* worker that failed, and a failure that counts no attempt is the last    *)
(* one: the call leaves the root nowhere.                                  *)
(***************************************************************************)
InBudget(n) ==
  /\ currentAttempt[n] <= Retries(n)
  /\ failures[n] \in {currentAttempt[n], currentAttempt[n] + 1}
  /\ failures[n] > currentAttempt[n] => Nowhere(n)
  /\ n \notin nodes => failures[n] = 0

\* What the policy of a node is when CreateNode has read the message.
LEMMA PolicyOfNode ==
  ASSUME NEW n \in Node
  PROVE  /\ PolicyOf(n).maxAttempts \in Int
         /\ PolicyOf(n).enabled \in BOOLEAN
         /\ ~PolicyOf(n).enabled => PolicyOf(n).maxAttempts = 0
         /\ Retries(n) \in Nat
         /\ PolicyOf(n).maxAttempts <= Retries(n)
<1>1. RetryOf[n] \in RetryMessage
  BY NodeAssumption
<1>2. /\ PolicyOf(n).maxAttempts \in Int
      /\ PolicyOf(n).enabled \in BOOLEAN
      /\ ~PolicyOf(n).enabled => PolicyOf(n).maxAttempts = 0
  BY <1>1 DEF PolicyOf, PolicyOfMessage, RetryMessage, NewStaticRetryPolicy,
              NewExponentialRetryPolicy, NoPolicy
<1> QED
  BY <1>2 DEF Retries

\* Every step keeps a root within its budget.
LEMMA StepInBudget ==
  ASSUME LatePings = {}, WorkersInOrder, ClaimsCurrent, [Next]_vars,
         NEW n \in Node, SourcesOf(n) = {}, Token(n), InBudget(n)
  PROVE  InBudget(n)'
<1>0. /\ TypeOK
      /\ Sole(n) /\ InCourse(n) /\ OnRecord(n)
      /\ failures \in [Node -> Nat] /\ currentAttempt \in [Node -> Nat]
      /\ pc \in [Worker -> PC]
  BY DEF WorkersInOrder, Token, TypeOK
<1>1. CASE failures'[n] = failures[n] /\ currentAttempt'[n] = currentAttempt[n]
  <2>1. nodes \subseteq nodes'
    BY <1>0, OnlyBackoffCounts
  <2>2. failures[n] > currentAttempt[n] => Nowhere(n)'
    BY <1>0, StepPlaces DEF InBudget, Stays, Moves, Enters, Nowhere
  <2> QED BY <1>0, <1>1, <2>1, <2>2 DEF InBudget, Retries
<1>2. ASSUME NEW w \in Worker, BackoffNode(w), current[w] = n PROVE InBudget(n)'
  <2>1. At(n, "worker", w)
    BY <1>2 DEF BackoffNode, At, HeldBy, PC, Working
  <2>2. failures[n] = currentAttempt[n] /\ n \in nodes
    BY <1>0, <2>1 DEF InBudget, InCourse, Nowhere
  <2>3. /\ nodes' = nodes
        /\ failures'[n] = failures[n] + 1
        /\ currentAttempt'[n] = NextAttempt(PolicyOf(n), currentAttempt[n])
    BY <1>0, <1>2 DEF BackoffNode, instanceVars
  <2>4. CASE currentAttempt[n] < PolicyOf(n).maxAttempts
    BY <1>0, <2>2, <2>3, <2>4, PolicyOfNode DEF NextAttempt, InBudget, Retries
  <2>5. CASE currentAttempt[n] >= PolicyOf(n).maxAttempts
    <3>1. pc'[w] = "idle"
      BY <1>0, <1>2, <2>5 DEF BackoffNode, GetWaitInterval
    <3>2. \A place, x : At(n, place, x)' => At(n, place, x)
      <4>1. UNCHANGED <<creating, toTask, toFuture, taskQueue, futureScheduled, collecting,
                        collected, claimedWork>>
        BY <1>2 DEF BackoffNode, instanceVars, enqueueVars, queueVars, workerVars, loopVars
      <4>2. current \in [Worker -> Node \cup {Nil}]
        BY <1>0 DEF TypeOK
      <4>3. \A u \in Worker : HeldBy(u, n)' => HeldBy(u, n)
        BY <1>0, <1>2, <4>1, <4>2 DEF BackoffNode, HeldBy, PC, Working
      <4> QED BY <4>1, <4>3 DEF At
    <3>3. ~HeldBy(w, n)'
      <4>1. ~(claimedWork[w][n] > 0)
        BY <1>0, <1>2 DEF BackoffNode, OnRecord, Claiming
      <4>2. claimedWork' = claimedWork
        BY <1>2 DEF BackoffNode, workerVars
      <4> QED BY <3>1, <4>1, <4>2 DEF HeldBy, PC, Working
    <3>4. Nowhere(n)'
      <4>1. \A place, x : At(n, place, x) => place = "worker" /\ x = w
        BY <1>0, <2>1 DEF Sole
      <4>2. ASSUME NEW place, NEW x, At(n, place, x)' PROVE FALSE
        <5>1. place = "worker" /\ x = w
          BY <3>2, <4>1, <4>2
        <5>2. At(n, "worker", w)'
          BY <4>2, <5>1
        <5> QED BY <3>3, <5>2 DEF At
      <4> QED BY <4>2 DEF Nowhere
    <3> QED
      BY <1>0, <2>2, <2>3, <2>5, <3>4, PolicyOfNode DEF NextAttempt, InBudget, Retries
  <2> QED BY <1>0, <2>4, <2>5, PolicyOfNode
<1> QED BY <1>0, <1>1, <1>2, OnlyBackoffCounts

\* Every root is within its budget, whoever collects, retries or schedules it in between.
LEMMA BudgetInvariant ==
  ASSUME LatePings = {}
  PROVE  Spec /\ []ClaimsCurrent => []\A n \in Node : SourcesOf(n) = {} => InBudget(n)
<1> DEFINE RootsInBudget == \A n \in Node : SourcesOf(n) = {} => InBudget(n)
<1>1. Init => RootsInBudget
  BY PolicyOfNode DEF Init, InBudget, NoNodes
<1>2. WorkersInOrder /\ RootsAreTokens /\ RootsInBudget /\ ClaimsCurrent /\ [Next]_vars
        => RootsInBudget'
  BY StepInBudget DEF RootsAreTokens
<1> QED
  BY TokenInvariant, <1>1, <1>2, PTL DEF Spec

\* A root is queued or executed only while its reported failures leave it a try.
THEOREM RetriesAreWithinBudget ==
  ASSUME LatePings = {}
  PROVE  Spec /\ []ClaimsCurrent => []RetryBudget
<1> DEFINE RootsInBudget == \A n \in Node : SourcesOf(n) = {} => InBudget(n)
<1>1. WorkersInOrder /\ RootsInBudget => RetryBudget
  <2> SUFFICES ASSUME TypeOK, NEW n \in Node, InBudget(n), Outstanding(n)
               PROVE  failures[n] <= Retries(n)
    BY DEF RetryBudget, WorkersInOrder
  <2>1. CASE Queued(n)
    <3>1. \E place, x : At(n, place, x)
      <4>1. taskQueue[n] > 0 => At(n, "queue", Nil)
        BY DEF At
      <4>2. \A t \in Due : futureScheduled[n][t] > 0 => At(n, "future", t)
        BY DEF At
      <4>3. \A t \in Thread : /\ toTask[t] = n => At(n, "toTask", t)
                              /\ toFuture[t] = n => At(n, "toFuture", t)
        BY DEF At
      <4> QED BY <2>1, <4>1, <4>2, <4>3 DEF Queued
    <3> QED BY <3>1, PolicyOfNode DEF InBudget, TypeOK, Nowhere
  <2>2. ASSUME NEW w \in Worker, Executing(w, n) PROVE failures[n] <= Retries(n)
    <3>1. At(n, "worker", w)
      BY <2>2 DEF Executing, At, HeldBy, PC, Working
    <3> QED BY <3>1, PolicyOfNode DEF InBudget, TypeOK, Nowhere
  <2> QED BY <2>1, <2>2 DEF Outstanding
<1> QED
  BY WorkersInvariant, BudgetInvariant, <1>1, PTL

-----------------------------------------------------------------------------
(***************************************************************************)
(* The scheduler and the lock it holds.  What it takes from the retry      *)
(* queue is due, and EnqueueNode compares the same time with the clock     *)
(* again: the scheduler is sent back to the retry queue only if the time   *)
(* has changed in between, which for a root it has not.                    *)
(***************************************************************************)
OnlyRootsAreRetried == \A n \in Node : PolicyOf(n).enabled => SourcesOf(n) = {}

\* A node without a policy has nothing to do with the retry queue.
Unscheduled(n) ==
  /\ nextRetryAvailable[n] = -1
  /\ \A t \in Thread : toFuture[t] # n
  /\ \A t \in Due : ~(futureScheduled[n][t] > 0)

\* A thread gets a node to push to the retry queue only if its time is to come, and
\* the scheduler gets only what it has popped.
LEMMA LaterWhenScheduled ==
  ASSUME TypeOK, [Next]_vars, NEW n \in Node
  PROVE  \A t \in Thread : toFuture'[t] = n =>
           \/ toFuture[t] = n
           \/ BackedOff(n) /\ (t = Scheduler => \E d \in Due : PopDue(n, d))
<1> DEFINE Goal == \A t \in Thread : toFuture'[t] = n =>
                     \/ toFuture[t] = n
                     \/ BackedOff(n) /\ (t = Scheduler => \E d \in Due : PopDue(n, d))
<1> USE DEF vars
<1>0. /\ toFuture \in [Thread -> Node \cup {Nil}]
      /\ creating \in [Instance -> Node \cup {Nil}]
      /\ n # Nil
      /\ GC \in Thread /\ GC # Scheduler
      /\ \A w \in Worker : w \in Thread /\ w # Scheduler
      /\ \A i \in Instance : i \in Thread /\ i # Scheduler
  BY ThreadAssumption DEF TypeOK, Thread
<1>1. ASSUME NEW t \in Thread, t # Scheduler, NEW m \in Node, EnqueueNode(t, m)
      PROVE  Goal
  BY <1>0, <1>1 DEF EnqueueNode
<1>2. ASSUME NEW t \in Thread, t # Scheduler, NEW m \in Node, DependencyDidResolve(t, m)
      PROVE  Goal
  BY <1>1, <1>2 DEF DependencyDidResolve, enqueueVars
<1>3. ASSUME UNCHANGED toFuture PROVE Goal
  BY <1>3
<1> HIDE DEF Goal
<1>4. ASSUME NEW w \in Worker, ClientStep(w) PROVE Goal
  BY <1>3, <1>4
  DEF ClientStep, NewWorker, Ping, MissPing, Crash, GetWork, SubmitWork, SubmitFailure,
      enqueueVars
<1>5. ASSUME NEW w \in Worker, HandlerStep(w) PROVE Goal
  <2>1. ASSUME NEW d \in Node, Notify(w, d) PROVE Goal
    BY <1>0, <1>2, <2>1 DEF Notify
  <2>2. CASE Requeue(w)
    <3>1. current[w] \in Node
      BY <2>2 DEF Requeue, TypeOK, Working, PC
    <3> QED BY <1>0, <1>1, <2>2, <3>1 DEF Requeue
  <2>3. CASE ~Requeue(w) /\ ~\E d \in Node : Notify(w, d)
    BY <1>3, <1>5, <2>3
    DEF HandlerStep, PopNextNode, Complete, ReadOwner, ReadClaims, ReleaseWorkerLock,
        ReadDestinations, Resolved, BackoffNode, enqueueVars
  <2> QED BY <2>1, <2>2, <2>3
<1>6. ASSUME NEW i \in Instance, CreateStep(i) PROVE Goal
  <2>1. CASE ResolveNewNode(i)
    <3>1. creating[i] \in Node
      BY <1>0, <2>1 DEF ResolveNewNode
    <3> QED BY <1>0, <1>2, <2>1, <3>1 DEF ResolveNewNode
  <2>2. CASE ~ResolveNewNode(i)
    BY <1>3, <1>6, <2>2 DEF CreateStep, CreateInstance, NewNode, enqueueVars
  <2> QED BY <2>1, <2>2
<1>7. ASSUME NEW t \in Thread, PushTask(t) PROVE Goal
  BY <1>3, <1>7 DEF PushTask
<1>8. ASSUME NEW t \in Thread, PushFuture(t) PROVE Goal
  BY <1>0, <1>8 DEF PushFuture, Goal
<1>9. CollectStep => Goal
  <2>1. ASSUME NEW m \in Node, FreeNode(m) PROVE Goal
    BY <1>0, <1>1, <2>1 DEF FreeNode
  <2>2. ASSUME CollectStep, ~\E m \in Node : FreeNode(m) PROVE Goal
    BY <1>3, <2>2 DEF CollectStep, CollectWorker, InvalidateWorker, enqueueVars
  <2> QED BY <2>1, <2>2
<1>10. SchedulerStep => Goal
  <2>1. ASSUME NEW m \in Node, NEW d \in Due, PopDue(m, d) PROVE Goal
    <3>1. EnqueueNode(Scheduler, m)
      BY <2>1 DEF PopDue
    <3> QED BY <1>0, <2>1, <3>1 DEF EnqueueNode, Goal
  <2>2. ASSUME SchedulerStep, ~\E m \in Node, d \in Due : PopDue(m, d) PROVE Goal
    BY <1>3, <2>2 DEF SchedulerStep, LockFuture, UnlockFuture, enqueueVars
  <2> QED BY <2>1, <2>2
<1>11. Tick => Goal
  BY <1>3 DEF Tick, enqueueVars
<1>12. UNCHANGED vars => Goal
  BY <1>3 DEF enqueueVars
<1>13. Goal
  BY <1>4, <1>5, <1>6, <1>7, <1>8, <1>9, <1>10, <1>11, <1>12 DEF Next
<1> QED BY <1>13 DEF Goal

\* Every step keeps a node without a policy away from the retry queue.
LEMMA StepUnscheduled ==
  ASSUME TypeOK, [Next]_vars, NEW n \in Node, ~PolicyOf(n).enabled, Unscheduled(n)
  PROVE  Unscheduled(n)'
<1>1. \A t \in Thread : toFuture'[t] # n
  BY LaterWhenScheduled DEF Unscheduled, BackedOff
<1>2. \A t \in Due : ~(futureScheduled'[n][t] > 0)
  BY DueWhenPushed DEF Unscheduled
<1>3. nextRetryAvailable'[n] = -1
  <2>1. nextRetryAvailable \in [Node -> Due]
    BY DEF TypeOK
  <2>2. ASSUME NEW t \in Thread, PushTask(t), toTask[t] = n
        PROVE  nextRetryAvailable'[n] = -1
    BY <2>1, <2>2 DEF PushTask
  <2>3. ASSUME NEW w \in Worker, BackoffNode(w), current[w] = n
        PROVE  nextRetryAvailable' = nextRetryAvailable
    BY <2>3 DEF BackoffNode
  <2> QED BY <2>2, <2>3, RetryTimeChanges DEF Unscheduled
<1> QED BY <1>1, <1>2, <1>3 DEF Unscheduled

\* Where only roots are retried, the scheduler never waits for the lock it holds.
THEOREM SchedulerIsNotSentBack ==
  ASSUME LatePings = {}, OnlyRootsAreRetried
  PROVE  Spec /\ []ClaimsCurrent => []SchedulerRunsForever
<1> DEFINE RootsOnTime == \A n \in Node : SourcesOf(n) = {} => OnTime(n)
           OthersUnscheduled == \A n \in Node : ~PolicyOf(n).enabled => Unscheduled(n)
           SchedulerFree == toFuture[Scheduler] = Nil
<1>1. Init => OthersUnscheduled /\ SchedulerFree
  BY ThreadAssumption DEF Init, Unscheduled, Thread
<1>2. WorkersInOrder /\ OthersUnscheduled /\ [Next]_vars => OthersUnscheduled'
  BY StepUnscheduled DEF WorkersInOrder
<1>3. WorkersInOrder /\ OthersUnscheduled /\ RootsOnTime /\ SchedulerFree /\ [Next]_vars
        => SchedulerFree'
  <2> SUFFICES ASSUME WorkersInOrder, OthersUnscheduled, RootsOnTime, SchedulerFree,
                      [Next]_vars, NEW n \in Node, toFuture'[Scheduler] = n
               PROVE  FALSE
    <3>1. Scheduler \in Thread
      BY DEF Thread
    <3>2. WorkersInOrder /\ [Next]_vars => toFuture'[Scheduler] \in Node \cup {Nil}
      BY <3>1, StepType DEF WorkersInOrder, TypeOK
    <3> QED BY <3>2
  <2>1. Scheduler \in Thread /\ TypeOK /\ n # Nil
    BY ThreadAssumption DEF Thread, WorkersInOrder
  <2>2. BackedOff(n) /\ \E d \in Due : PopDue(n, d)
    BY <2>1, LaterWhenScheduled
  <2>3. PICK d \in Due : PopDue(n, d)
    BY <2>2
  <2>4. futureScheduled[n][d] > 0 /\ d <= now
    BY <2>3 DEF PopDue, FutureEntries
  <2>5. SourcesOf(n) = {}
    BY <2>4 DEF Unscheduled, OnlyRootsAreRetried
  <2>6. nextRetryAvailable[n] = d
    BY <2>4, <2>5 DEF OnTime
  <2>7. now \in Nat /\ d \in Int
    BY <2>1, HorizonAssumption DEF TypeOK, Due
  <2> QED BY <2>2, <2>4, <2>6, <2>7 DEF BackedOff
<1>4. SchedulerFree => SchedulerRunsForever
  BY DEF SchedulerRunsForever
<1> QED
  BY TokenInvariant, OnTimeInvariant, <1>1, <1>2, <1>3, <1>4, PTL DEF Spec

-----------------------------------------------------------------------------
(***************************************************************************)
(* No node is lost, whatever it depends on and however often it is queued. *)
(* From its pop on, a node is on the list of a worker or of the collector, *)
(* until a call about the node itself takes it off (that a call about      *)
(* another does not is ClaimsCurrent), and that call completes it, queues  *)
(* it again, or finds that its attempts are used up.                       *)
(***************************************************************************)

\* A fact of arithmetic, which TLC evaluates but the provers know nothing of.
PowersAreNatural == \A base, exponent \in Nat : base ^ exponent \in Nat

\* A policy has no wait to offer only when its attempts are used up.
WaitsWhileAttemptsLast ==
  \A n \in Node, attempt \in Nat, jitter \in Jitter :
    PolicyOf(n).enabled /\ attempt < PolicyOf(n).maxAttempts
      => GetWaitInterval(PolicyOf(n), attempt, jitter) # -1

LEMMA PoliciesWait == PowersAreNatural => WaitsWhileAttemptsLast
<1> SUFFICES ASSUME PowersAreNatural,
                    NEW n \in Node, NEW attempt \in Nat, NEW jitter \in Jitter,
                    PolicyOf(n).enabled, attempt < PolicyOf(n).maxAttempts
             PROVE  GetWaitInterval(PolicyOf(n), attempt, jitter) # -1
  BY DEF WaitsWhileAttemptsLast
<1> DEFINE base == PolicyOf(n).exponentialBackoffBase
<1>1. /\ PolicyOf(n).maxAttempts \in Int
      /\ PolicyOf(n).staticInterval \in Nat
      /\ base \in Nat
      /\ PolicyOf(n).staticInterval > 0 \/ base > 0
  <2>1. RetryOf[n] \in RetryMessage
    BY NodeAssumption
  <2> QED BY <2>1 DEF PolicyOf, PolicyOfMessage, RetryMessage, NewStaticRetryPolicy,
                      NewExponentialRetryPolicy, NoPolicy
<1>2. base ^ attempt \in Nat
  BY <1>1 DEF PowersAreNatural
<1>3. base ^ attempt + jitter # -1
  BY <1>2 DEF Jitter
<1> QED BY <1>1, <1>3 DEF GetWaitInterval

\* On a list from which a collection, this one or a later one, frees the node.
OnList(n) ==
  \/ \E w \in Worker : claimedWork[w][n] > 0 /\ collecting # w
  \/ collected[n] > 0

Reachable(n) ==
  \/ n \in completed
  \/ Exhausted(n)
  \/ Queued(n)
  \/ OnList(n)
  \/ Failing(n)
  \/ Resolving(n)
  \/ Awaited(n)

CollectsOne == collecting = Nil => collected = NoNodes

\* Only a call about a node takes it off every list without queueing it.
LEMMA StepOnList ==
  ASSUME TypeOK, CollectsOne, ClaimsCurrent, [Next]_vars, NEW n \in Node, OnList(n)
  PROVE  \/ OnList(n)'
         \/ Queued(n)'
         \/ \E w \in Worker : ReleaseWorkerLock(w) /\ current[w] = n
<1> DEFINE Goal == \/ OnList(n)'
                   \/ Queued(n)'
                   \/ \E w \in Worker : ReleaseWorkerLock(w) /\ current[w] = n
<1> SUFFICES Goal
  OBVIOUS
<1> USE DEF vars, workerVars, loopVars
<1>0. /\ claimedWork \in [Worker -> [Node -> Nat]]
      /\ collected \in [Node -> Nat]
      /\ Nil \notin Worker
  BY ThreadAssumption DEF TypeOK, Thread
<1>1. ASSUME UNCHANGED <<collecting, collected>>,
             \A w \in Worker : claimedWork[w][n] > 0 => claimedWork'[w][n] > 0
      PROVE  Goal
  BY <1>1 DEF OnList
<1>2. ASSUME UNCHANGED <<claimedWork, collecting, collected>> PROVE Goal
  BY <1>2 DEF OnList
<1>3. ASSUME NEW w \in Worker, ClientStep(w) PROVE Goal
  BY <1>2, <1>3 DEF ClientStep, NewWorker, Ping, MissPing, Crash, GetWork, SubmitWork,
                    SubmitFailure
<1>4. ASSUME NEW w \in Worker, PopNextNode(w) PROVE Goal
  <2>1. \/ claimedWork' = claimedWork
        \/ \E m \in Node : claimedWork' = Claim(w, m)
    BY <1>4 DEF PopNextNode, TopNodes, Waiting
  <2>2. \A v \in Worker : claimedWork[v][n] > 0 => claimedWork'[v][n] > 0
    BY <1>0, <2>1 DEF Claim
  <2>3. UNCHANGED <<collecting, collected>>
    BY <1>4 DEF PopNextNode
  <2> QED BY <1>1, <2>2, <2>3
<1>5. ASSUME NEW w \in Worker, ReleaseWorkerLock(w), current[w] # n PROVE Goal
  <2>1. pc[w] \in {"clearing", "clearingFailed"}
    BY <1>5 DEF ReleaseWorkerLock
  <2>2. release[w].owner # Nil => release[w].claims[n] = claimedWork[release[w].owner][n]
    BY <1>5, <2>1 DEF ClaimsCurrent
  <2>3. claimedWork' = [v \in Worker |-> IF v = release[w].owner THEN release[w].claims
                                                                ELSE claimedWork[v]]
    BY <1>5 DEF ReleaseWorkerLock
  <2>4. \A v \in Worker : claimedWork'[v][n] = claimedWork[v][n]
    BY <1>0, <2>2, <2>3
  <2>5. UNCHANGED <<collecting, collected>>
    BY <1>5 DEF ReleaseWorkerLock
  <2> QED BY <2>4, <2>5 DEF OnList
<1>6. ASSUME NEW w \in Worker, HandlerStep(w), ~PopNextNode(w), ~ReleaseWorkerLock(w)
      PROVE  Goal
  BY <1>2, <1>6 DEF HandlerStep, Complete, ReadOwner, ReadClaims, ReadDestinations, Notify,
                    Resolved, BackoffNode, Requeue
<1>7. ASSUME NEW i \in Instance, CreateStep(i) PROVE Goal
  BY <1>2, <1>7 DEF CreateStep, CreateInstance, NewNode, ResolveNewNode
<1>8. ASSUME NEW t \in Thread, PushTask(t) \/ PushFuture(t) PROVE Goal
  BY <1>2, <1>8 DEF PushTask, PushFuture
<1>9. ASSUME NEW w \in Worker, CollectWorker(w) PROVE Goal
  <2>1. /\ ~(collected[n] > 0)
        /\ claimedWork' = claimedWork
        /\ collecting' = w
        /\ collected'[n] = claimedWork[w][n]
    BY <1>9 DEF CollectWorker, CollectsOne, NoNodes
  <2> QED BY <2>1 DEF OnList
<1>10. ASSUME NEW m \in Node, FreeNode(m) PROVE Goal
  <2>1. CASE m = n
    BY <1>10, <2>1, EnqueuePushes DEF FreeNode, Queued, Thread
  <2>2. CASE m # n
    BY <1>0, <1>10, <2>2 DEF FreeNode, OnList
  <2> QED BY <2>1, <2>2
<1>11. CASE InvalidateWorker
  <2>1. ~(collected[n] > 0)
    BY <1>11 DEF InvalidateWorker, NoNodes
  <2>2. \A w \in Worker : w # collecting => claimedWork'[w] = claimedWork[w]
    BY <1>0, <1>11 DEF InvalidateWorker
  <2>3. collecting' = Nil
    BY <1>11 DEF InvalidateWorker
  <2> QED BY <1>0, <2>1, <2>2, <2>3 DEF OnList
<1>12. CASE SchedulerStep \/ Tick \/ UNCHANGED vars
  BY <1>2, <1>12 DEF SchedulerStep, LockFuture, PopDue, UnlockFuture, Tick
<1> QED
  BY <1>3, <1>4, <1>5, <1>6, <1>7, <1>8, <1>9, <1>10, <1>11, <1>12
  DEF Next, CollectStep

\* A worker that is given a node has it on a list that is not about to be emptied.
LEMMA PopsOnList ==
  ASSUME TypeOK, CollectedAtRest, NEW w \in Worker, NEW n \in Node, Pops(w, n)
  PROVE  OnList(n)'
<1>1. /\ claimedWork \in [Worker -> [Node -> Nat]]
      /\ current \in [Worker -> Node \cup {Nil}]
      /\ pc \in [Worker -> PC]
      /\ w # Nil
  BY ThreadAssumption DEF TypeOK, Thread
<1>2. claimedWork' = Claim(w, n)
  BY <1>1 DEF Pops, PopNextNode
<1>3. claimedWork'[w][n] > 0
  BY <1>1, <1>2 DEF Claim
<1>4. collecting' = collecting /\ pc[w] = "popping"
  BY DEF Pops, PopNextNode, loopVars
<1>5. collecting' # w
  BY <1>1, <1>4 DEF CollectedAtRest
<1> QED BY <1>3, <1>5 DEF OnList

\* A node is counted as many attempts as failures, until it is exhausted.
Counted(n) == currentAttempt[n] <= failures[n]

LEMMA StepCounted ==
  ASSUME TypeOK, [Next]_vars, NEW n \in Node, Counted(n)
  PROVE  Counted(n)' /\ (Exhausted(n) => Exhausted(n)')
<1>1. failures[n] \in Nat /\ currentAttempt[n] \in Nat
  BY DEF TypeOK
<1>2. ASSUME NEW w \in Worker, BackoffNode(w), current[w] = n
      PROVE  /\ failures'[n] = failures[n] + 1
             /\ currentAttempt'[n] \in {currentAttempt[n], currentAttempt[n] + 1}
  BY <1>2 DEF BackoffNode, TypeOK, NextAttempt
<1> QED BY <1>1, <1>2, OnlyBackoffCounts DEF Counted, Exhausted

\* A failing call queues the node again, or the attempts of the node are used up.
LEMMA DecidesToRetry ==
  ASSUME TypeOK, WaitsWhileAttemptsLast, NEW w \in Worker, NEW n \in Node, Counted(n),
         Decides(w, n)
  PROVE  Failing(n)' \/ Exhausted(n)'
<1>0. /\ failures \in [Node -> Nat] /\ currentAttempt \in [Node -> Nat]
      /\ pc \in [Worker -> PC]
      /\ PolicyOf(n).maxAttempts \in Int
      /\ ~PolicyOf(n).enabled => PolicyOf(n).maxAttempts = 0
  BY PolicyOfNode DEF TypeOK
<1>1. /\ failures'[n] = failures[n] + 1
      /\ currentAttempt'[n] = NextAttempt(PolicyOf(n), currentAttempt[n])
  BY <1>0 DEF Decides, BackoffNode
<1>2. PICK jitter \in Jitter :
        \/ ~PolicyOf(n).enabled
        \/ GetWaitInterval(PolicyOf(n), currentAttempt[n], jitter) = -1
        \/ pc'[w] = "requeue" /\ current' = current
  BY <1>0 DEF Decides, BackoffNode
<1>3. CASE pc'[w] = "requeue" /\ current' = current
  BY <1>3 DEF Decides, Failing
<1>4. CASE ~(pc'[w] = "requeue" /\ current' = current)
  <2>1. currentAttempt[n] >= PolicyOf(n).maxAttempts
    BY <1>0, <1>2, <1>4 DEF WaitsWhileAttemptsLast
  <2> QED BY <1>0, <1>1, <2>1 DEF NextAttempt, Exhausted, Counted
<1> QED BY <1>3, <1>4

\* A call that is about to complete a node completes it.
LEMMA StepResolving ==
  ASSUME TypeOK, [Next]_vars, NEW n \in Node, Resolving(n)
  PROVE  Resolving(n)' \/ n \in completed'
<1> USE DEF vars, handlerVars, Resolving
<1>0. /\ pc \in [Worker -> PC]
      /\ current \in [Worker -> Node \cup {Nil}]
  BY DEF TypeOK
<1>1. ASSUME UNCHANGED <<pc, current>> PROVE Resolving(n)'
  BY <1>1
<1>2. ASSUME NEW w \in Worker, Complete(w) PROVE Resolving(n)' \/ n \in completed'
  BY <1>0, <1>2 DEF Complete
<1>3. ASSUME NEW w \in Worker, ClientStep(w) PROVE Resolving(n)'
  BY <1>0, <1>3 DEF ClientStep, NewWorker, Ping, MissPing, Crash, GetWork, SubmitWork,
                    SubmitFailure, Refuse
<1>4. ASSUME NEW w \in Worker, HandlerStep(w), ~Complete(w) PROVE Resolving(n)'
  <2>1. \A v \in Worker : pc[v] = "resolving" => pc'[v] = pc[v] /\ current'[v] = current[v]
    BY <1>0, <1>4
    DEF HandlerStep, PopNextNode, ReadOwner, ReadClaims, ReleaseWorkerLock,
        ReadDestinations, Notify, Resolved, BackoffNode, Requeue
  <2> QED BY <2>1
<1>5. ASSUME NEW i \in Instance, CreateStep(i) PROVE Resolving(n)'
  BY <1>1, <1>5 DEF CreateStep, CreateInstance, NewNode, ResolveNewNode
<1>6. ASSUME NEW t \in Thread, PushTask(t) \/ PushFuture(t) PROVE Resolving(n)'
  BY <1>1, <1>6 DEF PushTask, PushFuture
<1>7. CollectStep => Resolving(n)'
  BY <1>1 DEF CollectStep, CollectWorker, FreeNode, InvalidateWorker
<1>8. SchedulerStep \/ Tick \/ UNCHANGED vars => Resolving(n)'
  BY <1>1 DEF SchedulerStep, LockFuture, PopDue, UnlockFuture, Tick
<1> QED BY <1>2, <1>3, <1>4, <1>5, <1>6, <1>7, <1>8 DEF Next

\* Every step keeps a ready node reachable.
LEMMA StepReachable ==
  ASSUME TypeOK, CompletedFirst, CollectsOne, ClaimsCurrent, CollectedAtRest,
         WaitsWhileAttemptsLast, [Next]_vars,
         NEW n \in Node, Counted(n), Ready(n), Reachable(n)
  PROVE  Reachable(n)'
<1> USE DEF Reachable
<1>1. CASE n \in completed
  BY <1>1, StepTraces
<1>2. CASE Exhausted(n)
  BY <1>2, StepCounted
<1>3. CASE Queued(n)
  BY <1>3, StepTraces, PopsOnList
<1>4. CASE OnList(n)
  <2>1. ASSUME NEW w \in Worker, ReleaseWorkerLock(w), current[w] = n PROVE Reachable(n)'
    <3>1. CASE pc[w] = "clearing"
      BY <2>1, <3>1, StepTraces DEF CompletedFirst
    <3>2. CASE pc[w] = "clearingFailed"
      BY <2>1, <3>2 DEF ReleaseWorkerLock, Failing, TypeOK
    <3> QED BY <2>1, <3>1, <3>2 DEF ReleaseWorkerLock
  <2> QED BY <1>4, <2>1, StepOnList
<1>5. CASE Failing(n)
  BY <1>5, StepTraces, DecidesToRetry
<1>6. CASE Resolving(n)
  BY <1>6, StepResolving
<1>7. CASE Awaited(n)
  BY <1>7, StepTraces
<1> QED BY <1>1, <1>2, <1>3, <1>4, <1>5, <1>6, <1>7

\* The collector has nodes to free only while it collects.
LEMMA StepCollectsOne == TypeOK /\ CollectsOne /\ [Next]_vars => CollectsOne'
<1> SUFFICES ASSUME TypeOK, CollectsOne, [Next]_vars
             PROVE  CollectsOne'
  OBVIOUS
<1> USE DEF CollectsOne, vars, loopVars
<1>1. ASSUME UNCHANGED <<collecting, collected>> PROVE CollectsOne'
  BY <1>1 DEF NoNodes
<1>2. ASSUME NEW w \in Worker, ClientStep(w) PROVE CollectsOne'
  BY <1>1, <1>2 DEF ClientStep, NewWorker, Ping, MissPing, Crash, GetWork, SubmitWork,
                    SubmitFailure
<1>3. ASSUME NEW w \in Worker, HandlerStep(w) PROVE CollectsOne'
  BY <1>1, <1>3 DEF HandlerStep, PopNextNode, Complete, ReadOwner, ReadClaims,
                    ReleaseWorkerLock, ReadDestinations, Notify, Resolved, BackoffNode,
                    Requeue
<1>4. ASSUME NEW i \in Instance, CreateStep(i) PROVE CollectsOne'
  BY <1>1, <1>4 DEF CreateStep, CreateInstance, NewNode, ResolveNewNode
<1>5. ASSUME NEW t \in Thread, PushTask(t) \/ PushFuture(t) PROVE CollectsOne'
  BY <1>1, <1>5 DEF PushTask, PushFuture
<1>6. CollectStep => CollectsOne'
  BY ThreadAssumption DEF CollectStep, CollectWorker, FreeNode, InvalidateWorker, Thread,
                          NoNodes
<1>7. SchedulerStep \/ Tick \/ UNCHANGED vars => CollectsOne'
  BY <1>1 DEF SchedulerStep, LockFuture, PopDue, UnlockFuture, Tick
<1> QED BY <1>2, <1>3, <1>4, <1>5, <1>6, <1>7 DEF Next

\* In every graph, whichever worker dies, is collected or comes late, a node that waits
\* for its execution can be reached again as long as no update of claimedWork is lost.
THEOREM NoNodeIsOrphaned ==
  ASSUME PowersAreNatural
  PROVE  Spec /\ []ClaimsCurrent /\ []CollectedAtRest => []NoOrphan
<1> DEFINE AllCounted == \A n \in Node : Counted(n)
           AllReachable == \A n \in Node : Ready(n) => Reachable(n)
<1>1. Init => CompletedFirst /\ CollectsOne /\ AllCounted /\ AllReachable
  BY DEF Init, CompletedFirst, CollectsOne, Counted, NoNodes, Ready
<1>2. TypeOK /\ AllCounted /\ [Next]_vars => AllCounted'
  BY StepCounted
<1>3. TypeOK /\ CompletedFirst /\ CollectsOne /\ ClaimsCurrent /\ CollectedAtRest
        /\ AllCounted /\ AllReachable /\ [Next]_vars => AllReachable'
  <2> SUFFICES ASSUME TypeOK, CompletedFirst, CollectsOne, ClaimsCurrent, CollectedAtRest,
                      AllCounted, AllReachable, [Next]_vars, NEW n \in Node, Ready(n)'
               PROVE  Reachable(n)'
    OBVIOUS
  <2>1. CASE Ready(n)
    BY <2>1, StepReachable, PoliciesWait
  <2>2. CASE ~Ready(n)
    BY <2>2, StepReady DEF Reachable
  <2> QED BY <2>1, <2>2
<1>4. AllReachable => NoOrphan
  BY DEF NoOrphan, Reachable, OnList, Claimed
<1> QED
  BY InitType, StepType, StepCompletedFirst, StepCollectsOne, <1>1, <1>2, <1>3, <1>4, PTL
  DEF Spec

\* Where only dead workers miss their pings, a collected worker is at rest.
LEMMA DeadAreAtRest ==
  ASSUME LatePings = {}
  PROVE  Spec => []CollectedAtRest
<1>1. WorkersInOrder => CollectedAtRest
  BY DEF WorkersInOrder, OnlyDeadOverdue, CollectedAtRest
<1> QED
  BY WorkersInvariant, <1>1, PTL
=============================================================================
