--------------------------- MODULE ContractProofs ---------------------------
(***************************************************************************)
(* The broker implements its contract with the clients, for all values of  *)
(* its constants.                                                          *)
(***************************************************************************)
EXTENDS BrokerProofs

\* Whatever is handled or looked at was created.
HandledCreated == \A n \in Node : Handled(n) \/ Noticed(n) => n \in nodes

\* Only nodes that exist are looked at: the one that is being created, and those that
\* have been linked to a source.
LEMMA StepCreated ==
  ASSUME TypeOK, HandledCreated, [Next]_vars
  PROVE  HandledCreated'
<1> SUFFICES ASSUME NEW n \in Node, Handled(n)' \/ Noticed(n)' PROVE n \in nodes'
  BY DEF HandledCreated
<1> USE DEF vars, instanceVars, handlerVars
<1>1. nodes \subseteq nodes'
  <2>1. CASE \E m \in Node : NewNode(m)
    BY <2>1 DEF NewNode
  <2>2. UNCHANGED nodes \/ \E m \in Node : NewNode(m)
    BY DEF Next, ClientStep, NewWorker, Ping, MissPing, Crash, GetWork, SubmitWork,
           SubmitFailure, HandlerStep, PopNextNode, Complete, ReadOwner, ReadClaims,
           ReleaseWorkerLock, ReadDestinations, Notify, Resolved, BackoffNode, Requeue,
           CreateStep, CreateInstance, ResolveNewNode, PushTask, PushFuture,
           CollectStep, CollectWorker, FreeNode, InvalidateWorker, SchedulerStep,
           LockFuture, PopDue, UnlockFuture, Tick
  <2> QED BY <2>1, <2>2
<1>2. CASE Handled(n)'
  BY <1>1, <1>2, StepHandled DEF HandledCreated
<1>3. CASE Noticed(n)'
  <2>1. CASE \E m \in Node : NewNode(m)
    BY <1>1, <1>3, <2>1 DEF NewNode, Noticed, HandledCreated, TypeOK
  <2>2. CASE \E w \in Worker : ReadDestinations(w)
    BY <1>1, <1>3, <2>2 DEF ReadDestinations, Destinations, Noticed, HandledCreated, TypeOK
  <2>3. CASE \E w \in Worker, d \in Node : Notify(w, d)
    BY <1>1, <1>3, <2>3 DEF Notify, Noticed, HandledCreated, TypeOK
  <2>4. CASE \E i \in Instance : ResolveNewNode(i)
    BY <1>1, <1>3, <2>4, ThreadAssumption DEF ResolveNewNode, Noticed, HandledCreated, TypeOK
  <2>5. CASE UNCHANGED <<creating, notify>>
    BY <1>1, <1>3, <2>5 DEF Noticed, HandledCreated
  <2>6. \/ UNCHANGED <<creating, notify>>
        \/ \E m \in Node : NewNode(m)
        \/ \E w \in Worker : ReadDestinations(w)
        \/ \E w \in Worker, d \in Node : Notify(w, d)
        \/ \E i \in Instance : ResolveNewNode(i)
    BY DEF Next, ClientStep, NewWorker, Ping, MissPing, Crash, GetWork, SubmitWork,
           SubmitFailure, HandlerStep, PopNextNode, Complete, ReadOwner, ReadClaims,
           ReleaseWorkerLock, Resolved, BackoffNode, Requeue,
           CreateStep, CreateInstance, PushTask, PushFuture,
           CollectStep, CollectWorker, FreeNode, InvalidateWorker, SchedulerStep,
           LockFuture, PopDue, UnlockFuture, Tick
  <2> QED BY <2>1, <2>2, <2>3, <2>4, <2>5, <2>6
<1> QED BY <1>2, <1>3

LEMMA ContractInvariant == Spec => [](TypeOK /\ HandledRealized /\ HandledCreated)
<1>1. Init => HandledCreated
  <2> SUFFICES ASSUME Init, NEW n \in Node PROVE ~Handled(n) /\ ~Noticed(n)
    BY DEF HandledCreated
  <2>1. ~Noticed(n)
    BY ThreadAssumption DEF Init, Noticed, NoNodes
  <2>2. ~Queued(n)
    BY ThreadAssumption DEF Init, Queued, NoNodes
  <2>3. ~Claimed(n)
    BY DEF Init, Claimed, NoNodes
  <2>4. ~Held(n) /\ \A w \in Worker : ~(release[w].claims[n] > 0)
    BY DEF Init, Held, NoRelease, NoNodes, PC, Working
  <2> QED BY <2>1, <2>2, <2>3, <2>4 DEF Handled
<1>2. TypeOK /\ HandledCreated /\ [Next]_vars => HandledCreated'
  BY StepCreated
<1> QED BY <1>1, <1>2, HandledRealizedInvariant, InitType, PTL DEF Spec
-----------------------------------------------------------------------------
\* The states of the broker map to states of the contract, its initial states to
\* initial ones.
LEMMA InitContract == Init => Contract!ContractInit
<1> SUFFICES ASSUME Init PROVE Contract!ContractInit
  OBVIOUS
<1>1. Running = [w \in Worker |-> Nil]
  BY DEF Init, Running
<1>2. SourceSets \in [Node -> SUBSET Node]
  BY DEF SourceSets, SourcesOf
<1> QED BY <1>1, <1>2 DEF Init, Contract!ContractInit

\* A client sees nothing of most steps.
LEMMA Unseen ==
  ASSUME UNCHANGED <<nodes, completed>>,
         \A w \in Worker : Running'[w] = Running[w]
  PROVE  [Contract!ContractNext]_Contract!contractVars
<1>1. Running' = Running
  BY DEF Running
<1>2. SourceSets' = SourceSets
  BY DEF SourceSets, SourcesOf
<1> QED BY <1>1, <1>2 DEF Contract!contractVars

\* When one worker goes on, what the others execute stays.
LEMMA RunningElsewhere ==
  ASSUME TypeOK, NEW w \in Worker, NEW next,
         pc' = [pc EXCEPT ![w] = next] \/ UNCHANGED pc,
         \A v \in Worker \ {w} : current'[v] = current[v]
  PROVE  Running' = [Running EXCEPT ![w] = Running'[w]]
BY DEF Running, TypeOK

\* A worker drops what it executes.
LEMMA DroppedIsAbandoned ==
  ASSUME TypeOK, NEW w \in Worker, pc[w] \in {"executing", "resolving"},
         NEW next \in PC \ {"executing", "resolving"},
         pc' = [pc EXCEPT ![w] = next],
         \A v \in Worker \ {w} : current'[v] = current[v],
         UNCHANGED <<nodes, completed>>
  PROVE  Contract!Abandon(w)
<1>1. Running' = [Running EXCEPT ![w] = Nil]
  BY DEF Running, TypeOK
<1>2. Running[w] # Nil
  BY ThreadAssumption DEF Running, TypeOK, PC, Working
<1>3. SourceSets' = SourceSets
  BY DEF SourceSets, SourcesOf
<1> QED BY <1>1, <1>2, <1>3 DEF Contract!Abandon
\* NewNode creates a node after its sources.
LEMMA NewNodeCreates ==
  ASSUME NEW n \in Node, NewNode(n) PROVE Contract!Create(n, SourceSets[n])
<1>1. SourceSets[n] = SourcesOf(n) /\ SourceSets' = [SourceSets EXCEPT ![n] = SourceSets[n]]
  BY DEF SourceSets, SourcesOf
<1>2. Running' = Running /\ completed' = completed
  BY DEF NewNode, Running, handlerVars, nodeVars
<1> QED BY <1>1, <1>2 DEF NewNode, Contract!Create

\* A node that is popped was created, and its sources are completed.
LEMMA PopStarts ==
  ASSUME TypeOK, HandledRealized, HandledCreated, NEW w \in Worker, PopNextNode(w),
         pc'[w] # "idle"
  PROVE  \E n \in Node : Contract!Start(w, n)
<1>1. PICK n \in TopNodes(GetAllowedQueues(w)) :
        /\ pc' = [pc EXCEPT ![w] = "executing"]
        /\ current' = [current EXCEPT ![w] = n]
  BY DEF PopNextNode, TypeOK
<1>2. n \in Node /\ Handled(n)
  BY DEF TopNodes, Waiting, Handled, Queued
<1>3. n \in nodes /\ SourceSets[n] \subseteq completed
  BY <1>2 DEF HandledRealized, HandledCreated, Realized, SourceSets
<1>4. Running[w] = Nil /\ Running' = [Running EXCEPT ![w] = n]
  BY <1>1, <1>2 DEF PopNextNode, Running, TypeOK
<1>5. SourceSets' = SourceSets /\ UNCHANGED <<nodes, completed>>
  BY DEF SourceSets, SourcesOf, PopNextNode, instanceVars
<1> QED BY <1>2, <1>3, <1>4, <1>5 DEF Contract!Start

\* The completed flag is set for the node the worker was given.
LEMMA CompleteFinishes ==
  ASSUME TypeOK, NEW w \in Worker, Complete(w) PROVE Contract!Finish(w)
<1>1. Running[w] = current[w] /\ current[w] \in Node
  BY DEF Complete, Running, TypeOK, PC, Working
<1>2. Running' = [Running EXCEPT ![w] = Nil]
  BY DEF Complete, Running, TypeOK
<1>3. SourceSets' = SourceSets /\ UNCHANGED nodes
  BY DEF SourceSets, SourcesOf, Complete, instanceVars
<1> QED BY <1>1, <1>2, <1>3, ThreadAssumption DEF Complete, Contract!Finish

\* Every step of the broker is one of the contract, or one that no client sees.
LEMMA StepContract ==
  ASSUME TypeOK, HandledRealized, HandledCreated, [Next]_vars
  PROVE  [Contract!ContractNext]_Contract!contractVars
<1> DEFINE Goal == [Contract!ContractNext]_Contract!contractVars
<1> USE DEF vars, instanceVars, nodeVars, handlerVars
<1>0. ASSUME UNCHANGED <<nodes, completed, pc, current>> PROVE Goal
  BY <1>0, Unseen DEF Running
<1>9. current \in [Worker -> Node \cup {Nil}]
  BY DEF TypeOK
<1>1. ASSUME NEW w \in Worker, Contract!Abandon(w) PROVE Goal
  BY <1>1 DEF Contract!ContractNext
<1>2. ASSUME NEW w \in Worker, ClientStep(w) PROVE Goal
  <2>1. CASE NewWorker(w)
    BY <2>1, Unseen DEF NewWorker, Running, TypeOK
  <2>2. CASE Ping(w) \/ MissPing(w)
    BY <1>0, <2>2 DEF Ping, MissPing
  <2>3. CASE Crash(w)
    <3>1. CASE pc[w] = "idle"
      BY <2>3, <3>1, Unseen DEF Crash, Running, TypeOK
    <3>2. CASE pc[w] = "executing"
      <4>1. Contract!Abandon(w)
        BY <1>9, <2>3, <3>2, DroppedIsAbandoned DEF Crash, PC
      <4> QED BY <1>1, <4>1
    <3> QED BY <2>3, <3>1, <3>2 DEF Crash
  <2>4. CASE GetWork(w)
    BY <2>4, Unseen DEF GetWork, Refuse, Running, TypeOK
  <2>5. CASE SubmitWork(w)
    <3>1. CASE Refuse(w)
      <4>1. Contract!Abandon(w)
        BY <1>9, <2>5, <3>1, DroppedIsAbandoned DEF SubmitWork, Refuse, PC
      <4> QED BY <1>1, <4>1
    <3>2. CASE ~Refuse(w)
      BY <2>5, <3>2, Unseen DEF SubmitWork, Running, TypeOK
    <3> QED BY <3>1, <3>2
  <2>6. CASE SubmitFailure(w)
    <3>1. Contract!Abandon(w)
      <4>1. CASE Refuse(w)
        BY <1>9, <2>6, <4>1, DroppedIsAbandoned DEF SubmitFailure, Refuse, PC
      <4>2. CASE ~Refuse(w)
        BY <2>6, <4>2, DroppedIsAbandoned DEF SubmitFailure, PC
      <4> QED BY <4>1, <4>2
    <3> QED BY <1>1, <3>1
  <2> QED BY <1>2, <2>1, <2>2, <2>3, <2>4, <2>5, <2>6 DEF ClientStep
<1>3. ASSUME NEW w \in Worker, HandlerStep(w) PROVE Goal
  <2>1. CASE PopNextNode(w)
    <3>1. CASE pc'[w] = "idle"
      <4>1. pc[w] = "popping" /\ UNCHANGED <<nodes, completed>>
        BY <2>1 DEF PopNextNode
      <4>2. pc' = [pc EXCEPT ![w] = "idle"] /\ UNCHANGED current
        BY <2>1, <3>1 DEF PopNextNode, TypeOK
      <4> QED BY <4>1, <4>2, Unseen DEF Running, TypeOK
    <3>2. CASE pc'[w] # "idle"
      <4>1. \E n \in Node : Contract!Start(w, n)
        BY <2>1, <3>2, PopStarts
      <4> QED BY <4>1 DEF Contract!ContractNext
    <3> QED BY <3>1, <3>2
  <2>2. CASE Complete(w)
    BY <2>2, CompleteFinishes DEF Contract!ContractNext
  <2>3. CASE ReadOwner(w)
    BY <2>3, Unseen DEF ReadOwner, Running, TypeOK
  <2>8. CASE ReadClaims(w) \/ ReleaseWorkerLock(w) \/ ReadDestinations(w)
    BY <2>8, Unseen DEF ReadClaims, ReleaseWorkerLock, ReadDestinations, Running, TypeOK
  <2>4. ASSUME NEW d \in Node, Notify(w, d) PROVE Goal
    BY <1>0, <2>4 DEF Notify
  <2>5. CASE Resolved(w)
    BY <2>5, Unseen DEF Resolved, Running, TypeOK
  <2>6. CASE BackoffNode(w)
    <3>1. /\ pc[w] = "backoff" /\ UNCHANGED <<nodes, completed>>
          /\ pc' = [pc EXCEPT ![w] = "idle"] \/ pc' = [pc EXCEPT ![w] = "requeue"]
          /\ \A v \in Worker \ {w} : current'[v] = current[v]
      BY <2>6 DEF BackoffNode, TypeOK
    <3> QED BY <3>1, Unseen DEF Running, TypeOK
  <2>7. CASE Requeue(w)
    BY <2>7, Unseen DEF Requeue, Running, TypeOK
  <2> QED BY <1>3, <2>1, <2>2, <2>3, <2>4, <2>5, <2>6, <2>7, <2>8 DEF HandlerStep
<1>4. ASSUME NEW i \in Instance, CreateStep(i) PROVE Goal
  <2>1. CASE CreateInstance(i) \/ ResolveNewNode(i)
    BY <1>0, <2>1 DEF CreateInstance, ResolveNewNode
  <2>2. ASSUME NEW n \in Node, NewNode(n) PROVE Goal
    <3>1. /\ Contract!Create(n, SourceSets[n])
          /\ n \in Node \ nodes /\ SourceSets[n] \in SUBSET nodes
      BY <2>2, NewNodeCreates DEF NewNode, SourceSets
    <3> QED BY <3>1 DEF Contract!ContractNext
  <2> QED BY <1>4, <2>1, <2>2 DEF CreateStep
<1>5. ASSUME NEW t \in Thread, PushTask(t) \/ PushFuture(t) PROVE Goal
  BY <1>0, <1>5 DEF PushTask, PushFuture
<1>6. CASE CollectStep
  BY <1>0, <1>6 DEF CollectStep, CollectWorker, FreeNode, InvalidateWorker
<1>7. CASE SchedulerStep
  BY <1>0, <1>7 DEF SchedulerStep, LockFuture, PopDue, UnlockFuture
<1>8. CASE Tick \/ UNCHANGED vars
  BY <1>0, <1>8 DEF Tick
<1> QED BY <1>2, <1>3, <1>4, <1>5, <1>6, <1>7, <1>8 DEF Next

\* The broker implements its contract, for any graph of nodes, number of workers and
\* queues, whatever dies, is retried or is collected in between.
THEOREM BrokerMeetsContract == Spec => MeetsContract
BY InitContract, ContractInvariant, StepContract, PTL
   DEF Spec, MeetsContract, Contract!ContractSpec
=============================================================================
