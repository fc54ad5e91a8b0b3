-------------------------- MODULE MCPersistentBroker --------------------------
(***************************************************************************)
(* Instances of the broker with storage for TLC.                           *)
(***************************************************************************)
EXTENDS PersistentBroker, TLC

CONSTANTS a, b, c, f, g, p, q, r, v, w

\* A queue for each node, one of them tainted; workers with different queues.
ThreeQueues == (a :> p) @@ (b :> r) @@ (c :> q)
TaintedQueue == [n \in Node |-> IF n = b THEN "GPU" ELSE NoTaint]
Includes == (v :> {p, q, r}) @@ (w :> {})
Excludes == (v :> {}) @@ (w :> {q})
Tolerates == (v :> {}) @@ (w :> {"GPU"})

OneQueue == [n \in Node |-> q]
NoTaints == [n \in Node |-> NoTaint]
NoQueueNames == [k \in Worker |-> {}]

\* b needs a, c is a node of another instance and retried after a second.
Chain == [n \in Node |-> [s \in Node |-> IF n = b /\ s = a THEN 1 ELSE 0]]
InstanceOfChain == [n \in Node |-> IF n = c THEN g ELSE f]

OneRetry ==
  [n \in Node |->
     IF n = c THEN [maxAttempts |-> 1, staticInterval |-> 1, exponentialBase |-> 0]
              ELSE NoMessage]
=============================================================================
