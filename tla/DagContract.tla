---------------------------- MODULE DagContract ----------------------------
(***************************************************************************)
(* What the broker promises its clients, whatever happens inside: nodes    *)
(* are created after the nodes they depend on, and a worker is given a     *)
(* node only once all of those are done.  A worker may drop what it was    *)
(* given, and a node may be given out again, even after it was done, and   *)
(* to several workers at a time: the broker does not promise that a node   *)
(* is executed once.                                                       *)
(***************************************************************************)
CONSTANTS
  Node,   \* identifiers of the nodes clients may create
  Worker, \* identifiers of the workers
  Nil     \* no node

VARIABLES
  created, \* the nodes that were created
  sources, \* the nodes each node depends on, fixed when it is created
  done,    \* the nodes whose result was accepted
  running  \* the node each worker executes

contractVars == <<created, sources, done, running>>

ContractInit ==
  /\ created = {}
  /\ sources \in [Node -> SUBSET Node]
  /\ done = {}
  /\ running = [w \in Worker |-> Nil]

Create(n, dependencies) ==
  /\ n \in Node \ created
  /\ dependencies \subseteq created
  /\ created' = created \cup {n}
  /\ sources' = [sources EXCEPT ![n] = dependencies]
  /\ UNCHANGED <<done, running>>

Start(w, n) ==
  /\ running[w] = Nil
  /\ n \in created
  /\ sources[n] \subseteq done
  /\ running' = [running EXCEPT ![w] = n]
  /\ UNCHANGED <<created, sources, done>>

Finish(w) ==
  /\ running[w] # Nil
  /\ done' = done \cup {running[w]}
  /\ running' = [running EXCEPT ![w] = Nil]
  /\ UNCHANGED <<created, sources>>

Abandon(w) ==
  /\ running[w] # Nil
  /\ running' = [running EXCEPT ![w] = Nil]
  /\ UNCHANGED <<created, sources, done>>

ContractNext ==
  \/ \E n \in Node \ created : \E dependencies \in SUBSET created : Create(n, dependencies)
  \/ \E w \in Worker : (\E n \in Node : Start(w, n)) \/ Finish(w) \/ Abandon(w)

ContractSpec == ContractInit /\ [][ContractNext]_contractVars
=============================================================================
