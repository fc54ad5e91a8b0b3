----------------------------- MODULE MCBroker -----------------------------
(***************************************************************************)
(* Instances of the broker for TLC: one set of definitions per scenario,   *)
(* which the .cfg files substitute for the constants of Broker.            *)
(***************************************************************************)
EXTENDS BrokerProperties, TLC

CONSTANTS a, b, c, f, q, v, w

OneInstance == [n \in Node |-> f]
OneQueue == [n \in Node |-> q]
NoTaints == [n \in Node |-> NoTaint]
NoRetries == [n \in Node |-> NoMessage]
NoQueueNames == [k \in Worker |-> {}]

Edges(E) == [n \in Node |-> [s \in Node |-> IF <<s, n>> \in E THEN 1 ELSE 0]]

Roots == Edges({})

\* a and b are independent, c needs both.
Diamond == Edges({<<a, c>>, <<b, c>>})
DiamondSymmetry == Permutations({a, b}) \cup Permutations({v, w})
SourceSymmetry == Permutations({a, b})

\* b is called with a for two arguments.
DoubledChain == [Edges({}) EXCEPT ![b][a] = 2]

Message(max, static, base) ==
  [maxAttempts |-> max, staticInterval |-> static, exponentialBase |-> base]

\* a waits 1 and 2 seconds and the jitter before its two retries.
TwoRetries == [n \in Node |-> IF n = a THEN Message(2, 0, 2) ELSE NoMessage]

DiamondRetries == [n \in Node |-> IF n = c THEN Message(2, 0, 2) ELSE NoMessage]
=============================================================================
