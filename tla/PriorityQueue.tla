--------------------------- MODULE PriorityQueue ---------------------------
(***************************************************************************)
(* What the broker relies on when it pops a queue: an item that was pushed *)
(* comes out once, and it has the least priority of those still queued, as *)
(* long as no call to change a priority has overlapped another call.       *)
(***************************************************************************)
EXTENDS Integers

CONSTANTS
  Item,    \* the QueuedJobs
  Priority \* the priorities they may have

VARIABLES
  queued,    \* the items in the queue
  priority,  \* QueuedJob.priority
  overlapped \* has an update ever overlapped another call?

queueVars == <<queued, priority, overlapped>>

QueueInit ==
  /\ queued = {}
  /\ priority \in [Item -> Priority]
  /\ overlapped = FALSE

Add(x, p) ==
  /\ x \notin queued
  /\ queued' = queued \cup {x}
  /\ priority' = [priority EXCEPT ![x] = p]

Take(x) ==
  /\ x \in queued
  /\ ~overlapped => \A y \in queued : priority[x] <= priority[y]
  /\ queued' = queued \ {x}
  /\ UNCHANGED priority

Update(x, p) ==
  /\ priority' = [priority EXCEPT ![x] = p]
  /\ UNCHANGED queued

QueueNext ==
  /\ overlapped => overlapped'
  /\ \/ UNCHANGED <<queued, priority>>
     \/ \E x \in Item : (\E p \in Priority : Add(x, p) \/ Update(x, p)) \/ Take(x)

QueueSpec == QueueInit /\ [][QueueNext]_queueVars
=============================================================================
