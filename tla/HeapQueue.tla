----------------------------- MODULE HeapQueue -----------------------------
(***************************************************************************)
(* One HeapQueue: the slice that Go's container/heap keeps as a binary     *)
(* heap through Heap's Less, Swap, Push and Pop, and the calls that work   *)
(* on it.  A call holds accessLock while it moves items, one swap at a     *)
(* step.  UpdateItem writes the priority of its item before it asks for    *)
(* the lock, so that the write may fall between two steps of another call. *)
(* The broker never calls UpdateItem.                                      *)
(***************************************************************************)
EXTENDS Integers

CONSTANTS
  Item,     \* the QueuedJobs
  Caller,   \* the goroutines
  Priority, \* the priorities they give
  Nil,      \* no goroutine, no item
  Capacity  \* bound: the most items at a time

ASSUME HeapAssumption ==
  /\ Capacity \in Nat \ {0}
  /\ Priority \subseteq Int /\ Priority # {}
  /\ Nil \notin Item \cup Caller

Position == 0 .. Capacity - 1

VARIABLES
  slot,      \* the slice; Nil behind its end
  length,    \* its length
  priority,  \* QueuedJob.priority
  index,     \* QueuedJob.index
  holder,    \* the goroutine that holds accessLock
  task,      \* what it does: sift up, sift down to pop, sift down to fix
  at,        \* the position it has come to
  updating,  \* the item of an UpdateItem call that waits for the lock
  overlapped \* history: has an UpdateItem call ever overlapped another call?

heapVars == <<slot, length, priority, index, holder, task, at, updating, overlapped>>

\* "fixed" is "fix" after the first swap; "panic": an index was out of range.
Task == {"none", "up", "pop", "fix", "fixed", "panic"}

HeapTypeOK ==
  /\ slot \in [Position -> Item \cup {Nil}]
  /\ length \in 0 .. Capacity
  /\ \A k \in Position : slot[k] # Nil <=> k < length
  /\ priority \in [Item -> Priority]
  /\ index \in [Item -> -1 .. Capacity - 1]
  /\ holder \in Caller \cup {Nil}
  /\ task \in Task
  /\ holder = Nil <=> task = "none"
  /\ at \in Position
  /\ task \in {"pop", "fixed"} => at < length
  /\ task \in {"up", "fix"} => at < length \/ at = 0
  /\ updating \in [Caller -> Item \cup {Nil}]
  /\ overlapped \in BOOLEAN

HeapInit ==
  /\ slot = [k \in Position |-> Nil]
  /\ length = 0
  /\ priority = [x \in Item |-> CHOOSE p \in Priority : TRUE]
  /\ index = [x \in Item |-> -1]
  /\ holder = Nil
  /\ task = "none"
  /\ at = 0
  /\ updating = [t \in Caller |-> Nil]
  /\ overlapped = FALSE

-----------------------------------------------------------------------------
\* Mistake: the order is that of a heap with the greatest on top.
More(i, j) == priority[slot[i]] > priority[slot[j]]

Less(i, j) == priority[slot[i]] < priority[slot[j]]

\* Mistake: the indexes stay with the positions.
SwapSlots(i, j) ==
  /\ slot' = [slot EXCEPT ![i] = slot[j], ![j] = slot[i]]
  /\ UNCHANGED index

Swap(i, j) ==
  /\ slot' = [slot EXCEPT ![i] = slot[j], ![j] = slot[i]]
  /\ index' = [index EXCEPT ![slot[j]] = i, ![slot[i]] = j]

Queued == {slot[k] : k \in Position} \ {Nil}

\* Heap.Push and Heap.Pop: the slice grows and shrinks at its end.
PushSlot(x) ==
  /\ slot' = [slot EXCEPT ![length] = x]
  /\ index' = [index EXCEPT ![x] = length]
  /\ length' = length + 1

PopSlot ==
  /\ slot' = [slot EXCEPT ![length - 1] = Nil]
  /\ length' = length - 1

\* The goroutine is in no call; the lock is free.
MayLock(t) == holder = Nil /\ updating[t] = Nil

Lock(t, work, position) ==
  /\ holder' = t
  /\ task' = work
  /\ at' = position

\* Mistake: the lock is given back in the middle of the call.
UnlockEarly ==
  /\ holder' = Nil
  /\ UNCHANGED <<task, at>>

Unlock ==
  /\ holder' = Nil
  /\ task' = "none"
  /\ UNCHANGED at

\* Another goroutine is between the two halves of UpdateItem.
Overlaps(t) == \E u \in Caller \ {t} : updating[u] # Nil

-----------------------------------------------------------------------------
(***************************************************************************)
(* PushItem makes a new QueuedJob, appends it and sifts it up.             *)
(***************************************************************************)
PushItem(t, x, p) ==
  /\ MayLock(t)
  /\ length < Capacity
  /\ x \notin Queued
  /\ \A u \in Caller : updating[u] # x
  /\ PushSlot(x)
  /\ priority' = [priority EXCEPT ![x] = p]
  /\ Lock(t, "up", length)
  /\ overlapped' = (overlapped \/ Overlaps(t))
  /\ UNCHANGED updating

Parent(k) == (k - 1) \div 2

\* up: until the parent is not greater.
Rise ==
  /\ task = "up"
  /\ \/ /\ at > 0 /\ Less(at, Parent(at))
        /\ Swap(at, Parent(at))
        /\ at' = Parent(at)
        /\ UNCHANGED <<holder, task>>
     \/ /\ at > 0 => ~Less(at, Parent(at))
        /\ Unlock
        /\ UNCHANGED <<slot, index>>
  /\ UNCHANGED <<length, priority, updating, overlapped>>

-----------------------------------------------------------------------------
\* Mistake: Heap.Pop is called, not heap.Pop.
PopLast(t) ==
  /\ MayLock(t)
  /\ length > 0
  /\ PopSlot
  /\ UNCHANGED <<priority, index, holder, task, at, updating, overlapped>>

(***************************************************************************)
(* PopItem swaps the first and the last item, sifts the new first one down *)
(* among the others and cuts the last one off.  On an empty heap it        *)
(* returns nil.                                                            *)
(***************************************************************************)
PopItem(t) ==
  /\ MayLock(t)
  /\ length > 0
  /\ Swap(0, length - 1)
  /\ Lock(t, "pop", 0)
  /\ overlapped' = (overlapped \/ Overlaps(t))
  /\ UNCHANGED <<length, priority, updating>>

\* The item to be popped takes no part in the sifting.
Bound == IF task = "pop" THEN length - 1 ELSE length

SmallerChild(k) ==
  IF 2 * k + 2 < Bound /\ Less(2 * k + 2, 2 * k + 1) THEN 2 * k + 2 ELSE 2 * k + 1

MaySink == 2 * at + 1 < Bound /\ Less(SmallerChild(at), at)

\* down: until no child is smaller.
Sink ==
  /\ task \in {"pop", "fix", "fixed"}
  /\ MaySink
  /\ Swap(at, SmallerChild(at))
  /\ at' = SmallerChild(at)
  /\ task' = IF task = "pop" THEN "pop" ELSE "fixed"
  /\ UNCHANGED <<length, priority, holder, updating, overlapped>>

\* The end of down: Pop cuts the slice, Fix goes up if nothing went down.
Settle ==
  /\ ~MaySink
  /\ \/ /\ task = "pop"
        /\ PopSlot
        /\ Unlock
     \/ /\ task = "fixed"
        /\ Unlock
        /\ UNCHANGED <<slot, length>>
     \/ /\ task = "fix"
        /\ task' = "up"
        /\ UNCHANGED <<slot, length, holder, at>>
  /\ UNCHANGED <<priority, index, updating, overlapped>>

-----------------------------------------------------------------------------
(***************************************************************************)
(* UpdateItem, for an item that is queued: the write without the lock, and *)
(* Fix under it, at the index the item has by then.  An item that was      *)
(* popped in between keeps the index it had last, at which another item    *)
(* may be by then, or none: up then reads past the end of the slice, but   *)
(* for index 0, at which neither down nor up reads anything.               *)
(***************************************************************************)
UpdateItem(t, x, p) ==
  /\ task # "panic"
  /\ holder # t /\ updating[t] = Nil
  /\ x \in Queued
  /\ priority' = [priority EXCEPT ![x] = p]
  /\ updating' = [updating EXCEPT ![t] = x]
  /\ overlapped' = (overlapped \/ holder # Nil \/ Overlaps(t))
  /\ UNCHANGED <<slot, length, index, holder, task, at>>

FixItem(t) ==
  LET k == index[updating[t]]
  IN  /\ holder = Nil
      /\ updating[t] # Nil
      /\ Lock(t, IF k < length \/ k = 0 THEN "fix" ELSE "panic", k)
      /\ updating' = [updating EXCEPT ![t] = Nil]
      /\ UNCHANGED <<slot, length, priority, index, overlapped>>

\* PeekItem
Top == slot[0]

SiftStep == Rise \/ Sink \/ Settle

HeapNext ==
  \/ \E t \in Caller :
       \/ PopItem(t) \/ FixItem(t)
       \/ \E x \in Item, p \in Priority : PushItem(t, x, p) \/ UpdateItem(t, x, p)
  \/ SiftStep

HeapSpec == HeapInit /\ [][HeapNext]_heapVars

-----------------------------------------------------------------------------
\* Every queued item knows its position, which Fix relies on, and so is queued
\* once: through all swaps, at every step.
IndexCoherent == \A k \in Position : k < length => index[slot[k]] = k

\* What PeekItem returns between two calls has the least priority: PopNextNode and
\* the scheduler compare the tops of queues and then pop them.
TopIsLeast ==
  holder = Nil /\ length > 0 /\ ~overlapped /\ (\A t \in Caller : updating[t] = Nil) =>
    \A x \in Queued : priority[Top] <= priority[x]

Queue == INSTANCE PriorityQueue WITH queued <- Queued

\* The heap implements the priority queue the broker relies on: PopItem takes the
\* least item away, and no sifting loses or doubles one.
MeetsPriorityQueue == Queue!QueueSpec
=============================================================================
