---------------------------- MODULE HeapProofs ----------------------------
(***************************************************************************)
(* Theorems about the heap, for any capacity, items and goroutines.        *)
(***************************************************************************)
EXTENDS HeapQueue, TLAPS

\* An item that is about to be fixed has been in the slice.
UpdatingIndexed == \A t \in Caller : updating[t] # Nil => index[updating[t]] >= 0

HeapInvariant == HeapTypeOK /\ IndexCoherent /\ UpdatingIndexed

\* The way up leads to a lower position, the way down stays below the bound.
LEMMA ParentBelow == ASSUME NEW k \in Nat, k > 0 PROVE Parent(k) \in 0 .. k - 1
BY DEF Parent

LEMMA ChildBelow ==
  ASSUME HeapTypeOK, MaySink
  PROVE  SmallerChild(at) \in Position /\ SmallerChild(at) < Bound
<1>1. at \in Nat /\ length \in 0 .. Capacity /\ Bound \in Int /\ Bound <= length
  BY HeapAssumption DEF HeapTypeOK, Bound, Position
<1>2. 2 * at + 1 < Bound
  BY DEF MaySink
<1> QED BY <1>1, <1>2, HeapAssumption DEF SmallerChild, Position

\* A swap of two queued items keeps the slice and the indexes in step.
LEMMA SwapCoherent ==
  ASSUME HeapInvariant, NEW i \in Position, NEW j \in Position, i < length, j < length,
         Swap(i, j), UNCHANGED <<length, updating>>
  PROVE  /\ slot' \in [Position -> Item \cup {Nil}]
         /\ \A k \in Position : slot'[k] # Nil <=> k < length
         /\ index' \in [Item -> -1 .. Capacity - 1]
         /\ IndexCoherent' /\ UpdatingIndexed'
<1> USE DEF HeapInvariant, HeapTypeOK
<1>1. slot[i] \in Item /\ slot[j] \in Item /\ index[slot[i]] = i /\ index[slot[j]] = j
  BY DEF IndexCoherent
<1>2. /\ slot' \in [Position -> Item \cup {Nil}]
      /\ index' \in [Item -> -1 .. Capacity - 1]
  BY <1>1, HeapAssumption DEF Swap, Position
<1>3. \A k \in Position : slot'[k] # Nil <=> k < length
  BY <1>1, HeapAssumption DEF Swap
<1>4. ASSUME NEW k \in Position, k < length PROVE index'[slot'[k]] = k
  <2>1. slot[k] \in Item /\ index[slot[k]] = k
    BY <1>4, HeapAssumption DEF IndexCoherent
  <2>2. CASE k = i
    BY <1>1, <2>2 DEF Swap
  <2>3. CASE k = j
    BY <1>1, <2>3 DEF Swap
  <2>4. CASE k # i /\ k # j
    BY <1>1, <2>1, <2>4 DEF Swap
  <2> QED BY <2>2, <2>3, <2>4
<1>5. UpdatingIndexed'
  BY <1>1 DEF UpdatingIndexed, Swap, Position
<1> QED BY <1>2, <1>3, <1>4, <1>5 DEF IndexCoherent

LEMMA InitHeap == HeapInit => HeapInvariant
<1> SUFFICES ASSUME HeapInit PROVE HeapInvariant
  OBVIOUS
<1> USE HeapAssumption DEF HeapInit
<1>1. priority \in [Item -> Priority]
  <2>1. (CHOOSE p \in Priority : TRUE) \in Priority
    OBVIOUS
  <2> QED BY <2>1
<1>2. 0 \in Position /\ \A k \in Position : slot[k] = Nil /\ ~(k < length)
  BY DEF Position
<1>3. /\ slot \in [Position -> Item \cup {Nil}]
      /\ length \in 0 .. Capacity
      /\ index \in [Item -> -1 .. Capacity - 1]
      /\ updating \in [Caller -> Item \cup {Nil}]
  OBVIOUS
<1>4. HeapTypeOK
  <2> HIDE DEF HeapInit
  <2>1. holder = Nil /\ task = "none" /\ at = 0 /\ overlapped = FALSE
    BY DEF HeapInit
  <2> QED BY <1>1, <1>2, <1>3, <2>1 DEF HeapTypeOK, Task
<1> QED BY <1>2, <1>4 DEF HeapInvariant, IndexCoherent, UpdatingIndexed

LEMMA StepHeap ==
  ASSUME HeapInvariant, [HeapNext]_heapVars
  PROVE  HeapInvariant'
<1> USE HeapAssumption DEF HeapInvariant
<1>1. ASSUME NEW t \in Caller, NEW x \in Item, NEW p \in Priority, PushItem(t, x, p)
      PROVE  HeapInvariant'
  <2>1. length \in Position /\ length + 1 \in 0 .. Capacity /\ length' = length + 1
    BY <1>1 DEF PushItem, PushSlot, HeapTypeOK, Position
  <2>2. HeapTypeOK'
    BY <1>1, <2>1 DEF PushItem, PushSlot, Lock, MayLock, HeapTypeOK, Position, Task
  <2>3. IndexCoherent'
    <3> SUFFICES ASSUME NEW k \in Position, k < length + 1 PROVE index'[slot'[k]] = k
      BY <2>1 DEF IndexCoherent
    <3>1. CASE k = length
      BY <1>1, <3>1 DEF PushItem, PushSlot, HeapTypeOK
    <3>2. CASE k # length
      <4>1. k < length /\ slot[k] \in Item /\ slot[k] # x
        BY <1>1, <3>2 DEF PushItem, Queued, HeapTypeOK, Position
      <4> QED BY <1>1, <3>2, <4>1 DEF PushItem, PushSlot, IndexCoherent, HeapTypeOK
    <3> QED BY <3>1, <3>2
  <2>4. UpdatingIndexed'
    BY <1>1, <2>1 DEF PushItem, PushSlot, UpdatingIndexed, HeapTypeOK, Position
  <2> QED BY <2>2, <2>3, <2>4
<1>2. ASSUME NEW t \in Caller, PopItem(t) PROVE HeapInvariant'
  <2>1. 0 \in Position /\ length - 1 \in Position /\ length > 0
    BY <1>2 DEF PopItem, HeapTypeOK, Position
  <2>2. Swap(0, length - 1) /\ UNCHANGED <<length, updating>>
    BY <1>2 DEF PopItem
  <2>3. /\ slot' \in [Position -> Item \cup {Nil}]
        /\ \A k \in Position : slot'[k] # Nil <=> k < length
        /\ index' \in [Item -> -1 .. Capacity - 1]
        /\ IndexCoherent' /\ UpdatingIndexed'
    BY <2>1, <2>2, SwapCoherent DEF HeapTypeOK
  <2> QED BY <1>2, <2>1, <2>3 DEF PopItem, Lock, HeapTypeOK, Task
<1>3. ASSUME NEW t \in Caller, FixItem(t) PROVE HeapInvariant'
  <2>1. index[updating[t]] \in Position
    BY <1>3 DEF FixItem, UpdatingIndexed, HeapTypeOK, Position
  <2>2. HeapTypeOK'
    BY <1>3, <2>1 DEF FixItem, Lock, HeapTypeOK, Task, Position
  <2>3. IndexCoherent' /\ UpdatingIndexed'
    BY <1>3 DEF FixItem, IndexCoherent, UpdatingIndexed, HeapTypeOK
  <2> QED BY <2>2, <2>3
<1>4. ASSUME NEW t \in Caller, NEW x \in Item, NEW p \in Priority, UpdateItem(t, x, p)
      PROVE  HeapInvariant'
  <2>1. HeapTypeOK' /\ IndexCoherent'
    BY <1>4 DEF UpdateItem, HeapTypeOK, IndexCoherent
  <2>2. index[x] \in Position
    BY <1>4 DEF UpdateItem, Queued, IndexCoherent, HeapTypeOK, Position
  <2> QED BY <1>4, <2>1, <2>2 DEF UpdateItem, UpdatingIndexed, HeapTypeOK, Position
<1>5. CASE Rise
  <2>1. CASE at > 0 /\ Swap(at, Parent(at)) /\ at' = Parent(at) /\ UNCHANGED <<holder, task>>
    <3>1. at \in Position /\ Parent(at) \in Position /\ at < length /\ Parent(at) < length
      BY <1>5, <2>1, ParentBelow DEF Rise, HeapTypeOK, Position
    <3>2. /\ slot' \in [Position -> Item \cup {Nil}]
          /\ \A k \in Position : slot'[k] # Nil <=> k < length
          /\ index' \in [Item -> -1 .. Capacity - 1]
          /\ IndexCoherent' /\ UpdatingIndexed'
      BY <1>5, <2>1, <3>1, SwapCoherent DEF Rise
    <3> QED BY <1>5, <2>1, <3>1, <3>2 DEF Rise, HeapTypeOK
  <2>2. CASE Unlock /\ UNCHANGED <<slot, index>>
    BY <1>5, <2>2 DEF Rise, Unlock, HeapTypeOK, IndexCoherent, UpdatingIndexed, Task
  <2> QED BY <1>5, <2>1, <2>2 DEF Rise
<1>6. CASE Sink
  <2> DEFINE c == SmallerChild(at)
  <2>1. at \in Position /\ at < length /\ c \in Position /\ c < length
    <3>1. c \in Position /\ c < Bound
      BY <1>6, ChildBelow DEF Sink
    <3>2. at \in Position /\ at < length
      BY <1>6 DEF Sink, MaySink, Bound, HeapTypeOK, Position
    <3>3. c \in Int /\ length \in Int /\ Bound <= length /\ Bound \in Int
      BY <3>1 DEF HeapTypeOK, Bound, Position
    <3> HIDE DEF c
    <3> QED BY <3>1, <3>2, <3>3
  <2>2. Swap(at, c) /\ UNCHANGED <<length, updating>>
    BY <1>6 DEF Sink
  <2>3. /\ slot' \in [Position -> Item \cup {Nil}]
        /\ \A k \in Position : slot'[k] # Nil <=> k < length
        /\ index' \in [Item -> -1 .. Capacity - 1]
        /\ IndexCoherent' /\ UpdatingIndexed'
    BY <2>1, <2>2, SwapCoherent
  <2> HIDE DEF c
  <2>4. /\ at' = c /\ task' \in {"pop", "fixed"} /\ task # "none"
        /\ UNCHANGED <<length, priority, holder, updating, overlapped>>
    BY <1>6 DEF Sink, c
  <2> QED BY <2>1, <2>3, <2>4 DEF HeapTypeOK, Task
<1>7. CASE Settle
  <2>1. CASE task = "pop" /\ PopSlot /\ Unlock
    <3>1. length - 1 \in Position
      BY <2>1 DEF HeapTypeOK, Position
    <3>2. HeapTypeOK'
      BY <1>7, <2>1, <3>1 DEF Settle, PopSlot, Unlock, HeapTypeOK, Position, Task
    <3>3. IndexCoherent' /\ UpdatingIndexed'
      BY <1>7, <2>1, <3>1 DEF Settle, PopSlot, IndexCoherent, UpdatingIndexed, HeapTypeOK,
                              Position
    <3> QED BY <3>2, <3>3
  <2>2. CASE task \in {"fixed", "fix"} /\ UNCHANGED <<slot, length>>
    BY <1>7, <2>2 DEF Settle, Unlock, HeapTypeOK, IndexCoherent, UpdatingIndexed, Task
  <2> QED BY <1>7, <2>1, <2>2 DEF Settle
<1>8. CASE UNCHANGED heapVars
  BY <1>8 DEF heapVars, HeapTypeOK, IndexCoherent, UpdatingIndexed
<1> QED BY <1>1, <1>2, <1>3, <1>4, <1>5, <1>6, <1>7, <1>8 DEF HeapNext, SiftStep

LEMMA HeapInvariantHolds == HeapSpec => []HeapInvariant
BY InitHeap, StepHeap, PTL DEF HeapSpec

-----------------------------------------------------------------------------
\* The slice, the lock and the calls are of their types in every behaviour.
THEOREM HeapTypeCorrect == HeapSpec => []HeapTypeOK
BY HeapInvariantHolds, PTL DEF HeapInvariant

\* Every queued item knows its position after every swap, whatever overlaps.
THEOREM IndexesAreCoherent == HeapSpec => []IndexCoherent
BY HeapInvariantHolds, PTL DEF HeapInvariant
=============================================================================
