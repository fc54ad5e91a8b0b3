-------------------------- MODULE HeapOrderProofs --------------------------
(***************************************************************************)
(* The heap is a priority queue, for any capacity, items and goroutines.   *)
(***************************************************************************)
EXTENDS HeapProofs, WellFoundedInduction

\* The priorities by position.
Ranks == [k \in 0 .. length - 1 |-> priority[slot[k]]]

\* The parent of k is not greater.
Ordered(r, k) == r[Parent(k)] <= r[k]

AllOrdered(r, b) == \A k \in 1 .. b - 1 : Ordered(r, k)

\* The first b positions are ordered but for what concerns the position a.
OrderedBut(r, b, a) ==
  \A k \in 1 .. b - 1 :
    /\ k # a /\ Parent(k) # a => Ordered(r, k)
    /\ a > 0 /\ Parent(k) = a => r[Parent(a)] <= r[k]

\* The position a is ordered with its children.
ChildrenOrdered(r, b, a) == \A k \in 1 .. b - 1 : Parent(k) = a => r[a] <= r[k]

-----------------------------------------------------------------------------
(***************************************************************************)
(* Sifting.                                                                *)
(***************************************************************************)
Smaller == {ss \in Nat \X Nat : ss[1] < ss[2]}

\* The natural numbers are well-founded, so a set of them has a least element.
LEMMA SmallerWellFounded == IsWellFoundedOn(Smaller, Nat)
<1>1. OpToRel(<, Nat) = Smaller
  BY DEF OpToRel, Smaller
<1> QED BY <1>1, NatLessThanWellFounded

LEMMA LeastNatural ==
  ASSUME NEW T \in SUBSET Nat, T # {}
  PROVE  \E k \in T : \A j \in T : k <= j
<1>1. PICK k \in T : \A j \in T : ~(<<j, k>> \in Smaller)
  BY SmallerWellFounded, WFMin
<1>2. ASSUME NEW j \in T, j < k PROVE <<j, k>> \in Smaller
  <2>1. <<j, k>> \in Nat \X Nat /\ <<j, k>>[1] = j /\ <<j, k>>[2] = k
    OBVIOUS
  <2> QED BY <1>2, <2>1 DEF Smaller
<1>3. \A j \in T : k \in Nat /\ j \in Nat
  OBVIOUS
<1>4. ASSUME NEW j \in T PROVE k <= j
  <2>1. ~(j < k)
    BY <1>1, <1>2
  <2> QED BY <1>3, <2>1
<1> QED BY <1>4

\* In an ordered heap the first position has the least priority: a least position
\* with a smaller one would have a parent with one.
LEMMA OrderedTop ==
  ASSUME NEW b \in Nat, NEW r, \A k \in 0 .. b - 1 : r[k] \in Int, AllOrdered(r, b),
         NEW j \in 0 .. b - 1
  PROVE  r[0] <= r[j]
<1> SUFFICES ASSUME r[j] < r[0] PROVE FALSE
  <2>1. r[0] \in Int /\ r[j] \in Int
    OBVIOUS
  <2> QED BY <2>1
<1> DEFINE T == {k \in 0 .. b - 1 : r[k] < r[0]}
<1>1. PICK k \in T : \A m \in T : k <= m
  <2>1. T \in SUBSET Nat /\ T # {}
    OBVIOUS
  <2> QED BY <2>1, LeastNatural
<1>2. k \in 1 .. b - 1
  BY <1>1
<1>3. Parent(k) \in 0 .. k - 1
  BY <1>2, ParentBelow
<1>4. Parent(k) \notin T
  BY <1>1, <1>2, <1>3
<1> QED BY <1>1, <1>2, <1>3, <1>4 DEF AllOrdered, Ordered

\* One step up.
LEMMA RisesOrdered ==
  ASSUME NEW b \in Nat, NEW r, NEW s, NEW a \in 1 .. b - 1,
         \A k \in 0 .. b - 1 : r[k] \in Int,
         s[a] = r[Parent(a)], s[Parent(a)] = r[a],
         \A k \in 0 .. b - 1 : k # a /\ k # Parent(a) => s[k] = r[k],
         r[a] < r[Parent(a)], OrderedBut(r, b, a), ChildrenOrdered(r, b, a)
  PROVE  OrderedBut(s, b, Parent(a)) /\ ChildrenOrdered(s, b, Parent(a))
<1> DEFINE p == Parent(a)
<1>1. p \in 0 .. a - 1 /\ \A k \in 1 .. b - 1 : Parent(k) \in 0 .. k - 1
  BY ParentBelow
<1> HIDE DEF p
<1>2. ASSUME NEW k \in 1 .. b - 1, k # p, Parent(k) # p PROVE Ordered(s, k)
  <2>1. k # a
    BY <1>2 DEF p
  <2>2. CASE Parent(k) = a
    BY <1>1, <1>2, <2>1, <2>2 DEF Ordered, OrderedBut, p
  <2>3. CASE Parent(k) # a
    <3>1. s[k] = r[k] /\ s[Parent(k)] = r[Parent(k)] /\ Ordered(r, k)
      BY <1>1, <1>2, <2>1, <2>3 DEF OrderedBut, p
    <3> QED BY <3>1 DEF Ordered
  <2> QED BY <2>2, <2>3
<1>3. p > 0 => r[Parent(p)] <= r[p]
  BY <1>1 DEF OrderedBut, Ordered, p
<1>4. ASSUME NEW k \in 1 .. b - 1, Parent(k) = p, k # a
      PROVE  r[p] <= r[k] /\ s[k] = r[k]
  BY <1>1, <1>4 DEF OrderedBut, Ordered, p
<1>5. p > 0 => Parent(p) \in 0 .. p - 1 /\ s[Parent(p)] = r[Parent(p)]
  BY <1>1, ParentBelow DEF p
<1>6. ASSUME NEW k \in 1 .. b - 1, Parent(k) = p, p > 0 PROVE s[Parent(p)] <= s[k]
  <2>1. r[Parent(p)] \in Int /\ r[p] \in Int /\ r[k] \in Int
    BY <1>1, <1>5, <1>6
  <2> QED BY <1>3, <1>4, <1>5, <1>6, <2>1 DEF p
<1>7. ASSUME NEW k \in 1 .. b - 1, Parent(k) = p PROVE s[p] <= s[k]
  <2>1. r[a] \in Int /\ r[p] \in Int /\ r[k] \in Int
    BY <1>1
  <2> QED BY <1>4, <1>7, <2>1 DEF p
<1> QED BY <1>2, <1>6, <1>7 DEF OrderedBut, ChildrenOrdered, p

\* One step down, to the smaller child.
LEMMA SinksOrdered ==
  ASSUME NEW b \in Nat, NEW r, NEW s, NEW a \in 0 .. b - 1, NEW c \in 1 .. b - 1,
         \A k \in 0 .. b - 1 : r[k] \in Int,
         Parent(c) = a, s[a] = r[c], s[c] = r[a],
         \A k \in 0 .. b - 1 : k # a /\ k # c => s[k] = r[k],
         r[c] < r[a], \A k \in 1 .. b - 1 : Parent(k) = a => r[c] <= r[k],
         OrderedBut(r, b, a)
  PROVE  OrderedBut(s, b, c) /\ Ordered(s, c)
<1>1. \A k \in 1 .. b - 1 : Parent(k) \in 0 .. k - 1
  BY ParentBelow
<1>2. ASSUME NEW k \in 1 .. b - 1, k # c, Parent(k) # c PROVE Ordered(s, k)
  <2>1. CASE k = a
    BY <1>1, <1>2, <2>1 DEF OrderedBut, Ordered
  <2>2. CASE k # a /\ Parent(k) = a
    BY <1>1, <1>2, <2>2 DEF Ordered
  <2>3. CASE k # a /\ Parent(k) # a
    BY <1>1, <1>2, <2>3 DEF OrderedBut, Ordered
  <2> QED BY <2>1, <2>2, <2>3
<1>3. ASSUME NEW k \in 1 .. b - 1, Parent(k) = c PROVE s[Parent(c)] <= s[k]
  <2>1. k # a /\ k # c /\ c # a
    BY <1>1, <1>3
  <2>2. Ordered(r, k)
    BY <1>3, <2>1 DEF OrderedBut
  <2> QED BY <1>3, <2>1, <2>2 DEF Ordered
<1>4. Ordered(s, c)
  BY DEF Ordered
<1> QED BY <1>2, <1>3, <1>4 DEF OrderedBut

\* When the position a is ordered with its parent and its children, all are.
LEMMA OrderedAgain ==
  ASSUME NEW b \in Int, NEW r, NEW a, OrderedBut(r, b, a), ChildrenOrdered(r, b, a),
         a \in 1 .. b - 1 => Ordered(r, a)
  PROVE  AllOrdered(r, b)
BY DEF AllOrdered, OrderedBut, ChildrenOrdered, Ordered

\* The order concerns only the first b positions.
LEMMA OrderKept ==
  ASSUME NEW b \in Int, NEW r, NEW s, \A k \in 0 .. b - 1 : s[k] = r[k]
  PROVE  /\ AllOrdered(r, b) => AllOrdered(s, b)
         /\ \A a \in 0 .. b - 1 : OrderedBut(r, b, a) => OrderedBut(s, b, a)
<1>1. \A k \in 1 .. b - 1 : Parent(k) \in 0 .. k - 1
  BY ParentBelow
<1>2. \A k \in 1 .. b - 1 : s[k] = r[k] /\ s[Parent(k)] = r[Parent(k)]
  BY <1>1
<1>3. \A a \in 0 .. b - 1 : a > 0 => s[Parent(a)] = r[Parent(a)]
  BY <1>2
<1> QED BY <1>2, <1>3 DEF AllOrdered, OrderedBut, Ordered

-----------------------------------------------------------------------------
(***************************************************************************)
(* The priorities by position, through the steps.                          *)
(***************************************************************************)
LEMMA RanksType ==
  ASSUME HeapInvariant
  PROVE  \A k \in 0 .. length - 1 :
           k \in Position /\ slot[k] \in Item /\ Ranks[k] = priority[slot[k]] /\ Ranks[k] \in Int
<1> SUFFICES ASSUME NEW k \in 0 .. length - 1
             PROVE  k \in Position /\ slot[k] \in Item /\ Ranks[k] = priority[slot[k]]
                    /\ Ranks[k] \in Int
  OBVIOUS
<1>1. k \in Position /\ k < length
  BY HeapAssumption DEF HeapInvariant, HeapTypeOK, Position
<1>2. slot[k] \in Item
  BY <1>1 DEF HeapInvariant, HeapTypeOK
<1>3. Ranks[k] = priority[slot[k]]
  BY DEF Ranks
<1>4. priority[slot[k]] \in Int
  BY <1>2, HeapAssumption DEF HeapInvariant, HeapTypeOK
<1> QED BY <1>1, <1>2, <1>3, <1>4

\* Different positions hold different items.
LEMMA SlotsDiffer ==
  ASSUME HeapInvariant, NEW i \in 0 .. length - 1, NEW j \in 0 .. length - 1,
         slot[i] = slot[j]
  PROVE  i = j
<1>1. i \in Position /\ i < length /\ j \in Position /\ j < length
  BY HeapAssumption DEF HeapInvariant, HeapTypeOK, Position
<1> QED BY <1>1 DEF HeapInvariant, IndexCoherent

LEMMA SwapRanks ==
  ASSUME HeapInvariant, NEW i \in 0 .. length - 1, NEW j \in 0 .. length - 1,
         Swap(i, j), UNCHANGED <<length, priority>>
  PROVE  /\ Ranks'[i] = Ranks[j] /\ Ranks'[j] = Ranks[i]
         /\ \A k \in 0 .. length - 1 : k # i /\ k # j => Ranks'[k] = Ranks[k]
<1>1. i \in Position /\ j \in Position /\ \A k \in 0 .. length - 1 : k \in Position
  BY RanksType
<1>2. \A k \in 0 .. length - 1 : Ranks'[k] = priority[slot'[k]] /\ Ranks[k] = priority[slot[k]]
  BY DEF Ranks
<1>3. slot'[i] = slot[j] /\ slot'[j] = slot[i]
  BY <1>1 DEF Swap, HeapInvariant, HeapTypeOK
<1>4. \A k \in 0 .. length - 1 : k # i /\ k # j => slot'[k] = slot[k]
  BY <1>1 DEF Swap, HeapInvariant, HeapTypeOK
<1> QED BY <1>2, <1>3, <1>4

LEMMA ChildrenOf ==
  ASSUME NEW k \in Nat, k > 0, NEW a \in Nat
  PROVE  Parent(k) = a <=> k = 2 * a + 1 \/ k = 2 * a + 2
BY DEF Parent

\* down goes to a child that is less than the position and not greater than the other.
LEMMA SinkGoesDown ==
  ASSUME HeapInvariant, MaySink
  PROVE  /\ SmallerChild(at) \in 1 .. Bound - 1
         /\ Parent(SmallerChild(at)) = at
         /\ Ranks[SmallerChild(at)] < Ranks[at]
         /\ \A k \in 1 .. Bound - 1 : Parent(k) = at => Ranks[SmallerChild(at)] <= Ranks[k]
<1>1. at \in Nat /\ Bound \in Int /\ Bound <= length /\ 2 * at + 1 < Bound
  BY HeapAssumption DEF HeapInvariant, HeapTypeOK, Bound, Position, MaySink
<1>2. /\ \A k \in 0 .. Bound - 1 : Ranks[k] = priority[slot[k]] /\ Ranks[k] \in Int
      /\ at \in 0 .. Bound - 1
  BY <1>1, RanksType DEF HeapInvariant, HeapTypeOK
<1>3. SmallerChild(at) \in 1 .. Bound - 1 /\ Parent(SmallerChild(at)) = at
  BY <1>1, ChildrenOf DEF SmallerChild
<1>4. Ranks[SmallerChild(at)] < Ranks[at]
  BY <1>2, <1>3 DEF MaySink, Less
<1>5. ASSUME NEW k \in 1 .. Bound - 1, Parent(k) = at
      PROVE  Ranks[SmallerChild(at)] <= Ranks[k]
  <2>1. k = 2 * at + 1 \/ k = 2 * at + 2
    BY <1>1, <1>5, ChildrenOf
  <2>2. 2 * at + 1 \in 0 .. Bound - 1
    BY <1>1
  <2>3. CASE 2 * at + 2 < Bound
    <3>1. 2 * at + 2 \in 0 .. Bound - 1
      BY <1>1, <2>3
    <3> QED BY <1>2, <2>1, <2>2, <2>3, <3>1 DEF SmallerChild, Less
  <2>4. CASE ~(2 * at + 2 < Bound)
    <3>1. k = 2 * at + 1 /\ SmallerChild(at) = 2 * at + 1
      BY <1>1, <2>1, <2>4 DEF SmallerChild
    <3> QED BY <1>2, <2>2, <3>1
  <2> QED BY <2>3, <2>4
<1> QED BY <1>3, <1>4, <1>5

\* down ends when no child is less.
LEMMA SinkEnds ==
  ASSUME HeapInvariant, ~MaySink, task \in {"pop", "fix", "fixed"}
  PROVE  ChildrenOrdered(Ranks, Bound, at)
<1> SUFFICES ASSUME NEW k \in 1 .. Bound - 1, Parent(k) = at PROVE Ranks[at] <= Ranks[k]
  BY DEF ChildrenOrdered
<1>1. at \in Nat /\ Bound \in Int /\ Bound <= length
  BY HeapAssumption DEF HeapInvariant, HeapTypeOK, Bound, Position
<1>2. \A j \in 0 .. Bound - 1 : Ranks[j] = priority[slot[j]] /\ Ranks[j] \in Int
  <2>1. \A j \in 0 .. Bound - 1 : j \in 0 .. length - 1
    BY <1>1 DEF HeapInvariant, HeapTypeOK
  <2> QED BY <2>1, RanksType
<1>3. k = 2 * at + 1 \/ k = 2 * at + 2
  BY <1>1, ChildrenOf
<1>4. 2 * at + 1 < Bound /\ at \in 0 .. Bound - 1 /\ 2 * at + 1 \in 0 .. Bound - 1
  BY <1>1, <1>3
<1>5. ~Less(SmallerChild(at), at)
  BY <1>4 DEF MaySink
<1>6. CASE 2 * at + 2 < Bound
  <2>1. 2 * at + 2 \in 0 .. Bound - 1
    BY <1>1, <1>6
  <2> QED BY <1>2, <1>3, <1>4, <1>5, <1>6, <2>1 DEF SmallerChild, Less
<1>7. CASE ~(2 * at + 2 < Bound)
  <2>1. k = 2 * at + 1 /\ SmallerChild(at) = 2 * at + 1
    BY <1>1, <1>3, <1>7 DEF SmallerChild
  <2> QED BY <1>2, <1>4, <1>5, <2>1 DEF Less
<1> QED BY <1>6, <1>7

-----------------------------------------------------------------------------
(***************************************************************************)
(* The order during a call: what a sift has still to put right.            *)
(***************************************************************************)
Undisturbed == \A t \in Caller : updating[t] = Nil

CallOrdered(r, b, work, a) ==
  /\ work # "panic"
  /\ work = "up" => OrderedBut(r, b, a) /\ ChildrenOrdered(r, b, a)
  /\ work \in {"fix", "fixed"} => OrderedBut(r, b, a)
  /\ work \in {"fixed", "pop"} /\ a > 0 => Ordered(r, a)
  /\ work = "pop" => OrderedBut(r, b - 1, a) /\ \A k \in 0 .. b - 1 : r[b - 1] <= r[k]

\* At most one item has a priority that the heap does not know of yet, and only
\* between two calls.
UpdateOrdered(r) ==
  \A t \in Caller : updating[t] # Nil =>
    /\ holder = Nil
    /\ \A u \in Caller : updating[u] # Nil => u = t
    /\ index[updating[t]] < length
    /\ OrderedBut(r, length, index[updating[t]])

OrderInvariant ==
  ~overlapped =>
    /\ CallOrdered(Ranks, length, task, at)
    /\ task = "none" /\ Undisturbed => AllOrdered(Ranks, length)
    /\ UpdateOrdered(Ranks)

\* A lock that is held means that nobody has changed a priority without it.
LEMMA LockedUndisturbed ==
  ASSUME HeapInvariant, OrderInvariant, ~overlapped, holder # Nil
  PROVE  Undisturbed
BY DEF OrderInvariant, UpdateOrdered, Undisturbed

LEMMA PushOrdered ==
  ASSUME HeapInvariant, OrderInvariant, NEW t \in Caller, NEW x \in Item, NEW p \in Priority,
         PushItem(t, x, p)
  PROVE  OrderInvariant'
<1> SUFFICES ASSUME ~overlapped' PROVE OrderInvariant'
  BY DEF OrderInvariant
<1>1. ~overlapped /\ task = "none" /\ Undisturbed /\ length \in Nat
  <2>1. ~overlapped /\ ~Overlaps(t)
    BY ZenonT(20) DEF PushItem
  <2>2. holder = Nil /\ updating[t] = Nil
    BY DEF PushItem, MayLock
  <2> QED BY <2>1, <2>2 DEF Overlaps, Undisturbed, HeapInvariant, HeapTypeOK
<1>2. AllOrdered(Ranks, length)
  BY <1>1 DEF OrderInvariant
<1>3. PICK s : s = Ranks'
  OBVIOUS
<1>4. \A k \in 0 .. length - 1 : s[k] = Ranks[k]
  <2> SUFFICES ASSUME NEW k \in 0 .. length - 1 PROVE s[k] = Ranks[k]
    OBVIOUS
  <2>1. k \in Position /\ k # length /\ slot[k] \in Item /\ Ranks[k] = priority[slot[k]]
    BY RanksType, <1>1
  <2>2. slot[k] # x
    BY <2>1, HeapAssumption DEF PushItem, Queued
  <2>3. slot'[k] = slot[k] /\ priority'[slot[k]] = priority[slot[k]]
    BY <2>1, <2>2 DEF PushItem, PushSlot, HeapInvariant, HeapTypeOK
  <2>4. k \in 0 .. length' - 1
    BY <1>1 DEF PushItem, PushSlot
  <2> QED BY <1>3, <2>1, <2>3, <2>4 DEF Ranks
<1>5. AllOrdered(s, length)
  BY <1>1, <1>2, <1>4, OrderKept
<1>6. \A k \in 1 .. length : Parent(k) \in 0 .. k - 1
  BY <1>1, ParentBelow
<1>7. OrderedBut(s, length + 1, length) /\ ChildrenOrdered(s, length + 1, length)
  BY <1>1, <1>5, <1>6 DEF OrderedBut, ChildrenOrdered, AllOrdered
<1>8. CallOrdered(s, length + 1, "up", length)
  BY <1>7 DEF CallOrdered
<1>9. length' = length + 1 /\ task' = "up" /\ at' = length /\ UNCHANGED updating
  BY DEF PushItem, PushSlot, Lock
<1>10. CallOrdered(Ranks', length', task', at')
  BY <1>3, <1>8, <1>9
<1>11. UpdateOrdered(Ranks)'
  BY <1>1, <1>9 DEF UpdateOrdered, Undisturbed
<1> QED BY <1>9, <1>10, <1>11 DEF OrderInvariant

LEMMA PopOrdered ==
  ASSUME HeapInvariant, OrderInvariant, NEW t \in Caller, PopItem(t)
  PROVE  OrderInvariant'
<1> SUFFICES ASSUME ~overlapped' PROVE OrderInvariant'
  BY DEF OrderInvariant
<1>1. ~overlapped /\ task = "none" /\ Undisturbed /\ length \in Nat /\ length > 0
  <2>1. ~overlapped /\ ~Overlaps(t)
    BY ZenonT(20) DEF PopItem
  <2>2. holder = Nil /\ updating[t] = Nil /\ length > 0
    BY DEF PopItem, MayLock
  <2> QED BY <2>1, <2>2 DEF Overlaps, Undisturbed, HeapInvariant, HeapTypeOK
<1>2. AllOrdered(Ranks, length)
  BY <1>1 DEF OrderInvariant
<1>3. PICK s : s = Ranks'
  OBVIOUS
<1>4. 0 \in 0 .. length - 1 /\ length - 1 \in 0 .. length - 1
  BY <1>1
<1>5. Swap(0, length - 1) /\ UNCHANGED <<length, priority, updating>> /\ task' = "pop" /\ at' = 0
  BY DEF PopItem, Lock
<1>6. /\ s[0] = Ranks[length - 1] /\ s[length - 1] = Ranks[0]
      /\ \A k \in 0 .. length - 1 : k # 0 /\ k # length - 1 => s[k] = Ranks[k]
  BY <1>3, <1>4, <1>5, SwapRanks
<1>7. \A k \in 0 .. length - 1 : Ranks[k] \in Int /\ Ranks[0] <= Ranks[k]
  <2>1. \A k \in 0 .. length - 1 : Ranks[k] \in Int
    BY RanksType
  <2> QED BY <1>1, <1>2, <2>1, OrderedTop
<1>8. \A k \in 0 .. length - 1 : s[length - 1] <= s[k]
  BY <1>4, <1>6, <1>7
<1>9. OrderedBut(s, length - 1, 0)
  <2> SUFFICES ASSUME NEW k \in 1 .. (length - 1) - 1, Parent(k) # 0 PROVE Ordered(s, k)
    BY DEF OrderedBut
  <2>1. Parent(k) \in 0 .. k - 1 /\ k \in 1 .. length - 1 /\ k # length - 1
    BY <1>1, ParentBelow
  <2>2. s[k] = Ranks[k] /\ s[Parent(k)] = Ranks[Parent(k)]
    BY <1>1, <1>6, <2>1
  <2> QED BY <1>2, <2>1, <2>2 DEF AllOrdered, Ordered
<1>10. CallOrdered(s, length, "pop", 0)
  BY <1>8, <1>9 DEF CallOrdered
<1>11. CallOrdered(Ranks', length', task', at')
  BY <1>3, <1>5, <1>10
<1>12. UpdateOrdered(Ranks)'
  BY <1>1, <1>5 DEF UpdateOrdered, Undisturbed
<1> QED BY <1>5, <1>11, <1>12 DEF OrderInvariant

LEMMA UpdateStepOrdered ==
  ASSUME HeapInvariant, OrderInvariant, NEW t \in Caller, NEW x \in Item, NEW p \in Priority,
         UpdateItem(t, x, p)
  PROVE  OrderInvariant'
<1> SUFFICES ASSUME ~overlapped' PROVE OrderInvariant'
  BY DEF OrderInvariant
<1>1. ~overlapped /\ holder = Nil /\ task = "none" /\ Undisturbed /\ length \in Nat
  <2>1. ~overlapped /\ ~Overlaps(t) /\ holder = Nil
    BY ZenonT(20) DEF UpdateItem
  <2>2. updating[t] = Nil
    BY DEF UpdateItem
  <2> QED BY <2>1, <2>2 DEF Overlaps, Undisturbed, HeapInvariant, HeapTypeOK
<1>2. AllOrdered(Ranks, length)
  BY <1>1 DEF OrderInvariant
<1>3. PICK s : s = Ranks'
  OBVIOUS
<1>4. PICK a \in Position : slot[a] = x
  BY DEF UpdateItem, Queued
<1>5. a \in 0 .. length - 1 /\ index[x] = a
  BY <1>1, <1>4, HeapAssumption DEF HeapInvariant, HeapTypeOK, IndexCoherent, Position
<1>6. \A k \in 0 .. length - 1 : k # a => s[k] = Ranks[k]
  <2> SUFFICES ASSUME NEW k \in 0 .. length - 1, k # a PROVE s[k] = Ranks[k]
    OBVIOUS
  <2>1. slot[k] # x /\ slot[k] \in Item /\ Ranks[k] = priority[slot[k]]
    BY <1>4, <1>5, RanksType, SlotsDiffer
  <2>2. slot'[k] = slot[k] /\ priority'[slot[k]] = priority[slot[k]] /\ length' = length
    BY <2>1 DEF UpdateItem, HeapInvariant, HeapTypeOK
  <2> QED BY <1>3, <2>1, <2>2 DEF Ranks
<1>7. OrderedBut(s, length, a)
  <2> SUFFICES ASSUME NEW k \in 1 .. length - 1
               PROVE  /\ k # a /\ Parent(k) # a => Ordered(s, k)
                      /\ a > 0 /\ Parent(k) = a => s[Parent(a)] <= s[k]
    BY DEF OrderedBut
  <2>1. Parent(k) \in 0 .. k - 1 /\ (a > 0 => Parent(a) \in 0 .. a - 1)
    BY <1>5, ParentBelow
  <2>2. Ranks[Parent(k)] <= Ranks[k]
    BY <1>2 DEF AllOrdered, Ordered
  <2>3. ASSUME k # a, Parent(k) # a PROVE Ordered(s, k)
    BY <1>1, <1>6, <2>1, <2>2, <2>3 DEF Ordered
  <2>4. ASSUME a > 0, Parent(k) = a PROVE s[Parent(a)] <= s[k]
    <3>1. k # a /\ s[k] = Ranks[k] /\ s[Parent(a)] = Ranks[Parent(a)]
      BY <1>1, <1>5, <1>6, <2>1, <2>4
    <3>2. Ranks[Parent(a)] <= Ranks[a]
      BY <1>2, <1>5, <2>4 DEF AllOrdered, Ordered
    <3>3. Ranks[Parent(a)] \in Int /\ Ranks[a] \in Int /\ Ranks[k] \in Int
      BY <1>1, <1>5, <2>1, <2>4, RanksType
    <3> QED BY <2>2, <2>4, <3>1, <3>2, <3>3
  <2> QED BY <2>3, <2>4
<1>8. /\ UNCHANGED <<slot, length, index, holder, task, at>>
      /\ updating' = [updating EXCEPT ![t] = x] /\ x # Nil
  BY HeapAssumption DEF UpdateItem
<1>9. CallOrdered(Ranks', length', task', at')
  BY <1>1, <1>8 DEF CallOrdered
<1>10. updating'[t] = x /\ \A u \in Caller : u # t => updating'[u] = Nil
  BY <1>1, <1>8 DEF Undisturbed, HeapInvariant, HeapTypeOK
<1>11. UpdateOrdered(Ranks)'
  <2> SUFFICES ASSUME NEW u \in Caller, updating'[u] # Nil
               PROVE  /\ holder' = Nil
                      /\ \A v \in Caller : updating'[v] # Nil => v = u
                      /\ index'[updating'[u]] < length'
                      /\ OrderedBut(Ranks', length', index'[updating'[u]])
    BY DEF UpdateOrdered
  <2>1. u = t /\ \A v \in Caller : updating'[v] # Nil => v = u
    BY <1>10
  <2>2. index'[updating'[u]] = a
    BY <1>5, <1>8, <1>10, <2>1
  <2>3. a < length'
    BY <1>1, <1>5, <1>8
  <2>4. OrderedBut(Ranks', length', index'[updating'[u]])
    BY <1>3, <1>7, <1>8, <2>2
  <2> QED BY <1>1, <1>8, <2>1, <2>2, <2>3, <2>4
<1>12. ~Undisturbed'
  BY <1>8, <1>10 DEF Undisturbed
<1> QED BY <1>9, <1>11, <1>12 DEF OrderInvariant

LEMMA FixOrdered ==
  ASSUME HeapInvariant, OrderInvariant, NEW t \in Caller, FixItem(t)
  PROVE  OrderInvariant'
<1> SUFFICES ASSUME ~overlapped' PROVE OrderInvariant'
  BY DEF OrderInvariant
<1> DEFINE a == index[updating[t]]
<1>1. ~overlapped
  BY DEF FixItem
<1>2. /\ \A u \in Caller : updating[u] # Nil => u = t
      /\ a < length /\ OrderedBut(Ranks, length, a)
  BY <1>1 DEF OrderInvariant, UpdateOrdered, FixItem
<1>3. /\ UNCHANGED <<slot, length, priority>> /\ task' = "fix" /\ at' = a
      /\ \A u \in Caller : updating'[u] = Nil
  BY <1>2 DEF FixItem, Lock, HeapInvariant, HeapTypeOK
<1>4. Ranks' = Ranks
  BY <1>3 DEF Ranks
<1> HIDE DEF a
<1>5. CallOrdered(Ranks, length, "fix", a)
  BY <1>2 DEF CallOrdered
<1>6. CallOrdered(Ranks', length', task', at')
  BY <1>3, <1>4, <1>5
<1>7. UpdateOrdered(Ranks)'
  BY <1>3 DEF UpdateOrdered
<1> QED BY <1>3, <1>6, <1>7 DEF OrderInvariant

\* After a step of a sift that keeps the lock.
LEMMA StillLocked ==
  ASSUME HeapInvariant, OrderInvariant, ~overlapped, holder # Nil,
         UNCHANGED updating, task' # "none",
         CallOrdered(Ranks', length', task', at')
  PROVE  OrderInvariant'
<1>1. Undisturbed
  BY LockedUndisturbed
<1>2. UpdateOrdered(Ranks)'
  BY <1>1 DEF UpdateOrdered, Undisturbed
<1> QED BY <1>2 DEF OrderInvariant

\* After the step that gives the lock back.
LEMMA NowUnlocked ==
  ASSUME HeapInvariant, OrderInvariant, ~overlapped, holder # Nil,
         UNCHANGED updating, task' = "none",
         AllOrdered(Ranks', length')
  PROVE  OrderInvariant'
<1>1. Undisturbed
  BY LockedUndisturbed
<1>2. UpdateOrdered(Ranks)'
  BY <1>1 DEF UpdateOrdered, Undisturbed
<1>3. CallOrdered(Ranks', length', task', at')
  BY DEF CallOrdered
<1> QED BY <1>2, <1>3 DEF OrderInvariant

LEMMA RiseOrdered ==
  ASSUME HeapInvariant, OrderInvariant, Rise
  PROVE  OrderInvariant'
<1> SUFFICES ASSUME ~overlapped' PROVE OrderInvariant'
  BY DEF OrderInvariant
<1>1. ~overlapped /\ task = "up" /\ holder # Nil /\ UNCHANGED <<length, priority, updating>>
  BY DEF Rise, HeapInvariant, HeapTypeOK
<1>2. at \in Nat /\ length \in Nat /\ (at > 0 => at \in 0 .. length - 1)
  BY <1>1, HeapAssumption DEF HeapInvariant, HeapTypeOK, Position
<1>3. OrderedBut(Ranks, length, at) /\ ChildrenOrdered(Ranks, length, at)
  BY <1>1 DEF OrderInvariant, CallOrdered
<1>4. \A k \in 0 .. length - 1 : Ranks[k] = priority[slot[k]] /\ Ranks[k] \in Int
  BY RanksType
<1>5. at > 0 => at \in 1 .. length - 1 /\ Parent(at) \in 0 .. length - 1
  BY <1>2, ParentBelow
<1>6. CASE at > 0 /\ Less(at, Parent(at)) /\ Swap(at, Parent(at)) /\ at' = Parent(at)
           /\ UNCHANGED <<holder, task>>
  <2>1. PICK s : s = Ranks'
    OBVIOUS
  <2>2. /\ s[at] = Ranks[Parent(at)] /\ s[Parent(at)] = Ranks[at]
        /\ \A k \in 0 .. length - 1 : k # at /\ k # Parent(at) => s[k] = Ranks[k]
    BY <1>1, <1>2, <1>5, <1>6, <2>1, SwapRanks
  <2>3. Ranks[at] < Ranks[Parent(at)]
    BY <1>2, <1>4, <1>5, <1>6 DEF Less
  <2>4. OrderedBut(s, length, Parent(at)) /\ ChildrenOrdered(s, length, Parent(at))
    BY <1>2, <1>3, <1>4, <1>5, <1>6, <2>2, <2>3, RisesOrdered
  <2>5. CallOrdered(s, length, "up", Parent(at))
    BY <2>4 DEF CallOrdered
  <2>6. CallOrdered(Ranks', length', task', at')
    BY <1>1, <1>6, <2>1, <2>5
  <2> QED BY <1>1, <1>6, <2>6, StillLocked
<1>7. CASE (at > 0 => ~Less(at, Parent(at))) /\ Unlock /\ UNCHANGED <<slot, index>>
  <2>1. at \in 1 .. length - 1 => Ordered(Ranks, at)
    BY <1>2, <1>4, <1>5, <1>7 DEF Less, Ordered
  <2>2. AllOrdered(Ranks, length)
    BY <1>2, <1>3, <2>1, OrderedAgain
  <2>3. Ranks' = Ranks
    BY <1>1, <1>7 DEF Ranks
  <2>4. AllOrdered(Ranks', length')
    BY <1>1, <2>2, <2>3
  <2>5. task' = "none"
    BY <1>7 DEF Unlock
  <2> QED BY <1>1, <2>4, <2>5, NowUnlocked
<1> QED BY <1>6, <1>7 DEF Rise

LEMMA SinkOrdered ==
  ASSUME HeapInvariant, OrderInvariant, Sink
  PROVE  OrderInvariant'
<1> SUFFICES ASSUME ~overlapped' PROVE OrderInvariant'
  BY DEF OrderInvariant
<1>1. /\ ~overlapped /\ task \in {"pop", "fix", "fixed"} /\ holder # Nil /\ MaySink
      /\ UNCHANGED <<length, priority, updating>>
  BY DEF Sink, HeapInvariant, HeapTypeOK
<1>2. PICK c : c = SmallerChild(at)
  OBVIOUS
<1>3. PICK s : s = Ranks'
  OBVIOUS
<1>4. /\ c \in 1 .. Bound - 1 /\ Parent(c) = at /\ Ranks[c] < Ranks[at]
      /\ \A k \in 1 .. Bound - 1 : Parent(k) = at => Ranks[c] <= Ranks[k]
  BY <1>1, <1>2, SinkGoesDown
<1>5. Swap(at, c) /\ at' = c /\ task' = IF task = "pop" THEN "pop" ELSE "fixed"
  BY <1>2 DEF Sink
<1>6. /\ length \in Nat /\ Bound \in Nat /\ at \in 0 .. Bound - 1
      /\ Bound = IF task = "pop" THEN length - 1 ELSE length
  <2>1. at \in Nat /\ length \in Nat
    BY HeapAssumption DEF HeapInvariant, HeapTypeOK, Position
  <2>2. 2 * at + 1 < Bound
    BY <1>1 DEF MaySink
  <2> QED BY <2>1, <2>2 DEF Bound
<1>7. /\ \A k \in 0 .. Bound - 1 : k \in 0 .. length - 1
      /\ at \in 0 .. length - 1 /\ c \in 0 .. length - 1
  BY <1>4, <1>6
<1>8. \A k \in 0 .. length - 1 : Ranks[k] \in Int
  BY RanksType
<1>9. /\ s[at] = Ranks[c] /\ s[c] = Ranks[at]
      /\ \A k \in 0 .. length - 1 : k # at /\ k # c => s[k] = Ranks[k]
  BY <1>1, <1>3, <1>5, <1>7, SwapRanks
<1>10. OrderedBut(Ranks, Bound, at)
  BY <1>1, <1>6 DEF OrderInvariant, CallOrdered
<1>11. OrderedBut(s, Bound, c) /\ Ordered(s, c)
  <2>1. \A k \in 0 .. Bound - 1 : Ranks[k] \in Int /\ (k # at /\ k # c => s[k] = Ranks[k])
    BY <1>7, <1>8, <1>9
  <2> QED BY <1>4, <1>6, <1>9, <1>10, <2>1, SinksOrdered
<1>12. CASE task = "pop"
  <2>1. \A k \in 0 .. length - 1 : Ranks[length - 1] <= Ranks[k]
    BY <1>1, <1>12 DEF OrderInvariant, CallOrdered
  <2>2. length - 1 # at /\ length - 1 # c /\ length - 1 \in 0 .. length - 1
    BY <1>4, <1>6, <1>12
  <2>3. s[length - 1] = Ranks[length - 1]
    BY <1>9, <2>2
  <2>4. ASSUME NEW k \in 0 .. length - 1 PROVE s[length - 1] <= s[k]
    BY <1>7, <1>9, <2>1, <2>3
  <2>5. CallOrdered(s, length, "pop", c)
    BY <1>6, <1>11, <1>12, <2>4 DEF CallOrdered
  <2>6. CallOrdered(Ranks', length', task', at')
    BY <1>1, <1>3, <1>5, <1>12, <2>5
  <2> QED BY <1>1, <1>5, <1>12, <2>6, StillLocked
<1>13. CASE task # "pop"
  <2>1. CallOrdered(s, length, "fixed", c)
    BY <1>6, <1>11, <1>13 DEF CallOrdered
  <2>2. CallOrdered(Ranks', length', task', at')
    BY <1>1, <1>3, <1>5, <1>13, <2>1
  <2> QED BY <1>1, <1>5, <1>13, <2>2, StillLocked
<1> QED BY <1>12, <1>13

LEMMA SettleOrdered ==
  ASSUME HeapInvariant, OrderInvariant, Settle
  PROVE  OrderInvariant'
<1> SUFFICES ASSUME ~overlapped' PROVE OrderInvariant'
  BY DEF OrderInvariant
<1>1. /\ ~overlapped /\ task \in {"pop", "fix", "fixed"} /\ holder # Nil /\ ~MaySink
      /\ UNCHANGED <<priority, updating>>
  BY DEF Settle, HeapInvariant, HeapTypeOK
<1>2. ChildrenOrdered(Ranks, Bound, at)
  BY <1>1, SinkEnds
<1>3. length \in Nat /\ at \in Nat /\ CallOrdered(Ranks, length, task, at)
  BY <1>1, HeapAssumption DEF OrderInvariant, HeapInvariant, HeapTypeOK, Position
<1>4. CASE task = "pop" /\ PopSlot /\ Unlock
  <2>1. PICK s : s = Ranks'
    OBVIOUS
  <2>2. Bound = length - 1 /\ length - 1 \in Int /\ length - 1 >= 0 /\ length' = length - 1
    BY <1>3, <1>4 DEF Bound, PopSlot, HeapInvariant, HeapTypeOK, Position
  <2>3. OrderedBut(Ranks, length - 1, at) /\ (at \in 1 .. (length - 1) - 1 => Ordered(Ranks, at))
    BY <1>3, <1>4 DEF CallOrdered
  <2>4. AllOrdered(Ranks, length - 1)
    BY <1>2, <2>2, <2>3, OrderedAgain
  <2>5. \A k \in 0 .. (length - 1) - 1 : s[k] = Ranks[k]
    <3> SUFFICES ASSUME NEW k \in 0 .. (length - 1) - 1 PROVE s[k] = Ranks[k]
      OBVIOUS
    <3>1. k \in 0 .. length - 1 /\ k \in 0 .. length' - 1 /\ k # length - 1
      BY <1>3, <2>2
    <3>2. k \in Position /\ Ranks[k] = priority[slot[k]]
      BY <3>1, RanksType
    <3>3. slot'[k] = slot[k]
      BY <1>4, <3>1, <3>2 DEF PopSlot, HeapInvariant, HeapTypeOK
    <3>4. s[k] = priority'[slot'[k]]
      BY <2>1, <3>1 DEF Ranks
    <3> QED BY <1>1, <3>2, <3>3, <3>4
  <2>6. AllOrdered(s, length - 1)
    BY <2>2, <2>4, <2>5, OrderKept
  <2>7. AllOrdered(Ranks', length') /\ task' = "none"
    BY <1>4, <2>1, <2>2, <2>6 DEF Unlock
  <2> QED BY <1>1, <2>7, NowUnlocked
<1>5. CASE task = "fixed" /\ Unlock /\ UNCHANGED <<slot, length>>
  <2>1. OrderedBut(Ranks, length, at) /\ (at \in 1 .. length - 1 => Ordered(Ranks, at))
    BY <1>3, <1>5 DEF CallOrdered
  <2>2. Bound = length
    BY <1>5 DEF Bound
  <2>3. AllOrdered(Ranks, length)
    BY <1>2, <1>3, <2>1, <2>2, OrderedAgain
  <2>4. Ranks' = Ranks
    BY <1>1, <1>5 DEF Ranks
  <2>5. AllOrdered(Ranks', length') /\ task' = "none"
    BY <1>5, <2>3, <2>4 DEF Unlock
  <2> QED BY <1>1, <2>5, NowUnlocked
<1>6. CASE task = "fix" /\ task' = "up" /\ UNCHANGED <<slot, length, holder, at>>
  <2>1. OrderedBut(Ranks, length, at) /\ Bound = length
    BY <1>3, <1>6 DEF CallOrdered, Bound
  <2>2. CallOrdered(Ranks, length, "up", at)
    BY <1>2, <2>1 DEF CallOrdered
  <2>3. Ranks' = Ranks
    BY <1>1, <1>6 DEF Ranks
  <2>4. CallOrdered(Ranks', length', task', at')
    BY <1>6, <2>2, <2>3
  <2> QED BY <1>1, <1>6, <2>4, StillLocked
<1> QED BY <1>4, <1>5, <1>6 DEF Settle

LEMMA InitOrdered == HeapInit => OrderInvariant
<1> SUFFICES ASSUME HeapInit PROVE OrderInvariant
  OBVIOUS
<1>1. AllOrdered(Ranks, length)
  BY DEF HeapInit, AllOrdered
<1>2. CallOrdered(Ranks, length, task, at)
  BY DEF HeapInit, CallOrdered
<1>3. UpdateOrdered(Ranks)
  BY DEF HeapInit, UpdateOrdered
<1> QED BY <1>1, <1>2, <1>3 DEF OrderInvariant

LEMMA StepOrdered ==
  ASSUME HeapInvariant, OrderInvariant, [HeapNext]_heapVars
  PROVE  OrderInvariant'
<1>1. CASE UNCHANGED heapVars
  <2>1. Ranks' = Ranks
    BY <1>1 DEF heapVars, Ranks
  <2>2. UNCHANGED <<length, holder, task, at, updating, index, overlapped>>
    BY <1>1 DEF heapVars
  <2>3. UpdateOrdered(Ranks) => UpdateOrdered(Ranks)'
    BY <2>1, <2>2 DEF UpdateOrdered
  <2> QED BY <2>1, <2>2, <2>3 DEF OrderInvariant, Undisturbed
<1> QED BY <1>1, PushOrdered, PopOrdered, UpdateStepOrdered, FixOrdered, RiseOrdered,
           SinkOrdered, SettleOrdered DEF HeapNext, SiftStep

LEMMA OrderInvariantHolds == HeapSpec => [](HeapInvariant /\ OrderInvariant)
BY InitHeap, StepHeap, InitOrdered, StepOrdered, PTL DEF HeapSpec

-----------------------------------------------------------------------------
LEMMA OrderedTopIsLeast ==
  ASSUME HeapInvariant, OrderInvariant
  PROVE  TopIsLeast
<1> SUFFICES ASSUME holder = Nil, length > 0, ~overlapped, \A t \in Caller : updating[t] = Nil,
                    NEW x \in Queued
             PROVE  priority[Top] <= priority[x]
  BY DEF TopIsLeast
<1>1. AllOrdered(Ranks, length) /\ length \in Nat
  BY DEF OrderInvariant, Undisturbed, HeapInvariant, HeapTypeOK
<1>2. PICK k \in Position : slot[k] = x /\ x # Nil
  BY DEF Queued
<1>3. k \in 0 .. length - 1 /\ 0 \in 0 .. length - 1
  BY <1>1, <1>2, HeapAssumption DEF HeapInvariant, HeapTypeOK, Position
<1>4. \A j \in 0 .. length - 1 : Ranks[j] = priority[slot[j]] /\ Ranks[j] \in Int
  BY RanksType
<1>5. Ranks[0] <= Ranks[k]
  BY <1>1, <1>3, <1>4, OrderedTop
<1> QED BY <1>2, <1>3, <1>4, <1>5 DEF Top

\* Between two calls, PeekItem returns an item of least priority, unless a call to
\* change a priority has overlapped another call.
THEOREM PeekedIsLeast == HeapSpec => []TopIsLeast
BY OrderInvariantHolds, OrderedTopIsLeast, PTL

-----------------------------------------------------------------------------
(***************************************************************************)
(* The heap implements the priority queue.                                 *)
(***************************************************************************)
LEMMA QueuedAt ==
  ASSUME HeapInvariant
  PROVE  Queued = {slot[k] : k \in 0 .. length - 1}
<1>1. \A k : k \in 0 .. length - 1 <=> k \in Position /\ slot[k] # Nil
  BY HeapAssumption DEF HeapInvariant, HeapTypeOK, Position
<1> QED BY <1>1 DEF Queued

LEMMA SwapKeepsQueued ==
  ASSUME HeapInvariant, NEW i \in 0 .. length - 1, NEW j \in 0 .. length - 1, Swap(i, j)
  PROVE  Queued' = Queued
<1>1. i \in Position /\ j \in Position
  BY RanksType
<1>2. /\ slot'[i] = slot[j] /\ slot'[j] = slot[i]
      /\ \A k \in Position : k # i /\ k # j => slot'[k] = slot[k]
  BY <1>1 DEF Swap, HeapInvariant, HeapTypeOK
<1>3. ASSUME NEW x PROVE (\E k \in Position : slot'[k] = x) <=> (\E k \in Position : slot[k] = x)
  BY <1>1, <1>2
<1> QED BY <1>3 DEF Queued

LEMMA InitQueue == HeapInit => Queue!QueueInit
<1> SUFFICES ASSUME HeapInit PROVE Queue!QueueInit
  OBVIOUS
<1>1. Queued = {}
  BY DEF HeapInit, Queued
<1>2. priority \in [Item -> Priority] /\ overlapped = FALSE
  BY InitHeap DEF HeapInvariant, HeapTypeOK, HeapInit
<1> QED BY <1>1, <1>2 DEF Queue!QueueInit

\* The end of a PopItem takes an item of least priority, the last one, away.
LEMMA SettleTakes ==
  ASSUME HeapInvariant, OrderInvariant, Settle
  PROVE  UNCHANGED <<Queued, priority>> \/ \E x \in Item : Queue!Take(x)
<1>1. CASE task = "pop" /\ PopSlot
  <2> DEFINE last == length - 1
             x == slot[last]
  <2>1. /\ length \in Nat /\ last \in 0 .. length - 1 /\ last \in Position /\ x \in Item /\ x # Nil
        /\ \A k \in 0 .. length - 1 : k \in Position
    <3>1. length \in Nat /\ length > 0
      BY <1>1, HeapAssumption DEF HeapInvariant, HeapTypeOK, Position
    <3> QED BY <3>1, RanksType, HeapAssumption
  <2>2. /\ slot'[last] = Nil
        /\ \A k \in Position : k # last => slot'[k] = slot[k]
    BY <1>1, <2>1 DEF PopSlot, HeapInvariant, HeapTypeOK
  <2>3. \A k \in Position : slot[k] = x => k = last
    <3> SUFFICES ASSUME NEW k \in Position, slot[k] = x PROVE k = last
      OBVIOUS
    <3>1. k \in 0 .. length - 1
      BY <2>1, HeapAssumption DEF HeapInvariant, HeapTypeOK, Position
    <3> QED BY <2>1, <3>1, SlotsDiffer
  <2> HIDE DEF x, last
  <2>4. Queued' = Queued \ {x} /\ x \in Queued
    <3>1. x \in Queued
      BY <2>1 DEF Queued, x
    <3>2. ASSUME NEW y PROVE y \in Queued' <=> y \in Queued \ {x}
      BY <2>1, <2>2, <2>3 DEF Queued, x
    <3> QED BY <3>1, <3>2
  <2>5. ~overlapped => \A y \in Queued : priority[x] <= priority[y]
    <3> SUFFICES ASSUME ~overlapped, NEW y \in Queued PROVE priority[x] <= priority[y]
      OBVIOUS
    <3>1. \A k \in 0 .. length - 1 : Ranks[length - 1] <= Ranks[k]
      BY <1>1 DEF OrderInvariant, CallOrdered
    <3>2. PICK k \in 0 .. length - 1 : slot[k] = y
      BY QueuedAt
    <3>3. \A j \in 0 .. length - 1 : Ranks[j] = priority[slot[j]]
      BY RanksType
    <3> QED BY <2>1, <3>1, <3>2, <3>3 DEF x, last
  <2>6. Queue!Take(x)
    BY <2>4, <2>5 DEF Queue!Take, Settle
  <2> QED BY <2>1, <2>6
<1>2. CASE UNCHANGED slot
  BY <1>2 DEF Queued, Settle
<1> QED BY <1>1, <1>2 DEF Settle

LEMMA StepQueue ==
  ASSUME HeapInvariant, OrderInvariant, [HeapNext]_heapVars
  PROVE  [Queue!QueueNext]_<<Queued, priority, overlapped>>
<1>1. ASSUME NEW t \in Caller, NEW x \in Item, NEW p \in Priority, PushItem(t, x, p)
      PROVE  Queue!QueueNext
  <2>1. length \in Position /\ x # Nil
    BY <1>1, HeapAssumption DEF PushItem, HeapInvariant, HeapTypeOK, Position
  <2>2. slot'[length] = x /\ slot[length] = Nil
        /\ \A k \in Position : k # length => slot'[k] = slot[k]
    BY <1>1, <2>1, HeapAssumption DEF PushItem, PushSlot, HeapInvariant, HeapTypeOK, Position
  <2>3. Queued' = Queued \cup {x}
    <3>1. ASSUME NEW y PROVE y \in Queued' <=> y \in Queued \cup {x}
      BY <2>1, <2>2 DEF Queued
    <3> QED BY <3>1
  <2>4. Queue!Add(x, p)
    BY <1>1, <2>3 DEF PushItem, Queue!Add
  <2>5. overlapped => overlapped'
    BY <1>1, ZenonT(20) DEF PushItem
  <2> QED BY <2>4, <2>5 DEF Queue!QueueNext
<1>2. ASSUME NEW t \in Caller, PopItem(t) PROVE Queue!QueueNext
  <2>1. 0 \in 0 .. length - 1 /\ length - 1 \in 0 .. length - 1
    BY <1>2 DEF PopItem, HeapInvariant, HeapTypeOK
  <2>2. Queued' = Queued /\ priority' = priority
    BY <1>2, <2>1, SwapKeepsQueued DEF PopItem
  <2>3. overlapped => overlapped'
    BY <1>2, ZenonT(20) DEF PopItem
  <2> QED BY <2>2, <2>3 DEF Queue!QueueNext
<1>3. ASSUME NEW t \in Caller, FixItem(t) PROVE Queue!QueueNext
  BY <1>3 DEF FixItem, Queued, Queue!QueueNext
<1>4. ASSUME NEW t \in Caller, NEW x \in Item, NEW p \in Priority, UpdateItem(t, x, p)
      PROVE  Queue!QueueNext
  <2>1. Queue!Update(x, p)
    BY <1>4 DEF UpdateItem, Queued, Queue!Update
  <2>2. overlapped => overlapped'
    BY <1>4, ZenonT(20) DEF UpdateItem
  <2> QED BY <2>1, <2>2 DEF Queue!QueueNext
<1>5. CASE Rise
  <2>1. at > 0 => at \in 0 .. length - 1 /\ Parent(at) \in 0 .. length - 1
    <3>1. at \in Nat /\ (at > 0 => at < length) /\ length \in Nat
      BY <1>5, HeapAssumption DEF Rise, HeapInvariant, HeapTypeOK, Position
    <3> QED BY <3>1, ParentBelow
  <2>2. Queued' = Queued
    <3>1. CASE at > 0 /\ Swap(at, Parent(at))
      BY <2>1, <3>1, SwapKeepsQueued
    <3>2. CASE UNCHANGED slot
      BY <3>2 DEF Queued
    <3> QED BY <1>5, <3>1, <3>2 DEF Rise
  <2> QED BY <1>5, <2>2 DEF Rise, Queue!QueueNext
<1>6. CASE Sink
  <2>1. at \in 0 .. length - 1 /\ SmallerChild(at) \in 0 .. length - 1
    <3>1. at \in Nat /\ length \in Nat /\ at < length /\ Bound \in Int /\ Bound <= length
      BY <1>6, HeapAssumption DEF Sink, MaySink, HeapInvariant, HeapTypeOK, Position, Bound
    <3>2. SmallerChild(at) \in 1 .. Bound - 1
      BY <1>6, SinkGoesDown DEF Sink
    <3> QED BY <3>1, <3>2
  <2>2. Queued' = Queued
    BY <1>6, <2>1, SwapKeepsQueued DEF Sink
  <2> QED BY <1>6, <2>2 DEF Sink, Queue!QueueNext
<1>7. CASE Settle
  <2>1. UNCHANGED overlapped
    BY <1>7 DEF Settle
  <2> QED BY <1>7, <2>1, SettleTakes DEF Queue!QueueNext
<1>8. CASE UNCHANGED heapVars
  BY <1>8 DEF heapVars, Queued
<1> QED BY <1>1, <1>2, <1>3, <1>4, <1>5, <1>6, <1>7, <1>8 DEF HeapNext, SiftStep

\* Every behaviour of the heap is one of a priority queue: no sift loses or doubles
\* an item, and PopItem takes one of least priority, unless a call to change a
\* priority has overlapped another call.
THEOREM HeapMeetsQueue == HeapSpec => MeetsPriorityQueue
<1>1. HeapInvariant /\ OrderInvariant /\ [HeapNext]_heapVars => [Queue!QueueNext]_Queue!queueVars
  BY StepQueue DEF Queue!queueVars
<1> QED BY <1>1, InitQueue, OrderInvariantHolds, PTL
        DEF HeapSpec, MeetsPriorityQueue, Queue!QueueSpec
=============================================================================
