\* Five items, so that an item can sink by two levels, and two goroutines.
CONSTANTS
  Item = {i1, i2, i3, i4, i5}
  Caller = {t, u}
  Priority = {1, 2, 3}
  Nil = Nil
  Capacity = 5
SPECIFICATION HeapSpec
INVARIANTS
  HeapTypeOK
  IndexCoherent
  TopIsLeast
PROPERTIES
  MeetsPriorityQueue
SYMMETRY HeapSymmetry
CHECK_DEADLOCK FALSE
