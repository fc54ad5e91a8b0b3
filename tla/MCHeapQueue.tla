---------------------------- MODULE MCHeapQueue ----------------------------
(***************************************************************************)
(* An instance of the heap for TLC.                                        *)
(***************************************************************************)
EXTENDS HeapQueue, TLC

HeapSymmetry == Permutations(Item) \cup Permutations(Caller)
=============================================================================
