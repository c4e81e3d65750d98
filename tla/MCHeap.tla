-------------------------------- MODULE MCHeap --------------------------------
(***************************************************************************)
(* Small heaps: the addresses are interchangeable.                         *)
(***************************************************************************)
EXTENDS Heap, TLC

MCSize == [k \in Kind |-> IF k = "STRING" THEN 1 ELSE 2]
Addresses == Permutations(Obj)
=============================================================================
