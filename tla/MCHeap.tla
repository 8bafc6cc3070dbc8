------------------------------- MODULE MCHeap -------------------------------
(* A heap of a few blocks: sizes scaled down, the header to two bytes.       *)
EXTENDS Heap

Small == {0, 1, 2, 5}
=============================================================================
