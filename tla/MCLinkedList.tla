---------------------------- MODULE MCLinkedList ----------------------------
(* Model values for a list of up to four nodes.                              *)
EXTENDS LinkedList, TLC

NodeSymmetry == Permutations(Node)
=============================================================================
