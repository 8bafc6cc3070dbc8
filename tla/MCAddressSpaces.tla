-------------------------- MODULE MCAddressSpaces --------------------------
(* A machine of a few frames, three processes and two program files.         *)
EXTENDS AddressSpaces, TLC

CONSTANTS p1, p2, p3

\* The second segment of "long" begins in the table of the first and crosses
\* into another, which it does not fill; the first segment of "flush" ends with
\* its page, where the second begins.
Files ==
  [x \in {"long", "flush"} |->
     IF x = "long"
     THEN <<[first |-> 0, full |-> 0, rest |-> TRUE],
            [first |-> 1, full |-> 1, rest |-> TRUE]>>
     ELSE <<[first |-> 0, full |-> 1, rest |-> FALSE],
            [first |-> 1, full |-> 0, rest |-> TRUE]>>]

\* A page of the image, which fork does not copy, and the last page of the heap.
PagesWritten == {<<0, 0>>, <<3, 1>>}

Processes == Permutations(Process)
=============================================================================
