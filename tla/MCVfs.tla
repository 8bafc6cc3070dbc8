------------------------------- MODULE MCVfs -------------------------------
(* Names and contents for the file system. A byte is told from an entry.    *)
EXTENDS Vfs

CONSTANTS f, g, h, f4, out, out2, out3, out4

Byte(letter) == <<"byte", letter>>
Text(n) == [j \in 1 .. n |-> Byte(IF j % 2 = 1 THEN "X" ELSE "Y")]
Short == <<Byte("A")>>
Long == <<Byte("A"), Byte("B"), Byte("B"), Byte("C")>>
NewlineCells == <<Byte("N")>>

OneDefault == <<<<f, Text(2)>>>>
TwoDefaults == <<<<f, Text(4)>>, <<g, <<>>>>>>
TwoBuffers == {Short, Long}

\* The boot of the code, its first file cut to two clusters: three files and, with the
\* streams, seven entries in a directory that has room for six.
CodeDefaults == <<<<f, Text(9)>>, <<g, Text(12)>>, <<h, Text(12)>>>>
CodeBuffers == {Long \o <<Byte("D")>>}

\* The view of the file-system runs. done is history: no operation reads it and
\* it only tells the properties which call a step was. They name it primed only,
\* and TLC evaluates an action property on every step it takes, also on one to a
\* state it has seen, so merging the states that differ in done loses nothing.
WithoutHistory == <<fs, eax, calls>>
=============================================================================
