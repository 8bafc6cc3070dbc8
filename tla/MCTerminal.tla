---------------------------- MODULE MCTerminal ----------------------------
(* Two terminals, a program on the second, a small screen and a buffer of three.   *)
EXTENDS Terminal

ShellId == [p \in Process |-> IF p = "shell1" THEN 1 ELSE 2]

Keys == {"l", "c", "1", "2", "a"}
Plain == [k \in Keys |-> k]
Digits == <<"1", "2">>
Capitals == [k \in Keys |-> "A"]

Printed == {<<>>, <<"char", "newline">>, <<"return">>}
=============================================================================
