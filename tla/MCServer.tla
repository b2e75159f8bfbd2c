------------------------------ MODULE MCServer ------------------------------
(* Small instances of Server for TLC. *)
EXTENDS Server

\* r1 gets up to two tokens, the others up to one.
TwoThenOne == [r \in Req |-> IF r = "r1" THEN 2 ELSE 1]

\* All requests are answered, or one, which may disconnect, is not.
SomeStuck == {{ }, {"r1"}}
=============================================================================
