--------------------------- MODULE MCPagedServing ---------------------------
(* Small instances of PagedServing for TLC. *)
EXTENDS PagedServing

\* Prompts that share their first page; each answer is a token of its own, so the
\* first request to finish leaves one long edge that the others follow in part.
ForkPrompt == [r \in Req |-> IF r = "r1" THEN <<"a", "b">>
                             ELSE IF r = "r2" THEN <<"a", "c">> ELSE <<"a", "b", "c">>]
OneNew == [r \in Req |-> 1]
ThreeThenOne == [r \in Req |-> IF r = "r1" THEN 3 ELSE 1]
OwnGen == [r \in Req |-> {r}]
=============================================================================
