----------------------------- MODULE MCHiPaged ------------------------------
(* Instances of HiPagedEngine for TLC: r1 and r3 share a prompt of two pages, *)
(* r4 and r5 have the first page of it, r2 shares nothing.                     *)
EXTENDS HiPagedEngine

HiPrompt == [r \in Req |-> CASE r \in {"r1", "r3"} -> <<"a", "b">>
                             [] r = "r2" -> <<"b", "b", "b">>
                             [] r \in {"r4", "r5"} -> <<"a">>]

\* No page is reserved for r5, whose commit raises once it has a token, or when its
\* prompt is not cached.
HiMaxNew == [r \in Req |-> IF r = "r5" THEN -1 ELSE 1]
HiGen == [r \in Req |-> {r}]
=============================================================================
