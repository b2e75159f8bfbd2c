----------------------------- MODULE MCPagedKV ------------------------------
(* Small instances of PagedKV for TLC. *)
EXTENDS PagedKV

\* r1 has a prompt of two pages, r3 the first of them, and may generate what r1 has in
\* the second or something else; r4 shares nothing with them and makes the cache evict.
\* r2 has the prompt of r1 and a negative number: its peak is one page, and it gets to
\* a token if at least one more is cached.
ForkPrompt == [r \in Req |-> IF r = "r3" THEN <<"a", "a">>
                             ELSE IF r = "r4" THEN <<"b", "b", "b", "b">>
                             ELSE <<"a", "a", "b", "b">>]
ForkMaxNew == [r \in Req |-> CASE r = "r1" -> 1 [] r = "r2" -> -2 [] r = "r3" -> 2
                               [] r = "r4" -> 3]
ForkGen == [r \in Req |-> {"b", "c"}]

\* Two requests with one prompt, and a third that has its first page and may generate
\* the rest.
SharedPrompt == [r \in Req |-> IF r = "r3" THEN <<"a">> ELSE <<"a", "b">>]
SharedMaxNew == [r \in Req |-> IF r = "r3" THEN 2 ELSE 1]
SharedGen == [r \in Req |-> {"b", "c"}]

\* Prompts of one to three tokens with a common beginning.
NestedPrompt == [r \in Req |-> IF r \in {"r1", "r4"} THEN <<"a", "b", "c">>
                               ELSE IF r = "r2" THEN <<"a", "b">> ELSE <<"c">>]
TwoNew == [r \in Req |-> 2]

\* r4 has room for the first page of its prompt only.
OneShort == [r \in Req |-> IF r = "r4" THEN -1 ELSE 2]
AnyToken == [r \in Req |-> Token]
AnyGen == [r \in Req |-> {"a", "c"}]
OneStops == [r \in Req |-> IF r = "r2" THEN {"a", "c"} ELSE {"a"}]

\* Prompts of one whole page, two of them the same, and answers that differ.  The
\* last token begins a page, so that all that is committed was written; nobody
\* generates what is cached; and r3 and r4, whose answers are long enough to split
\* an edge, do not fit into six pages together.
PagePrompt == [r \in Req |-> IF r \in {"r3", "r4"} THEN <<"c", "c">> ELSE <<"a", "b">>]
OddMaxNew == [r \in Req |-> IF r = "r3" THEN 5 ELSE IF r = "r4" THEN 3 ELSE 1]
OwnGen == [r \in Req |-> {r}]
=============================================================================
