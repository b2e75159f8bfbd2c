------------------------------ MODULE PagePool ------------------------------
(***************************************************************************)
(* What paged serving promises about pages, without free lists, page       *)
(* tables or trees: at any time a page has one owner - the pool, the       *)
(* prefix cache or a request - and every move goes from the owner that has *)
(* it.  Cached pages may be lent to requests but never belong to them.     *)
(***************************************************************************)
CONSTANTS Page, Req

VARIABLE owner

Init == owner = [g \in Page |-> "free"]

\* The pages of S, all of owner a, go to owner b.
Move(S, a, b) ==
    /\ \A g \in S : owner[g] = a
    /\ owner' = [g \in Page |-> IF g \in S THEN b ELSE owner[g]]

Take(r) == \E S \in SUBSET Page : Move(S, "free", r)
Return(r) == \E S \in SUBSET Page : Move(S, r, "free")
Donate(r) == \E S \in SUBSET Page : Move(S, r, "cache")
Evict == \E S \in SUBSET Page : Move(S, "cache", "free")

Next == Evict \/ \E r \in Req : Take(r) \/ Return(r) \/ Donate(r)

\* Every page keeps one owner and changes it only by one of these moves.
Spec == Init /\ [][Next]_owner
=============================================================================
