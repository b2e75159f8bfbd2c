----------------------------- MODULE RadixCache -----------------------------
(***************************************************************************)
(* The radix-tree prefix cache of src/miniengine/radix_cache.py.           *)
(*                                                                         *)
(* All matching is by whole pages, so a token sequence is taken as the     *)
(* sequence of its page keys, the tuples of PageSize tokens that index     *)
(* node.children.  The tree is kept as the set of key sequences (prefixes) *)
(* it holds.  A RadixNode is identified by the whole prefix its edge ends  *)
(* at, which a split leaves unchanged: the lower half keeps the Python     *)
(* object, its locks and its prefix.  The edge of a node runs from its     *)
(* parent (exclusive) to the node (inclusive), so splitting an edge is     *)
(* making one of its inner prefixes a node.                                *)
(*                                                                         *)
(*   page[p]   the pool page that holds the KV of the last page of p       *)
(*   ref[n]    ref_count of node n; DOMAIN ref is the set of nodes         *)
(*   older     <<m, n>> \in older iff m.last_access < n.last_access        *)
(*   cached    self._cached_page_count                                     *)
(***************************************************************************)
EXTENDS KVMemoryPool, FiniteSets

VARIABLES page, ref, older, cached

cacheVars == <<page, ref, older, cached>>

Root == << >>

Nodes == DOMAIN ref

\* The keys of the whole pages of a token sequence: _page_align_len cuts the
\* rest, _child_key makes the tuples and _match_keys compares them.
Keys(tokens) == [i \in 1 .. WholePages(Len(tokens)) |->
                    SubSeq(tokens, (i - 1) * PageSize + 1, i * PageSize)]

\* The first k pages of a key sequence.
PrefixOf(q, k) == SubSeq(q, 1, k)

CacheInit ==
    /\ page = << >>
    /\ ref = << >>
    /\ older = {}
    /\ cached = 0

\* The node whose edge holds prefix p: the shallowest node below or at p.
OwnerNode(p) ==
    CHOOSE n \in Nodes : /\ IsPrefix(p, n)
                         /\ \A m \in Nodes : IsPrefix(p, m) => Len(n) <= Len(m)

\* The nodes from the root (exclusive) to n (inclusive), the parent pointers
\* that inc_lock_ref and dec_lock_ref follow.
Path(n) == {m \in Nodes : IsPrefix(m, n)}

\* node.key, as the prefixes that end in it, and node.pages in their order.
Edge(n) == {p \in DOMAIN page : IsPrefix(p, n) /\ OwnerNode(p) = n}
EdgeStart(n) == Len(n) - Cardinality(Edge(n))
EdgePages(n) == [i \in 1 .. Cardinality(Edge(n)) |-> page[PrefixOf(n, EdgeStart(n) + i)]]

IsLeaf(n) == \A m \in Nodes : IsPrefix(n, m) => m = n

\* Mutants: ref_count is not looked at; a node with children is taken for a leaf.
EvictableLeaves_Locked == {n \in Nodes : IsLeaf(n)}
EvictableLeaves_Inner == {n \in Nodes : ref[n] = 0}

\* _collect_evictable_leaves, and the parents that evict pushes once childless.
EvictableLeaves == {n \in Nodes : IsLeaf(n) /\ ref[n] = 0}

\* num_evictable_pages: the pages on the edges of unlocked nodes.
NumEvictable == Cardinality({p \in DOMAIN page : ref[OwnerNode(p)] = 0})

\* match_prefix: how many whole pages of q a walk from the root finds.
MatchLen(q) ==
    CHOOSE k \in 0 .. Len(q) :
        /\ \A i \in 1 .. k : PrefixOf(q, i) \in DOMAIN page
        /\ k < Len(q) => PrefixOf(q, k + 1) \notin DOMAIN page

\* match_prefix: the pages of the match and its last_node.
MatchedPages(q) == [i \in 1 .. MatchLen(q) |-> page[PrefixOf(q, i)]]
LastNode(q) == IF MatchLen(q) = 0 THEN Root ELSE OwnerNode(PrefixOf(q, MatchLen(q)))

\* last_access := now on the nodes of S, where ns are the nodes of the next state.
Touched(S, ns) ==
    {mn \in older : mn[1] \in ns \ S /\ mn[2] \in ns \ S} \cup ((ns \ S) \X S)

\* Mutant: only last_node is locked, not the path above it.
MatchAndLock_NodeOnly(n) ==
    /\ ref' = [m \in Nodes |-> IF m = n THEN ref[m] + 1 ELSE ref[m]]
    /\ older' = Touched(Path(n), Nodes)
    /\ UNCHANGED <<page, cached>>

\* match_prefix stamps the path it walks; the caller then locks last_node, so
\* that the whole path is pinned.
MatchAndLock(n) ==
    /\ ref' = [m \in Nodes |-> IF IsPrefix(m, n) THEN ref[m] + 1 ELSE ref[m]]
    /\ older' = Touched(Path(n), Nodes)
    /\ UNCHANGED <<page, cached>>

\* dec_lock_ref.
Unlock(n) ==
    /\ ref' = [m \in Nodes |-> IF IsPrefix(m, n) THEN ref[m] - 1 ELSE ref[m]]
    /\ older' = Touched(Path(n), Nodes)
    /\ UNCHANGED <<page, cached>>

\* One turn of the loop of evict: the least recently used unlocked leaf goes.
EvictLeaf(n) ==
    /\ n \in EvictableLeaves
    /\ \A m \in EvictableLeaves : <<m, n>> \notin older
    /\ Free(EdgePages(n))
    /\ page' = [p \in DOMAIN page \ Edge(n) |-> page[p]]
    /\ ref' = [m \in Nodes \ {n} |-> ref[m]]
    /\ older' = Touched({}, Nodes \ {n})
    /\ cached' = cached - Len(EdgePages(n))

(***************************************************************************)
(* insert_and_return(q, pages), one action per turn of its loop.  `at` is  *)
(* page_idx, the number of pages of q walked so far, a node or the root.   *)
(***************************************************************************)

\* The child of the current node whose key starts with the next page of q.
HasChild(q, at) == PrefixOf(q, at + 1) \in DOMAIN page
Child(q, at) == OwnerNode(PrefixOf(q, at + 1))

\* Mutant: the counter grows by the whole sequence.
InsertLeaf_CountsAll(q, pages, at) ==
    LET new == {PrefixOf(q, i) : i \in at + 1 .. Len(q)}
    IN  /\ ~ HasChild(q, at)
        /\ page' = [p \in DOMAIN page \cup new |->
                       IF p \in new THEN pages[Len(p)] ELSE page[p]]
        /\ ref' = [m \in Nodes \cup {q} |-> IF m = q THEN 0 ELSE ref[m]]
        /\ older' = Touched({q}, Nodes \cup {q})
        /\ cached' = cached + Len(q)
        /\ UNCHANGED free

\* Mutant: the pages of the walked part replace those of the tree.
InsertLeaf_Overwrites(q, pages, at) ==
    LET new == {PrefixOf(q, i) : i \in 1 .. Len(q)}
    IN  /\ ~ HasChild(q, at)
        /\ page' = [p \in DOMAIN page \cup new |->
                       IF p \in new THEN pages[Len(p)] ELSE page[p]]
        /\ ref' = [m \in Nodes \cup {q} |-> IF m = q THEN 0 ELSE ref[m]]
        /\ older' = Touched({q}, Nodes \cup {q})
        /\ cached' = cached + (Len(q) - at)
        /\ UNCHANGED free

\* No child: the rest of q becomes a new leaf that keeps the given pages.
InsertLeaf(q, pages, at) ==
    LET new == {PrefixOf(q, i) : i \in at + 1 .. Len(q)}
    IN  /\ ~ HasChild(q, at)
        /\ page' = [p \in DOMAIN page \cup new |->
                       IF p \in new THEN pages[Len(p)] ELSE page[p]]
        /\ ref' = [m \in Nodes \cup {q} |-> IF m = q THEN 0 ELSE ref[m]]
        /\ older' = Touched({q}, Nodes \cup {q})
        /\ cached' = cached + (Len(q) - at)
        /\ UNCHANGED free

\* The whole edge of the child matches: unless they are the child's own pages,
\* all the incoming pages of the edge are redundant, and the engine frees them.  All
\* nodes that one call walks get the same stamp.
InsertFullEdge(q, pages, at) ==
    LET c        == Child(q, at)
        incoming == SubSeq(pages, at + 1, Len(c))
    IN  /\ HasChild(q, at)
        /\ IsPrefix(c, q)
        /\ Free(IF incoming = EdgePages(c) THEN << >> ELSE incoming)
        /\ older' = Touched(Path(c), Nodes)
        /\ UNCHANGED <<page, ref, cached>>

\* How far q follows the edge of the child, counted from the root.
SplitPoint(q, at) ==
    CHOOSE k \in at + 1 .. Len(q) :
        /\ IsPrefix(PrefixOf(q, k), Child(q, at))
        /\ k < Len(q) => ~ IsPrefix(PrefixOf(q, k + 1), Child(q, at))

\* Mutant: the new node starts unlocked.
InsertSplit_Unlocked(q, at) ==
    LET c     == Child(q, at)
        upper == PrefixOf(q, SplitPoint(q, at))
    IN  /\ HasChild(q, at)
        /\ ~ IsPrefix(c, q)
        /\ ref' = [m \in Nodes \cup {upper} |-> IF m = upper THEN 0 ELSE ref[m]]
        /\ older' = Touched(Path(c) \cup {upper}, Nodes \cup {upper})
        /\ UNCHANGED <<free, page, cached>>

\* The edge matches in part: _split_node makes the common part a node of its
\* own, with the locks of the old one.
InsertSplit(q, at) ==
    LET c     == Child(q, at)
        upper == PrefixOf(q, SplitPoint(q, at))
    IN  /\ HasChild(q, at)
        /\ ~ IsPrefix(c, q)
        /\ ref' = [m \in Nodes \cup {upper} |-> IF m = upper THEN ref[c] ELSE ref[m]]
        /\ older' = Touched(Path(c) \cup {upper}, Nodes \cup {upper})
        /\ UNCHANGED <<free, page, cached>>
=============================================================================
