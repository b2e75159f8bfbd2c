---------------------------- MODULE HiRadixCache ----------------------------
(***************************************************************************)
(* The hierarchical cache of src/miniengine/hicache.py: the radix tree of  *)
(* RadixCache.tla whose nodes keep their pages in GPU memory or, once they *)
(* are demoted, in a pool of host memory.                                  *)
(*                                                                         *)
(* page[p] is a page of the pool that the tier of p's node names.  One     *)
(* call of evict is a walk over `todo`, the heap it collected when it was  *)
(* called: every node is popped once, least recently used first, and is    *)
(* demoted, dropped or skipped.  When the CPU pool is short, evict is      *)
(* inside _evict_cpu_lru for `victim` until `dropped` pages suffice.       *)
(*                                                                         *)
(* Left out: the tensors that _copy_kv copies page by page; the copies are *)
(* finished when it returns, with and without a stream of their own.       *)
(***************************************************************************)
EXTENDS RadixCache

CONSTANT NumCpuPages   \* capacity of the CPU pool, in pages

\* CPUKVPool.from_budget refuses a pool of no page.
ASSUME CpuPoolAssumption == NumCpuPages \in Nat \ {0}

VARIABLES tier,     \* node.tier, of every node
          freeCpu,  \* cpu_pool._free, popped and extended at its end
          evicting, \* has allocate called evict?
          todo,     \* the heap of that call
          victim,   \* the node that _evict_cpu_lru makes room for, or the root
          dropped   \* pages that call has freed

evictVars == <<evicting, todo, victim, dropped>>
hiVars == <<tier, freeCpu, evicting, todo, victim, dropped>>

CpuPage == 0 .. NumCpuPages - 1

HiInit ==
    /\ CacheInit
    /\ tier = << >>
    /\ freeCpu = [i \in 1 .. NumCpuPages |-> i - 1]
    /\ evicting = FALSE /\ todo = {} /\ victim = Root /\ dropped = 0

EdgeLen(n) == Cardinality(Edge(n))

\* The prefixes whose pages are in tier t.
InTier(t) == {p \in DOMAIN page : tier[OwnerNode(p)] = t}

\* Mutant: ref_count is not looked at.
EvictableGpu_Locked == {n \in Nodes : tier[n] = "GPU"}

\* _collect_evictable_gpu_nodes: inner nodes too, since demotion keeps a node.
EvictableGpu == {n \in Nodes : ref[n] = 0 /\ tier[n] = "GPU"}

\* _collect_evictable_cpu_leaves, and the parents _evict_cpu_lru pushes.
EvictableCpu == {n \in EvictableLeaves : tier[n] = "CPU"}

\* num_evictable_pages: the unlocked pages in GPU memory.
HiNumEvictable == Cardinality({p \in InTier("GPU") : ref[OwnerNode(p)] = 0})

\* The node leaves the tree; the caller says where its pages go.
DropNode(n) ==
    /\ page' = [p \in DOMAIN page \ Edge(n) |-> page[p]]
    /\ ref' = [m \in Nodes \ {n} |-> ref[m]]
    /\ tier' = [m \in Nodes \ {n} |-> tier[m]]
    /\ older' = Touched({}, Nodes \ {n})
    /\ cached' = cached - EdgeLen(n)

\* The pages of node n are those of `pages` now.
Repage(n, pages) ==
    page' = [p \in DOMAIN page |->
                IF p \in Edge(n) THEN pages[Len(p) - EdgeStart(n)] ELSE page[p]]

\* _demote_node once the CPU pool has room: the pages move to host memory, the
\* node stays where it is.
Demote(n) ==
    /\ EdgeLen(n) <= Len(freeCpu)
    /\ Repage(n, [i \in 1 .. EdgeLen(n) |-> freeCpu[Len(freeCpu) + 1 - i]])
    /\ freeCpu' = SubSeq(freeCpu, 1, Len(freeCpu) - EdgeLen(n))
    /\ Free(EdgePages(n))
    /\ tier' = [tier EXCEPT ![n] = "CPU"]
    /\ UNCHANGED <<ref, older, cached>>

\* Mutant: the pages in host memory are not given back.
Promote_KeepsCpuPages(n) ==
    /\ EdgeLen(n) <= Len(free)
    /\ Repage(n, Popped(EdgeLen(n)))
    /\ Allocate(EdgeLen(n))
    /\ tier' = [tier EXCEPT ![n] = "GPU"]
    /\ ref' = [ref EXCEPT ![n] = @ - 1]
    /\ UNCHANGED <<freeCpu, older, cached>>

\* The end of _promote_node: allocate has found pages for the node.
Promote(n) ==
    /\ EdgeLen(n) <= Len(free)
    /\ Repage(n, Popped(EdgeLen(n)))
    /\ Allocate(EdgeLen(n))
    /\ freeCpu' = freeCpu \o EdgePages(n)
    /\ tier' = [tier EXCEPT ![n] = "GPU"]
    /\ ref' = [ref EXCEPT ![n] = @ - 1]
    /\ UNCHANGED <<older, cached>>

(***************************************************************************)
(* evict(need - Len(free)), one action per turn of its loops.  Every freed *)
(* page goes to the free list, so it runs while the list is short of need. *)
(***************************************************************************)

\* allocate is short of pages: evict collects its heap.
EvictStart(need) ==
    /\ Len(free) < need /\ ~ evicting
    /\ evicting' = TRUE
    /\ todo' = EvictableGpu
    /\ UNCHANGED <<free, cacheVars, tier, freeCpu, victim, dropped>>

\* The least recently used node of the heap is popped.
Popping(need, n) ==
    /\ evicting /\ victim = Root /\ Len(free) < need
    /\ n \in todo
    /\ \A m \in todo : <<m, n>> \notin older
    /\ todo' = todo \ {n}

\* It fits into the CPU pool at once.
EvictDemote(need, n) ==
    /\ Popping(need, n)
    /\ Demote(n)
    /\ UNCHANGED <<evicting, victim, dropped>>

\* It does not: _evict_cpu_lru(len(node.pages)) is called.
EvictMakeRoom(need, n) ==
    /\ Popping(need, n)
    /\ EdgeLen(n) > Len(freeCpu)
    /\ victim' = n /\ dropped' = 0
    /\ UNCHANGED <<free, cacheVars, tier, freeCpu, evicting>>

\* _evict_cpu_lru drops one CPU leaf, the least recently used one.
DropCpuLeaf(n) ==
    /\ victim # Root /\ dropped < EdgeLen(victim)
    /\ n \in EvictableCpu
    /\ \A m \in EvictableCpu : <<m, n>> \notin older
    /\ freeCpu' = freeCpu \o EdgePages(n)
    /\ dropped' = dropped + EdgeLen(n)
    /\ DropNode(n)
    /\ UNCHANGED <<free, evicting, todo, victim>>

\* _evict_cpu_lru has returned.
RoomMade ==
    /\ victim # Root
    /\ dropped >= EdgeLen(victim) \/ EvictableCpu = {}
    /\ victim' = Root /\ dropped' = 0

\* The second attempt of _demote_node succeeds.
DemoteVictim ==
    /\ RoomMade
    /\ Demote(victim)
    /\ UNCHANGED <<evicting, todo>>

\* Mutant: a node with children is dropped like a leaf.
DropVictim_Inner ==
    /\ RoomMade
    /\ EdgeLen(victim) > Len(freeCpu)
    /\ Free(EdgePages(victim))
    /\ DropNode(victim)
    /\ UNCHANGED <<freeCpu, evicting, todo>>

\* It fails and the node is a leaf: it is dropped and its pages are free.
DropVictim ==
    /\ RoomMade
    /\ EdgeLen(victim) > Len(freeCpu)
    /\ IsLeaf(victim)
    /\ Free(EdgePages(victim))
    /\ DropNode(victim)
    /\ UNCHANGED <<freeCpu, evicting, todo>>

\* It fails and the node has children: evict goes on without it.
SkipVictim ==
    /\ RoomMade
    /\ EdgeLen(victim) > Len(freeCpu)
    /\ ~ IsLeaf(victim)
    /\ UNCHANGED <<free, cacheVars, tier, freeCpu, evicting, todo>>

EvictStep(need) ==
    \/ EvictStart(need)
    \/ \E n \in todo : EvictDemote(need, n) \/ EvictMakeRoom(need, n)
    \/ \E n \in Nodes : DropCpuLeaf(n)
    \/ DemoteVictim \/ DropVictim \/ SkipVictim

\* allocate goes on: evict has what was needed, or was not called ...
EvictEnough(need) == victim = Root /\ Len(free) >= need
\* ... or its heap is empty and the free list is still short.
EvictShort(need) == evicting /\ victim = Root /\ todo = {} /\ Len(free) < need

EvictReset == evicting' = FALSE /\ todo' = {} /\ UNCHANGED <<victim, dropped>>
=============================================================================
