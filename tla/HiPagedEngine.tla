---------------------------- MODULE HiPagedEngine ---------------------------
(***************************************************************************)
(* The paged engine of PagedEngine.tla over the hierarchical cache: the    *)
(* match walks the tree one child at a time, and a child whose pages are   *)
(* in host memory is brought back before the walk goes on.  Nothing of the *)
(* path is locked until the walk has ended.                                *)
(***************************************************************************)
EXTENDS PagedEngine, HiRadixCache

\* The tiers are those of a cache that is attached to the pool.
ASSUME TierAssumption == RadixEnabled

hvars == <<vars, hiVars>>

HiEngineInit ==
    /\ Init
    /\ HiInit

\* paged_kv_can_admit, where num_evictable is that of the hierarchical cache.
HiAdmit(r) ==
    /\ pc = "idle" /\ status[r] = "waiting"
    /\ Cardinality(Active) < MaxRunning
    /\ MapThenSumSet(Peak, Active) + Peak(r) <= NumPages
    /\ Len(free) + HiNumEvictable >= Peak(r)
    /\ status' = [status EXCEPT ![r] = "admitted"]
    /\ UNCHANGED <<free, cacheVars, out, table, hit, lock, pc, cur, at, hiVars>>

(***************************************************************************)
(* match_prefix for the prompt of cur.  `at` is idx in pages; table[cur]   *)
(* is matched_pages, and hit[cur] its length.                              *)
(***************************************************************************)

Query == Keys(Prompt[cur])
NextChild == Child(Query, at)
WalkEnded == at < Len(Query) => ~ HasChild(Query, at)

MatchStart(r) ==
    /\ pc = "idle" /\ status[r] = "admitted"
    /\ pc' = "match" /\ cur' = r
    /\ UNCHANGED <<free, cacheVars, reqVars, at, hiVars>>

\* _ensure_gpu_pages finds the child in host memory; it is kept from being
\* dropped while allocate looks for pages.
MatchCpuChild ==
    /\ pc = "match" /\ ~ WalkEnded
    /\ tier[NextChild] = "CPU"
    /\ pc' = "promote"
    /\ ref' = [ref EXCEPT ![NextChild] = @ + 1]
    /\ older' = Touched(Path(NextChild), Nodes)
    /\ UNCHANGED <<free, page, cached, reqVars, cur, at, hiVars>>

\* The child is in GPU memory: the pages of what matches of its edge are taken.
\* All stamps of one walk are the same.
MatchGpuChild ==
    /\ pc = "match" /\ ~ WalkEnded
    /\ tier[NextChild] = "GPU"
    /\ LET k == SplitPoint(Query, at) IN
         /\ at' = k
         /\ hit' = [hit EXCEPT ![cur] = k]
         /\ table' = [table EXCEPT ![cur] =
                @ \o [i \in 1 .. k - at |-> page[PrefixOf(Query, at + i)]]]
    /\ older' = Touched(Path(NextChild), Nodes)
    /\ UNCHANGED <<free, page, ref, cached, status, out, lock, pc, cur, hiVars>>

\* Mutant: of a child that matches in part the parent is locked.
MatchEnd_LocksParent ==
    /\ pc = "match" /\ WalkEnded
    /\ LET whole == {m \in Nodes : IsPrefix(m, PrefixOf(Query, at))}
            n == IF whole = {} THEN Root
                 ELSE CHOOSE m \in whole : \A o \in whole : Len(o) <= Len(m) IN
         /\ lock' = [lock EXCEPT ![cur] = n]
         /\ ref' = [m \in Nodes |-> IF IsPrefix(m, n) THEN ref[m] + 1 ELSE ref[m]]
    /\ pc' = "allocate" /\ at' = 0
    /\ UNCHANGED <<free, page, older, cached, status, out, table, hit, cur, hiVars>>

\* match_prefix returns and _paged_prefill_init locks its last node.
MatchEnd ==
    /\ pc = "match" /\ WalkEnded
    /\ LET n == IF at = 0 THEN Root ELSE OwnerNode(PrefixOf(Query, at)) IN
         /\ lock' = [lock EXCEPT ![cur] = n]
         /\ ref' = [m \in Nodes |-> IF IsPrefix(m, n) THEN ref[m] + 1 ELSE ref[m]]
    /\ pc' = "allocate" /\ at' = 0
    /\ UNCHANGED <<free, page, older, cached, status, out, table, hit, cur, hiVars>>

PromoteDone ==
    /\ pc = "promote" /\ EvictEnough(EdgeLen(NextChild))
    /\ Promote(NextChild)
    /\ pc' = "match"
    /\ EvictReset
    /\ UNCHANGED <<reqVars, cur, at>>

\* Mutant: the pin of the promotion is not taken back when allocate raises.
PromoteFail_KeepsPin ==
    /\ pc = "promote" /\ EvictShort(EdgeLen(NextChild))
    /\ table' = [table EXCEPT ![cur] = << >>]
    /\ hit' = [hit EXCEPT ![cur] = 0]
    /\ status' = [status EXCEPT ![cur] = "waiting"]
    /\ pc' = "idle" /\ cur' = NoReq /\ at' = 0
    /\ EvictReset
    /\ UNCHANGED <<free, cacheVars, out, lock, tier, freeCpu>>

\* allocate raises inside match_prefix, before anything is locked: the request
\* goes back to the queue.
PromoteFail ==
    /\ pc = "promote" /\ EvictShort(EdgeLen(NextChild))
    /\ ref' = [ref EXCEPT ![NextChild] = @ - 1]
    /\ table' = [table EXCEPT ![cur] = << >>]
    /\ hit' = [hit EXCEPT ![cur] = 0]
    /\ status' = [status EXCEPT ![cur] = "waiting"]
    /\ pc' = "idle" /\ cur' = NoReq /\ at' = 0
    /\ EvictReset
    /\ UNCHANGED <<free, page, older, cached, out, lock, tier, freeCpu>>

HiAllocDone ==
    /\ pc = "allocate" /\ EvictEnough(Extra(cur))
    /\ AllocDone
    /\ EvictReset
    /\ UNCHANGED <<tier, freeCpu>>

HiAllocFail ==
    /\ pc = "allocate" /\ EvictShort(Extra(cur))
    /\ Unlock(lock[cur])
    /\ table' = [table EXCEPT ![cur] = << >>]
    /\ hit' = [hit EXCEPT ![cur] = 0]
    /\ lock' = [lock EXCEPT ![cur] = Root]
    /\ status' = [status EXCEPT ![cur] = "waiting"]
    /\ pc' = "idle" /\ cur' = NoReq
    /\ EvictReset
    /\ UNCHANGED <<free, out, at, tier, freeCpu>>

\* The pages allocate is asked for, by a promotion or by the prefill.
Asked == IF pc = "promote" THEN EdgeLen(NextChild) ELSE Extra(cur)

\* A turn of the evict that this allocate has called.
HiEvict ==
    /\ pc \in {"promote", "allocate"}
    /\ EvictStep(Asked)
    /\ UNCHANGED <<reqVars, pc, cur, at>>

\* Mutant: the upper half of a split edge is taken for a GPU node.
HiCommitSplit_OnGpu(r) ==
    /\ CommitSplit(r)
    /\ tier' = [m \in DOMAIN ref' |-> IF m \in Nodes THEN tier[m] ELSE "GPU"]
    /\ UNCHANGED <<freeCpu, evictVars>>

\* insert_and_return is that of RadixCache.  The upper half of a split edge is in
\* the tier of the old node ...
HiCommitSplit(r) ==
    /\ CommitSplit(r)
    /\ tier' = [m \in DOMAIN ref' |->
                   IF m \in Nodes THEN tier[m] ELSE tier[Child(Committed(r), at)]]
    /\ UNCHANGED <<freeCpu, evictVars>>

\* ... and a new leaf in GPU memory.
HiCommitLeaf(r) ==
    /\ CommitLeaf(r)
    /\ tier' = [m \in DOMAIN ref' |-> IF m \in Nodes THEN tier[m] ELSE "GPU"]
    /\ UNCHANGED <<freeCpu, evictVars>>

HiNext ==
    \/ \E r \in Req : \/ HiAdmit(r)
                      \/ MatchStart(r)
                      \/ HiCommitLeaf(r) \/ HiCommitSplit(r)
                      \/ /\ \/ \E t \in Gen[r] : Generate(r, t)
                            \/ Retire(r) \/ Abort(r) \/ CommitRaises(r)
                            \/ AbortUninitialised(r)
                            \/ CommitFullEdge(r) \/ CommitEnd(r)
                         /\ UNCHANGED hiVars
    \/ MatchCpuChild \/ MatchGpuChild \/ MatchEnd
    \/ PromoteDone \/ PromoteFail
    \/ HiAllocDone \/ HiAllocFail
    \/ HiEvict
    \/ Terminated /\ UNCHANGED hiVars

HiSpec == HiEngineInit /\ [][HiNext]_hvars

-----------------------------------------------------------------------------
(* Properties *)

\* Every variable has its type.
HiTypeOK ==
    /\ free \in Seq(Page)
    /\ DOMAIN page \subseteq Seq(Seq(Token))
    /\ \A p \in DOMAIN page : page[p] \in Page \cup CpuPage
    /\ Nodes \subseteq Seq(Seq(Token)) /\ Ints(ref)
    /\ older \subseteq Nodes \X Nodes
    /\ cached \in Int
    /\ status \in [Req -> {"waiting", "admitted", "running", "finished"}]
    /\ out \in [Req -> Seq(Token)]
    /\ table \in [Req -> Seq(Page)]
    /\ hit \in [Req -> Nat]
    /\ lock \in [Req -> Seq(Seq(Token))]
    /\ pc \in {"idle", "match", "promote", "allocate", "insert"}
    /\ cur \in Req \cup {NoReq}
    /\ at \in Nat
    /\ tier \in [Nodes -> {"GPU", "CPU"}]
    /\ freeCpu \in Seq(CpuPage)
    /\ evicting \in BOOLEAN
    /\ todo \subseteq Nodes
    /\ victim \in Nodes \cup {Root}
    /\ dropped \in Nat

\* The child whose promotion is under way.
Promoted == IF pc = "promote" THEN {NextChild} ELSE {}

\* ref_count counts the borrowers of a node and of what is below it, and the
\* promotion that keeps it; nothing else, whoever raised in between.
HiLockConservation ==
    /\ \A r \in Req : lock[r] \in Nodes \cup {Root}
    /\ \A n \in Nodes :
         ref[n] = Cardinality(Holders(n)) + (IF n \in Promoted THEN 1 ELSE 0)

\* A locked node is in GPU memory: no eviction, split or promotion leaves a node
\* that a request in flight attends to in host memory.
LockedOnGpu == \A n \in Nodes \ Promoted : ref[n] > 0 => tier[n] = "GPU"

\* The pages of a locked node in GPU memory stay where they are, whatever is evicted,
\* promoted, split or committed: from its lock on nobody moves what a request
\* attends to.  The walk before the lock has no such protection.
LockedPagesStay ==
    [][\A p \in InTier("GPU") : ref[OwnerNode(p)] > 0 =>
          p \in InTier("GPU")' /\ page'[p] = page[p]]_hvars

\* Once locked, the pages that match_prefix collected are the GPU pages of the
\* prompt's prefix in the tree, until the request gives them back: the eviction
\* inside a promotion does not pull a page from under the walk.  It holds while
\* host memory cannot take the matched node as well; see HiStaleMatch.cfg.
HiBorrowedPagesPinned ==
    \A r \in Req : lock[r] # Root => \A i \in 1 .. hit[r] :
        LET p == PrefixOf(Keys(Prompt[r]), i) IN
        table[r] # << >> => p \in InTier("GPU") /\ page[p] = table[r][i]

\* allocate raises only if what num_evictable_pages promised is spent: what the
\* handoff document says of evict.  No run checks it: it is violated in the instance
\* of HiPaged.cfg, where an inner node that does not fit into host memory is counted
\* and skipped.
HiEvictKeepsPromise == [][HiAllocFail \/ PromoteFail => HiNumEvictable = 0]_hvars

\* A turn of evict frees exactly the pages that num_evictable_pages counted for the
\* node it takes and keeps counting all the others: what admission relied on is
\* still free or evictable while the loops of evict and _evict_cpu_lru run.
EvictKeepsSum ==
    [][HiEvict => Len(free') + HiNumEvictable' = Len(free) + HiNumEvictable]_hvars

\* A page of host memory is once on the free list or once in the tree.
CpuPagesOwned ==
    /\ IsInjective(freeCpu)
    /\ \A p, q \in InTier("CPU") : page[p] = page[q] => p = q
    /\ {page[p] : p \in InTier("CPU")} = CpuPage \ ToSet(freeCpu)

\* A page of GPU memory is once on the free list, once in the tree or once in
\* one table: demotion and promotion hand over every page exactly once.
HiSingleOwner ==
    LET inTree == {page[p] : p \in InTier("GPU")} IN
    /\ IsInjective(free)
    /\ \A p, q \in InTier("GPU") : page[p] = page[q] => p = q
    /\ inTree \cap ToSet(free) = {}
    /\ \A r \in Req :
        /\ OwnPages(r) \cap (ToSet(free) \cup inTree) = {}
        /\ \A s \in Req : s # r => OwnPages(s) \cap OwnPages(r) = {}

\* The duplicates of a whole edge are freed though the edge is in host memory: the
\* comparison of their page numbers with the edge's, which are numbers of the
\* other pool, does not take them for the same pages.  No run checks it: it is
\* violated in pools of 7 and 3 pages with steps that fail.
HiDuplicatesFreed ==
    \A r \in Req : Inserting(r) /\ HasChild(Committed(r), at) =>
        LET c == Child(Committed(r), at) IN
        IsPrefix(c, Committed(r)) /\ tier[c] = "CPU" =>
            SubSeq(table[r], at + 1, Len(c)) # EdgePages(c)

\* While match_prefix walks, the pages it has collected are still the GPU pages of
\* what it has matched: the promotion of a later child of the walk has evicted none
\* of the matched nodes, which nothing locks yet.
WalkKeepsPages ==
    pc \in {"match", "promote"} => \A i \in 1 .. at :
        LET p == PrefixOf(Query, i) IN p \in InTier("GPU") /\ page[p] = table[cur][i]
=============================================================================
