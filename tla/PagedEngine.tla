---------------------------- MODULE PagedEngine -----------------------------
(***************************************************************************)
(* The life of a request's KV pages in paged mode: the admission test and  *)
(* the page operations of src/miniengine/engine.py, over the pool and the  *)
(* radix cache.  Only the scheduler thread calls them, one whole call at a *)
(* time; `pc` shows it inside allocate or insert_and_return, whose loops   *)
(* are unrolled into steps.  Which request it turns to next is left open   *)
(* here (the queues are in Scheduler.tla), so every order of the calls the *)
(* scheduler can make is covered.                                          *)
(*                                                                         *)
(* Left out: the tensors, and sampling (any token of Gen[r] may come out). *)
(* What the slots of the pages hold is in PagedKV.tla.                     *)
(***************************************************************************)
EXTENDS RadixCache, FiniteSetsExt

CONSTANTS Req,           \* the requests
          Token,         \* token ids
          Prompt,        \* input_ids of each request
          MaxNew,        \* sampling_params.max_new_tokens of each request
          Gen,           \* the tokens the model may sample for each request
          StopTokens,    \* engine.stop_token_ids
          MaxRunning,    \* --max-running
          RadixEnabled,  \* is a radix cache attached to the pool?
          StepsFail      \* may a step of the scheduler raise and be aborted?

NoReq == "no request"

\* A chat prompt is never empty.  The server turns max_tokens = 0 into 256 and lets
\* negative numbers through, with which steps do raise.
ASSUME EngineAssumption ==
    /\ IsFiniteSet(Req)
    /\ Prompt \in [Req -> Seq(Token) \ {<< >>}]
    /\ MaxNew \in [Req -> Int \ {0}]
    /\ \A r \in Req : MaxNew[r] < 0 => StepsFail
    /\ Gen \in [Req -> SUBSET Token]
    /\ MaxRunning \in Nat \ {0}
    /\ RadixEnabled \in BOOLEAN /\ StepsFail \in BOOLEAN
    /\ NoReq \notin Req

VARIABLES status,  \* "waiting", "admitted" (no kv_cache yet), "running", "finished"
          out,     \* output_ids
          table,   \* kv_cache.page_indices
          hit,     \* cache_hit_tokens, in pages
          lock,    \* radix_lock_node, the root when there is none
          pc,      \* "idle", "allocate" or "insert"
          cur,     \* the request the scheduler thread is in a call for
          at       \* page_idx of insert_and_return

reqVars == <<status, out, table, hit, lock>>
vars == <<free, page, ref, older, cached, status, out, table, hit, lock, pc, cur, at>>

Active == {r \in Req : status[r] \in {"admitted", "running"}}
Tokens(r) == Prompt[r] \o out[r]

\* The longest answer: is_finished is looked at after each token, the first included.
Longest(r) == IF MaxNew[r] > 0 THEN MaxNew[r] ELSE 1

\* Mutant: a page that is not full is not counted.
Peak_Floor(r) == WholePages(Len(Prompt[r]) + MaxNew[r])

\* paged_peak_pages_for_request: the prompt and max_new_tokens.  Negative numbers of
\* those make it smaller than the prompt, or negative.
Peak(r) == PagesNeeded(Len(Prompt[r]) + MaxNew[r])

\* Mutant: the requests in flight are not counted.
CanAdmit_IgnoresActive(active, r) ==
    /\ Peak(r) <= NumPages
    /\ Len(free) + NumEvictable >= Peak(r)

\* paged_kv_can_admit.
CanAdmit(active, r) ==
    /\ MapThenSumSet(Peak, active) + Peak(r) <= NumPages
    /\ Len(free) + NumEvictable >= Peak(r)

\* After a token: req.is_finished, or the token is a stop token.
Done(r) ==
    /\ out[r] # << >>
    /\ Len(out[r]) >= MaxNew[r] \/ Last(out[r]) \in StopTokens

\* Pages allocate is asked for once the match is known.
Extra(r) == IF Peak(r) > Len(table[r]) THEN Peak(r) - Len(table[r]) ELSE 0

Init ==
    /\ PoolInit
    /\ CacheInit
    /\ status = [r \in Req |-> "waiting"]
    /\ out = [r \in Req |-> << >>]
    /\ table = [r \in Req |-> << >>]
    /\ hit = [r \in Req |-> 0]
    /\ lock = [r \in Req |-> Root]
    /\ pc = "idle" /\ cur = NoReq /\ at = 0

\* The scheduler takes r off the queue once the pool can hold its peak.
Admit(r) ==
    /\ pc = "idle" /\ status[r] = "waiting"
    /\ Cardinality(Active) < MaxRunning
    /\ CanAdmit(Active, r)
    /\ status' = [status EXCEPT ![r] = "admitted"]
    /\ UNCHANGED <<free, page, ref, older, cached, out, table, hit, lock, pc, cur, at>>

\* _paged_prefill_init up to allocate: look the prompt up and lock the match.
PrefillInit(r) ==
    /\ pc = "idle" /\ status[r] = "admitted"
    /\ pc' = "allocate" /\ cur' = r
    /\ IF RadixEnabled
         THEN LET q == Keys(Prompt[r])
              IN  /\ table' = [table EXCEPT ![r] = MatchedPages(q)]
                  /\ hit' = [hit EXCEPT ![r] = MatchLen(q)]
                  /\ lock' = [lock EXCEPT ![r] = LastNode(q)]
                  /\ MatchAndLock(LastNode(q))
         ELSE UNCHANGED <<table, hit, lock, page, ref, older, cached>>
    /\ UNCHANGED <<free, status, out, at>>

\* allocate is short of pages and evicts one more leaf.
AllocEvict(n) ==
    /\ pc = "allocate"
    /\ Len(free) < Extra(cur)
    /\ EvictLeaf(n)
    /\ UNCHANGED <<reqVars, pc, cur, at>>

\* allocate succeeds: the request starts with the borrowed and the new pages.
AllocDone ==
    /\ pc = "allocate"
    /\ Len(free) >= Extra(cur)
    /\ table' = [table EXCEPT ![cur] = @ \o Popped(Extra(cur))]
    /\ Allocate(Extra(cur))
    /\ status' = [status EXCEPT ![cur] = "running"]
    /\ pc' = "idle" /\ cur' = NoReq
    /\ UNCHANGED <<page, ref, older, cached, out, hit, lock, at>>

\* allocate raises: the match is rolled back and the scheduler puts the request
\* back at the front of the queue.
AllocFail ==
    /\ pc = "allocate"
    /\ Len(free) < Extra(cur)
    /\ EvictableLeaves = {}
    /\ Unlock(lock[cur])
    /\ table' = [table EXCEPT ![cur] = << >>]
    /\ hit' = [hit EXCEPT ![cur] = 0]
    /\ lock' = [lock EXCEPT ![cur] = Root]
    /\ status' = [status EXCEPT ![cur] = "waiting"]
    /\ pc' = "idle" /\ cur' = NoReq
    /\ UNCHANGED <<free, out, at>>

\* Prefill or a decode step samples one more token.  The table never grows
\* here: see TableCoversTokens, and the longest answer of the others is their first
\* token.
Generate(r, t) ==
    /\ pc = "idle" /\ status[r] = "running"
    /\ ~ Done(r)
    /\ out' = [out EXCEPT ![r] = Append(@, t)]
    /\ UNCHANGED <<free, page, ref, older, cached, status, table, hit, lock, pc, cur, at>>

\* What _radix_cache_commit_request inserts: the whole pages of the sequence.
Committed(r) == Keys(Tokens(r))

\* Mutant: insert_and_return refuses as many pages as keys, too.
CommitFits_Strict(r) == Len(Committed(r)) < Len(table[r])

\* insert_and_return refuses fewer pages than it has keys.
CommitFits(r) == Len(Committed(r)) <= Len(table[r])

\* free_request_kv: with a radix cache the commit starts, without one every page
\* of the table goes back to the pool.
FreeRequestKv(r) ==
    /\ pc = "idle" /\ status[r] = "running"
    /\ IF RadixEnabled
         THEN /\ CommitFits(r)
              /\ pc' = "insert" /\ cur' = r /\ at' = 0
              /\ UNCHANGED <<free, reqVars>>
         ELSE /\ Free(table[r])
              /\ table' = [table EXCEPT ![r] = << >>]
              /\ status' = [status EXCEPT ![r] = "finished"]
              /\ UNCHANGED <<out, hit, lock, pc, cur, at>>
    /\ UNCHANGED <<page, ref, older, cached>>

Retire(r) == Done(r) /\ FreeRequestKv(r)

\* _abort_inflight_requests after a step raised, whatever r had generated.
Abort(r) == StepsFail /\ ~ Done(r) /\ FreeRequestKv(r)

\* _finish_request for a table that is too short, in a step or in its abort: r is
\* marked finished and out of the lists when the commit raises, and keeps its pages
\* and its lock.  Raised in the abort it ends the thread (see Scheduler.tla); the
\* calls that may follow here are those after a step.
CommitRaises(r) ==
    /\ pc = "idle" /\ status[r] = "running"
    /\ RadixEnabled /\ ~ CommitFits(r)
    /\ Done(r) \/ StepsFail
    /\ status' = [status EXCEPT ![r] = "finished"]
    /\ UNCHANGED <<free, page, ref, older, cached, out, table, hit, lock, pc, cur, at>>

\* An abort for a request whose prefill-init was never reached.
AbortUninitialised(r) ==
    /\ StepsFail
    /\ pc = "idle" /\ status[r] = "admitted"
    /\ status' = [status EXCEPT ![r] = "finished"]
    /\ UNCHANGED <<free, page, ref, older, cached, out, table, hit, lock, pc, cur, at>>

Inserting(r) == pc = "insert" /\ cur = r /\ at < Len(Committed(r))

CommitLeaf(r) ==
    /\ Inserting(r)
    /\ InsertLeaf(Committed(r), table[r], at)
    /\ at' = Len(Committed(r))
    /\ UNCHANGED <<reqVars, pc, cur>>

CommitFullEdge(r) ==
    /\ Inserting(r)
    /\ InsertFullEdge(Committed(r), table[r], at)
    /\ at' = Len(Child(Committed(r), at))
    /\ UNCHANGED <<reqVars, pc, cur>>

CommitSplit(r) ==
    /\ Inserting(r)
    /\ InsertSplit(Committed(r), at)
    /\ at' = SplitPoint(Committed(r), at)
    /\ UNCHANGED <<reqVars, pc, cur>>

\* Mutant: the pages are cut one too early, so the last committed one is freed.
CommitEnd_FreesLast(r) ==
    /\ pc = "insert" /\ cur = r /\ at = Len(Committed(r))
    /\ Free(SubSeq(table[r], at, Len(table[r])))
    /\ Unlock(lock[r])
    /\ table' = [table EXCEPT ![r] = << >>]
    /\ lock' = [lock EXCEPT ![r] = Root]
    /\ status' = [status EXCEPT ![r] = "finished"]
    /\ pc' = "idle" /\ cur' = NoReq /\ at' = 0
    /\ UNCHANGED <<out, hit>>

\* Mutant: the pages past the committed ones are not freed.
CommitEnd_KeepsExtra(r) ==
    /\ pc = "insert" /\ cur = r /\ at = Len(Committed(r))
    /\ Unlock(lock[r])
    /\ table' = [table EXCEPT ![r] = << >>]
    /\ lock' = [lock EXCEPT ![r] = Root]
    /\ status' = [status EXCEPT ![r] = "finished"]
    /\ pc' = "idle" /\ cur' = NoReq /\ at' = 0
    /\ UNCHANGED <<free, out, hit>>

\* After the insert: the pages past the committed ones are freed and the lock of
\* the borrowed prefix is released.
CommitEnd(r) ==
    /\ pc = "insert" /\ cur = r /\ at = Len(Committed(r))
    /\ Free(SubSeq(table[r], at + 1, Len(table[r])))
    /\ Unlock(lock[r])
    /\ table' = [table EXCEPT ![r] = << >>]
    /\ lock' = [lock EXCEPT ![r] = Root]
    /\ status' = [status EXCEPT ![r] = "finished"]
    /\ pc' = "idle" /\ cur' = NoReq /\ at' = 0
    /\ UNCHANGED <<out, hit>>

\* Every request was answered; nothing is left to do.
Terminated ==
    /\ \A r \in Req : status[r] = "finished"
    /\ pc = "idle"
    /\ UNCHANGED vars

Next ==
    \/ \E r \in Req : \/ Admit(r)
                      \/ PrefillInit(r)
                      \/ \E t \in Gen[r] : Generate(r, t)
                      \/ Retire(r)
                      \/ Abort(r)
                      \/ CommitRaises(r)
                      \/ AbortUninitialised(r)
                      \/ CommitLeaf(r)
                      \/ CommitFullEdge(r)
                      \/ CommitSplit(r)
                      \/ CommitEnd(r)
    \/ \E n \in Nodes : AllocEvict(n)
    \/ AllocDone
    \/ AllocFail
    \/ Terminated

Spec == Init /\ [][Next]_vars

-----------------------------------------------------------------------------
(* Properties *)

Ints(f) == \A x \in DOMAIN f : f[x] \in Int

\* Every variable has its type.
TypeOK ==
    /\ free \in Seq(Page)
    /\ DOMAIN page \subseteq Seq(Seq(Token)) /\ \A p \in DOMAIN page : page[p] \in Page
    /\ Nodes \subseteq Seq(Seq(Token)) /\ Ints(ref)
    /\ older \subseteq Nodes \X Nodes
    /\ cached \in Int
    /\ status \in [Req -> {"waiting", "admitted", "running", "finished"}]
    /\ out \in [Req -> Seq(Token)]
    /\ table \in [Req -> Seq(Page)]
    /\ hit \in [Req -> Nat]
    /\ lock \in [Req -> Seq(Seq(Token))]
    /\ pc \in {"idle", "allocate", "insert"}
    /\ cur \in Req \cup {NoReq}
    /\ at \in Nat

\* The requests that hold a lock on node n: those whose locked node is n or is
\* below it.
Holders(n) == {r \in Req : lock[r] # Root /\ IsPrefix(n, lock[r])}

\* ref_count counts the borrowers of a node and of what is below it, through
\* every lock, unlock, split, insert, eviction and rollback: no lock is lost and
\* none outlives its request.
LockConservation ==
    /\ \A r \in Req : lock[r] \in Nodes \cup {Root}
    /\ \A n \in Nodes : ref[n] = Cardinality(Holders(n))

\* The pages a request borrowed stay in the tree, as the pages of its prompt's
\* prefix, for as long as it holds them: no eviction or split of another request
\* pulls them from under it.
BorrowedPagesPinned ==
    \A r \in Req : \A i \in 1 .. hit[r] :
        table[r] # << >> =>
            /\ PrefixOf(Keys(Prompt[r]), i) \in DOMAIN page
            /\ page[PrefixOf(Keys(Prompt[r]), i)] = table[r][i]

\* The tree stays a compressed trie: it is closed under prefixes, its nodes are
\* in it and cover it, and an edge branches nowhere but at its end.
TreeWellFormed ==
    /\ Nodes \subseteq DOMAIN page
    /\ \A p \in DOMAIN page :
        /\ \A i \in 1 .. Len(p) : PrefixOf(p, i) \in DOMAIN page
        /\ \E n \in Nodes : IsPrefix(p, n)
        /\ \A n \in Nodes : IsPrefix(p, n) => IsPrefix(OwnerNode(p), n)

\* The counter behind num_cached_pages is the number of pages in the tree,
\* through inserts, splits and evictions.
CachedCountExact == cached = Cardinality(DOMAIN page)

\* The table of a request always has a page for each token it will commit, so
\* neither a decode step nor insert_and_return finds it too short - unless its
\* max_tokens is negative.
TableCoversTokens ==
    \A r \in Req : status[r] = "running" /\ MaxNew[r] > 0 =>
        Len(table[r]) >= PagesNeeded(Len(Tokens(r)))

\* The commit of a request raises only if its own max_tokens is negative: no other
\* request, and no cache, makes a table too short for it.
OnlyNegativeRaises == [][\A r \in Req : CommitRaises(r) => MaxNew[r] < 0]_vars

\* A finished request has given its resources back, as _finish_request says.  No run
\* checks it: CommitRaises does not.
FinishedFreesResources ==
    \A r \in Req : status[r] = "finished" => table[r] = << >> /\ lock[r] = Root

\* Without a radix cache allocate never raises: the pool has what admission reserved
\* for everyone in flight and the candidate, as paged_kv_can_admit says.  A negative
\* peak breaks it.
AllocateSucceeds == pc = "allocate" /\ ~ RadixEnabled => Len(free) >= Extra(cur)

\* The admission test is enough, whatever was admitted together, and whoever finished
\* or was aborted since, as long as no peak is negative: the sum of the peaks then
\* counts nobody's pages away.
ReservationSuffices == (\A r \in Req : Peak(r) >= 0) => AllocateSucceeds

\* allocate raises only if what num_evictable_pages promised is spent: LRU
\* eviction leaf by leaf reaches every unlocked page.
EvictKeepsPromise == [][AllocFail => NumEvictable = 0]_vars

\* A prefix that some request matched is found again, whole, by the next request
\* with the same prompt until its pages are evicted: an insert or a split never
\* makes the match of a prompt shorter or changes its pages.
OnlyEvictionForgets ==
    [][(\A n \in Nodes : ~ EvictLeaf(n)) =>
          \A p \in DOMAIN page : p \in DOMAIN page' /\ page'[p] = page[p]]_vars

(***************************************************************************)
(* Page ownership.  A page belongs to the free list, to the cache, or to   *)
(* the request that took it from the pool and has not yet committed it.    *)
(***************************************************************************)

\* Table positions whose page r must still give away.
OwnPositions(r) ==
    {i \in 1 .. Len(table[r]) :
        /\ i > hit[r]
        /\ pc = "insert" /\ cur = r => i > at}
OwnPages(r) == {table[r][i] : i \in OwnPositions(r)}
CachedPages == {page[p] : p \in DOMAIN page}

Free_ == "free"
Cache_ == "cache"
Lost_ == "lost"

\* No request goes by the name of another owner.
ASSUME OwnerAssumption == Req \cap {Free_, Cache_, Lost_} = {}

\* The owner of every page, the tree first when there are several.
Owner == [g \in Page |->
    IF g \in CachedPages THEN Cache_
    ELSE IF \E r \in Req : g \in OwnPages(r) THEN CHOOSE r \in Req : g \in OwnPages(r)
    ELSE IF g \in ToSet(free) THEN Free_
    ELSE Lost_]

\* What PagePool.tla promises, with the owner of a page read off the state.
Pool == INSTANCE PagePool WITH owner <- Owner
PagePoolSpec == Pool!Spec

\* Between two calls no page has dropped out of the free list, the tree and the
\* tables: it would be gone until the server restarts.
NoPageLost == pc = "idle" => \A g \in Page : Owner[g] # Lost_

\* A page of the tree is never on the free list as well: allocate would hand it
\* out to be overwritten while later matches still borrow it.
CachedPagesNotFree == CachedPages \cap ToSet(free) = {}

\* A page is once on the free list, once in the tree or once in one table.
SingleOwner ==
    /\ IsInjective(free)
    /\ CachedPagesNotFree
    /\ \A p, q \in DOMAIN page : page[p] = page[q] => p = q
    /\ \A r \in Req :
        /\ \A i, j \in OwnPositions(r) : table[r][i] = table[r][j] => i = j
        /\ OwnPages(r) \cap (ToSet(free) \cup CachedPages) = {}
        /\ \A s \in Req : s # r => OwnPages(s) \cap OwnPages(r) = {}

(***************************************************************************)
(* When a commit keeps to the owners.  The tree hands insert_and_return    *)
(* back whole edges: it does not look at how much of an edge the request   *)
(* had borrowed, and returns nothing of an edge it splits.                 *)
(***************************************************************************)

\* Of an edge that matches whole the request borrowed all or nothing.  Else the
\* "redundant" pages of the edge are in part the tree's own.
BorrowsWholeEdges ==
    \A r \in Req : Inserting(r) /\ HasChild(Committed(r), at) =>
        LET c == Child(Committed(r), at) IN
        IsPrefix(c, Committed(r)) => hit[r] <= at \/ hit[r] >= Len(c)

\* An edge is split no deeper than the request borrowed of it.  Else its own pages
\* of the common part are in nobody's hands.
SplitsOnlyBorrowed ==
    \A r \in Req : Inserting(r) /\ HasChild(Committed(r), at) =>
        IsPrefix(Child(Committed(r), at), Committed(r))
            \/ SplitPoint(Committed(r), at) <= hit[r]
=============================================================================
