# miniengine in TLA+

A verification project for `src/miniengine`, an LLM inference server: coroutines
of a FastAPI server put requests into a queue, one scheduler thread batches them, and
an engine runs the model over a paged KV pool with a radix-tree prefix cache and an
optional tier of host memory under it. The modules here model the control of that
system - queues, page tables, locks, the tree and its tiers, the threads that wait for
tokens, and whose KV a slot holds - and leave the numbers in the tensors out. TLC checks
small instances; TLAPS proves the central invariants for every instance.

## 1. Inventory

| component | source | state it keeps | operations |
|---|---|---|---|
| page pool | `kv_memory_pool.py` | `_free`, a stack of page numbers | `allocate` (asks the cache to evict, then raises), `free`, `pages_needed` |
| prefix cache | `radix_cache.py` | the tree: edge keys, pages, `ref_count`, `last_access`; `_cached_page_count`; metrics | `match_prefix`, `inc_lock_ref`, `dec_lock_ref`, `insert_and_return` (+ `_split_node`), `evict`, `num_evictable_pages`, `reset` (never called) |
| hierarchical cache | `hicache.py` | the same, a tier per node, and the free list of the host pool | promotion in `match_prefix`, demotion, drop and skip in `evict`, the CPU LRU, `num_evictable_pages` |
| paged engine | `engine.py` | per request: `kv_cache` (page table, `kv_len`), `prefill_offset`, `cache_hit_tokens`, `radix_lock_node`, `needs_retract` | `paged_kv_can_admit`, `prefill_batch` (one shot or chunks), `batched_decode`, `free_request_kv` |
| scheduler | `scheduler.py`, `core.py` | `waiting`, `prefilling`, `running`; `status`, `output_ids` of requests; the locals of a step; the running flag | `add_request` (server), `stop` (main thread), `_loop`, `step` in three modes, `_stream_token`, `_finish_request`, `_abort_inflight_requests` |
| server | `server.py`, `__main__.py` | the token queue of each request, its coroutine, the executor's threads and calls | a completion (stream or not), disconnect, interrupt and shutdown, `/cache_stats` |
| unpaged engine, model, sampler, command line, benchmarks | | no shared state | |

Interactions: the server shares `waiting` (under a lock) and the token queues with the
scheduler thread. The scheduler thread alone calls the engine, and through it the pool
and the tree, one whole call at a time; `allocate` calls back into the tree (`evict`),
which gives pages back to the pool that called it - with the hierarchical cache also
from inside a match. A finished request commits its pages to the tree; a later request
borrows them while its lock pins the path. A coroutine waits for each token in a thread
of the event loop's default executor; `main()` stops the scheduler when the server has
returned.

What is hard here: page ownership across match, allocate, evict, split and commit;
locks that must follow splits and be released once; an admission test that
promises pages by counting, and an eviction that has to deliver them; a match that
changes the tiers it walks over; the lists that `_finish_request` edits while a loop
goes over their snapshot; retracts that retry; a failing step that leaves its locals;
a blocking `get` that nobody can cancel. `PROJECT.json` lists each of them under
"hazards", at its line, with the properties that watch it.

What makes each component correct:

- pool: a page has one owner; pages move only from the owner that has them;
- tree: a compressed trie; `ref_count` counts the borrowers; only eviction
  forgets a prefix; eviction reaches what `num_evictable_pages` promised;
- tiers: a locked node is in GPU memory; each pool's pages are owned once; the pages a
  match returned are those of its prompt;
- KV: a slot below `kv_len` holds the KV of the request's own token there, and a page
  in the tree that of the tokens it stands for;
- engine: borrowed pages stay where the table says; the reserved table is always
  long enough; a rolled-back request leaves nothing behind;
- scheduler: a request is in exactly one list, in arrival order, never lost, and
  every client gets its tokens and a finish marker at the end;
- server: a response is the whole stream of its request, no thread is left in a `get`
  that cannot return, and the process ends when it is told to.

## 2. Modules

| module | what it is |
|---|---|
| `KVMemoryPool` | the free list and its operators, used by the actions of the others |
| `RadixCache` | the tree; one operator per operation, one per turn of the loops of `evict` and `insert_and_return` |
| `PagedEngine` | the life of a request's pages: composes pool, tree and the engine's page operations; the scheduler's choice of call is left open |
| `PagePool` | abstract: each page has an owner, four moves. `PagedEngine` refines it (`Pool == INSTANCE PagePool WITH owner <- Owner`) |
| `PagedKV` | extends `PagedEngine` by what the slots of the pages hold: prefill in one shot, in chunks and after a cached prefix, decode, `kv_len` and `prefill_offset` |
| `HiRadixCache`, `HiPagedEngine` | the two-tier tree over `RadixCache`, and the engine of `PagedEngine` driving it, with the match unrolled child by child |
| `PagedServing` | `_step_paged` driving `PagedEngine`: the same page actions in the order of the scheduler thread |
| `Scheduler` | queues, thread, three modes, `add_request` and `stop` from other threads, failing steps, with the engine's results as inputs |
| `TokenStream` | abstract: what a token queue promises its reader. `Scheduler` refines it (`Stream == INSTANCE TokenStream WITH ...`) |
| `Server` | coroutines, executor and shutdown; extends `TokenStream`, which stands for the scheduler |
| `CollectionLemmas` | lemmas about sums over sets, lists and their members, for the proofs |
| `RadixCacheProofs`, `PagedEngineProofs`, `PagedKVProofs`, `PagedServingProofs`, `HiPagedProofs`, `SchedulerProofs`, `ServerProofs` | theorems and proofs, each about the module it is named for (`HiPagedProofs` about `HiPagedEngine`) |
| `MCPagedKV`, `MCPagedServing`, `MCHiPaged`, `MCScheduler`, `MCServer` | the constants of the runs |

How state and actions correspond to the code:

- **Tree.** All matching is by whole pages, so a token list is the sequence of its
  page keys (`Keys`). The tree is the function `page` from the key sequences it
  holds to pool pages, and `ref` from its nodes to their `ref_count`. A node is
  named by the prefix its edge ends at; the edge begins after the nearest node
  above. A split (`InsertSplit`) adds a node and moves no page: the lower half keeps
  the Python object with its locks, as in `_split_node`. `last_access` is kept as the
  strict order `older`; eviction may take any leaf that is not younger than another,
  which covers equal clock readings. A match and an insert stamp their path with one
  reading: all of it is one step up in the order, whichever turn of the loop gets there.
- **Engine.** `PrefillInit`, then `AllocEvict`* and `AllocDone` or `AllocFail`, are
  `_paged_prefill_init` with `KVMemoryPool.allocate` unrolled; `pc` keeps other calls
  out until it returns. `Retire` or `Abort`, then `CommitLeaf`, `CommitFullEdge`,
  `CommitSplit` and `CommitEnd`, are `free_request_kv`; `CommitRaises` is
  `_finish_request` when the table is too short for the commit, which leaves a finished
  request with its pages and its lock. `Generate` stands for a
  prefill's or a decode step's token: no page moves there, because the table already
  covers the longest answer (`TableCoversTokens`), and a request with a negative
  `max_tokens` never decodes - `is_finished` holds of it from its first token on. Calls
  are open to any order, so after a `CommitRaises` or a `PrefillRaises` all the others
  may go on as if the abort did not follow at once or end the thread; that
  is more than the program can do, and `Scheduler` has the rest: the abort takes everyone
  in flight, and when it raises the thread dies (`AbortRaises`).
- **Tiers.** `tier` is `node.tier`; `page[p]` is a page of the pool that the tier of its
  node names. A match is `MatchStart`, then per child `MatchGpuChild`, or `MatchCpuChild`,
  the eviction its `allocate` needs, and `PromoteDone` or `PromoteFail`; then `MatchEnd`,
  which takes the only lock. Each call of `evict` walks once over the nodes it collected
  when it was called (`todo`) and demotes a node, drops it, or skips it; for a demotion
  that does not fit it frees CPU leaves first, oldest first, parents that become CPU
  leaves included. `_copy_kv` is finished when it returns, whichever stream it used.
- **KV.** The KV of a token depends on it and on all before it, so a slot computed over
  the right context is said to hold the token sequence that ends there; any other holds
  `Garbage`. `StoreSlice` is `_store_prefill_slice_to_pool`, `AppendKv` the store of a
  decode step (`DirectFlash` is `_direct_paged_flash_supported`: with it the append is
  done in place by flash attention, without it by
  `_append_batched_last_token_kv_to_pool`), `HoldsPrefix` what `_gather_kv_from_pool`
  reads. A prefill step whose tokens or whose context do not fit into the table fills it
  and raises (`PrefillRaises`). The requests of a batch are taken one after the other: a
  forward pass keeps them apart (block-diagonal mask, `cu_seqlens`, one row each), and they
  write to slots of their own. `_sample_first_token_cached_prompt` is `CachedPrompt`: it gathers the KV of
  the whole prompt and feeds its last token again, which that token then attends to
  twice (`engine.py:679-700`); what a sample attends to is not part of the state, so no
  property speaks of it.
- **Scheduler.** `pc` (in `PagedServing`: `phase`) is the place in `step`; one turn
  of a `for` loop is one step; `todo` is the snapshot the loop goes over, `keep` and
  `retracted` the locals of the same name. Server and main thread step in between.
  The admission loop holds the lock throughout, so it is one step of `Scheduler`;
  in `PagedServing` it goes request by request, which only lets `AddRequest` append
  to the queue's end in between. A step fails where the engine raises (`*Raises`), before
  or after it has set a `kv_cache`, or where `decode_token` raises after a token was
  recorded (`StreamRaises`); in the second case a request may be in `prefilling` and
  `running` at once when the abort comes. The commit of a request with a negative
  `max_tokens` may raise as well, at its first token (`FirstCommitRaises`) or in an abort.
- **Server.** `co[r]` is the coroutine of a completion, `calls` the executor's queue and
  `threads` the calls that have a thread, each of them in `token_queue.get`. A thread
  takes from the queue whatever has become of the coroutine (`GetReturns`). Only the
  streaming response is cancelled by a disconnect. `Interrupt`, `Drained` or
  `SecondInterrupt`, and `Stop` are uvicorn's shutdown and the `finally` of `main()`:
  the scheduler is stopped last, when all threads have returned. This is asyncio up to
  Python 3.11; from 3.12 on `asyncio.run` waits for the executor for at most 300
  seconds and goes on with a warning, so `Stop` would come later, not never.

## 3. Runs

| run | question | instance, bound | states |
|---|---|---|---|
| `paged_shared` | do locks, borrowed pages, tree shape, counter, eviction, `kv_len` and the sizes of tables stay right under every order of calls, with aborts, and does a commit raise for nobody but the request with a negative `max_tokens`? | 4 requests, pages of two tokens: two with one prompt of two pages, one of them with `max_tokens` = -2, a third with the first of these pages that may generate the other, a fourth that shares nothing; 6 pages, 2 running, chunks of one token: forces eviction of several levels, retracts, splits under lock, aborts between chunks, prefills and commits past the table | 1 045 991 |
| `paged_no_radix` | without a cache: one owner per page, admission suffices, `PagePool` implemented, everyone reads their own KV? | 4 requests, pages of two tokens, 5 pages for peaks of 3, 2, 2 and, with `max_tokens` = -1, 1 for a prompt of three tokens; one-shot prefill, flash decode, aborts | 139 509 |
| `paged_cached` | with the cache: `PagePool` implemented, cached pages hold what they stand for and are not written? | two pairs with a prompt of one page each; r3 and r4 answer with 5 and 3 tokens and split each other's edges; 6 pages, 2 running | 4 982 |
| `hicache` | with two tiers: locks, tree, pages of both pools, promoted matches; do locked pages stay, and does a turn of eviction keep what admission counted on? | 5 requests, prompts of 1 to 3 pages of one token, one of them with `max_tokens` = -1, 7 GPU and 2 host pages, aborts: promotions that demote, demotions that drop, nodes too large for host memory, failing promotions, a commit that raises | 917 672 |
| `scheduler` | streams, order, no loss, every client answered, the thread ends on `stop`, `TokenStream` implemented? | 3 requests, answers of 3 and 2 tokens and a negative `max_tokens`, in three modes; 2 running, 4 pages, 2 chunks, 2 failing steps; a second workload with a request larger than the pool, a third with a negative peak | 213 283 |
| `server` | whole responses, threads that come back, clients served, shutdown ends, with disconnects and one or two interrupts? | 3 clients, one of which streams; 2 and 1 tokens; 2 executor threads; no request stuck, or the streaming one | 192 518 |
| `paged_serving` | do retracted requests succeed, and do lists and requests agree, over the real pool and tree? | 3 requests that fork after a page, one with three tokens; 9 pages, 2 running | 1 015 |
| `paged_leak` | finding 1 | two requests with one prompt and a third with its first page, pages of one token, 6 of them, 2 running, one-shot | violation |
| `paged_serving_livelock` | finding 2 | 2 requests of `paged_serving`, 4 pages | violation |
| `paged_chunks` | finding 3 | three requests of `paged_no_radix` with chunks of one token | violation |
| `paged_fallback` | finding 4 | three requests of `paged_no_radix` without direct flash attention | violation |
| `hicache_stale_match` | finding 5 | the first four requests of `hicache`, 3 host pages, no failing step | violation |

Why the bounds are enough to be interesting: one request borrows, one duplicates and one
evicts, so three or four are needed; two-page prompts are the least with an
edge to split, and pools of 5 to 9 pages are below the sum of the peaks and above one,
so that admission refuses, eviction runs and `allocate` raises. `paged_shared`,
`paged_no_radix` and `paged_cached` use pages of two tokens so that prompt, answer and
peak round differently and a page is written in part: with the answer of r1, whose last
token begins a page, a peak rounded down leaves the table short (`TableCoversTokens`), and
r3 ends on a page and commits just as many as its table has (`OnlyNegativeRaises`). In the
hierarchical and the serving runs pages of one token make every token a page key, the
finest tree. Direct flash attention needs pages of a multiple of 256 tokens; the
model scales them down. Two executor threads are the least of which one can be held by a
request without tokens while others still make progress. `MaxFailures` bounds the steps
that raise (two, so that a step may fail on what an abort has left), `MaxChunks` the
prefill steps of a prompt in `Scheduler`, `MaxNew` the answers; nothing else is bounded.
Requests are strings, not symmetric: they differ in prompt or length.

The instances of the passing runs are chosen around the findings of section 4, and only
as far as needed. In `paged_cached` r3 and r4 do not fit into the pool together, so their
prompt is never missed by both at once (finding 1), while r1 and r2 do miss together and
commit duplicates of a whole edge; nobody generates what is cached (disagreement a); a
prompt is cached whole or not at all and prefilled in one shot (finding 3); every
sequence ends one token into a page (c); and no step fails there (d). In `hicache` host
memory takes two pages, one too few for finding 5. `paged_shared` has the behaviours of
1 to 3 and a, c and d in it; the properties it checks hold through them. So do those of
`paged_shared`, `hicache` and `scheduler` through disagreement (g), of `scheduler` through
(i), and of `paged_no_radix` through prefills that run past their table.

`CHECK_DEADLOCK FALSE` is set where the system really may stop: after the leak of
finding 1 (`paged_shared`, `paged_leak`, and the hierarchical runs) or once pages are kept
by a finished request (g) (`paged_shared`, `hicache`) the pool can be too small for a
waiting request for ever; in `scheduler` and `server` after the stop. All other runs
check deadlock.

**Fairness.** `Scheduler`: `WF(SchedulerStep)`, a thread in a loop with a bounded sleep;
`PagedServing`: `WF(ThreadStep)`, the same thread. `Server`: the event loop runs a
coroutine that is ready (`CallGet`, `Resume`), the executor takes calls and returns what
is there (`PickUp`, `GetReturns`), uvicorn returns once drained and `main()` goes on
(`Drained`, `Stop`), and the scheduler, until it is stopped, answers every request that is
not in `stuck`; the last is what `EveryRequestAnswered` and `TokenStreamSpec` show of
`Scheduler`, and `stuck` stands for the requests for which it does not. No fairness on
arrivals, failures, disconnects, interrupts or any choice inside a step.

`EveryRequestAnswered` is about the requests that can be answered: in baseline and
batched mode while no call fails (disagreement b), in paged mode those that are not
larger than the pool nor queued behind one that is (the head of the queue is never passed
over, `scheduler.py:218`), and while no commit has raised, which keeps pages back (g) or ends
the thread (i). It takes the engine's results as inputs and assumes that a
request which is alone is not refused for want of pages. `PagedServing` checks the
same without that assumption, over the real pool, and shows where it fails: finding 2.

`EveryClientServed` is about any set of stuck requests smaller than the number of threads:
with as many as there are threads, each of them waiting in `get` for a first token, no
other stream goes on.

## 4. Findings

Where the code does something else than what its documents say; each has a run that
shows the behaviour.

1. **Pages leak at a split** (`NoPageLost`). `insert_and_return` frees duplicate pages
   only on a full edge match. When the sequence leaves the edge in its middle,
   `page_idx` steps over them (`radix_cache.py:199-202`) and nobody owns them any more.
   Two concurrent requests with one prompt and different answers are enough.
2. **Retract livelock** (`RetriesSucceed`). A match that ends inside a longer edge locks the
   whole node; the tail of the edge is then not evictable for the very request that
   needs the room, although admission counted it. The request is retracted and admitted
   for ever, alone (`radix_cache.py:115-119`, `engine.py:232`, `655`).
3. **Chunks overwrite the first pages** (`PrefillStoresPrompt`).
   `_store_prefill_slice_to_pool` counts destination slots from 0, not from `kv_len`
   (`engine.py:1064`), so a continuation chunk lands on the first chunk; after a
   partial prefix hit it lands on pages that the tree shares with others. The slots the
   request goes on to read stay unwritten.
4. **Decoded tokens do not reach the pool** (`OwnKV`). The fallback of batched decode
   indexes the pool with two tensors, which yields a copy, and `copy_`s into that
   (`engine.py:1262-1263`); `kv_len` grows all the same. Every page size that is not a
   multiple of 256 decodes this way. The unbatched `_append_last_token_kv_to_pool`
   indexes with integers, a view, and is right.
5. **A match returns pages it has lost** (`HiBorrowedPagesPinned`). While a match walks,
   only the child being promoted is kept from eviction. The allocation for it may demote
   the node matched just before, and its GPU page may be what the child is promoted into
   (`hicache.py:204-210`). The request is given both under their old numbers and attends
   to another part of its prompt. `LockedPagesStayPut` (section 5) shows that the walk is the
   only place where this can happen: once the path is locked, its GPU pages stay.

Further disagreements, met while modelling and without a run of their own:

- (a) *Cached pages freed.* A request that borrowed the first part of an edge and generated
  the rest has an incoming page list that differs from the node's, so all of it is freed,
  the borrowed pages included (`radix_cache.py:204-207`): they are on the free list and
  in the tree at once. `CachedPagesNotFree`, a part of `SingleOwner`, is violated in the
  instance of `paged_leak`.
- (b) *Clients lost by an abort.* In batched and baseline mode the request being prefilled
  is in a local of the step when the engine raises, and `_abort_inflight_requests` does
  not see it (`scheduler.py:172-174`, `329`). `NoRequestLost` and `EveryRequestAnswered`
  exclude just that; without `mode = "paged" \/ failures = 0` TLC violates both.
- (c) *The last token is committed without KV.* A sampled token enters the KV with the
  decode step after it; the commit takes prompt and answer to the last whole page, the
  last token included, so when it ends a page, later matches of that page read a slot
  nobody wrote (`engine.py:1013-1021`). `CachedKV` is violated in the instance of
  `paged_leak`.
- (d) *An abort commits what was not prefilled*, whatever `prefill_offset` says
  (`scheduler.py:331`, `engine.py:1013`): with `StepsFail = TRUE` an abort between
  prefill-init and prefill violates `CachedKV` in `paged_cached`.
- (e) *Admission is not consistent with eviction in two tiers.* An inner node that does not
  fit into host memory is counted by `num_evictable_pages` and skipped by `evict`, against
  `src/MILESTONE4_HICACHE_HANDOFF.md:412-414`. `HiEvictKeepsPromise` states that
  document's promise and is violated in the instance of `hicache`. What holds, and is
  proved, is `EvictKeepsSum`: every turn of `evict` frees just what was counted for the
  node it takes and goes on counting the rest.
- (f) *Duplicates mistaken for the edge's own pages.* At commit the GPU page numbers of the
  request are compared with those of an edge that may be in host memory
  (`radix_cache.py:206`); equal numbers by coincidence leave the duplicates to nobody.
  `HiDuplicatesFreed` is violated with 7 GPU and 3 host pages and aborts (the instance of
  `hicache_stale_match` with `StepsFail = TRUE`).
- (g) *A request that ends with its pages.* The server passes a negative `max_tokens` on
  (`server.py:52`, `121`: `or 256` replaces 0 and `None`). The peak is then below the prompt
  (`engine.py:218-219`), the table too short, and prefill ends in an `IndexError`, or, when
  all of the prompt or enough of it is cached, in a first token. Either way the commit raises
  (`radix_cache.py:160`), after `_finish_request` has marked the request and taken it off the
  lists; pages, lock and client are forgotten. `FinishedFreesResources` is violated in the
  instance of `paged_shared`.
- (h) *Admission without room.* With a `max_tokens` below minus its prompt's length a request
  has a negative peak, which the sum of `paged_kv_can_admit` takes off from the others'
  (`engine.py:226`): a candidate gets in whose `allocate` finds the pool empty.
  `AllocateSucceeds` is violated with three requests of `paged_no_radix`, one of them with
  `max_tokens` = -6 and a peak of -2, 4 pages and 3 running.
- (i) *The abort that ends the scheduler.* The abort runs in the `except` clause of the loop
  (`scheduler.py:115-117`). When a commit as in (g) raises there, `_loop` is left, the
  thread ends, and every client waits for ever. `AbortUnblocksClients`, what the docstring
  promises (`scheduler.py:326-327`), is violated in the instance of `scheduler`.

`TableCoversTokens` and `OnlyNegativeRaises` show that (g) does not spread: a table of a
request with a positive `max_tokens` is never too short, and its commit does not raise; the
abort of (i) is what draws others in.

`SingleOwner` and `PagePoolSpec` therefore hold, and are checked, in the two
configurations where finding 1 and (a) cannot occur: without a cache, and with prompts
and answers that keep clear of them.

That these are the only causes is proved. Five conditions say that a finding does not
occur; the module of each states it at its end, and section 5 what follows from it:

| condition | the code it is about | while it holds |
|---|---|---|
| `SplitsOnlyBorrowed` | finding 1: a commit leaves no edge past what it borrowed of it | `NoPageLost` |
| `BorrowsWholeEdges` | (a): of an edge a commit walks whole, all or nothing was borrowed | `SingleOwner` |
| `NoPartialHit` | finding 3: no prefill goes on from a match that ends before the prompt | with `BorrowsWholeEdges`: `CachedPagesImmutable` |
| `CommitsStored` | (c), (d): what is committed was stored | with the last two, in one shot and without finding 4: `CachedKV`, `OwnKV` |
| `WalkKeepsPages` | finding 5: a promotion takes no page the walk has collected | `LockedOnGpu`, `HiBorrowedPagesPinned`; with `BorrowsWholeEdges`: `HiSingleOwner` |

## 5. Proofs

For every set of requests, prompts, sampling bounds, pool and page size (assumptions
`PoolAssumption`, `EngineAssumption`: finitely many requests, prompts not empty,
positive pool and page size, any `MaxNew` but 0, which the server turns into 256, where
negative ones go with `StepsFail`, as they make steps raise; and
`OwnerAssumption`: no request has one of the three names `Owner` gives to owners that are
not requests), in `PagedEngineProofs`:

- `InvariantIsInductive`, `TypeCorrect`, `LocksConserved`, `TreeStaysWellFormed`:
  `Spec => []TypeOK`, `[]LockConservation`, `[]TreeWellFormed`, also through the commits
  that raise, which leave locks and pages behind;
- `TablesCoverTokens`, `CommitRaisesOnlyNegative`: `Spec => []TableCoversTokens`, about
  running requests with a positive `MaxNew` next to any others, and
  `Spec => OnlyNegativeRaises`, a table is too short for a commit only if the request's own
  `MaxNew` is negative;
- `BorrowsPinned`, `CachedCountIsExact`, `OnlyEvictionForgetsPages`,
  `EvictionKeepsPromise`: borrowed pages stay the tree's pages of the prompt, the page
  counter is right, only eviction changes what a prompt matches, and `allocate` raises
  only when no unlocked page is left;
- without a radix cache (`~ RadixEnabled`, a configuration of the program):
  `PagesOwnedOnce`, every page has exactly one owner; `AdmissionReserves`, the admission
  test reserves enough, so that `allocate` never raises when no peak is negative
  (`ReservationSuffices`; (h) is the rest); and
  `ImplementsPagePool`, the engine refines `PagePool`;
- with one: `OnlyPartialBorrowsShare`, `Spec /\ []BorrowsWholeEdges => []SingleOwner`;
  `OnlySplitsLosePages`, `Spec /\ []SplitsOnlyBorrowed => []NoPageLost`;
  `CachedPoolRefinement`, under both the engine refines `PagePool`. The conditions ask for
  nothing more: a commit that breaks one frees a page of the tree
  (`PartialBorrowFreesCached`) or leaves a page to nobody (`DeepSplitLosesPage`);
- for a workload that meets both by itself (`RepeatedPrompts`: two prompts have the same
  whole pages or differ in the first, and no answer fills a page, as when the same prompts
  come again and again with short answers): `RepeatedPromptsKeepPages`,
  `Spec => [](SingleOwner /\ NoPageLost)` and the refinement.

Over it, for every chunk size and either decode path unless the theorem says otherwise
(`PagedKVProofs`), and for every queue of the scheduler thread (`PagedServingProofs`):

- `KvImplementsEngine`, `KvTypeCorrect`, `KvLenAlwaysExact`, `KvConservesLocks`: prefill and
  decode over the slots implement `PagedEngine`'s `Spec`, and `KvSpec => []KvTypeOK`,
  `[]KvLenExact`, `[]LockConservation`;
- `CachedPagesUntouched`: while `BorrowsWholeEdges` and `NoPartialHit` hold nobody writes to
  a page of the tree (`CachedPagesImmutable`), for any chunk size and either decode path;
- `CacheHoldsKV`: with one-shot prefill and flash decode, and `CommitsStored` besides,
  a page of the tree holds the KV of its tokens and a request attends to that of its own
  (`CachedKV`, `OwnKV`). Without a cache the conditions hold by themselves:
  `RequestsReadOwnKV`, `KvSpec => []OwnKV`;
- `SecondChunkOverwrites`, `PartialHitOverwrites`: why one shot, and why no partial hit. A
  second chunk breaks `OwnKV`, and `PrefillStoresPrompt` when the prefill ends in it, in
  every reachable state of every configuration; over borrowed pages it breaks
  `CachedKV`. `paged_chunks` and `paged_fallback` show what findings 3 and 4 do;
- `RepeatedPromptsReadOwnKV`: with repeated prompts of whole pages (`WholePrompts`), short
  answers, one-shot prefill, flash decode and no failing step, all the conditions hold by
  themselves: `KvSpec => [](CachedKV /\ OwnKV)` and `CachedPagesImmutable`;
- `ServingTypeCorrect`, `ServingImplementsEngine`, `ServingConservesLocks`,
  `ListsAlwaysMatchStatus`: `_step_paged` over the engine implements `PagedEngine`'s
  `Spec`, so what is proved for every order of calls holds for the scheduler's; and its
  lists agree with the status and pages of the requests. `PagedServing` has no failing
  steps, hence no negative `MaxNew` (`ServingAssumption`).

For both tiers, with a host pool of any positive size (`CpuPoolAssumption`) and the cache
attached (`TierAssumption`, `RadixEnabled`: without it there is nothing to have tiers), in
`HiPagedProofs`:

- `HiTypeCorrect`, `HiLocksConserved`, `HiTreeStaysWellFormed`, `HiTablesCoverTokens`,
  `HiCachedCountIsExact`: what holds of the engine over one tier holds over two, and the
  pin of a promotion goes however its `allocate` ends;
- `CpuPagesOwnedOnce`: a page of host memory is once free or once in the tree;
- `EvictionKeepsSum`, `LockedPagesStayPut`: a turn of eviction keeps the sum of the free and
  the evictable pages, and no page of a locked GPU node moves;
- `LockedNodesOnGpu`, `HiBorrowedPagesStay`: while `WalkKeepsPages` holds, `LockedOnGpu` and
  `HiBorrowedPagesPinned`. Nothing less will do: every walk that ends with a page it
  has lost breaks the second (`StaleWalkBorrowsWrongPage`);
- `HiOnlyPartialBorrowsShare`: while `BorrowsWholeEdges` holds too, `HiSingleOwner`;
- `HiRepeatedPromptsKeepPages`: with `RepeatedPrompts` all three hold of every behaviour of
  `HiSpec`, whatever is demoted, dropped and promoted.

For every set of requests, workload, mode, number of failing steps and pool
(`SchedulerAssumption`), in `SchedulerProofs`:

- `SchedulerTypeCorrect`, `NoRequestIsLost`, `OneListEachHolds`, `QueueStaysInOrder`;
- `StreamsInOrder` and `KeepsTokenStream`: a client's queue holds the recorded tokens in
  order and one finish marker at the end - none when the commit of its request raised,
  disagreement (g) - and every step is one that `TokenStream` allows its writer;
  `InFlightStaysBounded`: `max_running` and, in paged mode when no peak is negative, the
  pages of what is in flight.

For every set of clients, stream lengths, number of threads and sets of stuck requests
(`ServerAssumption`):

- `ServerTypeCorrect`, `ResponsesComplete`, `GetsAlwaysCanReturn` (`ServerProofs`).

The argument, engine. None of the invariants is inductive alone; `IInv` is their
conjunction with three more. `TreeInv` is the trie stated without `CHOOSE`: the domain of
`page` is closed under prefixes, the nodes are in it, and every prefix in it has a
node above which it branches nowhere (all nodes below the prefix are below that one);
from it `OwnerProperties` derives what
`OwnerNode` returns. The invariant but for the types that say which pool a page is of is
`CoreInv`; the lemmas of the actions are about it, so that the hierarchical cache can use
them too. `ControlInv` ties `pc`, `cur`, `at` and `status`
together: which request a call can be for, and that a commit has always walked to a
node or the root. `UnlockedInv` says which requests hold
no lock: without it a new lock could overwrite an old one and `LockConservation` would not
survive `PrefillInit`; a finished request may have one, if its commit raised. `SizeInv`
bounds answers and tables: an answer by `Longest`, one token for a negative `MaxNew`, and a
running request's table has its peak at least, from which `TableCoversTokens` and, for who
has a positive `MaxNew`, `CommitFits` follow with the monotonicity of rounding
(`PagesMonotonic`, `PositiveCovers`). An unlocked node has no locked node below it because
`ref_count` is the cardinality of `Holders`, which shrinks downwards; that is why an
evicted leaf is nobody's lock. `EvictKeepsTree`, `SplitKeepsTree` and `LeafKeepsTree`
(`RadixCacheProofs`) and one lemma per action carry the induction; `IInv` was checked
as an invariant by TLC first.

Tree and pages. `BorrowInv` adds to `IInv` that the borrowed prefix of a request is above
its lock and holds the first pages of its table, that requests without a lock hold no
page, and that the tree has finitely many pages; an eviction cannot touch a locked
prefix because the evicted leaf would be a node above a lock (`EvictionKeepsLocked`).
`CachedCountExact` needs to count prefixes (`PrefixesCounted`): the ones a new leaf adds
are as many as it has pages and were not in the tree before (`LeafIsNew`). That an
eviction reaches every unlocked page is `UnlockedNodeHasLeaf`: below an unlocked node there
is a longest node, and it is an unlocked leaf.

Pool. `PagesOwnedOnce` is by `OwnerInv`: without a cache the free list and the tables name
every page once; `StackSplit` and `FreeListJoined` are the two moves of the stack.
`AdmissionReserves` needs a sum: `ReserveInv` says that who runs has its whole peak in its
table and that free pages are what the peaks of those running leave, and that the
peaks of all in flight fit the pool; what is not yet taken is then still free (`RoomForCur`).
The sum bounds its members only when none is negative, which is where `ReservationSuffices`
has its condition from (`PeaksAddUp`).
The admission test adds with `MapThenSumSet`, which is a fold over a set: expanded it is a
`CHOOSE` of a recursive function, whose existence, and independence of the order elements
are taken in, `CollectionLemmas` proves by a least counterexample (`AnyOrder`, `FoldExists`,
`FoldIsSum`); `SumFacts` gives the rules the proofs use. `ImplementsPagePool` maps the free
list and the tables to `owner`; `OwnerReads` says the map reads back what `OwnerInv` says,
and every action is a move of the pages its request takes or gives back, or a stutter.

Pool with a cache. `SingleOwner` is nearly inductive by itself, once the pages that a request
owns are said by their places in its table (`OwnPositions`): those past what it borrowed
and, in a commit, past where the walk has got to. A commit that walks a whole edge frees the
request's pages of it if they are not the edge's; they are its own, all of them, if it
had borrowed nothing of the edge, and the edge's if it had borrowed all (`BorrowInv`): what
is left is an edge borrowed in part. `Accounted`, every page has an owner, is inductive
apart from it: a split is the only step that takes a place from a table and puts the page
nowhere, and these places are borrowed as far as `hit` goes. Both are about places and
pages only, so that the two tiers use the same lemmas (`Apart`) for the GPU pages.

`KvLenExact` is inductive together with `IInv` and three facts: the counters are naturals; a
match claims no more tokens than the prompt has (`HitInv`, from `MatchLenProperties` and the
rounding down to whole pages); and who does not run has generated nothing (`FreshInv`),
without which `StartPrefill` could not restart the count after a retract. `OwnKV` needs that
two running requests have no slot in common that one of them writes, which is `SingleOwner`,
that a position which is stored has a slot in the table, which is `SizeInv` for decode and
the guard `Fits` for prefill (`RoomInv` keeps it), and that a request without a token has
just what it matched stored, since prefill is one step (`OneShotInv`). With a cache it holds
only together with `CachedKV`: a match is right because the tree is, and a commit puts into
the tree what the request has (`StoredInv` is the conjunction). Whoever writes does so to
slots it owns (`WritesOwn`), which no other request and no page of the tree has
(`OthersReadSame`); a step that writes nothing keeps all (`QuietKeepsStored`). The tokens a
page of the tree stands for are spelt by its key (`KeysSpell`).

The workload. `RepeatInv` says that every node is a whole prompt and every match all of one or
nothing: a commit is the prompt, because the answer fills no page (`CommittedIsPrompt`), and
a node whose first page is that of a prompt is the prompt (`NodeIsPrompt`), so that the one
child a commit or a match can meet is its own prompt. No edge is ever split. In two
tiers it follows that a promotion is the first thing a walk does if it does one at all, and so
takes none of its pages: `HiRepeatInv` is `RepeatInv` and `WalkKeepsPages`.

Tiers. `HiInv` is `CoreInv` with the lock count that the pin of a promotion changes, and
three parts. `TierInv`: a node has a tier and its pages are of that tier's pool. `MatchInv`:
where a walk has got to is in the tree - although the walk locks nothing and its own
allocations evict: a drop takes only leaves, and the pinned child keeps the path to
it (`WalkSurvivesDrop`). `EvictInv`: what evict has collected and not looked at yet is still
unlocked, in GPU memory and in the tree, because nothing else runs. An eviction drops nodes
that have no holders (`UnheldNode`), and `DropEffect` and `RepageEffect` say what a drop
and a move between the tiers do to every other node. `CpuPagesOwned` is then inductive:
an edge's pages are different and are its own (`EdgePagesAre`), so they can be freed
(`CpuEdgeFreed`) and taken (`CpuEdgeTaken`) as a whole. `EvictKeepsSum` counts an edge by
its length, and uses that a demoted node's edge is what the free list gains.
`HoldInv` says what a request holds outside of its walk: what it borrows are the tree's
pages, and the whole path to its lock is in GPU memory; during the walk, that it has one page
per place (`WalkInv`). `LockedPagesStay` keeps it from the lock on; at `MatchEnd`, where
it has to become true, it is `WalkKeepsPages` for the places that were matched, and
for the rest of the last edge its tier (`WalkEndHolds`).

Paged serving. `ListsMatchStatus` speaks of the place between two steps. `ListsInv` says it
of each `phase`: `QueueInv` that a list or snapshot names nobody twice, `MemberInv` who is
in which list while a loop goes over its snapshot, `CallInv` that the engine's call is for the
loop's request, and one part per loop (`AdmitInv`, `InitInv`, `FirstInv`, `DecodeInv`)
for what the loop has dealt with.

Scheduler. `NoRequestLost` and `OneListEach` speak of a request's place at a moment when
the lists are whole; in the middle of a loop they are not. The inductive invariant says, per
`pc`, what the loop has made of the snapshot it goes over: `PrefilledInv` that every
request still in `self.prefilling` is in the rest of the snapshot, in `still_prefilling`,
among the retracted or already in `self.running`, and that these do not overlap;
`LoopsInv` the same for the decode loop, and that the abort's snapshot has all that is
in flight; `NoDuplicates` and `LocalsInv` that no list or snapshot names a request twice -
but the abort's, which may, after a failure between `running.append` and the assignment of
`self.prefilling`. `ReachInv`, the statement itself, is restricted like the property:
batched and baseline mode keep requests in locals that a failure drops. The lemmas about
lists (`Joined`, `Divided`, `Removed`, ...) say what the operations do to the set of a
list's members and to their being different. TLC checked the invariant first.

The order of the queue needs more (`OrderInv`). `self.prefilling` itself is not in order of
arrival: a request whose prompt takes several steps may stay there while one that came
before it is refused, put back and admitted again behind it. What is in order are the
requests without KV (`Fresh`), which are the only ones the engine refuses, and they are
ahead of all that waits; in the loop, those already put into `retracted` are ahead of those
still to be refused (`Refused`). `PagedAdmitOrder`, `PrefillBatchOrder`,
`PrefilledOneOrder` and `PrefilledEndOrder` carry that around the step. It holds for
the places where the lists are whole only because every request left in `self.prefilling`
then has KV, and because an abort empties the list.

Streams and bounds. `StreamInv` describes the queue of a request by a number: so many tokens,
then finish markers, the first of them when the request is finished, unless it still has its
pages because its commit raised (`Keeps`, and such pages stay: `KeepsStay`); the number is at
most `made` and, while no step has failed, is `made`. It is inductive because a request a step
may still take a token for (`Served`: who is in a list, or in the rest of a snapshot outside
of the abort) has made fewer than `Longest`, so the token that makes it `Longest` also takes the
request out of every list. `StreamsFacts` connects that number with the `Cardinality` in
`StreamOrder`; a request that may get a token is not closed, from which `KeepsTokenStream`
follows step by step. `InFlightBounded` is
`BoundInv`, which counts in batched mode the rest of the batch, in the step's locals, as
taken (`Taken`), and the peaks when they are such that a sum bounds its parts
(`PeaksAddUp`, as in the engine). `len` and `sum` over lists become sums over sets by
`Joined`, `Divided` and `SumReindexed`.

Server. `InStep` says of each request how its coroutine, its call, its thread and its
stream go together - which of them there is at all, and how many items are between
`taken`, `item` and `got` -, and `CalledOnce` that a request has one call at a time.

The type invariants `TypeOK` of `PagedEngine`, `KvTypeOK`, `ServingTypeOK`, `HiTypeOK`,
`ServerTypeOK` and `TypeOK` of `Scheduler` are proved and therefore in no run.

Only model-checked is liveness (`RetriesSucceed`, `EveryRequestAnswered`, `StopEnds`,
`EveryClientServed`, `ThreadsReturn`, `ShutdownCompletes`), which is out of TLAPS's reach
here: its steps need `ENABLED` of the actions under fairness.

The theorems on the properties that the findings break have conditions on behaviours as
hypotheses. There are behaviours that meet them: all four conditions on commits and
matches are invariants of the instance of `paged_cached`, `WalkKeepsPages` and
`BorrowsWholeEdges` of that of `hicache`; without a cache the four hold of every
instance; and with `RepeatedPrompts` the hypotheses are on the constants only. TLC
checked the theorems first: the conclusions as invariants, with the conditions as
constraints, in larger instances in which the findings do occur; that dropping any
one of `NoPartialHit`, `BorrowsWholeEdges` and `CommitsStored` violates `CachedKV` and `OwnKV`;
and the conditions and conclusions of the workload theorems with five requests, some of
them for the same prompt, over one tier and over two. `CommitsStored` has no converse: a
slot that was not stored may by accident hold the right KV, left by the request that had
the page before.

## 6. Not modelled

- the numbers in the tensors, attention, sampling: any token of `Gen[r]` may come out;
  the page copies of `_copy_kv` between the tiers, and its overlap stream;
- `reset` of either cache, which nothing calls; metrics;
- HTTP, JSON, the chat template and tokenization of `server.py`; `/cache_stats`, whose walk
  over the tree on the server's side changes nothing;
- the unpaged engine (`prefill`, `decode_step`, `batched_decode` on per-request tensors),
  which shares no state between requests;
- the command line, the benchmarks; and the vendored packages under `_pydeps`, which make up
  most of the repository's lines and which the program does not use.

## 7. What is left

The plan of the project - pool, tree, paged engine, KV contents, scheduler, paged serving,
hierarchical cache, server, and their proofs - is carried out. What would add to it:

1. the five conditions of section 4 as theorems of the code, once findings 1, 3 and 5 and
   disagreements a, c and d are resolved in it: each is what a correction has to
   establish, and the rest is proved from them;
2. KV contents over two tiers: `_copy_kv` would move what a slot holds between the pools, and
   `CachedKV` would have to be said of both;
3. `MaxNew` positive in the assumptions, once the server refuses negative `max_tokens`:
   disagreements g to i and the conditions that are about them go with it;
4. the hierarchical cache under `PagedServing`, for liveness over two tiers, once findings 1,
   2 and 5 are resolved.
