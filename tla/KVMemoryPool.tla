---------------------------- MODULE KVMemoryPool ----------------------------
(***************************************************************************)
(* The paged KV pool of src/miniengine/kv_memory_pool.py: a fixed set of   *)
(* page numbers and a free list used as a stack.  The tensors behind the   *)
(* page numbers are left out.  The other modules use the operators of this *)
(* one as fragments of their actions: the pool has no thread of its own.   *)
(***************************************************************************)
EXTENDS Integers, Sequences, SequencesExt

CONSTANTS NumPages,   \* capacity of the pool, in pages
          PageSize    \* tokens per page (--page-size)

\* The constructor gets a positive page size, and from_budget refuses a pool of
\* no page.
ASSUME PoolAssumption == NumPages \in Nat \ {0} /\ PageSize \in Nat \ {0}

VARIABLE free   \* self._free, popped and extended at its end

Page == 0 .. NumPages - 1

\* math.ceil(seq_len / page_size), in integers.
PagesNeeded(n) == (n + PageSize - 1) \div PageSize

\* Whole pages in n tokens: page_align_len(n) / page_size.
WholePages(n) == n \div PageSize

PoolInit == free = [i \in 1 .. NumPages |-> i - 1]

\* The n pages that n calls of self._free.pop() return, in that order.
Popped(n) == [i \in 1 .. n |-> free[Len(free) + 1 - i]]

\* Mutants: one page too few, and one too many, leaves the free list.
Allocate_KeepsOne(n) == free' = SubSeq(free, 1, Len(free) - (IF n > 0 THEN n - 1 ELSE 0))
Allocate_DropsOne(n) == free' = SubSeq(free, 1, IF n < Len(free) THEN Len(free) - n - 1 ELSE 0)

\* The successful end of allocate(n): the caller takes Popped(n).
Allocate(n) == free' = SubSeq(free, 1, Len(free) - n)

\* self._free.extend(pages).
Free(pages) == free' = free \o pages
=============================================================================
