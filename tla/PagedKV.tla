------------------------------ MODULE PagedKV -------------------------------
(***************************************************************************)
(* What the KV slots of the pages hold, on top of PagedEngine.tla: prefill *)
(* in one shot or in chunks, with or without a cached prefix, and decode.  *)
(*                                                                         *)
(* The KV of a token depends on the token and on everything before it, so  *)
(* a slot that was computed over the right context is taken to hold the    *)
(* token sequence that ends there; every other slot holds Garbage.  The    *)
(* batch runs one request after the other here: the requests of a forward  *)
(* pass do not look at each other's tokens.                                *)
(***************************************************************************)
EXTENDS PagedEngine

CONSTANTS ChunkSize,   \* --prefill-chunk-size, 0 for prefill in one shot
          DirectFlash  \* _direct_paged_flash_supported: flash attention is
                       \* installed and the page size is a multiple of 256

ASSUME KvAssumption == ChunkSize \in Nat /\ DirectFlash \in BOOLEAN

VARIABLES kv,      \* what every slot of the pool holds
          kvLen,   \* kv_cache.kv_len, once the request has a kv_cache
          offset   \* prefill_offset

kvVars == <<kv, kvLen, offset>>

Garbage == << >>
Slots == Page \X (0 .. PageSize - 1)

\* The slot of the i-th token of a sequence with page table t, i from 1.
SlotOf(t, i) == <<t[(i - 1) \div PageSize + 1], (i - 1) % PageSize>>

\* Do the first n slots of r hold the KV of its own first n tokens?
HoldsPrefix(r, n) ==
    \A i \in 1 .. n : kv[SlotOf(table[r], i)] = PrefixOf(Tokens(r), i)

\* The KV the model computes for token i of r over the first n slots of r, where
\* the tokens between them are part of the same pass.
Computed(r, n, i) == IF HoldsPrefix(r, n) THEN PrefixOf(Tokens(r), i) ELSE Garbage

\* Mutant: a token is stored as the one before it.
StoreSlice_Late(r, start, n) ==
    kv' = [s \in Slots |->
        LET js == {j \in 1 .. n : SlotOf(table[r], j) = s}
        IN  IF js = {} THEN kv[s] ELSE Computed(r, start, start + Max(js) - 1)]

\* _store_prefill_slice_to_pool: n new tokens after the first `start` are written
\* to the first n slots of the table, whatever `start` is.
StoreSlice(r, start, n) ==
    kv' = [s \in Slots |->
        LET js == {j \in 1 .. n : SlotOf(table[r], j) = s}
        IN  IF js = {} THEN kv[s] ELSE Computed(r, start, start + Max(js))]

KvInit ==
    /\ Init
    /\ kv = [s \in Slots |-> Garbage]
    /\ kvLen = [r \in Req |-> 0]
    /\ offset = [r \in Req |-> 0]

\* Mutant: the borrowed prefix is not counted in kv_len.
StartPrefill_NoHit ==
    /\ AllocDone
    /\ kvLen' = [kvLen EXCEPT ![cur] = 0]
    /\ offset' = [offset EXCEPT ![cur] = hit[cur] * PageSize]
    /\ UNCHANGED kv

\* The end of _paged_prefill_init: the request starts after its cached prefix.
StartPrefill ==
    /\ AllocDone
    /\ kvLen' = [kvLen EXCEPT ![cur] = hit[cur] * PageSize]
    /\ offset' = [offset EXCEPT ![cur] = hit[cur] * PageSize]
    /\ UNCHANGED kv

\* Tokens of the next prefill step of r.
ChunkLen(r) ==
    LET rest == Len(Prompt[r]) - offset[r]
    IN  IF ChunkSize > 0 /\ ChunkSize < rest THEN ChunkSize ELSE rest

\* Can the slots of r below kv_len be gathered, and its next n tokens be stored?
Capacity(r) == Len(table[r]) * PageSize
Fits(r, n) == kvLen[r] <= Capacity(r) /\ n <= Capacity(r)

Prefilling(r) ==
    /\ pc = "idle" /\ status[r] = "running" /\ out[r] = << >>
    /\ offset[r] < Len(Prompt[r])

\* One prefill step of r over the slots it has: the last one samples a token.
PrefillStep(r) ==
    LET n == ChunkLen(r) IN
    /\ Prefilling(r)
    /\ Fits(r, n)
    /\ StoreSlice(r, kvLen[r], n)
    /\ kvLen' = [kvLen EXCEPT ![r] = @ + n]
    /\ offset' = [offset EXCEPT ![r] = @ + n]
    /\ IF offset[r] + n = Len(Prompt[r]) THEN \E t \in Gen[r] : Generate(r, t)
                                         ELSE UNCHANGED vars

\* _prefill_packed_chunk_step for a request with nothing in its slots.
PackedChunk(r) == kvLen[r] = 0 /\ PrefillStep(r)

\* _prefill_continuation_chunk for a request with a cached prefix or a first chunk.
ContinuationChunk(r) == kvLen[r] > 0 /\ PrefillStep(r)

\* A table index is out of range, in _gather_kv_from_pool before anything is stored, or
\* in _store_prefill_slice_to_pool when the table is full; the step raises.
PrefillRaises(r) ==
    /\ Prefilling(r)
    /\ ~ Fits(r, ChunkLen(r))
    /\ IF kvLen[r] <= Capacity(r) THEN StoreSlice(r, kvLen[r], Capacity(r))
                                  ELSE UNCHANGED kv
    /\ UNCHANGED <<vars, kvLen, offset>>

\* _sample_first_token_cached_prompt: the prompt is in the slots to its end.  The
\* pass repeats the last token on top of all n slots and its KV is dropped.
CachedPrompt(r) ==
    /\ status[r] = "running" /\ out[r] = << >>
    /\ offset[r] >= Len(Prompt[r])
    /\ \E t \in Gen[r] : Generate(r, t)
    /\ kvLen' = [kvLen EXCEPT ![r] = Len(Prompt[r])]
    /\ offset' = [offset EXCEPT ![r] = Len(Prompt[r])]
    /\ UNCHANGED kv

\* Mutant: the token goes to the slot before its own.
AppendKv_SlotBefore(r) ==
    kv' = [kv EXCEPT ![SlotOf(table[r], kvLen[r])] = Computed(r, kvLen[r], kvLen[r] + 1)]

\* Flash attention appends the token's KV in place.  The fallback,
\* _append_batched_last_token_kv_to_pool, copies into what indexing with two
\* tensors returns: a copy of the slot, so the pool does not change.
AppendKv(r) ==
    IF DirectFlash
      THEN kv' = [kv EXCEPT ![SlotOf(table[r], kvLen[r] + 1)] =
                     Computed(r, kvLen[r], kvLen[r] + 1)]
      ELSE UNCHANGED kv

\* batched_decode for r: the last token enters the KV and one more is sampled.
Decode(r) ==
    /\ status[r] = "running" /\ out[r] # << >> /\ ~ Done(r)
    /\ AppendKv(r)
    /\ kvLen' = [kvLen EXCEPT ![r] = @ + 1]
    /\ \E t \in Gen[r] : Generate(r, t)
    /\ UNCHANGED offset

\* A retract sets prefill_offset back.
Rollback ==
    /\ AllocFail
    /\ offset' = [offset EXCEPT ![cur] = 0]
    /\ UNCHANGED <<kv, kvLen>>

\* The steps of PagedEngine that touch no slot.
PageStep ==
    /\ \/ \E r \in Req : \/ Admit(r) \/ PrefillInit(r)
                         \/ Retire(r) \/ Abort(r) \/ CommitRaises(r) \/ AbortUninitialised(r)
                         \/ CommitLeaf(r) \/ CommitFullEdge(r) \/ CommitSplit(r)
                         \/ CommitEnd(r)
       \/ \E n \in Nodes : AllocEvict(n)
       \/ Terminated
    /\ UNCHANGED kvVars

KvNext ==
    \/ StartPrefill
    \/ \E r \in Req : \/ PackedChunk(r) \/ ContinuationChunk(r) \/ PrefillRaises(r)
                      \/ CachedPrompt(r) \/ Decode(r)
    \/ Rollback
    \/ PageStep

KvSpec == KvInit /\ [][KvNext]_<<vars, kvVars>>

-----------------------------------------------------------------------------
(* Properties *)

\* Every variable has its type.
KvTypeOK ==
    /\ kv \in [Slots -> Seq(Token)]
    /\ kvLen \in [Req -> Nat] /\ offset \in [Req -> Nat]

\* kv_len and prefill_offset count the same tokens until the first token is
\* sampled; after it kv_len is one short of the sequence, because the last token
\* enters the KV with the next decode step - with and without a cached prefix.
KvLenExact ==
    \A r \in Req : status[r] = "running" =>
        IF out[r] = << >> THEN kvLen[r] = offset[r] /\ offset[r] <= Len(Prompt[r])
                          ELSE kvLen[r] = Len(Tokens(r)) - 1

\* What a decode step or the next chunk attends to is the KV of the request's own
\* tokens, however pages were reused, borrowed or evicted before.
OwnKV == \A r \in Req : status[r] = "running" => HoldsPrefix(r, kvLen[r])

\* Once prefill is done every prompt token is stored.
PrefillStoresPrompt ==
    \A r \in Req : status[r] = "running" /\ offset[r] >= Len(Prompt[r])
                     => HoldsPrefix(r, Len(Prompt[r]))

\* The first n tokens of a key sequence.
KeyTokens(p, n) == [j \in 1 .. n |-> p[(j - 1) \div PageSize + 1][((j - 1) % PageSize) + 1]]

\* A page in the tree holds the KV of the tokens it stands for: whoever matches
\* it may skip their prefill.
CachedKV ==
    \A p \in DOMAIN page : \A s \in 0 .. PageSize - 1 :
        kv[<<page[p], s>>] = KeyTokens(p, (Len(p) - 1) * PageSize + s + 1)

\* Nobody writes to a page while it is in the tree.
CachedPagesImmutable ==
    [][\A p \in DOMAIN page \cap DOMAIN page' :
          page'[p] = page[p] =>
              \A s \in 0 .. PageSize - 1 : kv'[<<page[p], s>>] = kv[<<page[p], s>>]]_<<vars, kvVars>>

(***************************************************************************)
(* When the slots keep to the tree.  A prefill over a cached prefix stores *)
(* what it computes from the first slot of the table on, and a commit      *)
(* inserts every whole page of the sequence, stored or not.                *)
(***************************************************************************)

\* A match covers the whole prompt or nothing of it.
NoPartialHit ==
    \A r \in Req : status[r] = "running" /\ out[r] = << >> =>
        hit[r] = 0 \/ offset[r] >= Len(Prompt[r])

\* What is being committed has been stored.
CommitsStored == \A r \in Req : Inserting(r) => Len(Committed(r)) * PageSize <= kvLen[r]
=============================================================================
