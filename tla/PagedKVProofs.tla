---------------------------- MODULE PagedKVProofs ---------------------------
(***************************************************************************)
(* Theorems about PagedKV: what it adds to PagedEngine changes nothing of  *)
(* the life of the pages, and kv_len counts what it should, for every      *)
(* chunk size, with and without cached prefixes and failing steps.  With   *)
(* prefill in one shot every request reads the KV of its own tokens and    *)
(* the pages of the tree hold what they stand for: without a radix cache,  *)
(* or while the conditions at the end of PagedKV.tla and the one on whole  *)
(* edges hold, as they do where whole prompts come again.  A continued     *)
(* prefill always breaks the first promise, and over a borrowed prefix the *)
(* second.                                                                 *)
(***************************************************************************)
EXTENDS PagedKV, PagedEngineProofs

CountersType == kvLen \in [Req -> Nat] /\ offset \in [Req -> Nat]

\* A match never claims more tokens than the prompt has.
HitInv == \A r \in Req : hit[r] * PageSize <= Len(Prompt[r])

\* Who does not run yet, or again, has generated nothing.
FreshInv == \A r \in Req : status[r] \in {"waiting", "admitted"} => out[r] = << >>

\* The inductive invariant, on top of IInv.
KvInv == CountersType /\ HitInv /\ FreshInv /\ KvLenExact

-----------------------------------------------------------------------------
\* A step of PagedKV is a step of PagedEngine or leaves it alone.
LEMMA KvStepIsEngineStep ==
    ASSUME [KvNext]_<<vars, kvVars>>
    PROVE  [Next]_vars
<1>1. CASE StartPrefill
  BY <1>1 DEF StartPrefill, Next
<1>2. ASSUME NEW r \in Req, PrefillStep(r)
      PROVE  [Next]_vars
  BY <1>2 DEF PrefillStep, Next
<1>3. ASSUME NEW r \in Req, CachedPrompt(r) \/ Decode(r)
      PROVE  [Next]_vars
  BY <1>3 DEF CachedPrompt, Decode, Next
<1>7. ASSUME NEW r \in Req, PrefillRaises(r)
      PROVE  [Next]_vars
  BY <1>7 DEF PrefillRaises
<1>4. CASE Rollback
  BY <1>4 DEF Rollback, Next
<1>5. CASE PageStep
  BY <1>5 DEF PageStep, Next
<1>6. CASE UNCHANGED <<vars, kvVars>>
  BY <1>6
<1>. QED
  BY <1>1, <1>2, <1>3, <1>4, <1>5, <1>6, <1>7 DEF KvNext, PackedChunk, ContinuationChunk

\* The tokens of a match fit into the prompt.
LEMMA MatchFits ==
    ASSUME NEW tokens \in Seq(Token)
    PROVE  MatchLen(Keys(tokens)) * PageSize <= Len(tokens)
<1>1. Len(tokens) \in Nat
  BY LenProperties
<1>2. MatchLen(Keys(tokens)) \in 0 .. WholePages(Len(tokens))
  BY KeysType, MatchLenProperties
<1>3. \A i \in 1 .. WholePages(Len(tokens)) : i * PageSize <= Len(tokens)
  BY <1>1, PagesMonotonic, PoolAssumption
<1>4. WholePages(Len(tokens)) \in Nat
  BY <1>1, PagesMonotonic, PoolAssumption
<1>5. CASE MatchLen(Keys(tokens)) = 0
  <2>1. 0 * PageSize = 0
    BY PoolAssumption
  <2>. QED  BY <1>1, <1>5, <2>1
<1>6. CASE MatchLen(Keys(tokens)) # 0
  <2>1. MatchLen(Keys(tokens)) \in 1 .. WholePages(Len(tokens))
    BY <1>2, <1>4, <1>6
  <2>. QED  BY <1>3, <2>1
<1>. QED  BY <1>5, <1>6

\* Lengths of a request's sequence.
LEMMA TokenCount ==
    ASSUME TypeOK, NEW r \in Req
    PROVE  /\ Len(Prompt[r]) \in Nat /\ Len(out[r]) \in Nat
           /\ Len(Tokens(r)) = Len(Prompt[r]) + Len(out[r])
           /\ out[r] = << >> <=> Len(out[r]) = 0
<1>1. Prompt[r] \in Seq(Token) /\ out[r] \in Seq(Token)
  BY EngineAssumption DEF TypeOK
<1>. QED  BY <1>1, LenProperties, ConcatProperties, EmptySeq DEF Tokens

\* Sampling a token makes the sequence one longer.
LEMMA OneMoreToken ==
    ASSUME TypeOK, NEW r \in Req, NEW t \in Gen[r], Generate(r, t)
    PROVE  /\ out'[r] # << >> /\ Len(Tokens(r)') = Len(Tokens(r)) + 1
           /\ \A s \in Req \ {r} : out'[s] = out[s]
           /\ UNCHANGED <<status, hit>> /\ status[r] = "running"
<1>1. t \in Token /\ out[r] \in Seq(Token) /\ out \in [Req -> Seq(Token)]
  BY EngineAssumption DEF TypeOK
<1>2. out'[r] = Append(out[r], t) /\ \A s \in Req \ {r} : out'[s] = out[s]
  BY <1>1 DEF Generate
<1>3. out'[r] \in Seq(Token) /\ Len(out'[r]) = Len(out[r]) + 1
  BY <1>1, <1>2, AppendProperties
<1>4. Len(Tokens(r)') = Len(Prompt[r]) + Len(out'[r])
  <2>1. Tokens(r)' = Prompt[r] \o out'[r] /\ Prompt[r] \in Seq(Token)
    BY EngineAssumption DEF Tokens
  <2>2. Len(Prompt[r] \o out'[r]) = Len(Prompt[r]) + Len(out'[r])
    BY <1>3, <2>1, ConcatProperties, Zenon
  <2>. QED  BY <2>1, <2>2, Zenon
<1>5. Len(Tokens(r)') = Len(Tokens(r)) + 1
  <2>1. /\ Len(Prompt[r]) \in Nat /\ Len(out[r]) \in Nat
        /\ Len(Tokens(r)) = Len(Prompt[r]) + Len(out[r])
    BY TokenCount
  <2>2. Len(Tokens(r)') = Len(Prompt[r]) + (Len(out[r]) + 1)
    BY <1>3, <1>4, Zenon
  <2>3. \A a, b \in Nat : a + (b + 1) = (a + b) + 1
    OBVIOUS
  <2>4. Len(Tokens(r)') = (Len(Prompt[r]) + Len(out[r])) + 1
    BY <2>1, <2>2, <2>3, Zenon
  <2>. QED  BY <2>1, <2>4, Zenon
<1>6. out'[r] # << >>
  BY <1>1, <1>3, LenProperties, EmptySeq
<1>. QED  BY <1>2, <1>5, <1>6 DEF Generate

-----------------------------------------------------------------------------
(* The steps *)

\* Sampling leaves the facts about hits and fresh requests alone.
LEMMA GenerateKeepsFresh ==
    ASSUME TypeOK, HitInv, FreshInv, NEW r \in Req, NEW t \in Gen[r], Generate(r, t)
    PROVE  HitInv' /\ FreshInv'
<1>1. /\ UNCHANGED <<status, hit>> /\ status[r] = "running"
      /\ \A s \in Req \ {r} : out'[s] = out[s]
  BY OneMoreToken
<1>. QED  BY <1>1 DEF HitInv, FreshInv

LEMMA StartPrefillStep ==
    ASSUME IInv, KvInv, StartPrefill
    PROVE  KvInv'
<1>1. cur \in Req /\ status[cur] = "admitted" /\ out[cur] = << >>
  BY DEF StartPrefill, AllocDone, IInv, CoreInv, ControlInv, KvInv, FreshInv
<1>2. /\ UNCHANGED <<out, hit>>
      /\ status' = [status EXCEPT ![cur] = "running"]
      /\ status \in [Req -> {"waiting", "admitted", "running", "finished"}]
      /\ hit \in [Req -> Nat]
  BY DEF StartPrefill, AllocDone, IInv, TypeOK
<1>3. hit[cur] * PageSize \in Nat /\ hit[cur] * PageSize <= Len(Prompt[cur])
  BY <1>1, <1>2, PoolAssumption DEF KvInv, HitInv
<1>4. CountersType'
  BY <1>3 DEF StartPrefill, KvInv, CountersType
<1>5. HitInv' /\ FreshInv'
  BY <1>1, <1>2 DEF KvInv, HitInv, FreshInv
<1>6. ASSUME NEW r \in Req, status'[r] = "running"
      PROVE  IF out'[r] = << >> THEN kvLen'[r] = offset'[r] /\ offset'[r] <= Len(Prompt[r])
                                ELSE kvLen'[r] = Len(Tokens(r)') - 1
  <2>1. CASE r = cur
    BY <1>1, <1>2, <1>3, <2>1 DEF StartPrefill, KvInv, CountersType
  <2>2. CASE r # cur
    <3>1. kvLen'[r] = kvLen[r] /\ offset'[r] = offset[r] /\ status[r] = "running"
      BY <1>2, <1>6, <2>2 DEF StartPrefill, KvInv, CountersType
    <3>. QED  BY <1>2, <3>1 DEF KvInv, KvLenExact, Tokens
  <2>. QED  BY <2>1, <2>2
<1>. QED  BY <1>4, <1>5, <1>6 DEF KvInv, KvLenExact

LEMMA PrefillStepStep ==
    ASSUME IInv, KvInv, NEW r \in Req, PrefillStep(r)
    PROVE  KvInv'
<1>. DEFINE n == ChunkLen(r)
<1>1. /\ status[r] = "running" /\ out[r] = << >> /\ offset[r] < Len(Prompt[r])
      /\ kvLen' = [kvLen EXCEPT ![r] = @ + n] /\ offset' = [offset EXCEPT ![r] = @ + n]
  BY DEF PrefillStep, Prefilling
<1>2. /\ kvLen[r] \in Nat /\ offset[r] \in Nat /\ kvLen[r] = offset[r]
      /\ Len(Prompt[r]) \in Nat /\ Len(out[r]) = 0
      /\ Len(Tokens(r)) = Len(Prompt[r]) + Len(out[r])
  BY <1>1, TokenCount DEF IInv, KvInv, CountersType, KvLenExact
<1>3. n \in Nat /\ offset[r] + n <= Len(Prompt[r])
  BY <1>1, <1>2, KvAssumption DEF ChunkLen
<1>. HIDE DEF n
<1>4. CountersType'
  BY <1>1, <1>2, <1>3 DEF KvInv, CountersType
<1>5. /\ kvLen'[r] = offset[r] + n /\ offset'[r] = offset[r] + n
      /\ \A s \in Req \ {r} : kvLen'[s] = kvLen[s] /\ offset'[s] = offset[s]
  BY <1>1, <1>2 DEF KvInv, CountersType
<1>6. CASE offset[r] + n = Len(Prompt[r])
  <2>1. PICK t \in Gen[r] : Generate(r, t)
    BY <1>6 DEF PrefillStep, n
  <2>2. /\ out'[r] # << >> /\ Len(Tokens(r)') = Len(Tokens(r)) + 1
        /\ \A s \in Req \ {r} : out'[s] = out[s]
        /\ UNCHANGED <<status, hit>>
    BY <2>1, OneMoreToken DEF IInv
  <2>3. HitInv' /\ FreshInv'
    BY <2>1, GenerateKeepsFresh DEF IInv, KvInv
  <2>4. kvLen'[r] = Len(Tokens(r)') - 1
    BY <1>2, <1>5, <1>6, <2>2
  <2>5. KvLenExact'
    BY <1>5, <2>2, <2>4 DEF KvInv, KvLenExact, Tokens
  <2>. QED  BY <1>4, <2>3, <2>5 DEF KvInv
<1>7. CASE offset[r] + n # Len(Prompt[r])
  <2>1. UNCHANGED <<out, status, hit>>
    BY <1>7 DEF PrefillStep, n, vars
  <2>2. HitInv' /\ FreshInv'
    BY <2>1 DEF KvInv, HitInv, FreshInv
  <2>3. KvLenExact'
    BY <1>1, <1>3, <1>5, <2>1 DEF KvInv, KvLenExact, Tokens
  <2>. QED  BY <1>4, <2>2, <2>3 DEF KvInv
<1>. QED  BY <1>6, <1>7

LEMMA CachedPromptStep ==
    ASSUME IInv, KvInv, NEW r \in Req, CachedPrompt(r)
    PROVE  KvInv'
<1>1. PICK t \in Gen[r] : Generate(r, t)
  BY DEF CachedPrompt
<1>2. /\ out'[r] # << >> /\ Len(Tokens(r)') = Len(Tokens(r)) + 1
      /\ \A s \in Req \ {r} : out'[s] = out[s]
      /\ UNCHANGED <<status, hit>>
  BY <1>1, OneMoreToken DEF IInv
<1>3. Len(Prompt[r]) \in Nat /\ Len(Tokens(r)) = Len(Prompt[r])
  <2>1. TypeOK /\ out[r] = << >>
    BY DEF CachedPrompt, IInv
  <2>2. /\ Len(Prompt[r]) \in Nat /\ Len(out[r]) = 0
        /\ Len(Tokens(r)) = Len(Prompt[r]) + Len(out[r])
    BY <2>1, TokenCount
  <2>. QED  BY <2>2
<1>4. /\ kvLen'[r] = Len(Prompt[r]) /\ CountersType'
      /\ \A s \in Req \ {r} : kvLen'[s] = kvLen[s] /\ offset'[s] = offset[s]
  BY <1>3 DEF CachedPrompt, KvInv, CountersType
<1>5. HitInv' /\ FreshInv'
  BY <1>1, GenerateKeepsFresh DEF IInv, KvInv
<1>6. kvLen'[r] = Len(Tokens(r)') - 1
  BY <1>2, <1>3, <1>4
<1>7. KvLenExact'
  BY <1>2, <1>4, <1>6 DEF KvInv, KvLenExact, Tokens
<1>. QED  BY <1>4, <1>5, <1>7 DEF KvInv

LEMMA DecodeStep ==
    ASSUME IInv, KvInv, NEW r \in Req, Decode(r)
    PROVE  KvInv'
<1>1. PICK t \in Gen[r] : Generate(r, t)
  BY DEF Decode
<1>2. /\ out'[r] # << >> /\ Len(Tokens(r)') = Len(Tokens(r)) + 1
      /\ \A s \in Req \ {r} : out'[s] = out[s]
      /\ UNCHANGED <<status, hit>>
  BY <1>1, OneMoreToken DEF IInv
<1>3. /\ Len(Tokens(r)) \in Nat /\ kvLen[r] \in Nat /\ kvLen[r] = Len(Tokens(r)) - 1
  BY TokenCount DEF Decode, IInv, KvInv, CountersType, KvLenExact
<1>4. /\ kvLen'[r] = kvLen[r] + 1 /\ CountersType' /\ offset' = offset
      /\ \A s \in Req \ {r} : kvLen'[s] = kvLen[s]
  BY <1>3 DEF Decode, KvInv, CountersType
<1>5. HitInv' /\ FreshInv'
  BY <1>1, GenerateKeepsFresh DEF IInv, KvInv
<1>6. kvLen'[r] = Len(Tokens(r)') - 1
  BY <1>2, <1>3, <1>4
<1>7. KvLenExact'
  BY <1>2, <1>4, <1>6 DEF KvInv, KvLenExact, Tokens
<1>. QED  BY <1>4, <1>5, <1>7 DEF KvInv

LEMMA RollbackStep ==
    ASSUME IInv, KvInv, Rollback
    PROVE  KvInv'
<1>1. cur \in Req /\ status[cur] = "admitted"
  BY DEF Rollback, AllocFail, IInv, CoreInv, ControlInv
<1>2. /\ status' = [status EXCEPT ![cur] = "waiting"] /\ hit' = [hit EXCEPT ![cur] = 0]
      /\ offset' = [offset EXCEPT ![cur] = 0] /\ UNCHANGED <<out, kvLen>>
      /\ status \in [Req -> {"waiting", "admitted", "running", "finished"}]
      /\ hit \in [Req -> Nat]
  BY DEF Rollback, AllocFail, IInv, TypeOK
<1>3. CountersType'
  BY <1>2 DEF KvInv, CountersType
<1>4. 0 * PageSize <= Len(Prompt[cur])
  BY <1>1, EngineAssumption, PoolAssumption, LenProperties
<1>5. HitInv' /\ FreshInv'
  BY <1>1, <1>2, <1>4 DEF KvInv, HitInv, FreshInv
<1>6. \A r \in Req : status'[r] = "running" =>
          r # cur /\ status[r] = "running" /\ offset'[r] = offset[r]
  BY <1>1, <1>2 DEF KvInv, CountersType
<1>7. KvLenExact'
  BY <1>2, <1>6 DEF KvInv, KvLenExact, Tokens
<1>. QED  BY <1>3, <1>5, <1>7 DEF KvInv

LEMMA PageStepStep ==
    ASSUME IInv, KvInv, PageStep
    PROVE  KvInv'
<1>1. UNCHANGED <<kvLen, offset>>
  BY DEF PageStep, kvVars
<1>2. /\ status \in [Req -> {"waiting", "admitted", "running", "finished"}]
      /\ hit \in [Req -> Nat]
  BY DEF IInv, TypeOK
<1>. DEFINE NobodyStarts ==
           \A r \in Req :
               /\ status'[r] = "running" => status[r] = "running"
               /\ status'[r] \in {"waiting", "admitted"} => status[r] \in {"waiting", "admitted"}
<1>3. out' = out /\ HitInv' /\ NobodyStarts
  <2>1. ASSUME NEW r \in Req, PrefillInit(r)
        PROVE  UNCHANGED <<out, status>> /\ HitInv'
    <3>1. MatchLen(Keys(Prompt[r])) * PageSize <= Len(Prompt[r])
      BY MatchFits, EngineAssumption
    <3>. QED  BY <1>2, <2>1, <3>1 DEF PrefillInit, KvInv, HitInv
  <2>2. ASSUME NEW r \in Req, \/ Admit(r) \/ AbortUninitialised(r)
                              \/ Retire(r) \/ Abort(r) \/ CommitEnd(r) \/ CommitRaises(r)
        PROVE  out' = out /\ HitInv' /\ NobodyStarts
    <3>1. UNCHANGED <<out, hit>>
      BY <2>2 DEF Admit, AbortUninitialised, Retire, Abort, FreeRequestKv, CommitEnd, reqVars,
                  CommitRaises
    <3>2. \/ status' = status
          \/ status[r] = "waiting" /\ status' = [status EXCEPT ![r] = "admitted"]
          \/ status' = [status EXCEPT ![r] = "finished"]
      BY <2>2 DEF Admit, AbortUninitialised, Retire, Abort, FreeRequestKv, CommitEnd, reqVars,
                  CommitRaises
    <3>. QED  BY <1>2, <3>1, <3>2 DEF KvInv, HitInv
  <2>3. ASSUME NEW r \in Req, CommitLeaf(r) \/ CommitFullEdge(r) \/ CommitSplit(r)
        PROVE  UNCHANGED <<out, hit, status>>
    BY <2>3 DEF CommitLeaf, CommitFullEdge, CommitSplit, reqVars
  <2>4. ASSUME NEW n \in Nodes, AllocEvict(n)
        PROVE  UNCHANGED <<out, hit, status>>
    BY <2>4 DEF AllocEvict, reqVars
  <2>5. ASSUME Terminated
        PROVE  UNCHANGED <<out, hit, status>>
    BY <2>5 DEF Terminated, vars
  <2>6. ASSUME UNCHANGED <<out, hit, status>>
        PROVE  out' = out /\ HitInv' /\ NobodyStarts
    BY <2>6 DEF KvInv, HitInv
  <2>. QED  BY <2>1, <2>2, <2>3, <2>4, <2>5, <2>6 DEF PageStep
<1>4. CountersType' /\ FreshInv'
  BY <1>1, <1>3 DEF KvInv, CountersType, FreshInv
<1>5. \A r \in Req : Tokens(r)' = Tokens(r)
  BY <1>3 DEF Tokens
<1>6. KvLenExact'
  <2>1. \A r \in Req : status'[r] = "running" => status[r] = "running"
    BY <1>3
  <2>. HIDE DEF NobodyStarts
  <2>. QED  BY <1>1, <1>3, <1>5, <2>1 DEF KvInv, KvLenExact
<1>. QED  BY <1>3, <1>4, <1>6 DEF KvInv

\* kv_len and prefill_offset survive every step of prefill, decode and paging.
THEOREM KvInvariantIsInductive == IInv /\ KvInv /\ [KvNext]_<<vars, kvVars>> => KvInv'
<1>. SUFFICES ASSUME IInv, KvInv, [KvNext]_<<vars, kvVars>>
              PROVE  KvInv'
  OBVIOUS
<1>1. CASE StartPrefill
  BY <1>1, StartPrefillStep
<1>2. ASSUME NEW r \in Req, PackedChunk(r) \/ ContinuationChunk(r)
      PROVE  KvInv'
  BY <1>2, PrefillStepStep DEF PackedChunk, ContinuationChunk
<1>3. ASSUME NEW r \in Req, CachedPrompt(r)
      PROVE  KvInv'
  BY <1>3, CachedPromptStep
<1>4. ASSUME NEW r \in Req, Decode(r)
      PROVE  KvInv'
  BY <1>4, DecodeStep
<1>5. CASE Rollback
  BY <1>5, RollbackStep
<1>6. CASE PageStep
  BY <1>6, PageStepStep
<1>7. ASSUME UNCHANGED <<vars, kvVars>> \/ \E r \in Req : PrefillRaises(r)
      PROVE  KvInv'
  BY <1>7 DEF vars, kvVars, PrefillRaises, KvInv, CountersType, HitInv, FreshInv, KvLenExact,
              Tokens
<1>. QED  BY <1>1, <1>2, <1>3, <1>4, <1>5, <1>6, <1>7 DEF KvNext

-----------------------------------------------------------------------------
\* With the contents of its slots the engine still is the engine of
\* PagedEngine.tla: all that is proved there holds here.
THEOREM KvImplementsEngine == KvSpec => Spec
<1>1. KvInit => Init
  BY DEF KvInit
<1>. QED  BY <1>1, KvStepIsEngineStep, PTL DEF KvSpec, Spec

-----------------------------------------------------------------------------
(* What the slots hold *)

\* The place of a token: a page of the table, and a slot of that page.
LEMMA Places ==
    ASSUME NEW n \in Nat, NEW i \in 1 .. n
    PROVE  /\ (i - 1) \div PageSize + 1 \in 1 .. PagesNeeded(n)
           /\ (i - 1) % PageSize \in 0 .. PageSize - 1
<1>1. PageSize \in Nat \ {0}
  BY PoolAssumption
<1>2. \A a \in Nat : /\ a \div PageSize \in Nat /\ a % PageSize \in 0 .. PageSize - 1
                     /\ a = PageSize * (a \div PageSize) + (a % PageSize)
  BY <1>1
<1>3. i - 1 \in Nat /\ (i - 1) + PageSize <= n + PageSize - 1
      /\ (i - 1) + PageSize \in Nat /\ n + PageSize - 1 \in Nat
  BY <1>1
<1>4. ((i - 1) + PageSize) \div PageSize = (i - 1) \div PageSize + 1
  BY <1>1, <1>3
<1>5. ((i - 1) + PageSize) \div PageSize <= (n + PageSize - 1) \div PageSize
  BY <1>1, <1>3
<1>. QED  BY <1>1, <1>2, <1>3, <1>4, <1>5 DEF PagesNeeded

\* Two tokens have two places.
LEMMA PlacesDistinct ==
    ASSUME NEW i \in Nat \ {0}, NEW j \in Nat \ {0},
           (i - 1) \div PageSize = (j - 1) \div PageSize,
           (i - 1) % PageSize = (j - 1) % PageSize
    PROVE  i = j
<1>1. PageSize \in Nat \ {0}
  BY PoolAssumption
<1>2. \A a \in Nat : a = PageSize * (a \div PageSize) + (a % PageSize)
  BY <1>1
<1>3. i - 1 \in Nat /\ j - 1 \in Nat
  OBVIOUS
<1>4. i - 1 = j - 1
  BY <1>2, <1>3
<1>. QED  BY <1>4

\* The greatest of some numbers up to n is one of them.
LEMMA MaxIsMember ==
    ASSUME NEW n \in Nat, NEW S \in SUBSET (1 .. n), S # {}
    PROVE  Max(S) \in S
<1>1. {n - j : j \in S} \in SUBSET Nat /\ {n - j : j \in S} # {}
  <2>1. \A j \in S : n - j \in Nat
    OBVIOUS
  <2>2. \E j \in S : TRUE
    OBVIOUS
  <2>. QED  BY <2>1, <2>2
<1>2. PICK m \in {n - j : j \in S} : \A k \in {n - j : j \in S} : m <= k
  BY <1>1, LeastNatural
<1>3. PICK x \in S : m = n - x
  OBVIOUS
<1>4. \A y \in S : x >= y
  <2>1. ASSUME NEW y \in S PROVE x >= y
    <3>1. m <= n - y
      BY <1>2
    <3>. QED  BY <1>3, <3>1
  <2>. QED  BY <2>1
<1>. QED  BY <1>4 DEF Max

\* Every slot holds the KV of a token sequence.
SlotsType == kv \in [Slots -> Seq(Token)]

\* What the model computes for a token is a prefix of the sequence, or garbage.
LEMMA ComputedType ==
    ASSUME IInv, NEW r \in Req, NEW n \in Nat, NEW i \in 0 .. Len(Tokens(r))
    PROVE  Computed(r, n, i) \in Seq(Token)
<1>1. Tokens(r) \in Seq(Token)
  BY EngineAssumption, ConcatProperties DEF IInv, TypeOK, Tokens
<1>2. PrefixOf(Tokens(r), i) \in Seq(Token)
  BY <1>1, PrefixOfProperties
<1>3. Garbage \in Seq(Token)
  BY EmptySeq DEF Garbage
<1>. QED  BY <1>2, <1>3 DEF Computed

\* Storing a slice writes sequences of tokens.
LEMMA StoreSliceType ==
    ASSUME IInv, SlotsType, NEW r \in Req, NEW start \in Nat, NEW n \in Nat,
           start + n <= Len(Tokens(r)), StoreSlice(r, start, n)
    PROVE  SlotsType'
<1>. DEFINE js(s) == {j \in 1 .. n : SlotOf(table[r], j) = s}
<1>1. ASSUME NEW s \in Slots, js(s) # {}
      PROVE  Computed(r, start, start + Max(js(s))) \in Seq(Token)
  <2>1. Max(js(s)) \in 1 .. n
    <3>1. js(s) \in SUBSET (1 .. n)
      OBVIOUS
    <3>. HIDE DEF js
    <3>2. Max(js(s)) \in js(s)
      BY <1>1, <3>1, MaxIsMember
    <3>. QED  BY <3>1, <3>2
  <2>. HIDE DEF js
  <2>2. Len(Tokens(r)) \in Nat
    BY TokenCount DEF IInv
  <2>3. start + Max(js(s)) \in 0 .. Len(Tokens(r))
    BY <2>1, <2>2
  <2>. QED  BY <2>3, ComputedType
<1>2. kv' = [s \in Slots |-> IF js(s) = {} THEN kv[s]
                             ELSE Computed(r, start, start + Max(js(s)))]
  BY DEF StoreSlice
<1>. HIDE DEF js
<1>3. \A s \in Slots : kv[s] \in Seq(Token)
  BY DEF SlotsType
<1>4. \A s \in Slots : (IF js(s) = {} THEN kv[s]
                        ELSE Computed(r, start, start + Max(js(s)))) \in Seq(Token)
  BY <1>1, <1>3
<1>5. kv' \in [Slots -> Seq(Token)]
  BY <1>2, <1>4, Zenon
<1>6. Slots' = Slots
  BY DEF Slots, Page
<1>. QED  BY <1>5, <1>6, Zenon DEF SlotsType

\* A prefill step stores no more than the sequence has.
LEMMA PrefillBounds ==
    ASSUME IInv, KvInv, NEW r \in Req, Prefilling(r)
    PROVE  /\ kvLen[r] \in Nat /\ kvLen[r] = offset[r] /\ ChunkLen(r) \in Nat
           /\ offset[r] + ChunkLen(r) <= Len(Prompt[r])
           /\ Len(Tokens(r)) = Len(Prompt[r]) /\ Len(Prompt[r]) \in Nat
<1>1. status[r] = "running" /\ out[r] = << >> /\ offset[r] < Len(Prompt[r])
  BY DEF Prefilling
<1>2. /\ kvLen[r] \in Nat /\ offset[r] \in Nat /\ kvLen[r] = offset[r]
  BY <1>1 DEF KvInv, CountersType, KvLenExact
<1>3. /\ Len(Prompt[r]) \in Nat /\ Len(out[r]) = 0
      /\ Len(Tokens(r)) = Len(Prompt[r]) + Len(out[r])
  BY <1>1, TokenCount DEF IInv
<1>4. ChunkLen(r) \in Nat /\ offset[r] + ChunkLen(r) <= Len(Prompt[r])
  BY <1>1, <1>2, <1>3, KvAssumption DEF ChunkLen
<1>. QED  BY <1>2, <1>3, <1>4

\* What a step does to the slots keeps their type.
LEMMA SlotsTypeKept ==
    ASSUME IInv, KvInv, SlotsType, [KvNext]_<<vars, kvVars>>
    PROVE  SlotsType'
<1>1. ASSUME kv' = kv PROVE SlotsType'
  BY <1>1 DEF SlotsType, Slots, Page
<1>2. ASSUME NEW r \in Req, PrefillStep(r) PROVE SlotsType'
  <2>1. StoreSlice(r, kvLen[r], ChunkLen(r)) /\ Prefilling(r)
    BY <1>2 DEF PrefillStep
  <2>2. /\ kvLen[r] \in Nat /\ kvLen[r] = offset[r] /\ ChunkLen(r) \in Nat
        /\ offset[r] + ChunkLen(r) <= Len(Prompt[r]) /\ Len(Tokens(r)) = Len(Prompt[r])
    BY <2>1, PrefillBounds
  <2>3. kvLen[r] + ChunkLen(r) <= Len(Tokens(r))
    BY <2>2
  <2>. QED  BY <2>1, <2>2, <2>3, StoreSliceType
<1>3. ASSUME NEW r \in Req, Decode(r) PROVE SlotsType'
  <2>1. Len(Tokens(r)) \in Nat /\ kvLen[r] \in Nat /\ kvLen[r] = Len(Tokens(r)) - 1
    BY <1>3, TokenCount DEF Decode, IInv, KvInv, CountersType, KvLenExact
  <2>2. kvLen[r] + 1 \in 0 .. Len(Tokens(r))
    BY <2>1
  <2>3. Computed(r, kvLen[r], kvLen[r] + 1) \in Seq(Token)
    BY <2>1, <2>2, ComputedType
  <2>. QED  BY <1>1, <1>3, <2>3 DEF Decode, AppendKv, SlotsType, Slots, Page
<1>4. ASSUME StartPrefill \/ Rollback \/ PageStep \/ UNCHANGED <<vars, kvVars>>
      PROVE  kv' = kv
  BY <1>4 DEF StartPrefill, Rollback, PageStep, kvVars
<1>5. ASSUME NEW r \in Req, CachedPrompt(r) PROVE kv' = kv
  BY <1>5 DEF CachedPrompt
<1>6. ASSUME NEW r \in Req, PrefillRaises(r), kvLen[r] <= Capacity(r) PROVE SlotsType'
  <2>1. StoreSlice(r, kvLen[r], Capacity(r)) /\ Prefilling(r) /\ ~ Fits(r, ChunkLen(r))
    BY <1>6 DEF PrefillRaises
  <2>2. /\ kvLen[r] \in Nat /\ kvLen[r] = offset[r] /\ ChunkLen(r) \in Nat
        /\ offset[r] + ChunkLen(r) <= Len(Prompt[r]) /\ Len(Tokens(r)) = Len(Prompt[r])
    BY <2>1, PrefillBounds
  <2>3. Capacity(r) \in Nat
    <3>1. Len(table[r]) \in Nat /\ PageSize \in Nat
      BY LenProperties, PoolAssumption DEF IInv, TypeOK
    <3>. QED  BY <3>1 DEF Capacity
  <2>4. Capacity(r) < ChunkLen(r)
    BY <1>6, <2>1, <2>2, <2>3 DEF Fits
  <2>5. kvLen[r] + Capacity(r) <= Len(Tokens(r))
    BY <2>2, <2>3, <2>4
  <2>. QED  BY <2>1, <2>2, <2>3, <2>5, StoreSliceType
<1>7. ASSUME NEW r \in Req, PrefillRaises(r), ~ (kvLen[r] <= Capacity(r)) PROVE kv' = kv
  BY <1>7 DEF PrefillRaises
<1>. QED
  BY <1>1, <1>2, <1>3, <1>4, <1>5, <1>6, <1>7 DEF KvNext, PackedChunk, ContinuationChunk

\* The invariant of the model holds when it starts.
LEMMA KvInitInv == KvInit => IInv /\ KvInv /\ SlotsType
<1>. SUFFICES ASSUME KvInit
              PROVE  IInv /\ KvInv /\ SlotsType
  OBVIOUS
<1>1. IInv
  BY InitIInv DEF KvInit
<1>2. CountersType /\ FreshInv
  BY DEF KvInit, Init, CountersType, FreshInv
<1>3. 0 * PageSize = 0 /\ \A r \in Req : Len(Prompt[r]) \in Nat
  BY EngineAssumption, PoolAssumption, LenProperties
<1>4. HitInv /\ KvLenExact
  BY <1>3 DEF KvInit, Init, HitInv, KvLenExact
<1>5. SlotsType
  BY EmptySeq DEF KvInit, SlotsType, Garbage
<1>. QED  BY <1>1, <1>2, <1>4, <1>5 DEF KvInv

\* The three parts of the invariant carry each other through every step.
LEMMA KvInvHolds == KvSpec => [](IInv /\ KvInv /\ SlotsType)
<1>1. IInv /\ KvInv /\ SlotsType /\ [KvNext]_<<vars, kvVars>>
          => (IInv /\ KvInv /\ SlotsType)'
  BY KvStepIsEngineStep, InvariantIsInductive, KvInvariantIsInductive, SlotsTypeKept
<1>. QED  BY KvInitInv, <1>1, PTL DEF KvSpec

\* The slots hold token sequences and the counters of a request are never
\* negative: no prefill step or decode step stores past the end of the sequence.
THEOREM KvTypeCorrect == KvSpec => []KvTypeOK
<1>1. KvInv /\ SlotsType => KvTypeOK
  BY DEF KvInv, CountersType, SlotsType, KvTypeOK
<1>. QED  BY KvInvHolds, <1>1, PTL

\* In every reachable state kv_len and prefill_offset count the same tokens until
\* the first one is sampled, and kv_len is one short of the sequence from then on.
THEOREM KvLenAlwaysExact == KvSpec => []KvLenExact
<1>1. KvInv => KvLenExact
  BY DEF KvInv
<1>. QED  BY KvInvHolds, <1>1, PTL

\* The KV of the prompt and the answer moves no lock: ref_count still counts the
\* requests at or below a node.
THEOREM KvConservesLocks == KvSpec => []LockConservation
BY KvImplementsEngine, LocksConserved, PTL

-----------------------------------------------------------------------------
(* The keys of a sequence and its tokens *)

\* Quotient and remainder are the only ones.
LEMMA PagesAndSlots ==
    ASSUME NEW d \in Nat, NEW m \in 0 .. PageSize - 1, NEW e \in Nat, NEW k \in 0 .. PageSize - 1
    PROVE  /\ d * PageSize \in Nat /\ (d + 1) * PageSize = d * PageSize + PageSize
           /\ d * PageSize + m <= e * PageSize + k => d <= e
           /\ d * PageSize + m = e * PageSize + k => d = e /\ m = k
<1>1. PageSize \in Nat \ {0}
  BY PoolAssumption
<1>2. /\ d * PageSize \in Nat /\ e * PageSize \in Nat
      /\ (d + 1) * PageSize = d * PageSize + PageSize
      /\ (e + 1) * PageSize = e * PageSize + PageSize
  BY <1>1
<1>3. \A a, b \in Nat : a <= b => a * PageSize <= b * PageSize
  BY <1>1
<1>4. d <= e \/ e + 1 <= d
  OBVIOUS
<1>5. e <= d \/ d + 1 <= e
  OBVIOUS
<1>6. e + 1 <= d => e * PageSize + PageSize <= d * PageSize
  BY <1>2, <1>3
<1>7. d + 1 <= e => d * PageSize + PageSize <= e * PageSize
  BY <1>2, <1>3
<1>8. PICK x \in Nat, y \in Nat, z \in Nat : x = d * PageSize /\ y = e * PageSize /\ z = PageSize
  BY <1>1, <1>2
<1>9. x + m <= y + k => d <= e
  <2>1. e + 1 <= d => y + z <= x
    BY <1>6, <1>8
  <2>2. m < z /\ k < z
    BY <1>8
  <2>. QED  BY <1>4, <1>8, <2>1, <2>2
<1>10. y + k <= x + m => e <= d
  <2>1. d + 1 <= e => x + z <= y
    BY <1>7, <1>8
  <2>2. m < z /\ k < z
    BY <1>8
  <2>. QED  BY <1>5, <1>8, <2>1, <2>2
<1>11. x + m = y + k => d = e /\ m = k
  <2>1. x + m = y + k => d = e
    BY <1>8, <1>9, <1>10
  <2>2. d = e => x = y
    BY <1>8
  <2>. QED  BY <1>8, <2>1, <2>2
<1>. QED  BY <1>2, <1>8, <1>9, <1>11

\* The page and the slot that a number splits into.
LEMMA Splits ==
    ASSUME NEW n \in Nat
    PROVE  /\ n \div PageSize \in Nat /\ n % PageSize \in 0 .. PageSize - 1
           /\ n = (n \div PageSize) * PageSize + (n % PageSize)
BY PoolAssumption

\* The n-th token is in the page and at the offset that its number says, and the key
\* sequence up to that page spells the sequence up to that token.
LEMMA KeysSpell ==
    ASSUME NEW t \in Seq(Token), NEW i \in 1 .. Len(Keys(t)), NEW s \in 0 .. PageSize - 1,
           NEW n, n = (i - 1) * PageSize + s + 1
    PROVE  /\ n \in 1 .. Len(t) /\ n <= i * PageSize
           /\ (n - 1) \div PageSize + 1 = i /\ (n - 1) % PageSize = s
           /\ KeyTokens(PrefixOf(Keys(t), i), n) = PrefixOf(t, n)
<1>1. /\ PageSize \in Nat \ {0} /\ Len(t) \in Nat
      /\ Keys(t) \in Seq(Key) /\ Len(Keys(t)) = WholePages(Len(t))
      /\ WholePages(Len(t)) \in Nat
      /\ \A k \in 1 .. WholePages(Len(t)) : (k - 1) * PageSize \in Nat /\ k * PageSize <= Len(t)
  <2>1. Len(t) \in Nat /\ Len(t) <= Len(t)
    BY LenProperties
  <2>. QED  BY <2>1, PoolAssumption, KeysType, PagesMonotonic
<1>2. PICK e \in Nat : e = i - 1 /\ i = e + 1
  BY <1>1
<1>3. PICK a \in Nat, z \in Nat : a = e * PageSize /\ z = PageSize
  BY <1>1, <1>2, PagesAndSlots
<1>4. i * PageSize = a + z /\ a + z <= Len(t) /\ n = a + s + 1
  <2>1. (e + 1) * PageSize = e * PageSize + PageSize
    BY <1>1, <1>2
  <2>2. i * PageSize <= Len(t)
    BY <1>1
  <2>. QED  BY <1>2, <1>3, <2>1, <2>2
<1>8. n \in 1 .. Len(t) /\ n <= i * PageSize /\ n \in Nat /\ n - 1 \in Nat /\ n - 1 = a + s
  <2>1. s \in Nat /\ s + 1 <= z
    BY <1>3
  <2>2. Len(t) \in Nat /\ a \in Nat /\ z \in Nat
    BY <1>1, <1>3
  <2>. QED  BY <1>4, <2>1, <2>2
<1>9. (n - 1) \div PageSize + 1 = i /\ (n - 1) % PageSize = s
  <2>1. PICK d \in Nat, m \in 0 .. PageSize - 1 :
            /\ d = (n - 1) \div PageSize /\ m = (n - 1) % PageSize
            /\ n - 1 = d * PageSize + m
    BY <1>8, Splits
  <2>2. d * PageSize + m = e * PageSize + s
    BY <1>3, <1>8, <2>1
  <2>3. d = e /\ m = s
    BY <2>2, PagesAndSlots
  <2>. QED  BY <1>2, <2>1, <2>3
<1>5. ASSUME NEW j \in 1 .. n
      PROVE  /\ (j - 1) \div PageSize + 1 \in 1 .. i
             /\ PrefixOf(Keys(t), i)[(j - 1) \div PageSize + 1][((j - 1) % PageSize) + 1] = t[j]
  <2>1. PICK d \in Nat, m \in 0 .. PageSize - 1 :
            d = (j - 1) \div PageSize /\ m = (j - 1) % PageSize /\ j - 1 = d * PageSize + m
    <3>1. j - 1 \in Nat
      BY <1>8
    <3>. QED  BY <3>1, Splits
  <2>2. PICK c \in Nat : c = d * PageSize /\ (d + 1) * PageSize = c + z
    BY <1>3, PagesAndSlots
  <2>3. d <= e
    <3>1. c + m <= a + s
      <4>1. j - 1 = c + m
        BY <2>1, <2>2
      <4>2. j - 1 <= n - 1 /\ n - 1 = a + s
        BY <1>8
      <4>. QED  BY <4>1, <4>2
    <3>. QED  BY <1>3, <2>2, <3>1, PagesAndSlots
  <2>4. d + 1 \in 1 .. i /\ d + 1 \in 1 .. WholePages(Len(t))
    BY <1>1, <1>2, <2>3
  <2>5. PrefixOf(Keys(t), i)[d + 1] = Keys(t)[d + 1]
    <3>1. PICK q \in Seq(Key) : q = Keys(t)
      BY <1>1
    <3>2. i \in 0 .. Len(q) /\ Len(q) \in Nat
      BY <1>1, <3>1
    <3>3. \A k \in 1 .. i : PrefixOf(q, i)[k] = q[k]
      BY <3>2, PrefixOfProperties
    <3>. QED  BY <2>4, <3>1, <3>3
  <2>6. c + z <= Len(t)
    BY <1>1, <2>2, <2>4
  <2>7. Keys(t)[d + 1] = SubSeq(t, c + 1, c + z)
    <3>1. (d + 1) - 1 = d
      OBVIOUS
    <3>. QED  BY <2>2, <2>4, <3>1 DEF Keys
  <2>8. SubSeq(t, c + 1, c + z)[m + 1] = t[c + (m + 1)]
    <3>1. m + 1 \in 1 .. z
      BY <1>3
    <3>2. PICK b \in Nat : b = c + z /\ c <= b /\ b <= Len(t) /\ b - c = z
      BY <2>6
    <3>3. m + 1 \in 1 .. b - c
      BY <3>1, <3>2
    <3>4. \A k \in 1 .. b - c : SubSeq(t, c + 1, b)[k] = t[c + k]
      <4>1. t \in Seq(Token) /\ c \in Nat /\ b \in Nat /\ c <= b /\ b <= Len(t)
        BY <3>2
      <4>. QED  BY <4>1, SliceOf
    <3>. QED  BY <3>2, <3>3, <3>4
  <2>9. c + (m + 1) = j
    <3>1. j - 1 = c + m /\ j \in Nat /\ m \in Nat /\ c \in Nat
      BY <1>3, <1>8, <2>1, <2>2
    <3>. QED  BY <3>1
  <2>. QED  BY <2>1, <2>4, <2>5, <2>7, <2>8, <2>9
<1>6. KeyTokens(PrefixOf(Keys(t), i), n) = [j \in 1 .. n |-> t[j]]
  BY <1>5 DEF KeyTokens
<1>7. PrefixOf(t, n) = [j \in 1 .. n |-> t[j]]
  <2>1. /\ PrefixOf(t, n) \in Seq(Token) /\ Len(PrefixOf(t, n)) = n
        /\ \A j \in 1 .. n : PrefixOf(t, n)[j] = t[j]
    <3>1. n \in 0 .. Len(t)
      BY <1>8
    <3>. QED  BY <3>1, PrefixOfProperties
  <2>2. /\ DOMAIN PrefixOf(t, n) = 1 .. n
        /\ PrefixOf(t, n) = [j \in DOMAIN PrefixOf(t, n) |-> PrefixOf(t, n)[j]]
    BY <2>1, LenProperties
  <2>. QED  BY <2>1, <2>2
<1>. QED  BY <1>6, <1>7, <1>8, <1>9

-----------------------------------------------------------------------------
(* Who writes where *)

\* The slots a running request writes to are in pages of its own, which neither the
\* tree nor another place of a table has.
LEMMA OwnPagesApart ==
    ASSUME IInv, BorrowInv, SingleOwner, pc = "idle",
           NEW r \in Req, status[r] = "running", NEW k \in hit[r] + 1 .. Len(table[r])
    PROVE  /\ \A p \in DOMAIN page : page[p] # table[r][k]
           /\ \A s \in Req : \A l \in 1 .. Len(table[s]) :
                 table[s][l] = table[r][k] => s = r /\ l = k
<1>1. /\ hit[r] \in Nat /\ Len(table[r]) \in Nat /\ k \in OwnPositions(r)
  BY LenProperties DEF IInv, TypeOK, OwnPositions
<1>2. table[r][k] \in OwnPages(r) /\ table[r][k] \notin CachedPages
  BY <1>1 DEF OwnPages, SingleOwner
<1>3. ASSUME NEW s \in Req, NEW l \in 1 .. Len(table[s]), table[s][l] = table[r][k]
      PROVE  s = r /\ l = k
  <2>1. /\ hit[s] \in Nat /\ Len(table[s]) \in Nat /\ table[s] \in Seq(Page) /\ l \in Nat
    BY LenProperties DEF IInv, TypeOK
  <2>2. CASE l > hit[s]
    <3>1. l \in OwnPositions(s) /\ table[s][l] \in OwnPages(s)
      BY <2>1, <2>2 DEF OwnPositions, OwnPages
    <3>. QED  BY <1>1, <1>2, <1>3, <3>1 DEF SingleOwner
  <2>3. CASE ~ (l > hit[s])
    <3>1. l \in 1 .. hit[s] /\ table[s] # << >>
      BY <2>1, <2>3, EmptySeq
    <3>2. table[s][l] \in CachedPages
      BY <3>1 DEF BorrowInv, PagesInv, Borrows, CachedPages
    <3>. QED  BY <1>2, <1>3, <3>2
  <2>. QED  BY <2>2, <2>3
<1>4. \A p \in DOMAIN page : page[p] # table[r][k]
  BY <1>2 DEF CachedPages
<1>. QED  BY <1>3, <1>4

\* How many tokens a number of pages holds.
LEMMA PagesHold ==
    ASSUME NEW n \in Nat, NEW l \in Nat
    PROVE  /\ l * PageSize \in Nat /\ PagesNeeded(l * PageSize) = l
           /\ PagesNeeded(n) <= l => n <= l * PageSize
<1>1. PageSize \in Nat \ {0} /\ PageSize - 1 \in 0 .. PageSize - 1
  BY PoolAssumption
<1>2. PICK a \in Nat : a = l * PageSize
  BY <1>1
<1>3. PagesNeeded(l * PageSize) = l
  <2>1. a + PageSize - 1 \in Nat
    BY <1>1, <1>2
  <2>2. PICK d \in Nat, m \in 0 .. PageSize - 1 :
            d = (a + PageSize - 1) \div PageSize /\ a + PageSize - 1 = d * PageSize + m
    BY <2>1, Splits
  <2>3. l * PageSize + (PageSize - 1) = d * PageSize + m
    BY <1>1, <1>2, <2>2
  <2>4. l = d
    BY <1>1, <2>2, <2>3, PagesAndSlots
  <2>. QED  BY <1>2, <2>2, <2>4 DEF PagesNeeded
<1>4. ASSUME PagesNeeded(n) <= l PROVE n <= l * PageSize
  <2>1. n + PageSize - 1 \in Nat
    BY <1>1
  <2>2. PICK d \in Nat, m \in 0 .. PageSize - 1 :
            d = (n + PageSize - 1) \div PageSize /\ n + PageSize - 1 = d * PageSize + m
    BY <2>1, Splits
  <2>3. d <= l
    BY <1>4, <2>2 DEF PagesNeeded
  <2>4. d * PageSize <= l * PageSize
    BY <1>1, <2>2, <2>3
  <2>5. PICK b \in Nat : b = d * PageSize
    BY <1>1, <2>2
  <2>. QED  BY <1>1, <1>2, <2>2, <2>4, <2>5
<1>. QED  BY <1>2, <1>3, <1>4

\* The place in the table of a token that it has room for.
LEMMA TokenPlace ==
    ASSUME IInv, NEW r \in Req, NEW i \in 1 .. Capacity(r)
    PROVE  /\ (i - 1) \div PageSize + 1 \in 1 .. Len(table[r])
           /\ SlotOf(table[r], i) \in Slots
           /\ SlotOf(table[r], i)[1] = table[r][(i - 1) \div PageSize + 1]
           /\ SlotOf(table[r], i)[2] = (i - 1) % PageSize
           /\ (i - 1) % PageSize \in 0 .. PageSize - 1
<1>1. Len(table[r]) \in Nat /\ table[r] \in Seq(Page)
  BY LenProperties DEF IInv, TypeOK
<1>2. Capacity(r) \in Nat /\ PagesNeeded(Capacity(r)) = Len(table[r])
  BY <1>1, PagesHold DEF Capacity
<1>3. /\ (i - 1) \div PageSize + 1 \in 1 .. Len(table[r])
      /\ (i - 1) % PageSize \in 0 .. PageSize - 1
  BY <1>2, Places
<1>4. table[r][(i - 1) \div PageSize + 1] \in Page
  BY <1>1, <1>3, ElementOfSeq
<1>. QED  BY <1>3, <1>4 DEF SlotOf, Slots

\* The first n tokens have places among the first n div PageSize pages, the later ones
\* have none there.
LEMMA PlaceOfToken ==
    ASSUME NEW n \in Nat, NEW h \in Nat, h * PageSize <= n
    PROVE  h < n \div PageSize + 1
<1>1. PICK d \in Nat, m \in 0 .. PageSize - 1 : d = n \div PageSize /\ n = d * PageSize + m
  BY Splits
<1>2. h * PageSize + 0 <= d * PageSize + m /\ 0 \in 0 .. PageSize - 1
  BY <1>1, PoolAssumption
<1>3. h <= d
  BY <1>1, <1>2, PagesAndSlots
<1>. QED  BY <1>1, <1>3

\* A step writes to pages of its own request only.
WritesOwn(r) ==
    \A c \in Slots : kv'[c] # kv[c] => \E k \in hit[r] + 1 .. Len(table[r]) : c[1] = table[r][k]

\* So does a step of prefill, whether it raises or not: it starts with an empty match.
LEMMA PrefillWritesOwn ==
    ASSUME IInv, KvInv, NoPartialHit, NEW r \in Req, PrefillStep(r) \/ PrefillRaises(r)
    PROVE  WritesOwn(r) /\ hit[r] = 0
<1>1. /\ Prefilling(r) /\ status[r] = "running" /\ out[r] = << >>
      /\ offset[r] < Len(Prompt[r])
  BY DEF PrefillStep, PrefillRaises, Prefilling
<1>2. offset[r] \in Nat /\ Len(Prompt[r]) \in Nat /\ Capacity(r) \in Nat
  <2>1. Len(table[r]) \in Nat
    BY LenProperties DEF IInv, TypeOK
  <2>. QED  BY <1>1, <2>1, PrefillBounds, PagesHold DEF KvInv, CountersType, Capacity
<1>3. hit[r] = 0
  BY <1>1, <1>2 DEF NoPartialHit
<1>4. ASSUME NEW c \in Slots, kv'[c] # kv[c]
      PROVE  \E k \in hit[r] + 1 .. Len(table[r]) : c[1] = table[r][k]
  <2>1. PICK n \in Nat : n <= Capacity(r) /\ StoreSlice(r, kvLen[r], n)
    <3>1. ChunkLen(r) \in Nat
      BY <1>1, PrefillBounds
    <3>2. CASE PrefillStep(r)
      BY <3>1, <3>2 DEF PrefillStep, Fits
    <3>3. CASE PrefillRaises(r)
      BY <1>2, <1>4, <3>3 DEF PrefillRaises
    <3>. QED  BY <3>2, <3>3
  <2>2. PICK j \in 1 .. n : SlotOf(table[r], j) = c
    BY <1>4, <2>1 DEF StoreSlice
  <2>3. j \in 1 .. Capacity(r)
    BY <1>2, <2>1
  <2>4. /\ (j - 1) \div PageSize + 1 \in 1 .. Len(table[r])
        /\ c[1] = table[r][(j - 1) \div PageSize + 1]
    BY <2>2, <2>3, TokenPlace
  <2>5. (j - 1) \div PageSize + 1 \in hit[r] + 1 .. Len(table[r])
    BY <1>3, <2>4
  <2>. QED  BY <2>4, <2>5
<1>. QED  BY <1>3, <1>4 DEF WritesOwn

\* A decode step stores past what its request borrowed.
LEMMA DecodePlace ==
    ASSUME IInv, KvInv, NEW r \in Req, Decode(r)
    PROVE  /\ kvLen[r] \in Nat /\ kvLen[r] + 1 \in 1 .. Len(Tokens(r))
           /\ hit[r] < kvLen[r] \div PageSize + 1
           /\ Capacity(r) \in Nat /\ Len(Tokens(r)) <= Capacity(r)
<1>1. status[r] = "running" /\ out[r] # << >> /\ ~ Done(r)
  BY DEF Decode
<1>2. /\ Len(Tokens(r)) \in Nat /\ kvLen[r] \in Nat
      /\ kvLen[r] + 1 \in 1 .. Len(Tokens(r)) /\ Len(Prompt[r]) \in Nat
      /\ Len(Prompt[r]) <= kvLen[r]
  <2>1. PICK p \in Nat, o \in Nat, l \in Nat : p = Len(Prompt[r]) /\ o = Len(out[r]) /\ l = kvLen[r]
    BY TokenCount DEF IInv, KvInv, CountersType
  <2>2. Tokens(r) \in Seq(Token)
    BY Sizes DEF IInv
  <2>3. PICK n \in Nat : n = Len(Tokens(r))
    BY <2>2, LenProperties
  <2>4. n = p + o /\ o # 0
    BY <1>1, <2>1, <2>3, TokenCount, Zenon DEF IInv
  <2>5. l = n - 1
    BY <1>1, <2>1, <2>3 DEF KvInv, KvLenExact
  <2>6. l + 1 \in 1 .. n /\ p <= l
    BY <2>4, <2>5
  <2>. QED  BY <2>1, <2>3, <2>6
<1>4. hit[r] < kvLen[r] \div PageSize + 1
  <2>1. hit[r] \in Nat /\ hit[r] * PageSize \in Nat /\ hit[r] * PageSize <= Len(Prompt[r])
    <3>1. hit[r] \in Nat /\ hit[r] * PageSize <= Len(Prompt[r])
      BY DEF IInv, TypeOK, KvInv, HitInv
    <3>. QED  BY <3>1, PoolAssumption
  <2>2. PICK a \in Nat : a = hit[r] * PageSize
    BY <2>1
  <2>3. hit[r] * PageSize <= kvLen[r]
    BY <1>2, <2>1, <2>2
  <2>. QED  BY <1>2, <2>1, <2>3, PlaceOfToken
<1>5. Capacity(r) \in Nat /\ Len(Tokens(r)) <= Capacity(r)
  <2>1. MaxNew[r] > 0
    <3>1. Len(out[r]) \in Nat /\ MaxNew[r] \in Int /\ ~ (Len(out[r]) >= MaxNew[r])
      BY <1>1, TokenCount, EngineAssumption DEF Done, IInv
    <3>. QED  BY <3>1
  <2>2. Len(table[r]) \in Nat /\ Len(table[r]) >= PagesNeeded(Len(Tokens(r)))
    BY <1>1, <2>1, PositiveCovers, LenProperties DEF IInv, TypeOK, CoreInv
  <2>3. PagesNeeded(Len(Tokens(r))) <= Len(table[r])
    BY <1>2, <2>2, PagesMonotonic, PoolAssumption
  <2>. QED  BY <1>2, <2>2, <2>3, PagesHold DEF Capacity
<1>. QED  BY <1>2, <1>4, <1>5

LEMMA DecodeWritesOwn ==
    ASSUME IInv, KvInv, SlotsType, NEW r \in Req, Decode(r)
    PROVE  WritesOwn(r)
<1>1. /\ status[r] = "running" /\ out[r] # << >>
      /\ kv' = [kv EXCEPT ![SlotOf(table[r], kvLen[r] + 1)] =
                               Computed(r, kvLen[r], kvLen[r] + 1)]
         \/ kv' = kv
  BY DEF Decode, AppendKv
<1>2. kvLen[r] \in Nat /\ kvLen[r] + 1 \in 1 .. Capacity(r)
  BY DecodePlace
<1>4. hit[r] < kvLen[r] \div PageSize + 1
  BY DecodePlace
<1>5. (kvLen[r] + 1) - 1 = kvLen[r]
  BY <1>2
<1>6. /\ kvLen[r] \div PageSize + 1 \in 1 .. Len(table[r])
      /\ SlotOf(table[r], kvLen[r] + 1)[1] = table[r][kvLen[r] \div PageSize + 1]
  BY <1>1, <1>2, <1>5, TokenPlace
<1>7. kvLen[r] \div PageSize + 1 \in hit[r] + 1 .. Len(table[r])
  BY <1>4, <1>6, LenProperties DEF IInv, TypeOK
<1>8. ASSUME NEW c \in Slots, kv'[c] # kv[c]
      PROVE  c = SlotOf(table[r], kvLen[r] + 1)
  BY <1>1, <1>8 DEF SlotsType
<1>. QED  BY <1>6, <1>7, <1>8 DEF WritesOwn

\* A sequence that grows keeps its prefixes.
LEMMA GrownPrefix ==
    ASSUME TypeOK, NEW r \in Req, NEW t \in Gen[r], Generate(r, t),
           NEW i \in 0 .. Len(Tokens(r))
    PROVE  PrefixOf(Tokens(r)', i) = PrefixOf(Tokens(r), i)
<1>1. t \in Token /\ out[r] \in Seq(Token) /\ Prompt[r] \in Seq(Token)
      /\ out \in [Req -> Seq(Token)]
  BY EngineAssumption DEF TypeOK
<1>2. out'[r] = Append(out[r], t)
  BY <1>1 DEF Generate
<1>3. Tokens(r)' = Prompt[r] \o Append(out[r], t)
  BY <1>2 DEF Tokens
<1>4. /\ Tokens(r) \in Seq(Token) /\ Tokens(r)' \in Seq(Token)
      /\ Len(Tokens(r)) \in Nat /\ Len(Tokens(r)') = Len(Tokens(r)) + 1
      /\ \A k \in 1 .. Len(Tokens(r)) : Tokens(r)'[k] = Tokens(r)[k]
  <2>1. /\ Append(out[r], t) \in Seq(Token) /\ Len(out[r]) \in Nat /\ Len(Prompt[r]) \in Nat
        /\ Len(Append(out[r], t)) = Len(out[r]) + 1
        /\ \A k \in 1 .. Len(out[r]) : Append(out[r], t)[k] = out[r][k]
    BY <1>1, AppendProperties, LenProperties
  <2>2. /\ Prompt[r] \o out[r] \in Seq(Token)
        /\ Len(Prompt[r] \o out[r]) = Len(Prompt[r]) + Len(out[r])
        /\ \A k \in 1 .. Len(Prompt[r]) + Len(out[r]) :
              (Prompt[r] \o out[r])[k] = IF k <= Len(Prompt[r]) THEN Prompt[r][k]
                                         ELSE out[r][k - Len(Prompt[r])]
    BY <1>1, ConcatProperties
  <2>. DEFINE longer == Append(out[r], t)
  <2>3. /\ Prompt[r] \o longer \in Seq(Token)
        /\ Len(Prompt[r] \o longer) = Len(Prompt[r]) + Len(longer)
        /\ \A k \in 1 .. Len(Prompt[r]) + Len(longer) :
              (Prompt[r] \o longer)[k] = IF k <= Len(Prompt[r]) THEN Prompt[r][k]
                                         ELSE longer[k - Len(Prompt[r])]
    BY <1>1, <2>1, ConcatProperties
  <2>. HIDE DEF longer
  <2>4. \A k \in 1 .. Len(Prompt[r]) + Len(out[r]) :
            (Prompt[r] \o longer)[k] = (Prompt[r] \o out[r])[k]
    <3>1. \A k \in 1 .. Len(out[r]) : longer[k] = out[r][k]
      BY <2>1 DEF longer
    <3>2. Len(longer) = Len(out[r]) + 1
      BY <2>1 DEF longer
    <3>3. Len(Prompt[r]) \in Nat /\ Len(out[r]) \in Nat
      BY <2>1
    <3>4. ASSUME NEW k \in 1 .. Len(Prompt[r]) + Len(out[r])
          PROVE  (Prompt[r] \o longer)[k] = (Prompt[r] \o out[r])[k]
      <4>1. k \in 1 .. Len(Prompt[r]) + Len(longer)
        <5>1. \A a, b \in Nat : \A j \in 1 .. a + b : j \in 1 .. a + (b + 1)
          OBVIOUS
        <5>. QED  BY <3>2, <3>3, <5>1, Zenon
      <4>2. (Prompt[r] \o longer)[k] = IF k <= Len(Prompt[r]) THEN Prompt[r][k]
                                       ELSE longer[k - Len(Prompt[r])]
        BY <2>3, <4>1
      <4>3. (Prompt[r] \o out[r])[k] = IF k <= Len(Prompt[r]) THEN Prompt[r][k]
                                       ELSE out[r][k - Len(Prompt[r])]
        BY <2>2
      <4>4. ~ (k <= Len(Prompt[r])) => k - Len(Prompt[r]) \in 1 .. Len(out[r])
        <5>1. \A a, b \in Nat : \A j \in 1 .. a + b : ~ (j <= a) => j - a \in 1 .. b
          OBVIOUS
        <5>. QED  BY <3>3, <5>1, Zenon
      <4>. QED  BY <3>1, <4>2, <4>3, <4>4
    <3>. QED  BY <3>4
  <2>5. Tokens(r)' = Prompt[r] \o longer /\ Tokens(r) = Prompt[r] \o out[r]
    BY <1>3 DEF Tokens, longer
  <2>6. Len(longer) = Len(out[r]) + 1
    BY <2>1 DEF longer
  <2>7. Len(Prompt[r] \o longer) = Len(Prompt[r] \o out[r]) + 1
        /\ Len(Prompt[r] \o out[r]) \in Nat
    <3>1. Len(Prompt[r]) \in Nat /\ Len(out[r]) \in Nat
      BY <2>1
    <3>2. \A a, b \in Nat : a + (b + 1) = (a + b) + 1 /\ a + b \in Nat
      OBVIOUS
    <3>3. Len(Prompt[r] \o longer) = Len(Prompt[r]) + (Len(out[r]) + 1)
          /\ Len(Prompt[r] \o out[r]) = Len(Prompt[r]) + Len(out[r])
      BY <2>2, <2>3, <2>6, Zenon
    <3>. QED  BY <3>1, <3>2, <3>3, Zenon
  <2>8. \A k \in 1 .. Len(Prompt[r] \o out[r]) :
            (Prompt[r] \o longer)[k] = (Prompt[r] \o out[r])[k]
    BY <2>2, <2>4
  <2>9. Prompt[r] \o longer \in Seq(Token) /\ Prompt[r] \o out[r] \in Seq(Token)
    BY <2>2, <2>3
  <2>. QED  BY <2>5, <2>7, <2>8, <2>9, Zenon
<1>5. i \in 0 .. Len(Tokens(r)')
  BY <1>4
<1>6. /\ PrefixOf(Tokens(r)', i) \in Seq(Token) /\ PrefixOf(Tokens(r), i) \in Seq(Token)
      /\ Len(PrefixOf(Tokens(r)', i)) = i /\ Len(PrefixOf(Tokens(r), i)) = i
      /\ \A k \in 1 .. i : PrefixOf(Tokens(r)', i)[k] = Tokens(r)'[k]
      /\ \A k \in 1 .. i : PrefixOf(Tokens(r), i)[k] = Tokens(r)[k]
  BY <1>4, <1>5, PrefixOfProperties
<1>7. \A k \in 1 .. i : PrefixOf(Tokens(r)', i)[k] = PrefixOf(Tokens(r), i)[k]
  <2>1. ASSUME NEW k \in 1 .. i PROVE k \in 1 .. Len(Tokens(r))
    BY <1>4
  <2>. QED  BY <1>4, <1>6, <2>1, Zenon
<1>. QED  BY <1>6, <1>7, SeqEqual

\* What a running request has stored lies within its sequence.
LEMMA StoredIsShort ==
    ASSUME IInv, KvInv, NEW r \in Req, status[r] = "running"
    PROVE  kvLen[r] \in 0 .. Len(Tokens(r)) /\ Len(Tokens(r)) \in Nat
<1>1. /\ Len(Prompt[r]) \in Nat /\ Len(out[r]) \in Nat
      /\ Len(Tokens(r)) = Len(Prompt[r]) + Len(out[r])
      /\ kvLen[r] \in Nat /\ offset[r] \in Nat
  BY TokenCount DEF IInv, KvInv, CountersType
<1>0. \A a, b \in Nat : a + b \in Nat
  OBVIOUS
<1>4. Len(Tokens(r)) \in Nat
  BY <1>0, <1>1, Zenon
<1>2. CASE out[r] = << >>
  <2>1. kvLen[r] = offset[r] /\ offset[r] <= Len(Prompt[r]) /\ Len(out[r]) = 0
    BY <1>2, TokenCount DEF IInv, KvInv, KvLenExact
  <2>. QED  BY <1>1, <2>1
<1>3. CASE out[r] # << >>
  <2>1. kvLen[r] = Len(Tokens(r)) - 1
    BY <1>3 DEF KvInv, KvLenExact
  <2>2. \A k, m \in Nat : k = m - 1 => k \in 0 .. m
    OBVIOUS
  <2>3. kvLen[r] \in Nat
    BY <1>1
  <2>. QED  BY <1>4, <2>1, <2>2, <2>3, Zenon
<1>. QED  BY <1>2, <1>3

\* The slot of a token in a page of the request's own is no other token's.
LEMMA TokensApart ==
    ASSUME IInv, BorrowInv, SingleOwner, pc = "idle", NEW r \in Req, status[r] = "running",
           NEW i \in 1 .. Capacity(r), NEW j \in 1 .. Capacity(r),
           hit[r] < (i - 1) \div PageSize + 1, SlotOf(table[r], i) = SlotOf(table[r], j)
    PROVE  i = j
<1>1. PICK k \in 1 .. Len(table[r]), l \in 1 .. Len(table[r]) :
          k = (i - 1) \div PageSize + 1 /\ l = (j - 1) \div PageSize + 1
  BY TokenPlace
<1>2. table[r][k] = table[r][l] /\ (i - 1) % PageSize = (j - 1) % PageSize
  BY <1>1, TokenPlace
<1>3. k \in hit[r] + 1 .. Len(table[r])
  BY <1>1, LenProperties DEF IInv, TypeOK
<1>4. k = l
  BY <1>2, <1>3, OwnPagesApart
<1>5. Capacity(r) \in Nat
  <2>1. Len(table[r]) \in Nat
    BY LenProperties DEF IInv, TypeOK
  <2>. QED  BY <2>1, PagesHold DEF Capacity
<1>6. /\ i \in Nat \ {0} /\ j \in Nat \ {0} /\ i - 1 \in Nat /\ j - 1 \in Nat
  BY <1>5
<1>7. (i - 1) \div PageSize \in Nat /\ (j - 1) \div PageSize \in Nat
  BY <1>6, Splits
<1>8. (i - 1) \div PageSize = (j - 1) \div PageSize
  BY <1>1, <1>4, <1>7
<1>. QED  BY <1>2, <1>6, <1>8, PlacesDistinct

\* What the tree and the other requests read stays when a request writes to its own
\* pages.
LEMMA OthersReadSame ==
    ASSUME IInv, KvInv, BorrowInv, SingleOwner, pc = "idle",
           NEW r \in Req, status[r] = "running", WritesOwn(r)
    PROVE  /\ \A p \in DOMAIN page : \A m \in 0 .. PageSize - 1 :
                 kv'[<<page[p], m>>] = kv[<<page[p], m>>]
           /\ \A s \in Req \ {r} : status[s] = "running" /\ kvLen[s] <= Capacity(s) =>
                 \A i \in 1 .. kvLen[s] : kv'[SlotOf(table[s], i)] = kv[SlotOf(table[s], i)]
<1>1. ASSUME NEW p \in DOMAIN page, NEW m \in 0 .. PageSize - 1
      PROVE  kv'[<<page[p], m>>] = kv[<<page[p], m>>]
  <2>1. <<page[p], m>> \in Slots
    BY DEF IInv, TypeOK, Slots
  <2>2. \A k \in hit[r] + 1 .. Len(table[r]) : page[p] # table[r][k]
    BY OwnPagesApart
  <2>. QED  BY <2>1, <2>2 DEF WritesOwn
<1>2. ASSUME NEW s \in Req \ {r}, status[s] = "running", kvLen[s] <= Capacity(s),
             NEW i \in 1 .. kvLen[s]
      PROVE  kv'[SlotOf(table[s], i)] = kv[SlotOf(table[s], i)]
  <2>1. i \in 1 .. Capacity(s)
    <3>1. Len(table[s]) \in Nat /\ kvLen[s] \in Nat
      BY LenProperties DEF IInv, TypeOK, KvInv, CountersType
    <3>2. Capacity(s) \in Nat
      BY <3>1, PagesHold DEF Capacity
    <3>. QED  BY <1>2, <3>1, <3>2
  <2>2. PICK l \in 1 .. Len(table[s]) : SlotOf(table[s], i)[1] = table[s][l]
    BY <2>1, TokenPlace
  <2>3. \A k \in hit[r] + 1 .. Len(table[r]) : table[s][l] # table[r][k]
    BY <1>2, OwnPagesApart
  <2>4. SlotOf(table[s], i) \in Slots
    BY <2>1, TokenPlace
  <2>. QED  BY <2>2, <2>3, <2>4 DEF WritesOwn
<1>. QED  BY <1>1, <1>2

\* No page of the tree is written: with commits of whole borrowed edges and without
\* prefills over a part of the prompt, the steps that store write to pages of the
\* request alone, for every chunk size and either decode path.
LEMMA StepsWriteOwn ==
    ASSUME IInv, KvInv, SlotsType, NoPartialHit, [KvNext]_<<vars, kvVars>>
    PROVE  \/ kv' = kv
           \/ \E r \in Req : pc = "idle" /\ status[r] = "running" /\ WritesOwn(r)
<1>1. ASSUME NEW r \in Req, PrefillStep(r) \/ PrefillRaises(r)
      PROVE  pc = "idle" /\ status[r] = "running" /\ WritesOwn(r)
  BY <1>1, PrefillWritesOwn DEF PrefillStep, PrefillRaises, Prefilling
<1>2. ASSUME NEW r \in Req, Decode(r)
      PROVE  pc = "idle" /\ status[r] = "running" /\ WritesOwn(r)
  BY <1>2, DecodeWritesOwn DEF Decode, Generate
<1>3. ASSUME \/ StartPrefill \/ Rollback \/ PageStep \/ UNCHANGED <<vars, kvVars>>
             \/ \E r \in Req : CachedPrompt(r)
      PROVE  kv' = kv
  BY <1>3 DEF StartPrefill, Rollback, PageStep, CachedPrompt, kvVars
<1>. QED  BY <1>1, <1>2, <1>3 DEF KvNext, PackedChunk, ContinuationChunk

\* While commits walk no edge borrowed in part and no prefill continues a match that
\* ends before its prompt, nobody writes to a page of the tree, for every chunk size
\* and either decode path.
THEOREM CachedPagesUntouched ==
    KvSpec /\ []BorrowsWholeEdges /\ []NoPartialHit => CachedPagesImmutable
<1>. DEFINE Kept == \A p \in DOMAIN page \cap DOMAIN page' :
                       page'[p] = page[p] =>
                          \A s \in 0 .. PageSize - 1 : kv'[<<page[p], s>>] = kv[<<page[p], s>>]
<1>1. /\ IInv /\ KvInv /\ SlotsType /\ BorrowInv /\ SingleOwner /\ NoPartialHit
      /\ [KvNext]_<<vars, kvVars>>
      => [Kept]_<<vars, kvVars>>
  BY StepsWriteOwn, OthersReadSame
<1>2. KvSpec /\ []BorrowsWholeEdges => []SingleOwner
  BY KvImplementsEngine, OnlyPartialBorrowsShare, PTL
<1>3. KvSpec => []BorrowInv
  BY KvImplementsEngine, BorrowInvariant, PTL
<1>. QED  BY <1>1, <1>2, <1>3, KvInvHolds, PTL DEF KvSpec, CachedPagesImmutable

-----------------------------------------------------------------------------
(* What is read is what was stored *)

\* Until its first token a request has just what it borrowed: its prefill is one step.
OneShotInv ==
    \A r \in Req : status[r] = "running" /\ out[r] = << >> => offset[r] = hit[r] * PageSize

\* What is stored has its place in the table, which can be shorter than the sequence.
RoomInv == \A r \in Req : status[r] = "running" => kvLen[r] <= Capacity(r)

StoredInv == OneShotInv /\ RoomInv /\ OwnKV /\ CachedKV

\* The conditions a step starts under.
Orderly == /\ IInv /\ KvInv /\ SlotsType /\ BorrowInv /\ SingleOwner
           /\ NoPartialHit /\ CommitsStored

\* A step that writes nothing: requests that run keep their pages, and the tree only
\* loses pages.
LEMMA QuietKeepsStored ==
    ASSUME StoredInv, UNCHANGED <<out, kv>>,
           \A r \in Req : status'[r] = "running" =>
               /\ status[r] = "running" /\ table'[r] = table[r] /\ hit'[r] = hit[r]
               /\ kvLen'[r] = kvLen[r] /\ offset'[r] = offset[r],
           \A p \in DOMAIN page' : p \in DOMAIN page /\ page'[p] = page[p]
    PROVE  StoredInv'
<1>1. ASSUME NEW r \in Req, status'[r] = "running"
      PROVE  HoldsPrefix(r, kvLen[r])'
  BY <1>1 DEF StoredInv, OwnKV, HoldsPrefix, Tokens
<1>2. OneShotInv' /\ RoomInv'
  BY DEF StoredInv, OneShotInv, RoomInv, Capacity
<1>3. CachedKV'
  BY DEF StoredInv, CachedKV, KeyTokens
<1>. QED  BY <1>1, <1>2, <1>3 DEF StoredInv, OwnKV

\* The whole prompt goes to the first slots, at their places.
LEMMA PrefillStores ==
    ASSUME ChunkSize = 0, Orderly, StoredInv, NEW r \in Req, PrefillStep(r)
    PROVE  StoredInv'
<1>. DEFINE n == Len(Prompt[r])
<1>0. IInv /\ KvInv /\ BorrowInv /\ SingleOwner /\ NoPartialHit /\ SlotsType
  BY DEF Orderly
<1>1. /\ pc = "idle" /\ status[r] = "running" /\ out[r] = << >>
      /\ kvLen \in [Req -> Nat] /\ offset \in [Req -> Nat]
      /\ kvLen[r] = offset[r] /\ offset[r] = hit[r] * PageSize
  BY <1>0 DEF PrefillStep, Prefilling, StoredInv, OneShotInv, KvInv, KvLenExact, CountersType
<1>2. n \in Nat /\ Len(Tokens(r)) = n
  BY <1>0, PrefillBounds DEF PrefillStep
<1>3. WritesOwn(r) /\ hit[r] = 0
  BY <1>0, PrefillWritesOwn
<1>4. kvLen[r] = 0 /\ offset[r] = 0
  BY <1>1, <1>3, PoolAssumption
<1>5. ChunkLen(r) = n
  BY <1>2, <1>4 DEF ChunkLen
<1>14. n <= Capacity(r) /\ Capacity(r) \in Nat
  <2>1. Len(table[r]) \in Nat
    BY <1>0, LenProperties DEF IInv, TypeOK
  <2>. QED  BY <1>5, <2>1, PagesHold DEF PrefillStep, Fits, Capacity
<1>15. \A i \in 1 .. n : i \in 1 .. Capacity(r)
  BY <1>2, <1>14
<1>6. PICK t \in Gen[r] : Generate(r, t)
  BY <1>2, <1>4, <1>5 DEF PrefillStep
<1>7. /\ StoreSlice(r, 0, n) /\ kvLen'[r] = n
      /\ \A s \in Req \ {r} : kvLen'[s] = kvLen[s] /\ offset'[s] = offset[s]
  BY <1>1, <1>2, <1>4, <1>5 DEF PrefillStep
<1>8. /\ out'[r] # << >> /\ \A s \in Req \ {r} : out'[s] = out[s]
      /\ UNCHANGED <<status, table, hit, page>>
  BY <1>0, <1>6, OneMoreToken DEF IInv, Generate
<1>. DEFINE js(c) == {j \in 1 .. n : SlotOf(table[r], j) = c}
<1>9. \A c \in Slots : kv'[c] = IF js(c) = {} THEN kv[c] ELSE Computed(r, 0, 0 + Max(js(c)))
  BY <1>7 DEF StoreSlice
<1>10. ASSUME NEW i \in 1 .. n
       PROVE  kv'[SlotOf(table'[r], i)] = PrefixOf(Tokens(r)', i)
  <2>1. SlotOf(table[r], i) \in Slots
    BY <1>0, <1>15, TokenPlace
  <2>2. \A j \in 1 .. n : SlotOf(table[r], i) = SlotOf(table[r], j) => i = j
    <3>1. hit[r] < (i - 1) \div PageSize + 1
      BY <1>0, <1>3, <1>15, TokenPlace
    <3>. QED  BY <1>0, <1>1, <1>15, <3>1, TokensApart
  <2>3. js(SlotOf(table[r], i)) = {i}
    BY <2>2
  <2>4. Max(js(SlotOf(table[r], i))) = i
    BY <1>2, <2>3, MaxIsMember
  <2>5. kv'[SlotOf(table[r], i)] = Computed(r, 0, 0 + i)
    <3>1. js(SlotOf(table[r], i)) # {}
      BY <2>3
    <3>. HIDE DEF js
    <3>. QED  BY <1>9, <2>1, <2>4, <3>1
  <2>6. Computed(r, 0, 0 + i) = PrefixOf(Tokens(r), i)
    <3>1. HoldsPrefix(r, 0) /\ 0 + i = i
      BY DEF HoldsPrefix
    <3>. QED  BY <3>1 DEF Computed
  <2>7. PrefixOf(Tokens(r)', i) = PrefixOf(Tokens(r), i)
    BY <1>0, <1>2, <1>6, GrownPrefix DEF IInv
  <2>. QED  BY <1>8, <2>5, <2>6, <2>7
<1>. HIDE DEF js, n
<1>11. ASSUME NEW s \in Req, status'[s] = "running"
       PROVE  HoldsPrefix(s, kvLen[s])'
  <2>1. CASE s = r
    BY <1>7, <1>10, <2>1 DEF HoldsPrefix
  <2>2. CASE s # r
    <3>1. status[s] = "running" /\ Tokens(s)' = Tokens(s) /\ table'[s] = table[s]
      BY <1>8, <1>11, <2>2 DEF Tokens
    <3>2. HoldsPrefix(s, kvLen[s]) /\ kvLen'[s] = kvLen[s]
      BY <1>7, <2>2, <3>1 DEF StoredInv, OwnKV
    <3>4. kvLen[s] <= Capacity(s)
      BY <3>1 DEF StoredInv, RoomInv
    <3>3. \A i \in 1 .. kvLen[s] : kv'[SlotOf(table[s], i)] = kv[SlotOf(table[s], i)]
      BY <1>0, <1>1, <1>3, <2>2, <3>1, <3>4, OthersReadSame
    <3>. QED  BY <3>1, <3>2, <3>3 DEF HoldsPrefix
  <2>. QED  BY <2>1, <2>2
<1>12. OneShotInv' /\ RoomInv'
  BY <1>7, <1>8, <1>14 DEF StoredInv, OneShotInv, RoomInv, Capacity, n
<1>13. CachedKV'
  <2>1. \A p \in DOMAIN page : \A m \in 0 .. PageSize - 1 :
           kv'[<<page[p], m>>] = kv[<<page[p], m>>]
    BY <1>0, <1>1, <1>3, OthersReadSame
  <2>. QED  BY <1>8, <2>1 DEF StoredInv, CachedKV, KeyTokens
<1>. QED  BY <1>11, <1>12, <1>13 DEF StoredInv, OwnKV

\* A prefill that raises leaves the KV of its request where it was: at nothing.
LEMMA PrefillRaisesStores ==
    ASSUME Orderly, StoredInv, NEW r \in Req, PrefillRaises(r)
    PROVE  StoredInv'
<1>0. IInv /\ KvInv /\ BorrowInv /\ SingleOwner /\ NoPartialHit
  BY DEF Orderly
<1>1. /\ pc = "idle" /\ status[r] = "running" /\ out[r] = << >>
      /\ UNCHANGED <<page, status, out, table, hit, kvLen, offset>>
  BY DEF PrefillRaises, Prefilling, vars
<1>2. WritesOwn(r) /\ hit[r] = 0
  BY <1>0, PrefillWritesOwn
<1>3. kvLen[r] = 0
  BY <1>0, <1>1, <1>2, PoolAssumption DEF StoredInv, OneShotInv, KvInv, KvLenExact
<1>4. ASSUME NEW s \in Req, status[s] = "running"
      PROVE  HoldsPrefix(s, kvLen[s])'
  <2>1. CASE s = r
    BY <1>1, <1>3, <2>1 DEF HoldsPrefix
  <2>2. CASE s # r
    <3>1. \A i \in 1 .. kvLen[s] : kv'[SlotOf(table[s], i)] = kv[SlotOf(table[s], i)]
      <4>1. kvLen[s] <= Capacity(s)
        BY <1>4 DEF StoredInv, RoomInv
      <4>. QED  BY <1>0, <1>1, <1>2, <1>4, <2>2, <4>1, OthersReadSame
    <3>. QED  BY <1>1, <1>4, <3>1 DEF StoredInv, OwnKV, HoldsPrefix, Tokens
  <2>. QED  BY <2>1, <2>2
<1>5. OneShotInv' /\ RoomInv'
  BY <1>1 DEF StoredInv, OneShotInv, RoomInv, Capacity
<1>6. CachedKV'
  <2>1. \A p \in DOMAIN page : \A m \in 0 .. PageSize - 1 :
           kv'[<<page[p], m>>] = kv[<<page[p], m>>]
    BY <1>0, <1>1, <1>2, OthersReadSame
  <2>. QED  BY <1>1, <2>1 DEF StoredInv, CachedKV, KeyTokens
<1>. QED  BY <1>1, <1>4, <1>5, <1>6 DEF StoredInv, OwnKV

\* A decode step stores the last token in the slot after the others.
LEMMA DecodeStores ==
    ASSUME DirectFlash, Orderly, StoredInv, NEW r \in Req, Decode(r)
    PROVE  StoredInv'
<1>. DEFINE n == kvLen[r]
            slot == SlotOf(table[r], n + 1)
<1>0. IInv /\ KvInv /\ BorrowInv /\ SingleOwner /\ SlotsType
  BY DEF Orderly
<1>1. /\ pc = "idle" /\ status[r] = "running" /\ out[r] # << >> /\ kvLen \in [Req -> Nat]
      /\ UNCHANGED offset
  BY <1>0 DEF Decode, Generate, KvInv, CountersType
<1>2. /\ Len(Tokens(r)) \in Nat /\ n \in Nat /\ n + 1 = Len(Tokens(r))
      /\ n + 1 \in 1 .. Len(Tokens(r))
  <2>1. Len(Tokens(r)) \in Nat /\ n \in Nat /\ n = Len(Tokens(r)) - 1
    BY <1>0, <1>1, TokenCount DEF IInv, KvInv, KvLenExact
  <2>. QED  BY <2>1
<1>14. Capacity(r) \in Nat /\ n + 1 <= Capacity(r) /\ n + 1 \in 1 .. Capacity(r)
  BY <1>0, <1>2, DecodePlace
<1>3. PICK t \in Gen[r] : Generate(r, t)
  BY DEF Decode
<1>4. /\ out'[r] # << >> /\ \A s \in Req \ {r} : out'[s] = out[s]
      /\ UNCHANGED <<status, table, hit, page>>
  BY <1>0, <1>3, OneMoreToken DEF IInv, Generate
<1>5. /\ kvLen'[r] = n + 1 /\ \A s \in Req \ {r} : kvLen'[s] = kvLen[s]
      /\ kv' = [kv EXCEPT ![slot] = Computed(r, n, n + 1)]
  BY <1>1 DEF Decode, AppendKv
<1>6. slot \in Slots /\ DOMAIN kv = Slots
  BY <1>0, <1>14, TokenPlace DEF SlotsType
<1>7. kv'[slot] = PrefixOf(Tokens(r), n + 1)
  <2>1. HoldsPrefix(r, n)
    BY <1>1 DEF StoredInv, OwnKV
  <2>. QED  BY <1>5, <1>6, <2>1 DEF Computed
<1>8. WritesOwn(r)
  BY <1>0, DecodeWritesOwn
<1>9. ASSUME NEW i \in 1 .. n
      PROVE  kv'[SlotOf(table[r], i)] = PrefixOf(Tokens(r), i)
  <2>1. i \in 1 .. Capacity(r) /\ i # n + 1
    BY <1>2, <1>14
  <2>2. hit[r] < ((n + 1) - 1) \div PageSize + 1
    <3>1. hit[r] < n \div PageSize + 1
      BY <1>0, DecodePlace
    <3>2. (n + 1) - 1 = n
      BY <1>2
    <3>. QED  BY <3>1, <3>2
  <2>3. SlotOf(table[r], i) # slot
    BY <1>0, <1>1, <1>14, <2>1, <2>2, TokensApart
  <2>4. kv[SlotOf(table[r], i)] = PrefixOf(Tokens(r), i)
    BY <1>1 DEF StoredInv, OwnKV, HoldsPrefix
  <2>. HIDE DEF slot
  <2>. QED  BY <1>5, <2>3, <2>4
<1>10. ASSUME NEW i \in 1 .. n + 1
       PROVE  kv'[SlotOf(table'[r], i)] = PrefixOf(Tokens(r)', i)
  <2>1. PrefixOf(Tokens(r)', i) = PrefixOf(Tokens(r), i)
    BY <1>0, <1>2, <1>3, GrownPrefix DEF IInv
  <2>2. i = n + 1 \/ i \in 1 .. n
    BY <1>2
  <2>. QED  BY <1>4, <1>7, <1>9, <2>1, <2>2
<1>. HIDE DEF n, slot
<1>11. ASSUME NEW s \in Req, status'[s] = "running"
       PROVE  HoldsPrefix(s, kvLen[s])'
  <2>1. CASE s = r
    BY <1>5, <1>10, <2>1 DEF HoldsPrefix
  <2>2. CASE s # r
    <3>1. status[s] = "running" /\ Tokens(s)' = Tokens(s) /\ table'[s] = table[s]
      BY <1>4, <1>11, <2>2 DEF Tokens
    <3>2. HoldsPrefix(s, kvLen[s]) /\ kvLen'[s] = kvLen[s]
      BY <1>5, <2>2, <3>1 DEF StoredInv, OwnKV
    <3>4. kvLen[s] <= Capacity(s)
      BY <3>1 DEF StoredInv, RoomInv
    <3>3. \A i \in 1 .. kvLen[s] : kv'[SlotOf(table[s], i)] = kv[SlotOf(table[s], i)]
      BY <1>0, <1>1, <1>8, <2>2, <3>1, <3>4, OthersReadSame
    <3>. QED  BY <3>1, <3>2, <3>3 DEF HoldsPrefix
  <2>. QED  BY <2>1, <2>2
<1>12. OneShotInv' /\ RoomInv'
  BY <1>1, <1>4, <1>5, <1>14 DEF StoredInv, OneShotInv, RoomInv, Capacity
<1>13. CachedKV'
  <2>1. \A p \in DOMAIN page : \A m \in 0 .. PageSize - 1 :
           kv'[<<page[p], m>>] = kv[<<page[p], m>>]
    BY <1>0, <1>1, <1>8, OthersReadSame
  <2>. QED  BY <1>4, <2>1 DEF StoredInv, CachedKV, KeyTokens
<1>. QED  BY <1>11, <1>12, <1>13 DEF StoredInv, OwnKV

\* What a page of the tree holds is what a request that borrows it would have stored.
LEMMA BorrowedIsStored ==
    ASSUME IInv, CachedKV, NEW r \in Req, Borrows(r), table[r] # << >>,
           NEW i \in 1 .. hit[r] * PageSize
    PROVE  /\ (i - 1) \div PageSize + 1 \in 1 .. hit[r] /\ i \in 0 .. Len(Prompt[r])
           /\ kv[SlotOf(table[r], i)] = PrefixOf(Prompt[r], i)
<1>. DEFINE q == Keys(Prompt[r])
<1>1. /\ hit[r] \in Nat /\ Prompt[r] \in Seq(Token) /\ PageSize \in Nat \ {0}
      /\ q \in Seq(Key) /\ hit[r] \in 0 .. Len(q)
      /\ \A k \in 1 .. hit[r] : PrefixOf(q, k) \in DOMAIN page /\ page[PrefixOf(q, k)] = table[r][k]
  BY EngineAssumption, PoolAssumption, KeysType DEF IInv, TypeOK, Borrows
<1>2. hit[r] * PageSize \in Nat /\ i \in Nat /\ i - 1 \in Nat
  <2>1. hit[r] * PageSize \in Nat
    BY <1>1
  <2>. QED  BY <2>1
<1>3. PICK d \in Nat, m \in 0 .. PageSize - 1 :
          d = (i - 1) \div PageSize /\ m = (i - 1) % PageSize /\ i - 1 = d * PageSize + m
  BY <1>2, Splits
<1>4. d + 1 \in 1 .. hit[r]
  <2>1. ~ (hit[r] <= d)
    <3>1. SUFFICES ASSUME hit[r] <= d PROVE FALSE
      OBVIOUS
    <3>2. hit[r] * PageSize <= d * PageSize
      BY <1>1, <1>3, <3>1
    <3>3. PICK a \in Nat, b \in Nat : a = hit[r] * PageSize /\ b = d * PageSize
      BY <1>1, <1>2, <1>3, PagesAndSlots
    <3>. QED  BY <1>2, <1>3, <3>2, <3>3
  <2>. QED  BY <1>1, <1>3, <2>1
<1>5. /\ Len(q) \in Nat /\ d + 1 \in 1 .. Len(q)
  BY <1>1, <1>4, LenProperties
<1>6. i = ((d + 1) - 1) * PageSize + m + 1
  <2>1. PICK a \in Nat : a = d * PageSize
    BY <1>3, PagesAndSlots
  <2>2. i = a + m + 1
    BY <1>2, <1>3, <2>1
  <2>3. (d + 1) - 1 = d
    BY <1>3
  <2>. QED  BY <2>1, <2>2, <2>3
<1>7. /\ i \in 1 .. Len(Prompt[r]) /\ KeyTokens(PrefixOf(q, d + 1), i) = PrefixOf(Prompt[r], i)
  <2>1. d + 1 \in 1 .. Len(Keys(Prompt[r])) /\ Prompt[r] \in Seq(Token)
    BY <1>1, <1>5
  <2>2. PICK e \in 1 .. Len(Keys(Prompt[r])) : e = d + 1
    BY <2>1
  <2>3. i = (e - 1) * PageSize + m + 1
    BY <1>6, <2>2
  <2>4. i \in 1 .. Len(Prompt[r]) /\ KeyTokens(PrefixOf(Keys(Prompt[r]), e), i) = PrefixOf(Prompt[r], i)
    <3>. HIDE DEF q
    <3>. QED  BY <1>3, <2>1, <2>3, KeysSpell
  <2>. QED  BY <2>2, <2>4
<1>8. SlotOf(table[r], i) = <<table[r][d + 1], m>>
  BY <1>3 DEF SlotOf
<1>9. Len(PrefixOf(q, d + 1)) = d + 1
  <2>1. d + 1 \in 0 .. Len(q)
    BY <1>5
  <2>. QED  BY <1>1, <2>1, PrefixOfProperties
<1>10. kv[<<page[PrefixOf(q, d + 1)], m>>] =
          KeyTokens(PrefixOf(q, d + 1), (Len(PrefixOf(q, d + 1)) - 1) * PageSize + m + 1)
  BY <1>1, <1>3, <1>4 DEF CachedKV
<1>11. kv[<<table[r][d + 1], m>>] = KeyTokens(PrefixOf(q, d + 1), i)
  BY <1>1, <1>4, <1>6, <1>9, <1>10
<1>12. Len(Prompt[r]) \in Nat
  BY <1>1, LenProperties
<1>. QED  BY <1>3, <1>4, <1>7, <1>8, <1>11, <1>12

\* A request starts with the KV of its cached prefix.
LEMMA StartStores ==
    ASSUME Orderly, StoredInv, StartPrefill
    PROVE  StoredInv'
<1>0. IInv /\ KvInv /\ BorrowInv
  BY DEF Orderly
<1>11. PICK c \in Req : c = cur
  BY <1>0 DEF StartPrefill, AllocDone, IInv, CoreInv, ControlInv
<1>1. c = cur /\ status[c] = "admitted" /\ pc = "allocate" /\ AllocDone
  BY <1>0, <1>11 DEF StartPrefill, AllocDone, IInv, CoreInv, ControlInv
<1>2. /\ UNCHANGED <<out, kv, page, hit>>
      /\ status' = [status EXCEPT ![c] = "running"]
      /\ kvLen' = [kvLen EXCEPT ![c] = hit[c] * PageSize]
      /\ offset' = [offset EXCEPT ![c] = hit[c] * PageSize]
      /\ table' = [table EXCEPT ![c] = @ \o Popped(Extra(c))]
      /\ kvLen \in [Req -> Nat] /\ offset \in [Req -> Nat] /\ table \in [Req -> Seq(Page)]
      /\ status \in [Req -> {"waiting", "admitted", "running", "finished"}]
  BY <1>0, <1>1 DEF StartPrefill, AllocDone, Allocate, IInv, TypeOK, KvInv, CountersType
<1>3. out[c] = << >> /\ Tokens(c)' = Prompt[c]
  <2>1. out[c] = << >>
    BY <1>0, <1>1 DEF KvInv, FreshInv
  <2>2. Prompt[c] \in Seq(Token)
    BY <1>1, EngineAssumption
  <2>3. Prompt[c] \o << >> = Prompt[c]
    BY <2>2, ConcatEmptySeq
  <2>. QED  BY <1>2, <2>1, <2>3 DEF Tokens
<1>4. /\ Len(table[c]) = hit[c] /\ Len(table[c]) \in Nat
      /\ \A k \in 1 .. hit[c] : table'[c][k] = table[c][k]
      /\ Len(table'[c]) \in Nat /\ Len(table[c]) <= Len(table'[c])
  <2>1. Len(table[c]) = hit[c] /\ Len(table[c]) \in Nat
    BY <1>0, <1>1, <1>2, LenProperties DEF BorrowInv, PagesInv
  <2>2. Popped(Extra(c)) \in Seq(Page)
    <3>1. Extra(c) \in 0 .. Len(free) /\ free \in Seq(Page)
      <4>1. Peak(c) \in Int /\ Len(free) \in Nat /\ Len(free) >= Extra(c) /\ free \in Seq(Page)
        BY <1>0, <1>1, Sizes, LenProperties DEF IInv, TypeOK, AllocDone
      <4>. QED  BY <2>1, <4>1 DEF Extra
    <3>. QED  BY <3>1, AllocateTypes
  <2>3. table'[c] = table[c] \o Popped(Extra(c))
    BY <1>1, <1>2
  <2>4. PICK x \in Seq(Page), y \in Seq(Page) : x = table[c] /\ y = Popped(Extra(c))
    BY <1>1, <1>2, <2>2
  <2>5. /\ \A k \in 1 .. Len(x) : (x \o y)[k] = x[k]
        /\ Len(x \o y) \in Nat /\ Len(x) <= Len(x \o y)
    <3>1. Len(x) \in Nat /\ Len(y) \in Nat
      BY LenProperties
    <3>. QED  BY <3>1, ConcatProperties
  <2>. QED  BY <2>1, <2>3, <2>4, <2>5
<1>9. kvLen'[c] <= Capacity(c)'
  <2>1. /\ Len(table'[c]) \in Nat /\ hit[c] <= Len(table'[c])
    BY <1>1, <1>2, <1>4
  <2>. QED  BY <1>1, <1>2, <1>4, <2>1, PoolAssumption DEF Capacity
<1>5. HoldsPrefix(c, kvLen[c])'
  <2>1. kvLen'[c] = hit[c] * PageSize
    BY <1>1, <1>2
  <2>2. ASSUME NEW i \in 1 .. hit[c] * PageSize
        PROVE  kv'[SlotOf(table'[c], i)] = PrefixOf(Prompt[c], i)
    <3>1. hit[c] # 0
      <4>1. 0 * PageSize = 0
        BY PoolAssumption
      <4>. QED  BY <2>2, <4>1
    <3>2. table[c] # << >> /\ Borrows(c)
      BY <1>0, <1>1, <1>4, <3>1, EmptySeq DEF BorrowInv, PagesInv
    <3>3. /\ (i - 1) \div PageSize + 1 \in 1 .. hit[c]
          /\ kv[SlotOf(table[c], i)] = PrefixOf(Prompt[c], i)
      BY <1>0, <1>1, <3>2, BorrowedIsStored DEF StoredInv
    <3>4. SlotOf(table'[c], i) = SlotOf(table[c], i)
      BY <1>4, <3>3 DEF SlotOf
    <3>. QED  BY <1>2, <3>3, <3>4
  <2>. QED  BY <1>3, <2>1, <2>2 DEF HoldsPrefix
<1>6. ASSUME NEW r \in Req, status'[r] = "running"
      PROVE  /\ HoldsPrefix(r, kvLen[r])' /\ kvLen'[r] <= Capacity(r)'
             /\ out'[r] = << >> => offset'[r] = hit'[r] * PageSize
  <2>1. CASE r = c
    <3>1. offset'[r] = hit'[r] * PageSize
      BY <1>1, <1>2, <2>1
    <3>. QED  BY <1>5, <1>9, <2>1, <3>1
  <2>2. CASE r # c
    <3>1. /\ status[r] = "running" /\ kvLen'[r] = kvLen[r] /\ offset'[r] = offset[r]
          /\ table'[r] = table[r] /\ out'[r] = out[r] /\ hit'[r] = hit[r]
      BY <1>2, <1>6, <2>2
    <3>2. HoldsPrefix(r, kvLen[r])'
      BY <1>2, <3>1 DEF StoredInv, OwnKV, HoldsPrefix, Tokens
    <3>. QED  BY <3>1, <3>2 DEF StoredInv, OneShotInv, RoomInv, Capacity
  <2>. QED  BY <2>1, <2>2
<1>7. CachedKV'
  BY <1>2 DEF StoredInv, CachedKV, KeyTokens
<1>. QED  BY <1>6, <1>7 DEF StoredInv, OneShotInv, RoomInv, OwnKV

\* A prompt in the slots to its end is sampled from as it is.
LEMMA CachedPromptStores ==
    ASSUME Orderly, StoredInv, NEW r \in Req, CachedPrompt(r)
    PROVE  StoredInv'
<1>0. IInv /\ KvInv
  BY DEF Orderly
<1>1. PICK t \in Gen[r] : Generate(r, t)
  BY DEF CachedPrompt
<1>2. /\ status[r] = "running" /\ out[r] = << >> /\ Len(Prompt[r]) <= offset[r]
      /\ kvLen \in [Req -> Nat] /\ offset \in [Req -> Nat]
      /\ kvLen' = [kvLen EXCEPT ![r] = Len(Prompt[r])]
      /\ offset' = [offset EXCEPT ![r] = Len(Prompt[r])] /\ UNCHANGED kv
      /\ kvLen[r] = offset[r] /\ offset[r] <= Len(Prompt[r])
  BY <1>0 DEF CachedPrompt, KvInv, KvLenExact, CountersType
<1>3. /\ out'[r] # << >> /\ \A s \in Req \ {r} : out'[s] = out[s]
      /\ UNCHANGED <<status, table, hit, page>>
  BY <1>0, <1>1, OneMoreToken DEF IInv, Generate
<1>4. Len(Prompt[r]) \in Nat /\ offset[r] \in Nat
  BY <1>0, <1>2, TokenCount DEF IInv
<1>5. kvLen' = kvLen /\ offset' = offset
  <2>1. offset[r] = Len(Prompt[r])
    BY <1>2, <1>4
  <2>. QED  BY <1>2, <2>1
<1>6. ASSUME NEW s \in Req, status'[s] = "running"
      PROVE  HoldsPrefix(s, kvLen[s])'
  <2>1. HoldsPrefix(s, kvLen[s])
    BY <1>3, <1>6 DEF StoredInv, OwnKV
  <2>2. CASE s = r
    <3>1. kvLen[r] \in 0 .. Len(Tokens(r)) /\ Len(Tokens(r)) \in Nat
      BY <1>0, <1>2, StoredIsShort
    <3>2. \A i \in 1 .. kvLen[r] : PrefixOf(Tokens(r)', i) = PrefixOf(Tokens(r), i)
      <4>1. \A i \in 1 .. kvLen[r] : i \in 0 .. Len(Tokens(r))
        BY <3>1
      <4>. QED  BY <1>0, <1>1, <4>1, GrownPrefix DEF IInv
    <3>. QED  BY <1>2, <1>3, <1>5, <2>1, <2>2, <3>2 DEF HoldsPrefix
  <2>3. CASE s # r
    BY <1>2, <1>3, <1>5, <2>1, <2>3 DEF HoldsPrefix, Tokens
  <2>. QED  BY <2>2, <2>3
<1>7. OneShotInv' /\ RoomInv'
  BY <1>3, <1>5 DEF StoredInv, OneShotInv, RoomInv, Capacity
<1>8. CachedKV'
  BY <1>2, <1>3 DEF StoredInv, CachedKV, KeyTokens
<1>. QED  BY <1>6, <1>7, <1>8 DEF StoredInv, OwnKV

\* The pages of a new leaf hold what the request stored in them.
LEMMA LeafStores ==
    ASSUME Orderly, StoredInv, NEW r \in Req, CommitLeaf(r), UNCHANGED kvVars
    PROVE  StoredInv'
<1>. DEFINE q == Committed(r)
            new == {PrefixOf(q, i) : i \in at + 1 .. Len(q)}
<1>0. IInv /\ KvInv /\ BorrowInv /\ CommitsStored
  BY DEF Orderly
<1>1. /\ Inserting(r) /\ InsertLeaf(q, table[r], at)
      /\ UNCHANGED <<status, out, table, hit, kv, kvLen, offset>>
  BY DEF CommitLeaf, reqVars, kvVars
<1>2. /\ q \in Seq(Key) /\ Len(q) \in Nat /\ at \in Nat /\ status[r] = "running"
      /\ Len(q) * PageSize <= kvLen[r] /\ kvLen[r] \in Nat
  BY <1>0, <1>1, InsertingFacts DEF IInv, CommitsStored, KvInv, CountersType
<1>3. /\ Tokens(r) \in Seq(Token)
  BY <1>0, EngineAssumption, ConcatProperties DEF IInv, TypeOK, Tokens
<1>4. /\ DOMAIN page' = DOMAIN page \cup new
      /\ \A p \in DOMAIN page' : page'[p] = IF p \in new THEN table[r][Len(p)] ELSE page[p]
  BY <1>1 DEF InsertLeaf
<1>5. ASSUME NEW i \in at + 1 .. Len(q), NEW s \in 0 .. PageSize - 1
      PROVE  /\ Len(PrefixOf(q, i)) = i
             /\ kv[<<table[r][i], s>>] = KeyTokens(PrefixOf(q, i), (i - 1) * PageSize + s + 1)
  <2>1. i \in 1 .. Len(q) /\ i \in 0 .. Len(q)
    BY <1>2
  <2>2. Len(PrefixOf(q, i)) = i
    BY <1>2, <2>1, PrefixOfProperties
  <2>3. PICK n : n = (i - 1) * PageSize + s + 1
    OBVIOUS
  <2>4. /\ n \in 1 .. Len(Tokens(r)) /\ n <= i * PageSize
        /\ (n - 1) \div PageSize + 1 = i /\ (n - 1) % PageSize = s
        /\ KeyTokens(PrefixOf(q, i), n) = PrefixOf(Tokens(r), n)
    <3>1. q = Keys(Tokens(r))
      BY DEF Committed
    <3>. HIDE DEF q
    <3>. QED  BY <1>3, <2>1, <2>3, <3>1, KeysSpell
  <2>5. n \in 1 .. kvLen[r]
    <3>1. i * PageSize <= Len(q) * PageSize
      <4>1. PICK l \in Nat, j \in Nat : l = Len(q) /\ j = i
        BY <1>2, <2>1
      <4>2. j <= l
        BY <2>1, <4>1
      <4>3. j * PageSize <= l * PageSize
        BY <4>2, PoolAssumption
      <4>. QED  BY <4>1, <4>3
    <3>2. PICK a \in Nat, b \in Nat : a = i * PageSize /\ b = Len(q) * PageSize
      <4>1. i \in Nat
        BY <1>2, <2>1
      <4>2. \A x \in Nat : x * PageSize \in Nat
        BY PoolAssumption
      <4>. QED  BY <1>2, <4>1, <4>2
    <3>3. n \in Nat /\ n >= 1
      BY <2>4, <1>3, LenProperties
    <3>. QED  BY <1>2, <2>4, <3>1, <3>2, <3>3
  <2>6. kv[SlotOf(table[r], n)] = PrefixOf(Tokens(r), n)
    BY <1>2, <2>5 DEF StoredInv, OwnKV, HoldsPrefix
  <2>7. SlotOf(table[r], n) = <<table[r][i], s>>
    BY <2>4 DEF SlotOf
  <2>. QED  BY <2>2, <2>3, <2>4, <2>6, <2>7
<1>6. CachedKV'
  <2>1. ASSUME NEW p \in DOMAIN page', NEW s \in 0 .. PageSize - 1
        PROVE  kv[<<page'[p], s>>] = KeyTokens(p, (Len(p) - 1) * PageSize + s + 1)
    <3>1. CASE p \in new
      <4>1. PICK i \in at + 1 .. Len(q) : p = PrefixOf(q, i)
        BY <3>1
      <4>2. page'[p] = table[r][i] /\ Len(p) = i
        BY <1>4, <1>5, <3>1, <4>1, PoolAssumption
      <4>. QED  BY <1>5, <4>1, <4>2
    <3>2. CASE p \notin new
      BY <1>4, <2>1, <3>2 DEF StoredInv, CachedKV
    <3>. QED  BY <3>1, <3>2
  <2>. QED  BY <1>1, <2>1 DEF CachedKV, KeyTokens
<1>7. OneShotInv' /\ RoomInv' /\ OwnKV'
  BY <1>1 DEF StoredInv, OneShotInv, RoomInv, Capacity, OwnKV, HoldsPrefix, Tokens
<1>. QED  BY <1>6, <1>7 DEF StoredInv

\* The other steps of PagedEngine.
LEMMA PageStepStores ==
    ASSUME Orderly, StoredInv, PageStep
    PROVE  StoredInv'
<1>0. /\ UNCHANGED kvVars /\ UNCHANGED <<kv, kvLen, offset>>
      /\ status \in [Req -> {"waiting", "admitted", "running", "finished"}]
      /\ table \in [Req -> Seq(Page)] /\ hit \in [Req -> Nat]
  BY DEF PageStep, kvVars, Orderly, IInv, TypeOK
<1>. DEFINE Quieter == /\ out' = out
                       /\ \A r \in Req : status'[r] = "running" =>
                             status[r] = "running" /\ table'[r] = table[r] /\ hit'[r] = hit[r]
                       /\ \A p \in DOMAIN page' : p \in DOMAIN page /\ page'[p] = page[p]
<1>1. ASSUME Quieter PROVE StoredInv'
  <2>1. UNCHANGED <<out, kv>>
    BY <1>0, <1>1
  <2>2. \A r \in Req : status'[r] = "running" =>
            /\ status[r] = "running" /\ table'[r] = table[r] /\ hit'[r] = hit[r]
            /\ kvLen'[r] = kvLen[r] /\ offset'[r] = offset[r]
    BY <1>0, <1>1
  <2>. QED  BY <1>1, <2>1, <2>2, QuietKeepsStored
<1>2. ASSUME NEW r \in Req, Admit(r) \/ AbortUninitialised(r)
      PROVE  Quieter
  BY <1>0, <1>2 DEF Admit, AbortUninitialised
<1>3. ASSUME NEW r \in Req, PrefillInit(r)
      PROVE  Quieter
  BY <1>0, <1>3 DEF PrefillInit, MatchAndLock
<1>4. ASSUME NEW r \in Req, FreeRequestKv(r)
      PROVE  Quieter
  <2>1. /\ UNCHANGED <<out, hit, page>>
        /\ \/ UNCHANGED <<status, table>>
           \/ /\ status' = [status EXCEPT ![r] = "finished"]
              /\ table' = [table EXCEPT ![r] = << >>]
    BY <1>4 DEF FreeRequestKv, reqVars
  <2>. QED  BY <1>0, <2>1
<1>5. ASSUME NEW r \in Req, CommitFullEdge(r) \/ CommitSplit(r)
      PROVE  Quieter
  BY <1>5 DEF CommitFullEdge, CommitSplit, InsertFullEdge, InsertSplit, reqVars
<1>6. ASSUME NEW r \in Req, CommitEnd(r)
      PROVE  Quieter
  <2>1. /\ UNCHANGED <<out, hit, page>> /\ status' = [status EXCEPT ![r] = "finished"]
        /\ table' = [table EXCEPT ![r] = << >>]
    BY <1>6 DEF CommitEnd, Unlock
  <2>. QED  BY <1>0, <2>1
<1>7. ASSUME NEW n \in Nodes, AllocEvict(n)
      PROVE  Quieter
  BY <1>7 DEF AllocEvict, EvictLeaf, reqVars
<1>8. ASSUME Terminated PROVE Quieter
  BY <1>8 DEF Terminated, vars
<1>. HIDE DEF Quieter
<1>9. ASSUME NEW r \in Req, CommitLeaf(r)
      PROVE  StoredInv'
  BY <1>0, <1>9, LeafStores
<1>10. ASSUME NEW r \in Req, CommitRaises(r)
       PROVE  StoredInv'
  BY <1>0, <1>1, <1>10 DEF CommitRaises, Quieter
<1>. QED  BY <1>1, <1>2, <1>3, <1>4, <1>5, <1>6, <1>7, <1>8, <1>9, <1>10
          DEF PageStep, Retire, Abort

\* A retracted request was not running.
LEMMA RollbackStores ==
    ASSUME Orderly, StoredInv, Rollback
    PROVE  StoredInv'
<1>0. PICK c \in Req : c = cur /\ status[c] = "admitted"
  BY DEF Orderly, Rollback, AllocFail, IInv, CoreInv, ControlInv
<1>1. /\ UNCHANGED <<out, kv, kvLen, page>> /\ offset' = [offset EXCEPT ![c] = 0]
      /\ status' = [status EXCEPT ![c] = "waiting"]
      /\ status \in [Req -> {"waiting", "admitted", "running", "finished"}]
      /\ table' = [table EXCEPT ![c] = << >>] /\ hit' = [hit EXCEPT ![c] = 0]
      /\ table \in [Req -> Seq(Page)] /\ hit \in [Req -> Nat] /\ offset \in [Req -> Nat]
  BY <1>0 DEF Orderly, Rollback, AllocFail, Unlock, IInv, TypeOK, KvInv, CountersType
<1>2. \A r \in Req : status'[r] = "running" =>
          /\ status[r] = "running" /\ table'[r] = table[r] /\ hit'[r] = hit[r]
          /\ kvLen'[r] = kvLen[r] /\ offset'[r] = offset[r]
  BY <1>0, <1>1
<1>3. UNCHANGED <<out, kv>> /\ \A p \in DOMAIN page' : p \in DOMAIN page /\ page'[p] = page[p]
  BY <1>1
<1>. QED  BY <1>2, <1>3, QuietKeepsStored

LEMMA StoredInvInductive ==
    ASSUME ChunkSize = 0, DirectFlash
    PROVE  Orderly /\ StoredInv /\ [KvNext]_<<vars, kvVars>> => StoredInv'
<1>. SUFFICES ASSUME Orderly, StoredInv, [KvNext]_<<vars, kvVars>>
              PROVE  StoredInv'
  OBVIOUS
<1>1. CASE StartPrefill
  BY <1>1, StartStores
<1>2. ASSUME NEW r \in Req, PackedChunk(r) \/ ContinuationChunk(r)
      PROVE  StoredInv'
  BY <1>2, PrefillStores DEF PackedChunk, ContinuationChunk
<1>8. ASSUME NEW r \in Req, PrefillRaises(r)
      PROVE  StoredInv'
  BY <1>8, PrefillRaisesStores
<1>3. ASSUME NEW r \in Req, CachedPrompt(r)
      PROVE  StoredInv'
  BY <1>3, CachedPromptStores
<1>4. ASSUME NEW r \in Req, Decode(r)
      PROVE  StoredInv'
  BY <1>4, DecodeStores
<1>5. CASE Rollback
  BY <1>5, RollbackStores
<1>6. CASE PageStep
  BY <1>6, PageStepStores
<1>7. CASE UNCHANGED <<vars, kvVars>>
  <2>1. UNCHANGED <<page, status, out, table, hit, kv, kvLen, offset>>
    BY <1>7 DEF vars, kvVars
  <2>. QED  BY <2>1, QuietKeepsStored
<1>. QED  BY <1>1, <1>2, <1>3, <1>4, <1>5, <1>6, <1>7, <1>8 DEF KvNext

LEMMA StoredInvStarts == KvInit => StoredInv
<1>. SUFFICES ASSUME KvInit PROVE StoredInv
  OBVIOUS
<1>1. (\A r \in Req : status[r] # "running") /\ DOMAIN page = {}
  BY DEF KvInit, Init, CacheInit
<1>. QED  BY <1>1 DEF StoredInv, OneShotInv, RoomInv, OwnKV, CachedKV

\* While a match covers a whole prompt or nothing of it, commits walk no edge borrowed
\* in part and insert only what was stored, a page of the tree holds the KV of the
\* tokens it stands for and every request attends to the KV of its own tokens, with
\* prefill in one shot and flash attention.
THEOREM CacheHoldsKV ==
    ASSUME ChunkSize = 0, DirectFlash
    PROVE  KvSpec /\ []BorrowsWholeEdges /\ []NoPartialHit /\ []CommitsStored
               => [](CachedKV /\ OwnKV)
<1>1. KvSpec /\ []BorrowsWholeEdges => []SingleOwner
  BY KvImplementsEngine, OnlyPartialBorrowsShare, PTL
<1>2. KvSpec => []BorrowInv
  BY KvImplementsEngine, BorrowInvariant, PTL
<1>3. IInv /\ KvInv /\ SlotsType /\ BorrowInv /\ SingleOwner /\ NoPartialHit /\ CommitsStored
          => Orderly
  BY DEF Orderly
<1>4. StoredInv => CachedKV /\ OwnKV
  BY DEF StoredInv
<1>. QED  BY <1>1, <1>2, <1>3, <1>4, KvInvHolds, StoredInvStarts, StoredInvInductive, PTL
          DEF KvSpec

\* Without a radix cache nothing is borrowed or committed, and every request attends
\* to the KV of its own tokens whatever it shares the pool with.
THEOREM RequestsReadOwnKV ==
    ASSUME ~ RadixEnabled, ChunkSize = 0, DirectFlash
    PROVE  KvSpec => []OwnKV
<1>1. KvSpec => [](IInv /\ OwnerInv)
  <2>1. Init => IInv /\ OwnerInv
    BY InitIInv, InitOwnerInv
  <2>2. IInv /\ OwnerInv /\ [Next]_vars => (IInv /\ OwnerInv)'
    BY InvariantIsInductive, OwnerInvInductive
  <2>. QED  BY <2>1, <2>2, KvImplementsEngine, PTL DEF Spec
<1>2. IInv /\ OwnerInv => BorrowsWholeEdges /\ NoPartialHit /\ CommitsStored
  BY DEF OwnerInv, BorrowsWholeEdges, NoPartialHit, CommitsStored, Inserting
<1>. QED  BY <1>1, <1>2, CacheHoldsKV, PTL

\* A prefill that continues what is stored already puts it into the first slots again:
\* the first one gets the KV of a later token, or garbage.
LEMMA ContinuationOverwrites ==
    ASSUME IInv, KvInv, NEW r \in Req, ContinuationChunk(r)
    PROVE  /\ kvLen'[r] \in Nat \ {0} /\ Len(Prompt[r]) \in Nat \ {0}
           /\ 1 \in 1 .. Len(Tokens(r)) /\ table[r] # << >>
           /\ SlotOf(table[r], 1) = <<table[r][1], 0>>
           /\ Len(kv'[SlotOf(table[r], 1)]) # 1
<1>. DEFINE n == ChunkLen(r)
            slot == SlotOf(table[r], 1)
<1>1. /\ PrefillStep(r) /\ kvLen[r] > 0 /\ kvLen[r] \in Nat
      /\ status[r] = "running" /\ out[r] = << >> /\ offset[r] < Len(Prompt[r])
      /\ StoreSlice(r, kvLen[r], n)
  BY DEF ContinuationChunk, PrefillStep, Prefilling, KvInv, CountersType
<1>2. /\ n \in Nat /\ kvLen[r] = offset[r] /\ offset[r] + n <= Len(Prompt[r])
      /\ Len(Tokens(r)) = Len(Prompt[r]) /\ Len(Prompt[r]) \in Nat
  BY <1>1, PrefillBounds DEF PrefillStep
<1>3. n >= 1
  <2>1. Len(Prompt[r]) - offset[r] >= 1
    BY <1>1, <1>2
  <2>2. ChunkSize \in Nat
    BY KvAssumption
  <2>. QED  BY <1>1, <1>2, <2>1, <2>2 DEF ChunkLen
<1>4. Tokens(r) \in Seq(Token) /\ kvLen \in [Req -> Nat]
  BY EngineAssumption, ConcatProperties DEF IInv, TypeOK, Tokens, KvInv, CountersType
<1>5. 1 \in 1 .. Len(Tokens(r)) /\ Len(Prompt[r]) \in Nat \ {0}
  BY <1>1, <1>2
<1>9. 1 \in 1 .. Capacity(r)
  <2>1. Len(table[r]) \in Nat
    BY LenProperties DEF IInv, TypeOK
  <2>2. Capacity(r) \in Nat /\ n <= Capacity(r)
    BY <1>1, <2>1, PagesHold DEF PrefillStep, Fits, Capacity
  <2>. QED  BY <1>2, <1>3, <2>2
<1>6. kvLen'[r] = kvLen[r] + n
  BY <1>1, <1>4 DEF PrefillStep
<1>7. slot \in Slots /\ slot = <<table[r][1], 0>>
  <2>1. 0 \in Nat /\ 0 \in 0 .. PageSize - 1 /\ PageSize \in Nat \ {0}
    BY PoolAssumption
  <2>2. (1 - 1) \div PageSize = 0 /\ (1 - 1) % PageSize = 0
    <3>1. PICK d \in Nat, m \in 0 .. PageSize - 1 :
              d = (1 - 1) \div PageSize /\ m = (1 - 1) % PageSize /\ 1 - 1 = d * PageSize + m
      <4>1. 1 - 1 \in Nat
        OBVIOUS
      <4>. QED  BY <4>1, Splits
    <3>2. 0 * PageSize + 0 = d * PageSize + m
      BY <2>1, <3>1
    <3>3. 0 = d /\ 0 = m
      BY <2>1, <3>2, PagesAndSlots
    <3>. QED  BY <3>1, <3>3
  <2>3. slot = <<table[r][1], 0>>
    BY <2>2 DEF SlotOf
  <2>. QED  BY <1>9, <2>3, TokenPlace
<1>8. table[r] # << >>
  <2>1. PICK k \in 1 .. Len(table[r]) : TRUE
    BY <1>9, TokenPlace
  <2>. QED  BY <2>1, EmptySeq
<1>. DEFINE places(c) == {j \in 1 .. n : SlotOf(table[r], j) = c}
            js == places(slot)
<1>11. js \in SUBSET (1 .. n) /\ js # {}
  BY <1>2, <1>3
<1>12. Max(js) \in 1 .. n
  BY <1>2, <1>11, MaxIsMember
<1>13. kv'[slot] = Computed(r, kvLen[r], kvLen[r] + Max(js))
  <2>1. \A c \in Slots : kv'[c] = IF places(c) = {} THEN kv[c]
                                  ELSE Computed(r, kvLen[r], kvLen[r] + Max(places(c)))
    BY <1>1 DEF StoreSlice
  <2>. HIDE DEF places, slot
  <2>. QED  BY <1>7, <1>11, <2>1
<1>. HIDE DEF js, n, slot
<1>14. Len(kv'[slot]) # 1
  <2>1. kvLen[r] + Max(js) \in 0 .. Len(Tokens(r)) /\ kvLen[r] + Max(js) # 1
    BY <1>1, <1>2, <1>12
  <2>2. Len(PrefixOf(Tokens(r), kvLen[r] + Max(js))) = kvLen[r] + Max(js)
    BY <1>4, <2>1, PrefixOfProperties
  <2>3. Len(Garbage) = 0
    BY EmptySeq DEF Garbage
  <2>4. CASE HoldsPrefix(r, kvLen[r])
    <3>1. kv'[slot] = PrefixOf(Tokens(r), kvLen[r] + Max(js))
      BY <1>13, <2>4 DEF Computed
    <3>2. Len(kv'[slot]) = kvLen[r] + Max(js)
      BY <2>2, <3>1, Zenon
    <3>. QED  BY <2>1, <3>2, Zenon
  <2>5. CASE ~ HoldsPrefix(r, kvLen[r])
    <3>1. kv'[slot] = Garbage
      BY <1>13, <2>5 DEF Computed
    <3>. QED  BY <2>3, <3>1
  <2>. QED  BY <2>4, <2>5
<1>15. kvLen'[r] \in Nat \ {0}
  BY <1>1, <1>2, <1>6
<1>. QED  BY <1>5, <1>7, <1>8, <1>14, <1>15 DEF slot

\* Why one shot: a second chunk leaves its own request with slots that hold other tokens
\* than its own, and a prefill that ends in one leaves the prompt not stored, in every
\* configuration.
THEOREM SecondChunkOverwrites ==
    ASSUME IInv, KvInv, NEW r \in Req, ContinuationChunk(r)
    PROVE  ~ OwnKV' /\ (offset'[r] >= Len(Prompt[r]) => ~ PrefillStoresPrompt')
<1>1. PrefillStep(r) /\ status[r] = "running"
  BY DEF ContinuationChunk, PrefillStep, Prefilling
<1>2. /\ kvLen'[r] \in Nat \ {0} /\ Len(Prompt[r]) \in Nat \ {0}
      /\ 1 \in 1 .. Len(Tokens(r)) /\ Len(kv'[SlotOf(table[r], 1)]) # 1
  BY ContinuationOverwrites
<1>3. /\ status'[r] = "running" /\ table' = table
      /\ PrefixOf(Tokens(r)', 1) = PrefixOf(Tokens(r), 1)
  <2>1. CASE UNCHANGED vars
    BY <1>1, <2>1 DEF vars, Tokens
  <2>2. ASSUME NEW t \in Gen[r], Generate(r, t)
        PROVE  /\ status'[r] = "running" /\ table' = table
               /\ PrefixOf(Tokens(r)', 1) = PrefixOf(Tokens(r), 1)
    <3>1. 1 \in 0 .. Len(Tokens(r))
      BY <1>2
    <3>2. PrefixOf(Tokens(r)', 1) = PrefixOf(Tokens(r), 1)
      BY <2>2, <3>1, GrownPrefix DEF IInv
    <3>. QED  BY <1>1, <2>2, <3>2 DEF Generate
  <2>. QED  BY <1>1, <2>1, <2>2 DEF PrefillStep
<1>4. Len(PrefixOf(Tokens(r), 1)) = 1
  <2>1. Tokens(r) \in Seq(Token)
    BY EngineAssumption, ConcatProperties DEF IInv, TypeOK, Tokens
  <2>2. 1 \in 0 .. Len(Tokens(r))
    BY <1>2
  <2>. QED  BY <2>1, <2>2, PrefixOfProperties
<1>5. ASSUME NEW m \in Nat \ {0}, \A i \in 1 .. m : kv'[SlotOf(table'[r], i)] = PrefixOf(Tokens(r)', i)
      PROVE  FALSE
  <2>1. 1 \in 1 .. m
    OBVIOUS
  <2>2. kv'[SlotOf(table[r], 1)] = PrefixOf(Tokens(r), 1)
    BY <1>3, <1>5, <2>1
  <2>. QED  BY <1>2, <1>4, <2>2
<1>6. ~ OwnKV'
  <2>1. ~ \A i \in 1 .. kvLen'[r] : kv'[SlotOf(table'[r], i)] = PrefixOf(Tokens(r)', i)
    BY <1>2, <1>5
  <2>. QED  BY <1>3, <2>1 DEF OwnKV, HoldsPrefix
<1>7. offset'[r] >= Len(Prompt[r]) => ~ PrefillStoresPrompt'
  <2>1. ~ \A i \in 1 .. Len(Prompt[r]) : kv'[SlotOf(table'[r], i)] = PrefixOf(Tokens(r)', i)
    BY <1>2, <1>5
  <2>. QED  BY <1>3, <2>1 DEF PrefillStoresPrompt, HoldsPrefix
<1>. QED  BY <1>6, <1>7

\* The condition on matches is not too strong: a prefill over a part of the prompt that
\* another request stored leaves a page of the tree with other tokens than its own.
THEOREM PartialHitOverwrites ==
    ASSUME IInv, KvInv, BorrowInv, CachedKV, NEW r \in Req, ContinuationChunk(r), hit[r] > 0
    PROVE  ~ CachedKV'
<1>. DEFINE q == Keys(Prompt[r])
<1>1. /\ status[r] = "running" /\ 1 \in 1 .. Len(Prompt[r]) /\ table[r] # << >>
      /\ SlotOf(table[r], 1) = <<table[r][1], 0>> /\ Len(kv'[<<table[r][1], 0>>]) # 1
  <2>1. Len(Prompt[r]) \in Nat \ {0} => 1 \in 1 .. Len(Prompt[r])
    OBVIOUS
  <2>. QED  BY <2>1, ContinuationOverwrites DEF ContinuationChunk, PrefillStep, Prefilling
<1>2. UNCHANGED page
  BY DEF ContinuationChunk, PrefillStep, Generate, vars
<1>3. Prompt[r] \in Seq(Token) /\ q \in Seq(Key) /\ hit[r] \in Nat /\ Len(q) \in Nat
  BY EngineAssumption, KeysType, LenProperties DEF IInv, TypeOK
<1>4. /\ 1 \in 1 .. hit[r] /\ 1 \in 1 .. Len(q)
      /\ PrefixOf(q, 1) \in DOMAIN page /\ page[PrefixOf(q, 1)] = table[r][1]
  BY <1>1, <1>3 DEF BorrowInv, PagesInv, Borrows
<1>5. /\ 0 \in 0 .. PageSize - 1 /\ 1 = (1 - 1) * PageSize + 0 + 1
      /\ PageSize \in Nat \ {0}
  BY PoolAssumption
<1>6. KeyTokens(PrefixOf(q, 1), 1) = PrefixOf(Prompt[r], 1)
  BY <1>3, <1>4, <1>5, KeysSpell
<1>7. Len(PrefixOf(Prompt[r], 1)) = 1 /\ Len(PrefixOf(q, 1)) = 1
  <2>1. 1 \in 0 .. Len(Prompt[r]) /\ 1 \in 0 .. Len(q)
    BY <1>1, <1>4
  <2>. QED  BY <1>3, <2>1, PrefixOfProperties
<1>. HIDE DEF q
<1>8. SUFFICES ASSUME CachedKV' PROVE FALSE
  OBVIOUS
<1>9. kv'[<<page[PrefixOf(q, 1)], 0>>] =
          KeyTokens(PrefixOf(q, 1), (Len(PrefixOf(q, 1)) - 1) * PageSize + 0 + 1)
  BY <1>2, <1>4, <1>5, <1>8 DEF CachedKV, KeyTokens
<1>. QED  BY <1>1, <1>4, <1>5, <1>6, <1>7, <1>9

-----------------------------------------------------------------------------
(* A workload that meets the conditions *)

\* Prompts end with a page.
WholePrompts == \A r \in Req : Len(Keys(Prompt[r])) * PageSize = Len(Prompt[r])

\* What is committed has a token.
FinishedInv == pc = "insert" => out[cur] # << >>

LEMMA FinishedInvInductive ==
    ~ StepsFail /\ IInv /\ FinishedInv /\ [Next]_vars => FinishedInv'
<1>. SUFFICES ASSUME ~ StepsFail, IInv, FinishedInv, [Next]_vars
              PROVE  FinishedInv'
  OBVIOUS
<1>1. ASSUME UNCHANGED <<pc, cur, out>> \/ pc' # "insert"
      PROVE  FinishedInv'
  BY <1>1 DEF FinishedInv
<1>2. ASSUME NEW r \in Req, Admit(r) \/ AbortUninitialised(r) \/ PrefillInit(r) \/ CommitEnd(r)
                            \/ CommitLeaf(r) \/ CommitFullEdge(r) \/ CommitSplit(r)
      PROVE  FinishedInv'
  BY <1>1, <1>2 DEF Admit, AbortUninitialised, PrefillInit, CommitEnd, CommitLeaf,
                    CommitFullEdge, CommitSplit, reqVars
<1>3. ASSUME NEW r \in Req, NEW t \in Gen[r], Generate(r, t)
      PROVE  FinishedInv'
  BY <1>1, <1>3 DEF Generate
<1>4. ASSUME NEW r \in Req, Retire(r)
      PROVE  FinishedInv'
  <2>1. out[r] # << >>
    BY <1>4 DEF Retire, Done
  <2>2. UNCHANGED <<pc, cur, out>> \/ (cur' = r /\ out' = out)
    BY <1>4 DEF Retire, FreeRequestKv, reqVars
  <2>. QED  BY <1>1, <2>1, <2>2 DEF FinishedInv
<1>5. ASSUME NEW r \in Req, Abort(r)
      PROVE  FALSE
  BY <1>5 DEF Abort
<1>9. ASSUME NEW r \in Req, CommitRaises(r)
      PROVE  FinishedInv'
  BY <1>1, <1>9 DEF CommitRaises
<1>6. ASSUME NEW n \in Nodes, AllocEvict(n)
      PROVE  FinishedInv'
  BY <1>1, <1>6 DEF AllocEvict, reqVars
<1>7. CASE AllocDone \/ AllocFail
  BY <1>1, <1>7 DEF AllocDone, AllocFail
<1>8. CASE Terminated \/ UNCHANGED vars
  BY <1>1, <1>8 DEF Terminated, vars
<1>. QED  BY <1>2, <1>3, <1>4, <1>5, <1>6, <1>7, <1>8, <1>9 DEF Next

LEMMA RepeatStaysStored ==
    ASSUME RepeatedPrompts, WholePrompts, IInv, KvInv, RepeatInv, FinishedInv, OneShotInv
    PROVE  NoPartialHit /\ CommitsStored
<1>1. ASSUME NEW r \in Req, status[r] = "running", out[r] = << >>
      PROVE  hit[r] = 0 \/ offset[r] >= Len(Prompt[r])
  <2>1. offset[r] = hit[r] * PageSize /\ (hit[r] = 0 \/ hit[r] = Len(Keys(Prompt[r])))
    BY <1>1 DEF OneShotInv, RepeatInv
  <2>2. Len(Prompt[r]) \in Nat
    BY TokenCount DEF IInv
  <2>. QED  BY <2>1, <2>2 DEF WholePrompts
<1>2. ASSUME NEW r \in Req, Inserting(r)
      PROVE  Len(Committed(r)) * PageSize <= kvLen[r]
  <2>1. status[r] = "running" /\ out[r] # << >>
    BY <1>2, InsertingFacts DEF IInv, FinishedInv
  <2>2. Len(Committed(r)) * PageSize = Len(Prompt[r])
    BY CommittedIsPrompt DEF WholePrompts, IInv
  <2>3. /\ Len(Prompt[r]) \in Nat /\ Len(out[r]) \in Nat /\ Len(out[r]) # 0
        /\ Len(Tokens(r)) = Len(Prompt[r]) + Len(out[r])
    BY <2>1, TokenCount DEF IInv
  <2>4. kvLen[r] = Len(Tokens(r)) - 1
    BY <2>1 DEF KvInv, KvLenExact
  <2>5. \A m, n, k \in Nat : n # 0 /\ k = m + n => m <= k - 1
    OBVIOUS
  <2>6. Len(Tokens(r)) \in Nat
    BY <2>1, StoredIsShort
  <2>. QED  BY <2>2, <2>3, <2>4, <2>5, <2>6
<1>. QED  BY <1>1, <1>2 DEF NoPartialHit, CommitsStored

\* Where whole prompts come again, answers are shorter than a page and no step fails,
\* the cache serves what it should: its pages hold the tokens they stand for, nobody
\* writes to them, and every request attends to its own tokens.
THEOREM RepeatedPromptsReadOwnKV ==
    ASSUME RepeatedPrompts, WholePrompts, ~ StepsFail, ChunkSize = 0, DirectFlash
    PROVE  KvSpec => [](CachedKV /\ OwnKV) /\ CachedPagesImmutable
<1>1. KvSpec => []BorrowsWholeEdges
  <2>1. IInv /\ RepeatInv => BorrowsWholeEdges
    BY RepeatMeetsConditions DEF IInv
  <2>. QED  BY <2>1, KvImplementsEngine, RepeatInvHolds, PTL
<1>2. KvSpec => [](IInv /\ RepeatInv /\ BorrowInv)
  BY KvImplementsEngine, RepeatInvHolds, BorrowInvariant, PTL
<1>3. KvSpec => []SingleOwner
  BY <1>1, KvImplementsEngine, OnlyPartialBorrowsShare, PTL
<1>4. KvSpec => []FinishedInv
  <2>1. KvInit => FinishedInv
    BY DEF KvInit, Init, FinishedInv
  <2>2. IInv /\ FinishedInv /\ [KvNext]_<<vars, kvVars>> => FinishedInv'
    BY KvStepIsEngineStep, FinishedInvInductive
  <2>. QED  BY <2>1, <2>2, KvInvHolds, PTL DEF KvSpec
<1>5. /\ IInv /\ RepeatInv /\ BorrowInv /\ KvInv /\ SlotsType /\ SingleOwner /\ FinishedInv
      /\ StoredInv
      => Orderly /\ NoPartialHit /\ CachedKV /\ OwnKV
  BY RepeatStaysStored DEF Orderly, StoredInv
<1>6. KvSpec => [](StoredInv /\ NoPartialHit /\ CachedKV /\ OwnKV)
  BY <1>2, <1>3, <1>4, <1>5, KvInvHolds, StoredInvStarts, StoredInvInductive, PTL DEF KvSpec
<1>. QED  BY <1>1, <1>6, CachedPagesUntouched, PTL
=============================================================================
