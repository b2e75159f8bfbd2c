------------------------- MODULE PagedEngineProofs --------------------------
(***************************************************************************)
(* Theorems about PagedEngine: types, lock counts, the shape of the tree,  *)
(* the size of the page tables and the count of the cached pages are       *)
(* invariants of Spec, borrowed pages stay in the tree, only eviction      *)
(* forgets a page and it reaches every unlocked one, for every set of      *)
(* requests, every pool and every order of the scheduler's calls.  Without *)
(* a radix cache no page has two owners, the admission test reserves what  *)
(* allocate asks for, and the pool keeps the contract of PagePool.tla.     *)
(* With one, no page has two owners and none is lost, and the contract is  *)
(* kept, for as long as commits meet the two conditions at the end of      *)
(* PagedEngine.tla; a commit that does not meet one breaks the promise.    *)
(* Prompts that come again with short answers always meet them.            *)
(***************************************************************************)
EXTENDS PagedEngine, RadixCacheProofs

Key == Seq(Token)

\* The call the thread is in fits the request it is in it for, and a commit has
\* a page for each key and has walked to the root or to a node.
ControlInv ==
    /\ pc = "allocate" => cur \in Req /\ status[cur] = "admitted"
    /\ pc = "insert" => /\ cur \in Req /\ status[cur] = "running"
                        /\ CommitFits(cur)
                        /\ at \in 0 .. Len(Committed(cur))
                        /\ at = 0 \/ PrefixOf(Committed(cur), at) \in Nodes

\* Only a request that runs, is being initialised, or was finished by a commit that
\* raised, holds a lock.
UnlockedInv ==
    \A r \in Req :
        lock[r] # Root => /\ RadixEnabled
                          /\ \/ status[r] \in {"running", "finished"}
                             \/ status[r] = "admitted" /\ pc = "allocate" /\ cur = r

\* A running request has its peak reserved, if that is a number of pages, and stays
\* within the longest answer.
SizeInv ==
    \A r \in Req :
        /\ Len(out[r]) <= Longest(r)
        /\ status[r] = "running" => Len(table[r]) >= Peak(r)

\* The types that do not depend on where a page of the tree is: the hierarchical
\* cache has them too.
CoreTypes ==
    /\ free \in Seq(Page)
    /\ DOMAIN page \subseteq Seq(Seq(Token))
    /\ Nodes \subseteq Seq(Seq(Token)) /\ Ints(ref)
    /\ older \subseteq Nodes \X Nodes
    /\ cached \in Int
    /\ status \in [Req -> {"waiting", "admitted", "running", "finished"}]
    /\ out \in [Req -> Seq(Token)]
    /\ table \in [Req -> Seq(Page)]
    /\ hit \in [Req -> Nat]
    /\ lock \in [Req -> Seq(Seq(Token))]
    /\ cur \in Req \cup {NoReq}
    /\ at \in Nat

CoreInv ==
    /\ CoreTypes
    /\ TreeInv(Key)
    /\ LockConservation
    /\ ControlInv
    /\ UnlockedInv
    /\ SizeInv

\* The inductive invariant.
IInv == TypeOK /\ CoreInv

-----------------------------------------------------------------------------
(* Data *)

\* A function on 1 .. n is a sequence.
LEMMA FunctionIsSequence ==
    ASSUME NEW S, NEW n \in Nat, NEW f \in [1 .. n -> S]
    PROVE  f \in Seq(S) /\ Len(f) = n
<1>1. f \in Seq(S)
  BY SeqDef
<1>2. DOMAIN f = 1 .. Len(f) /\ DOMAIN f = 1 .. n /\ Len(f) \in Nat
  BY <1>1, LenProperties
<1>. QED  BY <1>1, <1>2

\* The keys of a token sequence.
LEMMA KeysType ==
    ASSUME NEW tokens \in Seq(Token)
    PROVE  /\ Keys(tokens) \in Seq(Key)
           /\ Len(Keys(tokens)) = WholePages(Len(tokens))
<1>1. Len(tokens) \in Nat
  BY LenProperties
<1>2. /\ WholePages(Len(tokens)) \in Nat
      /\ \A i \in 1 .. WholePages(Len(tokens)) :
            (i - 1) * PageSize \in Nat /\ i * PageSize <= Len(tokens)
  BY <1>1, PagesMonotonic, PoolAssumption
<1>3. ASSUME NEW i \in 1 .. WholePages(Len(tokens))
      PROVE  SubSeq(tokens, (i - 1) * PageSize + 1, i * PageSize) \in Key
  <2>. DEFINE a == (i - 1) * PageSize
              b == i * PageSize
  <2>1. a \in Nat /\ b \in Int /\ b <= Len(tokens)
    BY <1>2, PoolAssumption
  <2>. HIDE DEF a, b
  <2>2. \A j \in a + 1 .. b : tokens[j] \in Token
    BY <1>1, <2>1, ElementOfSeq
  <2>3. SubSeq(tokens, a + 1, b) \in Seq(Token)
    BY <2>1, <2>2, SubSeqProperties
  <2>. QED  BY <2>3 DEF a, b, Key
<1>4. Keys(tokens) \in [1 .. WholePages(Len(tokens)) -> Key]
  BY <1>3 DEF Keys
<1>. QED  BY <1>2, <1>4, FunctionIsSequence

\* Popped pages are pages, and what is left of the free list is a list of pages.
LEMMA AllocateTypes ==
    ASSUME free \in Seq(Page), NEW n \in 0 .. Len(free)
    PROVE  /\ Popped(n) \in Seq(Page) /\ Len(Popped(n)) = n
           /\ SubSeq(free, 1, Len(free) - n) \in Seq(Page)
<1>1. Len(free) \in Nat /\ \A i \in 1 .. Len(free) : free[i] \in Page
  BY LenProperties, ElementOfSeq
<1>2. Popped(n) \in [1 .. n -> Page]
  BY <1>1 DEF Popped
<1>3. SubSeq(free, 1, Len(free) - n) \in Seq(Page)
  BY <1>1, SubSeqProperties
<1>. QED  BY <1>2, <1>3, FunctionIsSequence

\* A part of a table is a list of pages.
LEMMA PartOfTable ==
    ASSUME NEW t \in Seq(Page), NEW a \in Nat, NEW b \in Int, b <= Len(t)
    PROVE  SubSeq(t, a + 1, b) \in Seq(Page)
<1>1. \A i \in a + 1 .. b : t[i] \in Page
  BY LenProperties, ElementOfSeq
<1>. QED  BY <1>1, SubSeqProperties

\* PagesNeeded and WholePages of any number are numbers.
LEMMA PagesAreNumbers ==
    ASSUME NEW n \in Int
    PROVE  PagesNeeded(n) \in Int /\ WholePages(n) \in Int
BY PoolAssumption DEF PagesNeeded, WholePages

\* Peaks, and what a running request will commit.
LEMMA SizesOf ==
    ASSUME CoreTypes, SizeInv, NEW r \in Req
    PROVE  /\ Peak(r) \in Int
           /\ Tokens(r) \in Seq(Token)
           /\ Committed(r) \in Seq(Key)
<1>1. /\ Prompt[r] \in Seq(Token) /\ out[r] \in Seq(Token) /\ MaxNew[r] \in Int
      /\ Len(Prompt[r]) \in Nat
  BY EngineAssumption, LenProperties DEF CoreTypes
<1>2. Tokens(r) \in Seq(Token)
  BY <1>1, ConcatProperties DEF Tokens
<1>3. Len(Prompt[r]) + MaxNew[r] \in Int
  BY <1>1
<1>. QED  BY <1>2, <1>3, KeysType, PagesAreNumbers DEF Peak, Committed

LEMMA Sizes ==
    ASSUME CoreInv, NEW r \in Req
    PROVE  /\ Peak(r) \in Int
           /\ Tokens(r) \in Seq(Token)
           /\ Committed(r) \in Seq(Key)
BY SizesOf DEF CoreInv

\* With a positive max_tokens the table of a running request covers its tokens, and
\* with that what it will commit.
LEMMA PositiveCovers ==
    ASSUME CoreTypes, SizeInv, NEW r \in Req, status[r] = "running", MaxNew[r] > 0
    PROVE  /\ Len(table[r]) >= PagesNeeded(Len(Tokens(r)))
           /\ CommitFits(r)
<1>1. /\ Prompt[r] \in Seq(Token) /\ out[r] \in Seq(Token) /\ MaxNew[r] \in Nat
      /\ Len(Prompt[r]) \in Nat /\ Len(out[r]) \in Nat /\ Len(out[r]) <= MaxNew[r]
  BY EngineAssumption, LenProperties DEF CoreTypes, SizeInv, Longest
<1>2. /\ Tokens(r) \in Seq(Token)
      /\ Len(Tokens(r)) = Len(Prompt[r]) + Len(out[r])
  BY <1>1, ConcatProperties DEF Tokens
<1>3. Len(Committed(r)) = WholePages(Len(Tokens(r)))
  BY <1>2, KeysType DEF Committed
<1>4. \E m, n \in Nat : /\ m <= n /\ m = Len(Tokens(r))
                        /\ n = Len(Prompt[r]) + MaxNew[r]
  <2>1. ASSUME NEW a \in Nat, NEW b \in Nat, NEW d \in Nat, b <= d
        PROVE  a + b \in Nat /\ a + d \in Nat /\ a + b <= a + d
    BY <2>1
  <2>. QED  BY <1>1, <1>2, <2>1
<1>5. PICK m \in Nat, n \in Nat : /\ m <= n /\ m = Len(Tokens(r))
                                  /\ n = Len(Prompt[r]) + MaxNew[r]
  BY <1>4
<1>6. /\ WholePages(m) \in Nat /\ PagesNeeded(n) \in Nat /\ PagesNeeded(m) \in Nat
      /\ WholePages(m) <= PagesNeeded(n) /\ PagesNeeded(m) <= PagesNeeded(n)
  BY <1>5, PagesMonotonic, PoolAssumption
<1>7. /\ Peak(r) = PagesNeeded(n) /\ Len(table[r]) \in Nat
      /\ Len(table[r]) >= Peak(r)
  BY <1>5, LenProperties DEF Peak, CoreTypes, SizeInv
<1>8. PagesNeeded(m) <= Len(table[r]) /\ WholePages(m) <= Len(table[r])
  BY <1>6, <1>7
<1>. QED  BY <1>3, <1>5, <1>8 DEF CommitFits

-----------------------------------------------------------------------------
(* Locks *)

LEMMA HoldersFinite ==
    ASSUME NEW n
    PROVE  IsFiniteSet(Holders(n)) /\ Cardinality(Holders(n)) \in Nat
BY EngineAssumption, FS_Subset, FS_CardinalityType DEF Holders

\* inc_lock_ref counts the new borrower on the path of its node.
LEMMA LockKeepsCounts ==
    ASSUME TreeInv(Key), LockConservation, lock \in [Req -> Seq(Key)],
           NEW r \in Req, lock[r] = Root,
           NEW n \in Nodes \cup {Root},
           ref' = [m \in Nodes |-> IF IsPrefix(m, n) THEN ref[m] + 1 ELSE ref[m]],
           lock' = [lock EXCEPT ![r] = n]
    PROVE  LockConservation'
<1>1. Nodes' = Nodes /\ \A m \in Nodes : m \in Seq(Key) /\ m # Root
  BY DEF Nodes, TreeInv, Root
<1>2. \A s \in Req : lock'[s] \in Nodes' \cup {Root}
  BY <1>1 DEF LockConservation
<1>3. ASSUME NEW m \in Nodes
      PROVE  ref'[m] = Cardinality(Holders(m)')
  <2>1. r \notin Holders(m)
    BY DEF Holders
  <2>2. CASE IsPrefix(m, n)
    <3>1. n # Root
      BY <1>1, <2>2, EmptySeq, LenProperties DEF Root, IsPrefix
    <3>2. Holders(m)' = Holders(m) \cup {r}
      BY <2>2, <3>1 DEF Holders
    <3>3. Cardinality(Holders(m) \cup {r}) = Cardinality(Holders(m)) + 1
      BY <2>1, HoldersFinite, FS_AddElement
    <3>. QED  BY <2>2, <3>2, <3>3 DEF LockConservation
  <2>3. CASE ~ IsPrefix(m, n)
    <3>1. Holders(m)' = Holders(m)
      BY <2>3 DEF Holders
    <3>. QED  BY <2>3, <3>1 DEF LockConservation
  <2>. QED  BY <2>2, <2>3
<1>. QED  BY <1>1, <1>2, <1>3 DEF LockConservation

\* dec_lock_ref takes the borrower off the path of its node.
LEMMA UnlockKeepsCounts ==
    ASSUME TreeInv(Key), LockConservation, lock \in [Req -> Seq(Key)],
           NEW r \in Req, Unlock(lock[r]),
           lock' = [lock EXCEPT ![r] = Root]
    PROVE  LockConservation'
<1>1. Nodes' = Nodes /\ \A m \in Nodes : m \in Seq(Key) /\ m # Root
  BY DEF Unlock, Nodes, TreeInv, Root
<1>2. \A s \in Req : lock'[s] \in Nodes' \cup {Root}
  BY <1>1 DEF LockConservation
<1>3. ASSUME NEW m \in Nodes
      PROVE  ref'[m] = Cardinality(Holders(m)')
  <2>1. CASE IsPrefix(m, lock[r])
    <3>1. lock[r] # Root
      BY <1>1, <2>1, EmptySeq, LenProperties DEF Root, IsPrefix
    <3>2. r \in Holders(m) /\ Holders(m)' = Holders(m) \ {r}
      BY <2>1, <3>1 DEF Holders
    <3>3. Cardinality(Holders(m) \ {r}) = Cardinality(Holders(m)) - 1
      BY <3>2, HoldersFinite, FS_RemoveElement
    <3>. QED  BY <2>1, <3>2, <3>3 DEF Unlock, LockConservation
  <2>2. CASE ~ IsPrefix(m, lock[r])
    <3>1. Holders(m)' = Holders(m)
      BY <2>2 DEF Holders
    <3>. QED  BY <2>2, <3>1 DEF Unlock, LockConservation
  <2>. QED  BY <2>1, <2>2
<1>. QED  BY <1>1, <1>2, <1>3 DEF LockConservation

\* No request holds a lock at or below an unlocked node.
LEMMA UnlockedNode ==
    ASSUME TreeInv(Key), LockConservation, NEW n \in Nodes, ref[n] = 0, NEW r \in Req
    PROVE  lock[r] # n
<1>1. Holders(n) = {}
  BY HoldersFinite, FS_EmptySet DEF LockConservation
<1>2. n \in Seq(Key) /\ n # Root /\ IsPrefix(n, n)
  BY PrefixReflexive DEF TreeInv, Root
<1>. QED  BY <1>1, <1>2 DEF Holders

\* A step that changes neither the tree nor a lock keeps the facts about them.
LEMMA TreeUntouched ==
    ASSUME TreeInv(Key), LockConservation, UNCHANGED <<page, ref, lock>>
    PROVE  TreeInv(Key)' /\ LockConservation'
<1>1. TreeInv(Key)'
  BY DEF TreeInv, Nodes
<1>2. LockConservation'
  BY DEF LockConservation, Holders, Nodes
<1>. QED  BY <1>1, <1>2

-----------------------------------------------------------------------------
(* The initial state and the steps *)

LEMMA InitIInv == Init => IInv
<1>. SUFFICES ASSUME Init
              PROVE  IInv
  OBVIOUS
<1>1. TypeOK
  <2>1. free \in Seq(Page)
    <3>1. free \in [1 .. NumPages -> Page] /\ NumPages \in Nat
      BY PoolAssumption DEF Init, PoolInit, Page
    <3>. QED  BY <3>1, FunctionIsSequence
  <2>2. << >> \in Seq(Token) /\ << >> \in Seq(Page) /\ << >> \in Seq(Seq(Token))
    BY EmptySeq
  <2>. QED  BY <2>1, <2>2 DEF Init, CacheInit, TypeOK, Nodes, Root, Ints
<1>2. TreeInv(Key)
  BY DEF Init, CacheInit, TreeInv, Nodes
<1>3. LockConservation
  BY DEF Init, CacheInit, LockConservation, Nodes
<1>4. ControlInv /\ UnlockedInv
  BY DEF Init, ControlInv, UnlockedInv
<1>5. SizeInv
  BY EngineAssumption, EmptySeq DEF Init, SizeInv, Longest
<1>6. CoreTypes
  BY <1>1 DEF TypeOK, CoreTypes
<1>. QED  BY <1>1, <1>2, <1>3, <1>4, <1>5, <1>6 DEF IInv, CoreInv

LEMMA AdmitStep ==
    ASSUME CoreInv, NEW r \in Req, Admit(r)
    PROVE  CoreInv'
<1>1. CoreTypes'
  BY DEF Admit, CoreInv, CoreTypes, Nodes
<1>2. TreeInv(Key)' /\ LockConservation'
  BY TreeUntouched DEF Admit, CoreInv
<1>3. ControlInv' /\ UnlockedInv' /\ SizeInv'
  BY DEF Admit, CoreInv, CoreTypes, ControlInv, UnlockedInv, SizeInv, Peak, Longest
<1>. QED  BY <1>1, <1>2, <1>3 DEF CoreInv

LEMMA PrefillInitStep ==
    ASSUME IInv, NEW r \in Req, PrefillInit(r)
    PROVE  CoreInv'
<1>. CoreInv /\ \A p \in DOMAIN page : page[p] \in Page
  BY DEF IInv, TypeOK
<1>. DEFINE q == Keys(Prompt[r])
<1>0. q \in Seq(Key)
  BY EngineAssumption, KeysType
<1>. HIDE DEF q
<1>1. LastNode(q) \in Nodes \cup {Root} /\ LastNode(q) \in Seq(Key)
  BY <1>0, LastNodeProperties, EmptySeq DEF CoreInv, TreeInv, Root
<1>2. MatchedPages(q) \in Seq(Page) /\ MatchLen(q) \in Nat
  <2>1. /\ MatchLen(q) \in Nat
        /\ \A i \in 1 .. MatchLen(q) : PrefixOf(q, i) \in DOMAIN page
    BY <1>0, MatchLenProperties, LenProperties
  <2>2. MatchedPages(q) \in [1 .. MatchLen(q) -> Page]
    BY <2>1 DEF MatchedPages, CoreInv, CoreTypes
  <2>. QED  BY <2>1, <2>2, FunctionIsSequence
<1>3. /\ pc = "idle" /\ status[r] = "admitted" /\ pc' = "allocate" /\ cur' = r
      /\ UNCHANGED <<free, status, out, at, page, cached>>
      /\ lock[r] = Root
      /\ lock \in [Req -> Seq(Key)] /\ table \in [Req -> Seq(Page)] /\ hit \in [Req -> Nat]
      /\ status' \in [Req -> {"waiting", "admitted", "running", "finished"}]
  BY DEF PrefillInit, MatchAndLock, CoreInv, CoreTypes, UnlockedInv, Key
<1>4. CASE RadixEnabled
  <2>1. /\ table' = [table EXCEPT ![r] = MatchedPages(q)]
        /\ hit' = [hit EXCEPT ![r] = MatchLen(q)]
        /\ lock' = [lock EXCEPT ![r] = LastNode(q)]
        /\ MatchAndLock(LastNode(q))
    BY <1>4 DEF PrefillInit, q
  <2>2. Nodes' = Nodes
    BY <2>1 DEF MatchAndLock, Nodes
  <2>3. CoreTypes'
    <3>1. Ints(ref')
      BY <2>1 DEF MatchAndLock, CoreInv, CoreTypes, Ints, Nodes
    <3>2. older' \subseteq Nodes \X Nodes
      BY <2>1 DEF MatchAndLock, CoreInv, CoreTypes, Touched, Path
    <3>3. /\ table' \in [Req -> Seq(Page)] /\ hit' \in [Req -> Nat]
          /\ lock' \in [Req -> Seq(Key)]
      BY <1>1, <1>2, <1>3, <2>1
    <3>. QED  BY <1>3, <2>2, <3>1, <3>2, <3>3 DEF CoreInv, CoreTypes, Key
  <2>4. TreeInv(Key)'
    BY <1>3, <2>2 DEF CoreInv, TreeInv
  <2>5. LockConservation'
    BY <1>1, <1>3, <2>1, LockKeepsCounts DEF CoreInv, MatchAndLock
  <2>6. ControlInv' /\ UnlockedInv'
    BY <1>3, <1>4, <2>1 DEF CoreInv, ControlInv, UnlockedInv
  <2>7. SizeInv'
    BY <1>3, <2>1 DEF CoreInv, SizeInv, Peak, Longest
  <2>. QED  BY <2>3, <2>4, <2>5, <2>6, <2>7 DEF CoreInv
<1>5. CASE ~ RadixEnabled
  <2>1. UNCHANGED <<table, hit, lock, page, ref, older, cached>>
    BY <1>5 DEF PrefillInit
  <2>2. CoreTypes'
    BY <1>3, <2>1 DEF CoreInv, CoreTypes, Nodes
  <2>3. TreeInv(Key)' /\ LockConservation'
    BY <2>1, TreeUntouched DEF CoreInv
  <2>4. ControlInv' /\ UnlockedInv' /\ SizeInv'
    BY <1>3, <2>1 DEF CoreInv, ControlInv, UnlockedInv, SizeInv, Peak, Longest
  <2>. QED  BY <2>2, <2>3, <2>4 DEF CoreInv
<1>. QED  BY <1>4, <1>5

LEMMA AllocEvictStep ==
    ASSUME IInv, NEW n \in Nodes, AllocEvict(n)
    PROVE  CoreInv'
<1>. CoreInv /\ \A p \in DOMAIN page : page[p] \in Page
  BY DEF IInv, TypeOK
<1>1. /\ pc = "allocate" /\ EvictLeaf(n)
      /\ UNCHANGED <<status, out, table, hit, lock, pc, cur, at>>
      /\ ref[n] = 0
      /\ page' = [p \in DOMAIN page \ Edge(n) |-> page[p]]
      /\ ref' = [m \in Nodes \ {n} |-> ref[m]] /\ Nodes' = Nodes \ {n}
  BY DEF AllocEvict, EvictLeaf, EvictableLeaves, Nodes, reqVars
<1>2. CoreTypes'
  <2>1. Cardinality(Edge(n)) \in Nat /\ EdgePages(n) \in Seq(Page)
    <3>1. /\ Cardinality(Edge(n)) \in Nat
          /\ \A i \in 1 .. Cardinality(Edge(n)) : PrefixOf(n, EdgeStart(n) + i) \in DOMAIN page
      BY EdgeProperties DEF CoreInv
    <3>2. EdgePages(n) \in [1 .. Cardinality(Edge(n)) -> Page]
      BY <3>1 DEF EdgePages, CoreInv, CoreTypes
    <3>. QED  BY <3>1, <3>2, FunctionIsSequence
  <2>2. free' \in Seq(Page)
    BY <1>1, <2>1, ConcatProperties DEF EvictLeaf, Free, CoreInv, CoreTypes
  <2>3. cached' \in Int
    BY <1>1, <2>1, LenProperties DEF EvictLeaf, CoreInv, CoreTypes
  <2>4. older' \subseteq Nodes' \X Nodes'
    BY <1>1 DEF EvictLeaf, Touched, CoreInv, CoreTypes
  <2>5. Ints(ref')
    BY <1>1 DEF CoreInv, CoreTypes, Ints, Nodes
  <2>6. /\ DOMAIN page' \subseteq Seq(Seq(Token))
        /\ Nodes' \subseteq Seq(Seq(Token))
    BY <1>1 DEF CoreInv, CoreTypes
  <2>. QED  BY <1>1, <2>2, <2>3, <2>4, <2>5, <2>6 DEF CoreInv, CoreTypes
<1>3. TreeInv(Key)'
  BY <1>1, EvictKeepsTree DEF CoreInv
<1>4. LockConservation'
  <2>1. \A r \in Req : lock[r] # n
    BY <1>1, UnlockedNode DEF CoreInv
  <2>. QED  BY <1>1, <2>1 DEF CoreInv, LockConservation, Holders
<1>5. ControlInv' /\ UnlockedInv' /\ SizeInv'
  BY <1>1 DEF CoreInv, ControlInv, UnlockedInv, SizeInv, Peak, Longest
<1>. QED  BY <1>2, <1>3, <1>4, <1>5 DEF CoreInv

LEMMA AllocDoneStep ==
    ASSUME CoreInv, AllocDone
    PROVE  CoreInv'
<1>. DEFINE n == Extra(cur)
<1>1. /\ pc = "allocate" /\ cur \in Req /\ status[cur] = "admitted"
      /\ Peak(cur) \in Int /\ table[cur] \in Seq(Page) /\ Len(table[cur]) \in Nat
      /\ free \in Seq(Page) /\ Len(free) \in Nat
  BY Sizes, LenProperties DEF AllocDone, CoreInv, ControlInv, CoreTypes
<1>2. n \in 0 .. Len(free) /\ Len(table[cur]) + n >= Peak(cur)
  BY <1>1 DEF AllocDone, Extra
<1>. HIDE DEF n
<1>3. /\ Popped(n) \in Seq(Page) /\ Len(Popped(n)) = n
      /\ SubSeq(free, 1, Len(free) - n) \in Seq(Page)
  BY <1>1, <1>2, AllocateTypes
<1>4. /\ table[cur] \o Popped(n) \in Seq(Page)
      /\ Len(table[cur] \o Popped(n)) >= Peak(cur)
  BY <1>1, <1>2, <1>3, ConcatProperties
<1>5. /\ table' = [table EXCEPT ![cur] = table[cur] \o Popped(n)]
      /\ free' = SubSeq(free, 1, Len(free) - n)
      /\ status' = [status EXCEPT ![cur] = "running"]
      /\ pc' = "idle" /\ cur' = NoReq
      /\ UNCHANGED <<page, ref, older, cached, out, hit, lock, at>>
  BY DEF AllocDone, Allocate, n
<1>6. CoreTypes'
  BY <1>1, <1>3, <1>4, <1>5 DEF CoreInv, CoreTypes, Nodes
<1>7. TreeInv(Key)' /\ LockConservation'
  BY <1>5, TreeUntouched DEF CoreInv
<1>8. ControlInv' /\ UnlockedInv'
  BY <1>1, <1>5 DEF CoreInv, CoreTypes, ControlInv, UnlockedInv
<1>9. SizeInv'
  BY <1>1, <1>4, <1>5 DEF CoreInv, CoreTypes, SizeInv, Peak, Longest
<1>. QED  BY <1>6, <1>7, <1>8, <1>9 DEF CoreInv

\* Releasing the lock of a request keeps the facts about the tree and the locks.
LEMMA UnlockKeepsTree ==
    ASSUME CoreInv, NEW r \in Req, Unlock(lock[r]), lock' = [lock EXCEPT ![r] = Root]
    PROVE  /\ TreeInv(Key)' /\ LockConservation'
           /\ Nodes' = Nodes /\ Ints(ref') /\ older' \subseteq Nodes \X Nodes
           /\ UNCHANGED <<page, cached>>
           /\ lock' \in [Req -> Seq(Seq(Token))]
<1>1. Nodes' = Nodes /\ page' = page /\ cached' = cached
  BY DEF Unlock, Nodes
<1>2. TreeInv(Key)'
  BY <1>1 DEF CoreInv, TreeInv
<1>3. LockConservation'
  BY UnlockKeepsCounts DEF CoreInv, CoreTypes, Key
<1>4. Ints(ref') /\ older' \subseteq Nodes \X Nodes
  BY DEF Unlock, CoreInv, CoreTypes, Ints, Nodes, Touched, Path
<1>5. lock' \in [Req -> Seq(Seq(Token))]
  BY EmptySeq DEF Root, CoreInv, CoreTypes
<1>. QED  BY <1>1, <1>2, <1>3, <1>4, <1>5

\* The rollback of a prefill-init whose allocate has raised, whatever evict left.
LEMMA AllocRollback ==
    ASSUME CoreInv, pc = "allocate", Unlock(lock[cur]),
           table' = [table EXCEPT ![cur] = << >>],
           hit' = [hit EXCEPT ![cur] = 0],
           lock' = [lock EXCEPT ![cur] = Root],
           status' = [status EXCEPT ![cur] = "waiting"],
           pc' = "idle", cur' = NoReq, UNCHANGED <<free, out, at>>
    PROVE  CoreInv' /\ Nodes' = Nodes /\ UNCHANGED page
<1>1. cur \in Req /\ status[cur] = "admitted"
  BY DEF CoreInv, ControlInv
<1>2. /\ TreeInv(Key)' /\ LockConservation'
      /\ Nodes' = Nodes /\ Ints(ref') /\ older' \subseteq Nodes \X Nodes
      /\ UNCHANGED <<page, cached>>
      /\ lock' \in [Req -> Seq(Seq(Token))]
  BY <1>1, UnlockKeepsTree
<1>3. CoreTypes'
  BY <1>1, <1>2, EmptySeq DEF CoreInv, CoreTypes
<1>4. ControlInv' /\ UnlockedInv' /\ SizeInv'
  BY <1>1 DEF CoreInv, CoreTypes, ControlInv, UnlockedInv, SizeInv, Peak, Longest
<1>. QED  BY <1>2, <1>3, <1>4 DEF CoreInv

LEMMA AllocFailStep ==
    ASSUME CoreInv, AllocFail
    PROVE  CoreInv'
BY AllocRollback DEF AllocFail

LEMMA GenerateStep ==
    ASSUME CoreInv, NEW r \in Req, NEW t \in Gen[r], Generate(r, t)
    PROVE  CoreInv'
<1>1. /\ out[r] \in Seq(Token) /\ t \in Token /\ Len(out[r]) \in Nat
      /\ MaxNew[r] \in Int /\ (out[r] = << >> \/ ~ (Len(out[r]) >= MaxNew[r]))
  BY EngineAssumption, LenProperties DEF CoreInv, CoreTypes, Generate, Done
<1>2. /\ Append(out[r], t) \in Seq(Token)
      /\ Len(Append(out[r], t)) <= Longest(r)
  BY <1>1, AppendProperties, EmptySeq DEF Longest
<1>3. /\ pc = "idle"
      /\ out' = [out EXCEPT ![r] = Append(out[r], t)]
      /\ UNCHANGED <<free, page, ref, older, cached, status, table, hit, lock, pc, cur, at>>
  BY DEF Generate
<1>4. CoreTypes'
  BY <1>2, <1>3 DEF CoreInv, CoreTypes, Nodes
<1>5. TreeInv(Key)' /\ LockConservation'
  BY <1>3, TreeUntouched DEF CoreInv
<1>6. ControlInv' /\ UnlockedInv'
  BY <1>3 DEF CoreInv, ControlInv, UnlockedInv
<1>7. SizeInv'
  BY <1>2, <1>3 DEF CoreInv, CoreTypes, SizeInv, Peak, Longest
<1>. QED  BY <1>4, <1>5, <1>6, <1>7 DEF CoreInv

LEMMA FreeRequestKvStep ==
    ASSUME CoreInv, NEW r \in Req, FreeRequestKv(r)
    PROVE  CoreInv'
<1>1. /\ pc = "idle" /\ status[r] = "running"
      /\ UNCHANGED <<page, ref, older, cached>>
  BY DEF FreeRequestKv
<1>2. CASE RadixEnabled
  <2>1. /\ pc' = "insert" /\ cur' = r /\ at' = 0 /\ CommitFits(r)
        /\ UNCHANGED <<free, status, out, table, hit, lock>>
    BY <1>2 DEF FreeRequestKv, reqVars
  <2>2. Len(Committed(r)) \in Nat
    BY Sizes, LenProperties
  <2>3. Len(Committed(r)') \in Nat
    BY <2>1, <2>2 DEF Committed, Tokens
  <2>4. CoreTypes'
    BY <1>1, <2>1 DEF CoreInv, CoreTypes, Nodes
  <2>5. TreeInv(Key)' /\ LockConservation'
    BY <1>1, <2>1, TreeUntouched DEF CoreInv
  <2>6. ControlInv'
    BY <1>1, <2>1, <2>3 DEF ControlInv, CommitFits, Committed, Tokens
  <2>7. UnlockedInv' /\ SizeInv'
    BY <1>1, <2>1 DEF CoreInv, UnlockedInv, SizeInv, Peak, Longest
  <2>. QED  BY <2>4, <2>5, <2>6, <2>7 DEF CoreInv
<1>3. CASE ~ RadixEnabled
  <2>1. /\ free' = free \o table[r]
        /\ table' = [table EXCEPT ![r] = << >>]
        /\ status' = [status EXCEPT ![r] = "finished"]
        /\ UNCHANGED <<out, hit, lock, pc, cur, at>>
    BY <1>3 DEF FreeRequestKv, Free
  <2>2. free' \in Seq(Page)
    BY <2>1, ConcatProperties DEF CoreInv, CoreTypes
  <2>3. CoreTypes'
    BY <1>1, <2>1, <2>2, EmptySeq DEF CoreInv, CoreTypes, Nodes
  <2>4. TreeInv(Key)' /\ LockConservation'
    BY <1>1, <2>1, TreeUntouched DEF CoreInv
  <2>5. ControlInv' /\ UnlockedInv' /\ SizeInv'
    BY <1>1, <1>3, <2>1 DEF CoreInv, CoreTypes, ControlInv, UnlockedInv, SizeInv, Peak, Longest
  <2>. QED  BY <2>3, <2>4, <2>5 DEF CoreInv
<1>. QED  BY <1>2, <1>3

\* A commit that raises leaves a finished request with its table and its lock.
LEMMA CommitRaisesStep ==
    ASSUME CoreInv, NEW r \in Req, CommitRaises(r)
    PROVE  CoreInv'
<1>1. /\ pc = "idle" /\ status[r] = "running" /\ RadixEnabled
      /\ status' = [status EXCEPT ![r] = "finished"]
      /\ UNCHANGED <<free, page, ref, older, cached, out, table, hit, lock, pc, cur, at>>
  BY DEF CommitRaises
<1>2. CoreTypes'
  BY <1>1 DEF CoreInv, CoreTypes, Nodes
<1>3. TreeInv(Key)' /\ LockConservation'
  BY <1>1, TreeUntouched DEF CoreInv
<1>4. ControlInv' /\ UnlockedInv' /\ SizeInv'
  BY <1>1 DEF CoreInv, CoreTypes, ControlInv, UnlockedInv, SizeInv, Peak, Longest
<1>. QED  BY <1>2, <1>3, <1>4 DEF CoreInv

LEMMA AbortUninitialisedStep ==
    ASSUME CoreInv, NEW r \in Req, AbortUninitialised(r)
    PROVE  CoreInv'
<1>1. /\ pc = "idle" /\ status[r] = "admitted"
      /\ status' = [status EXCEPT ![r] = "finished"]
      /\ UNCHANGED <<free, page, ref, older, cached, out, table, hit, lock, pc, cur, at>>
  BY DEF AbortUninitialised
<1>2. CoreTypes'
  BY <1>1 DEF CoreInv, CoreTypes, Nodes
<1>3. TreeInv(Key)' /\ LockConservation'
  BY <1>1, TreeUntouched DEF CoreInv
<1>4. ControlInv' /\ UnlockedInv' /\ SizeInv'
  BY <1>1 DEF CoreInv, CoreTypes, ControlInv, UnlockedInv, SizeInv, Peak, Longest
<1>. QED  BY <1>2, <1>3, <1>4 DEF CoreInv

\* Where a turn of insert_and_return starts from.
LEMMA InsertingFacts ==
    ASSUME CoreInv, NEW r \in Req, Inserting(r)
    PROVE  /\ pc = "insert" /\ cur = r /\ status[r] = "running"
           /\ Committed(r) \in Seq(Key) /\ Len(Committed(r)) \in Nat
           /\ at \in Nat /\ at < Len(Committed(r))
           /\ at = 0 \/ PrefixOf(Committed(r), at) \in Nodes
           /\ table[r] \in Seq(Page) /\ Len(Committed(r)) <= Len(table[r])
BY Sizes, LenProperties DEF Inserting, CoreInv, ControlInv, CoreTypes, CommitFits

\* The facts about the requests survive a turn of insert_and_return, which
\* changes only the pool, the tree and the place it walked to.
LEMMA InsertKeepsRequests ==
    ASSUME CoreInv, NEW r \in Req, Inserting(r), UNCHANGED <<reqVars, pc, cur>>,
           at' \in 0 .. Len(Committed(r)),
           PrefixOf(Committed(r), at') \in Nodes'
    PROVE  ControlInv' /\ UnlockedInv' /\ SizeInv'
<1>1. Committed(r)' = Committed(r) /\ status' = status /\ lock' = lock /\ out' = out
      /\ table' = table /\ pc' = pc /\ cur' = cur
  BY DEF reqVars, Committed, Tokens
<1>2. ControlInv'
  BY <1>1, InsertingFacts DEF ControlInv, CommitFits
<1>3. UnlockedInv' /\ SizeInv'
  BY <1>1 DEF CoreInv, UnlockedInv, SizeInv, Peak, Longest
<1>. QED  BY <1>2, <1>3

LEMMA CommitLeafStep ==
    ASSUME CoreInv, NEW r \in Req, CommitLeaf(r)
    PROVE  CoreInv'
<1>. DEFINE q == Committed(r)
            new == {PrefixOf(q, i) : i \in at + 1 .. Len(q)}
<1>1. /\ Inserting(r) /\ InsertLeaf(q, table[r], at)
      /\ at' = Len(q)
      /\ UNCHANGED <<free, reqVars, pc, cur>>
  BY DEF CommitLeaf, InsertLeaf
<1>2. /\ q \in Seq(Key) /\ Len(q) \in Nat /\ at \in Nat /\ at < Len(q)
      /\ at = 0 \/ PrefixOf(q, at) \in Nodes
      /\ table[r] \in Seq(Page) /\ Len(q) <= Len(table[r])
  BY <1>1, InsertingFacts
<1>3. /\ TreeInv(Key)' /\ DOMAIN page' = DOMAIN page \cup new
      /\ \A m \in Nodes : ~ IsPrefix(q, m)
  BY <1>1, <1>2, LeafKeepsTree DEF CoreInv
<1>4. /\ Nodes' = Nodes \cup {q} /\ PrefixOf(q, Len(q)) = q
      /\ ref' = [m \in Nodes \cup {q} |-> IF m = q THEN 0 ELSE ref[m]]
      /\ page' = [p \in DOMAIN page \cup new |->
                    IF p \in new THEN table[r][Len(p)] ELSE page[p]]
      /\ older' = Touched({q}, Nodes \cup {q})
      /\ cached' = cached + (Len(q) - at)
  BY <1>1, <1>2, PrefixOfWhole DEF InsertLeaf, Nodes
<1>5. \A p \in new : p \in Seq(Key) /\ Len(p) \in 1 .. Len(table[r])
  <2>1. ASSUME NEW i \in at + 1 .. Len(q)
        PROVE  PrefixOf(q, i) \in Seq(Key) /\ Len(PrefixOf(q, i)) \in 1 .. Len(table[r])
    <3>1. i \in 0 .. Len(q) /\ i \in 1 .. Len(table[r])
      BY <1>2, LenProperties
    <3>. QED  BY <1>2, <3>1, PrefixOfProperties
  <2>. QED  BY <2>1
<1>. HIDE DEF q, new
<1>6. CoreTypes'
  <2>1. DOMAIN page' \subseteq Seq(Seq(Token))
    BY <1>2, <1>4, <1>5 DEF CoreInv, CoreTypes, Key
  <2>2. Nodes' \subseteq Seq(Seq(Token)) /\ Ints(ref')
    BY <1>2, <1>4 DEF CoreInv, CoreTypes, Key, Ints, Nodes
  <2>3. older' \subseteq Nodes' \X Nodes'
    BY <1>4 DEF CoreInv, CoreTypes, Touched
  <2>4. cached' \in Int /\ at' \in Nat
    BY <1>1, <1>2, <1>4 DEF CoreInv, CoreTypes, q
  <2>. QED  BY <1>1, <2>1, <2>2, <2>3, <2>4 DEF CoreInv, CoreTypes, reqVars
<1>7. LockConservation'
  <2>1. \A m \in Nodes : m # q
    BY <1>2, <1>3, PrefixReflexive
  <2>2. Holders(q) = {}
    BY <1>3 DEF Holders, CoreInv, LockConservation
  <2>3. Cardinality(Holders(q)) = 0
    BY <2>2, FS_EmptySet
  <2>4. \A m : Holders(m)' = Holders(m)
    BY <1>1 DEF Holders, reqVars
  <2>5. \A m \in Nodes' : ref'[m] = Cardinality(Holders(m)')
    BY <1>4, <2>1, <2>3, <2>4 DEF CoreInv, LockConservation
  <2>6. \A s \in Req : lock'[s] \in Nodes' \cup {Root}
    BY <1>1, <1>4 DEF CoreInv, LockConservation, reqVars
  <2>. QED  BY <2>5, <2>6 DEF LockConservation
<1>8. ControlInv' /\ UnlockedInv' /\ SizeInv'
  <2>1. at' \in 0 .. Len(Committed(r)) /\ PrefixOf(Committed(r), at') \in Nodes'
    BY <1>1, <1>2, <1>4 DEF q
  <2>. QED  BY <1>1, <2>1, InsertKeepsRequests
<1>. QED  BY <1>3, <1>6, <1>7, <1>8 DEF CoreInv

LEMMA CommitFullEdgeStep ==
    ASSUME CoreInv, NEW r \in Req, CommitFullEdge(r)
    PROVE  CoreInv'
<1>. DEFINE q == Committed(r)
            c == Child(q, at)
            incoming == SubSeq(table[r], at + 1, Len(c))
<1>1. /\ Inserting(r) /\ HasChild(q, at) /\ IsPrefix(c, q)
      /\ Free(IF incoming = EdgePages(c) THEN << >> ELSE incoming)
      /\ older' = Touched(Path(c), Nodes)
      /\ at' = Len(c)
      /\ UNCHANGED <<page, ref, cached, reqVars, pc, cur>>
  BY DEF CommitFullEdge, InsertFullEdge
<1>2. /\ q \in Seq(Key) /\ at \in Nat
      /\ table[r] \in Seq(Page) /\ Len(q) <= Len(table[r])
      /\ Len(table[r]) \in Nat /\ Len(q) \in Nat
  BY <1>1, InsertingFacts, LenProperties
<1>3. c \in Nodes /\ c \in Seq(Key)
  BY <1>1, OwnerProperties DEF HasChild, Child, CoreInv, TreeInv
<1>4. Len(c) \in 0 .. Len(q) /\ c = PrefixOf(q, Len(c))
  BY <1>1, <1>2, <1>3, PrefixIsPrefixOf
<1>5. incoming \in Seq(Page) /\ << >> \in Seq(Page)
  BY <1>2, <1>4, PartOfTable, EmptySeq
<1>6. reqVars' = reqVars /\ Nodes' = Nodes
  BY <1>1 DEF reqVars, Nodes
<1>. HIDE DEF c, q, incoming
<1>7. CoreTypes'
  <2>1. free' \in Seq(Page)
    BY <1>1, <1>5, ConcatProperties DEF Free, CoreInv, CoreTypes
  <2>2. older' \subseteq Nodes' \X Nodes'
    BY <1>1, <1>6 DEF CoreInv, CoreTypes, Touched, Path
  <2>3. at' \in Nat
    BY <1>1, <1>4
  <2>. QED  BY <1>1, <1>6, <2>1, <2>2, <2>3 DEF CoreInv, CoreTypes, reqVars
<1>8. TreeInv(Key)' /\ LockConservation'
  BY <1>1, TreeUntouched DEF CoreInv, reqVars
<1>9. ControlInv' /\ UnlockedInv' /\ SizeInv'
  BY <1>1, <1>3, <1>4, <1>6, InsertKeepsRequests DEF q
<1>. QED  BY <1>7, <1>8, <1>9 DEF CoreInv

LEMMA CommitSplitStep ==
    ASSUME CoreInv, NEW r \in Req, CommitSplit(r)
    PROVE  CoreInv'
<1>. DEFINE q == Committed(r)
            first == PrefixOf(q, at + 1)
            c == Child(q, at)
            k == SplitPoint(q, at)
            upper == PrefixOf(q, k)
<1>1. /\ Inserting(r) /\ InsertSplit(q, at) /\ HasChild(q, at)
      /\ ref' = [m \in Nodes \cup {upper} |-> IF m = upper THEN ref[c] ELSE ref[m]]
      /\ older' = Touched(Path(c) \cup {upper}, Nodes \cup {upper})
      /\ at' = k
      /\ UNCHANGED <<free, page, cached, reqVars, pc, cur>>
  BY DEF CommitSplit, InsertSplit
<1>2. /\ q \in Seq(Key) /\ Len(q) \in Nat /\ at \in Nat /\ at < Len(q)
  BY <1>1, InsertingFacts
<1>3. /\ first \in DOMAIN page /\ c \in Nodes /\ c \in Seq(Key)
      /\ \A m \in Nodes : IsPrefix(first, m) => IsPrefix(c, m)
  BY <1>1, OwnerProperties DEF HasChild, Child, CoreInv, TreeInv
<1>4. k \in at + 1 .. Len(q) /\ IsPrefix(upper, c)
  BY <1>1, <1>2, SplitPointProperties DEF CoreInv
<1>5. /\ upper \in Seq(Key) /\ first \in Seq(Key) /\ IsPrefix(first, upper)
  BY <1>2, <1>4, PrefixOfProperties, PrefixOfPrefixOf
<1>6. TreeInv(Key)'
  BY <1>1, <1>2, SplitKeepsTree DEF CoreInv
<1>. HIDE DEF q, first, c, k, upper
<1>7. /\ Nodes' = Nodes \cup {upper}
  BY <1>1 DEF Nodes
<1>8. CoreTypes'
  <2>1. Nodes' \subseteq Seq(Seq(Token)) /\ Ints(ref')
    BY <1>1, <1>3, <1>5, <1>7 DEF CoreInv, CoreTypes, Key, Ints, Nodes
  <2>2. older' \subseteq Nodes' \X Nodes'
    BY <1>1, <1>7 DEF CoreInv, CoreTypes, Touched, Path
  <2>3. at' \in Nat
    BY <1>1, <1>2, <1>4
  <2>. QED  BY <1>1, <2>1, <2>2, <2>3 DEF CoreInv, CoreTypes, reqVars
<1>9. LockConservation'
  <2>1. Holders(upper) = Holders(c)
    <3>1. ASSUME NEW s \in Holders(c)
          PROVE  s \in Holders(upper)
      BY <1>3, <1>4, <1>5, PrefixTransitive DEF Holders, CoreInv, CoreTypes, Key
    <3>2. ASSUME NEW s \in Holders(upper)
          PROVE  s \in Holders(c)
      <4>1. /\ s \in Req /\ lock[s] \in Nodes /\ lock[s] # Root /\ lock[s] \in Seq(Key)
            /\ IsPrefix(upper, lock[s])
        BY DEF Holders, CoreInv, LockConservation, CoreTypes, Key
      <4>2. IsPrefix(first, lock[s])
        BY <1>5, <4>1, PrefixTransitive
      <4>. QED  BY <1>3, <4>1, <4>2 DEF Holders
    <3>. QED  BY <3>1, <3>2
  <2>2. \A m : Holders(m)' = Holders(m)
    BY <1>1 DEF Holders, reqVars
  <2>3. \A m \in Nodes' : ref'[m] = Cardinality(Holders(m)')
    BY <1>1, <1>3, <1>7, <2>1, <2>2 DEF CoreInv, LockConservation
  <2>4. \A s \in Req : lock'[s] \in Nodes' \cup {Root}
    BY <1>1, <1>7 DEF CoreInv, LockConservation, reqVars
  <2>. QED  BY <2>3, <2>4 DEF LockConservation
<1>10. ControlInv' /\ UnlockedInv' /\ SizeInv'
  <2>1. at' \in 0 .. Len(Committed(r)) /\ PrefixOf(Committed(r), at') \in Nodes'
    BY <1>1, <1>2, <1>4, <1>7 DEF q, upper
  <2>. QED  BY <1>1, <2>1, InsertKeepsRequests
<1>. QED  BY <1>6, <1>8, <1>9, <1>10 DEF CoreInv

LEMMA CommitEndStep ==
    ASSUME CoreInv, NEW r \in Req, CommitEnd(r)
    PROVE  CoreInv'
<1>1. /\ pc = "insert" /\ cur = r /\ at = Len(Committed(r))
      /\ free' = free \o SubSeq(table[r], at + 1, Len(table[r]))
      /\ Unlock(lock[r])
      /\ table' = [table EXCEPT ![r] = << >>]
      /\ lock' = [lock EXCEPT ![r] = Root]
      /\ status' = [status EXCEPT ![r] = "finished"]
      /\ pc' = "idle" /\ cur' = NoReq /\ at' = 0
      /\ UNCHANGED <<out, hit>>
  BY DEF CommitEnd, Free
<1>2. /\ TreeInv(Key)' /\ LockConservation'
      /\ Nodes' = Nodes /\ Ints(ref') /\ older' \subseteq Nodes \X Nodes
      /\ UNCHANGED <<page, cached>>
      /\ lock' \in [Req -> Seq(Seq(Token))]
  BY <1>1, UnlockKeepsTree
<1>3. SubSeq(table[r], at + 1, Len(table[r])) \in Seq(Page)
  BY PartOfTable, LenProperties DEF CoreInv, CoreTypes
<1>4. free' \in Seq(Page)
  BY <1>1, <1>3, ConcatProperties DEF CoreInv, CoreTypes
<1>5. CoreTypes'
  BY <1>1, <1>2, <1>4, EmptySeq DEF CoreInv, CoreTypes
<1>6. ControlInv' /\ UnlockedInv' /\ SizeInv'
  BY <1>1 DEF CoreInv, CoreTypes, ControlInv, UnlockedInv, SizeInv, Peak, Longest
<1>. QED  BY <1>2, <1>5, <1>6 DEF CoreInv

LEMMA StutterStep ==
    ASSUME CoreInv, UNCHANGED vars
    PROVE  CoreInv'
<1>1. CoreTypes'
  BY DEF vars, CoreInv, CoreTypes, Nodes
<1>2. TreeInv(Key)' /\ LockConservation'
  BY TreeUntouched DEF vars, CoreInv
<1>3. ControlInv' /\ UnlockedInv' /\ SizeInv'
  BY DEF vars, CoreInv, ControlInv, UnlockedInv, SizeInv, Peak, Longest, Committed,
         CommitFits, Tokens, Nodes
<1>. QED  BY <1>1, <1>2, <1>3 DEF CoreInv

-----------------------------------------------------------------------------
(* Theorems *)

\* Every step of the scheduler's calls keeps CoreInv.
LEMMA CoreIsInductive == IInv /\ [Next]_vars => CoreInv'
<1>. SUFFICES ASSUME IInv, [Next]_vars
              PROVE  CoreInv'
  OBVIOUS
<1>. CoreInv
  BY DEF IInv
<1>1. ASSUME NEW r \in Req, Admit(r)
      PROVE  CoreInv'
  BY <1>1, AdmitStep
<1>2. ASSUME NEW r \in Req, PrefillInit(r)
      PROVE  CoreInv'
  BY <1>2, PrefillInitStep
<1>3. ASSUME NEW r \in Req, NEW t \in Gen[r], Generate(r, t)
      PROVE  CoreInv'
  BY <1>3, GenerateStep
<1>4. ASSUME NEW r \in Req, Retire(r) \/ Abort(r)
      PROVE  CoreInv'
  BY <1>4, FreeRequestKvStep DEF Retire, Abort
<1>5. ASSUME NEW r \in Req, AbortUninitialised(r)
      PROVE  CoreInv'
  BY <1>5, AbortUninitialisedStep
<1>14. ASSUME NEW r \in Req, CommitRaises(r)
       PROVE  CoreInv'
  BY <1>14, CommitRaisesStep
<1>6. ASSUME NEW r \in Req, CommitLeaf(r)
      PROVE  CoreInv'
  BY <1>6, CommitLeafStep
<1>7. ASSUME NEW r \in Req, CommitFullEdge(r)
      PROVE  CoreInv'
  BY <1>7, CommitFullEdgeStep
<1>8. ASSUME NEW r \in Req, CommitSplit(r)
      PROVE  CoreInv'
  BY <1>8, CommitSplitStep
<1>9. ASSUME NEW r \in Req, CommitEnd(r)
      PROVE  CoreInv'
  BY <1>9, CommitEndStep
<1>10. ASSUME NEW n \in Nodes, AllocEvict(n)
       PROVE  CoreInv'
  BY <1>10, AllocEvictStep
<1>11. CASE AllocDone
  BY <1>11, AllocDoneStep
<1>12. CASE AllocFail
  BY <1>12, AllocFailStep
<1>13. CASE Terminated \/ UNCHANGED vars
  BY <1>13, StutterStep DEF Terminated
<1>. QED  BY <1>1, <1>2, <1>3, <1>4, <1>5, <1>6, <1>7, <1>8, <1>9, <1>10, <1>11, <1>12, <1>13,
          <1>14 DEF Next

\* What the tree holds are pages of the pool: a new leaf takes them from the table.
LEMMA TreeHoldsPages ==
    IInv /\ [Next]_vars => /\ \A p \in DOMAIN page' : page'[p] \in Page
                          /\ pc' \in {"idle", "allocate", "insert"}
<1>. SUFFICES ASSUME IInv, [Next]_vars
              PROVE  /\ \A p \in DOMAIN page' : page'[p] \in Page
                     /\ pc' \in {"idle", "allocate", "insert"}
  OBVIOUS
<1>. CoreInv /\ (\A p \in DOMAIN page : page[p] \in Page) /\ pc \in {"idle", "allocate", "insert"}
  BY DEF IInv, TypeOK
<1>1. ASSUME NEW r \in Req, CommitLeaf(r)
      PROVE  /\ \A p \in DOMAIN page' : page'[p] \in Page
             /\ UNCHANGED pc
  <2>1. /\ Inserting(r) /\ InsertLeaf(Committed(r), table[r], at) /\ UNCHANGED pc
    BY <1>1 DEF CommitLeaf
  <2>2. /\ Committed(r) \in Seq(Key) /\ Len(Committed(r)) \in Nat /\ at \in Nat
        /\ table[r] \in Seq(Page) /\ Len(Committed(r)) <= Len(table[r])
    BY <2>1, InsertingFacts
  <2>3. \A i \in at + 1 .. Len(Committed(r)) :
           table[r][Len(PrefixOf(Committed(r), i))] \in Page
    <3>1. SUFFICES ASSUME NEW i \in at + 1 .. Len(Committed(r))
                   PROVE  table[r][Len(PrefixOf(Committed(r), i))] \in Page
      OBVIOUS
    <3>2. i \in 0 .. Len(Committed(r)) /\ i \in 1 .. Len(table[r])
      BY <2>2, LenProperties
    <3>3. Len(PrefixOf(Committed(r), i)) = i
      BY <2>2, <3>2, PrefixOfProperties
    <3>. QED  BY <2>2, <3>2, <3>3, ElementOfSeq
  <2>. QED  BY <2>1, <2>3 DEF InsertLeaf
<1>2. ASSUME NEW n \in Nodes, AllocEvict(n)
      PROVE  (\A p \in DOMAIN page' : page'[p] \in Page) /\ UNCHANGED pc
  BY <1>2 DEF AllocEvict, EvictLeaf
<1>3. ASSUME NEW r \in Req, \/ Admit(r) \/ PrefillInit(r) \/ AbortUninitialised(r)
                            \/ Retire(r) \/ Abort(r) \/ CommitRaises(r)
                            \/ CommitFullEdge(r) \/ CommitSplit(r) \/ CommitEnd(r)
                            \/ \E t \in Gen[r] : Generate(r, t)
      PROVE  UNCHANGED page /\ pc' \in {"idle", "allocate", "insert"}
  BY <1>3 DEF Admit, PrefillInit, MatchAndLock, AbortUninitialised, Retire, Abort,
              CommitRaises, FreeRequestKv, CommitFullEdge, InsertFullEdge, CommitSplit, InsertSplit,
              CommitEnd, Unlock, Generate
<1>4. ASSUME AllocDone \/ AllocFail \/ Terminated \/ UNCHANGED vars
      PROVE  UNCHANGED page /\ pc' \in {"idle", "allocate", "insert"}
  BY <1>4 DEF AllocDone, AllocFail, Unlock, Terminated, vars
<1>. QED  BY <1>1, <1>2, <1>3, <1>4 DEF Next

\* IInv is inductive: every step of the scheduler's calls keeps it.
THEOREM InvariantIsInductive == IInv /\ [Next]_vars => IInv'
<1>1. IInv /\ [Next]_vars => CoreInv'
  BY CoreIsInductive
<1>2. CoreInv' => CoreTypes'
  BY DEF CoreInv
<1>. QED  BY <1>1, <1>2, TreeHoldsPages DEF IInv, TypeOK, CoreTypes

\* Every variable keeps its type, whatever the sizes and the order of the calls:
\* in particular allocate pops only pages, and insert_and_return never reads past
\* the page table of the request it commits.
THEOREM TypeCorrect == Spec => []TypeOK
<1>1. IInv => TypeOK
  BY DEF IInv, CoreInv
<1>. QED  BY InitIInv, InvariantIsInductive, <1>1, PTL DEF Spec

\* ref_count of a node is the number of requests that hold a lock at or below
\* it, at every point of every call.
THEOREM LocksConserved == Spec => []LockConservation
<1>1. IInv => LockConservation
  BY DEF IInv, CoreInv
<1>. QED  BY InitIInv, InvariantIsInductive, <1>1, PTL DEF Spec

\* The tree's invariant says that it is a compressed trie.
LEMMA TreeIsWellFormed ==
    ASSUME TreeInv(Key)
    PROVE  TreeWellFormed
<1>1. ASSUME NEW p \in DOMAIN page
      PROVE  /\ \A i \in 1 .. Len(p) : PrefixOf(p, i) \in DOMAIN page
             /\ \E n \in Nodes : IsPrefix(p, n)
             /\ \A n \in Nodes : IsPrefix(p, n) => IsPrefix(OwnerNode(p), n)
  BY OwnerProperties DEF TreeInv
<1>. QED  BY <1>1 DEF TreeWellFormed, TreeInv

\* The radix tree is a compressed trie after every insert, split and eviction.
THEOREM TreeStaysWellFormed == Spec => []TreeWellFormed
<1>1. IInv => TreeWellFormed
  BY TreeIsWellFormed DEF IInv, CoreInv
<1>. QED  BY InitIInv, InvariantIsInductive, <1>1, PTL DEF Spec

\* A running request has a page for every token of its sequence, next to requests
\* with negative max_tokens as well, but it is not one of them.
THEOREM TablesCoverTokens == Spec => []TableCoversTokens
<1>1. IInv => TableCoversTokens
  BY PositiveCovers DEF TableCoversTokens, IInv, CoreInv
<1>. QED  BY InitIInv, InvariantIsInductive, <1>1, PTL DEF Spec

\* Only with a negative max_tokens does a table come out too short for a commit:
\* neither a match, a chunk, an eviction nor another request's table makes it so.
THEOREM CommitRaisesOnlyNegative == Spec => OnlyNegativeRaises
<1>1. ASSUME IInv, NEW r \in Req, CommitRaises(r)
      PROVE  MaxNew[r] < 0
  <2>1. status[r] = "running" /\ ~ CommitFits(r)
    BY <1>1 DEF CommitRaises
  <2>2. MaxNew[r] \in Int \ {0}
    BY EngineAssumption
  <2>. QED  BY <1>1, <2>1, <2>2, PositiveCovers DEF IInv, CoreInv
<1>2. IInv /\ [Next]_vars => [\A r \in Req : CommitRaises(r) => MaxNew[r] < 0]_vars
  BY <1>1
<1>. QED  BY InitIInv, InvariantIsInductive, <1>2, PTL DEF Spec, OnlyNegativeRaises

-----------------------------------------------------------------------------
(* Counting prefixes *)

\* No prefix of the tree is longer than the number of its pages.
LEMMA LengthBounded ==
    ASSUME NEW K, TreeInv(K), IsFiniteSet(DOMAIN page), NEW p \in DOMAIN page
    PROVE  Len(p) \in Nat /\ Len(p) <= Cardinality(DOMAIN page)
<1>. DEFINE S == {PrefixOf(p, i) : i \in 0 + 1 .. Len(p)}
<1>1. p \in Seq(K) /\ Len(p) \in Nat
  BY LenProperties DEF TreeInv
<1>2. S \subseteq DOMAIN page
  BY DEF TreeInv
<1>3. Cardinality(S) = Len(p) - 0
  <2>1. 0 \in 0 .. Len(p)
    BY <1>1
  <2>. QED  BY <1>1, <2>1, PrefixesCounted, Zenon
<1>. HIDE DEF S
<1>4. Cardinality(S) <= Cardinality(DOMAIN page)
  BY <1>2, FS_Subset
<1>. QED  BY <1>1, <1>3, <1>4

\* What a new leaf adds was not in the tree.
LEMMA LeafIsNew ==
    ASSUME NEW K, TreeInv(K), NEW q \in Seq(K), NEW a \in Nat, a < Len(q), ~ HasChild(q, a)
    PROVE  \A i \in a + 1 .. Len(q) : PrefixOf(q, i) \notin DOMAIN page
<1>. SUFFICES ASSUME NEW i \in a + 1 .. Len(q), PrefixOf(q, i) \in DOMAIN page
              PROVE  FALSE
  OBVIOUS
<1>1. Len(q) \in Nat /\ i \in 0 .. Len(q) /\ a + 1 \in 0 .. i /\ a + 1 \in 1 .. i
  BY LenProperties
<1>2. Len(PrefixOf(q, i)) = i /\ PrefixOf(PrefixOf(q, i), a + 1) = PrefixOf(q, a + 1)
  BY <1>1, PrefixOfProperties, PrefixOfPrefixOf
<1>3. PrefixOf(q, a + 1) \in DOMAIN page
  BY <1>1, <1>2 DEF TreeInv
<1>. QED  BY <1>3 DEF HasChild

-----------------------------------------------------------------------------
(* What a step does to the pages of the tree *)

\* Eviction takes the pages of one unlocked leaf and leaves what is locked.
LEMMA EvictionKeepsLocked ==
    ASSUME IInv, NEW n \in Nodes, EvictLeaf(n)
    PROVE  /\ DOMAIN page' = DOMAIN page \ Edge(n) /\ Edge(n) \subseteq DOMAIN page
           /\ \A p \in DOMAIN page' : page'[p] = page[p]
           /\ \A r \in Req : \A p \in DOMAIN page :
                 IsPrefix(p, lock[r]) => p \in DOMAIN page'
<1>1. /\ page' = [p \in DOMAIN page \ Edge(n) |-> page[p]] /\ ref[n] = 0
      /\ Edge(n) \subseteq DOMAIN page
  BY DEF EvictLeaf, EvictableLeaves, Edge
<1>2. ASSUME NEW r \in Req, NEW p \in DOMAIN page, IsPrefix(p, lock[r]), p \in Edge(n)
      PROVE  FALSE
  <2>1. OwnerNode(p) = n /\ p \in Seq(Key) /\ p # << >>
    BY <1>2 DEF Edge, IInv, CoreInv, TreeInv
  <2>2. lock[r] # Root
    BY <1>2, <2>1, EmptySeq, LenProperties DEF Root, IsPrefix
  <2>3. lock[r] \in Nodes
    BY <2>2 DEF IInv, CoreInv, LockConservation
  <2>4. IsPrefix(n, lock[r])
    BY <1>2, <2>1, <2>3, OwnerProperties DEF IInv, CoreInv
  <2>5. r \in Holders(n)
    BY <2>2, <2>4 DEF Holders
  <2>6. Holders(n) = {}
    BY <1>1, HoldersFinite, FS_EmptySet DEF IInv, CoreInv, LockConservation
  <2>. QED  BY <2>5, <2>6
<1>. QED  BY <1>1, <1>2

\* The commit of a leaf adds to the pages of the tree and replaces none.
LEMMA LeafOnlyAdds ==
    ASSUME CoreInv, NEW r \in Req, CommitLeaf(r)
    PROVE  /\ \A p \in DOMAIN page : p \in DOMAIN page' /\ page'[p] = page[p]
           /\ UNCHANGED reqVars
           /\ IsFiniteSet(DOMAIN page) =>
                 /\ IsFiniteSet(DOMAIN page')
                 /\ CachedCountExact => CachedCountExact'
<1>. DEFINE q   == Committed(r)
            new == {PrefixOf(q, i) : i \in at + 1 .. Len(q)}
<1>1. /\ Inserting(r) /\ InsertLeaf(q, table[r], at) /\ UNCHANGED reqVars
  BY DEF CommitLeaf
<1>2. /\ q \in Seq(Key) /\ Len(q) \in Nat /\ at \in Nat /\ at < Len(q) /\ at \in 0 .. Len(q)
  BY <1>1, InsertingFacts
<1>3. /\ page' = [p \in DOMAIN page \cup new |->
                    IF p \in new THEN table[r][Len(p)] ELSE page[p]]
      /\ cached' = cached + (Len(q) - at) /\ ~ HasChild(q, at)
  BY <1>1 DEF InsertLeaf
<1>4. new \cap DOMAIN page = {}
  BY <1>2, <1>3, LeafIsNew DEF CoreInv
<1>5. IsFiniteSet(new) /\ Cardinality(new) = Len(q) - at
  BY <1>2, PrefixesCounted
<1>. HIDE DEF new, q
<1>6. ASSUME IsFiniteSet(DOMAIN page)
      PROVE  /\ IsFiniteSet(DOMAIN page')
             /\ CachedCountExact => CachedCountExact'
  <2>1. DOMAIN page' = DOMAIN page \cup new
    BY <1>3
  <2>2. /\ IsFiniteSet(DOMAIN page \cup new)
        /\ Cardinality(DOMAIN page \cup new) =
              Cardinality(DOMAIN page) + Cardinality(new) - Cardinality(DOMAIN page \cap new)
    BY <1>5, <1>6, FS_Union
  <2>3. Cardinality(DOMAIN page \cap new) = 0
    BY <1>4, FS_EmptySet
  <2>4. Cardinality(DOMAIN page) \in Nat
    BY <1>6, FS_CardinalityType
  <2>. QED  BY <1>2, <1>3, <1>5, <2>1, <2>2, <2>3, <2>4 DEF CachedCountExact
<1>. QED  BY <1>1, <1>3, <1>4, <1>6

-----------------------------------------------------------------------------
(* The invariant of the borrowers *)

\* The borrowed prefix of r is locked and holds the first pages of its table.
Borrows(r) ==
    table[r] # << >> =>
        LET q == Keys(Prompt[r])
        IN  /\ hit[r] \in 0 .. Len(q) /\ hit[r] <= Len(table[r])
            /\ hit[r] > 0 => IsPrefix(PrefixOf(q, hit[r]), lock[r])
            /\ \A i \in 1 .. hit[r] : /\ PrefixOf(q, i) \in DOMAIN page
                                      /\ page[PrefixOf(q, i)] = table[r][i]

\* Requests that wait for their prefill hold no page, and one in allocate just
\* the pages it borrowed.
PagesInv ==
    /\ \A r \in Req :
          /\ Borrows(r)
          /\ status[r] = "waiting" => hit[r] = 0 /\ table[r] = << >>
          /\ status[r] = "admitted" /\ ~ (pc = "allocate" /\ cur = r) =>
                hit[r] = 0 /\ table[r] = << >>
    /\ pc = "allocate" => hit[cur] = Len(table[cur])

BorrowInv ==
    /\ PagesInv
    /\ IsFiniteSet(DOMAIN page) /\ CachedCountExact

\* A request that keeps its table and its lock keeps its borrowed prefix, if the
\* step leaves the locked pages in the tree.
LEMMA BorrowKept ==
    ASSUME IInv, NEW r \in Req, Borrows(r),
           table'[r] = table[r], hit'[r] = hit[r], lock'[r] = lock[r],
           \A p \in DOMAIN page : IsPrefix(p, lock[r]) =>
              p \in DOMAIN page' /\ page'[p] = page[p]
    PROVE  Borrows(r)'
<1>. DEFINE q == Keys(Prompt[r])
<1>1. q \in Seq(Key) /\ lock[r] \in Seq(Key) /\ hit[r] \in Nat
  BY EngineAssumption, KeysType DEF IInv, CoreInv, TypeOK, Key
<1>. HIDE DEF q
<1>2. SUFFICES ASSUME table[r] # << >>
               PROVE  /\ hit[r] \in 0 .. Len(q) /\ hit[r] <= Len(table[r])
                      /\ hit[r] > 0 => IsPrefix(PrefixOf(q, hit[r]), lock[r])
                      /\ \A i \in 1 .. hit[r] : /\ PrefixOf(q, i) \in DOMAIN page'
                                                /\ page'[PrefixOf(q, i)] = table[r][i]
  BY DEF Borrows, q
<1>3. /\ hit[r] \in 0 .. Len(q) /\ hit[r] <= Len(table[r])
      /\ hit[r] > 0 => IsPrefix(PrefixOf(q, hit[r]), lock[r])
      /\ \A i \in 1 .. hit[r] : /\ PrefixOf(q, i) \in DOMAIN page
                                /\ page[PrefixOf(q, i)] = table[r][i]
  BY <1>2 DEF Borrows, q
<1>4. ASSUME NEW i \in 1 .. hit[r]
      PROVE  IsPrefix(PrefixOf(q, i), lock[r])
  <2>1. i \in 0 .. hit[r] /\ i \in 0 .. Len(q) /\ hit[r] > 0
    BY <1>1, <1>3
  <2>2. IsPrefix(PrefixOf(q, i), PrefixOf(q, hit[r]))
    BY <1>1, <1>3, <2>1, PrefixOfPrefixOf
  <2>3. PrefixOf(q, i) \in Seq(Key) /\ PrefixOf(q, hit[r]) \in Seq(Key)
    BY <1>1, <1>3, <2>1, PrefixOfProperties
  <2>. QED  BY <1>1, <1>3, <2>1, <2>2, <2>3, PrefixTransitive
<1>. QED  BY <1>3, <1>4

\* A step that touches neither the tree's pages nor what the requests borrow.
Quiet ==
    /\ UNCHANGED <<page, cached, table, hit, lock>>
    /\ \A r \in Req : \/ status'[r] = status[r]
                      \/ status'[r] = "finished"
                      \/ status[r] = "waiting" /\ status'[r] = "admitted"
    /\ \/ pc = "idle" /\ pc' \in {"idle", "insert"}
       \/ UNCHANGED <<pc, cur, status>>

LEMMA QuietKeepsBorrow ==
    ASSUME IInv, BorrowInv, Quiet
    PROVE  BorrowInv'
<1>1. ASSUME NEW r \in Req PROVE Borrows(r)'
  BY <1>1, BorrowKept DEF Quiet, BorrowInv, PagesInv
<1>2. PagesInv'
  BY <1>1 DEF Quiet, BorrowInv, PagesInv
<1>. QED  BY <1>2 DEF Quiet, BorrowInv, CachedCountExact

LEMMA PrefillInitKeepsBorrow ==
    ASSUME IInv, BorrowInv, NEW r \in Req, PrefillInit(r)
    PROVE  BorrowInv'
<1>. DEFINE q == Keys(Prompt[r])
<1>1. /\ pc = "idle" /\ status[r] = "admitted" /\ pc' = "allocate" /\ cur' = r
      /\ UNCHANGED <<status, page, cached>>
      /\ table \in [Req -> Seq(Page)] /\ hit \in [Req -> Nat]
      /\ lock \in [Req -> Seq(Key)]
  BY DEF PrefillInit, MatchAndLock, IInv, CoreInv, TypeOK, Key
<1>2. q \in Seq(Key)
  BY EngineAssumption, KeysType
<1>3. CASE RadixEnabled
  <2>1. /\ table' = [table EXCEPT ![r] = MatchedPages(q)]
        /\ hit' = [hit EXCEPT ![r] = MatchLen(q)]
        /\ lock' = [lock EXCEPT ![r] = LastNode(q)]
    BY <1>3 DEF PrefillInit
  <2>. HIDE DEF q
  <2>2. /\ MatchLen(q) \in 0 .. Len(q)
        /\ \A i \in 1 .. MatchLen(q) : PrefixOf(q, i) \in DOMAIN page
    BY <1>2, MatchLenProperties
  <2>3. /\ MatchedPages(q) \in Seq(Page) /\ Len(MatchedPages(q)) = MatchLen(q)
        /\ \A i \in 1 .. MatchLen(q) : MatchedPages(q)[i] = page[PrefixOf(q, i)]
    <3>1. MatchedPages(q) \in [1 .. MatchLen(q) -> Page] /\ MatchLen(q) \in Nat
      BY <2>2 DEF MatchedPages, IInv, CoreInv, TypeOK
    <3>. QED  BY <3>1, FunctionIsSequence DEF MatchedPages
  <2>4. MatchLen(q) > 0 => IsPrefix(PrefixOf(q, MatchLen(q)), LastNode(q))
    <3>1. MatchLen(q) > 0 => PrefixOf(q, MatchLen(q)) \in DOMAIN page
      BY <2>2
    <3>. QED  BY <2>2, <3>1, OwnerProperties DEF LastNode, IInv, CoreInv
  <2>5. Borrows(r)'
    BY <1>1, <2>1, <2>2, <2>3, <2>4 DEF Borrows, q
  <2>6. ASSUME NEW s \in Req, s # r PROVE Borrows(s)'
    BY <1>1, <2>1, <2>6, BorrowKept DEF BorrowInv, PagesInv
  <2>7. PagesInv'
    BY <1>1, <2>1, <2>3, <2>5, <2>6 DEF BorrowInv, PagesInv
  <2>. QED  BY <1>1, <2>7 DEF BorrowInv, CachedCountExact
<1>4. CASE ~ RadixEnabled
  <2>1. UNCHANGED <<table, hit, lock>>
    BY <1>4 DEF PrefillInit
  <2>2. ASSUME NEW s \in Req PROVE Borrows(s)'
    BY <1>1, <2>1, BorrowKept DEF BorrowInv, PagesInv
  <2>3. hit[r] = Len(table[r])
    BY <1>1, EmptySeq DEF BorrowInv, PagesInv
  <2>4. PagesInv'
    BY <1>1, <2>1, <2>2, <2>3 DEF BorrowInv, PagesInv
  <2>. QED  BY <1>1, <2>4 DEF BorrowInv, CachedCountExact
<1>. QED  BY <1>3, <1>4

LEMMA AllocEvictKeepsBorrow ==
    ASSUME IInv, BorrowInv, NEW n \in Nodes, AllocEvict(n)
    PROVE  BorrowInv'
<1>1. /\ EvictLeaf(n) /\ UNCHANGED <<status, out, table, hit, lock, pc, cur, at>>
      /\ cached' = cached - Len(EdgePages(n))
  BY DEF AllocEvict, EvictLeaf, reqVars
<1>2. /\ DOMAIN page' = DOMAIN page \ Edge(n) /\ Edge(n) \subseteq DOMAIN page
      /\ \A p \in DOMAIN page' : page'[p] = page[p]
      /\ \A r \in Req : \A p \in DOMAIN page :
            IsPrefix(p, lock[r]) => p \in DOMAIN page'
  BY <1>1, EvictionKeepsLocked
<1>3. ASSUME NEW r \in Req PROVE Borrows(r)'
  BY <1>1, <1>2, BorrowKept DEF BorrowInv, PagesInv
<1>4. PagesInv'
  BY <1>1, <1>3 DEF BorrowInv, PagesInv
<1>5. IsFiniteSet(DOMAIN page') /\ CachedCountExact'
  <2>1. /\ IsFiniteSet(DOMAIN page \ Edge(n))
        /\ Cardinality(DOMAIN page \ Edge(n)) =
              Cardinality(DOMAIN page) - Cardinality(DOMAIN page \cap Edge(n))
    BY FS_Difference DEF BorrowInv
  <2>2. DOMAIN page \cap Edge(n) = Edge(n)
    BY <1>2
  <2>3. Len(EdgePages(n)) = Cardinality(Edge(n))
    <3>1. /\ Cardinality(Edge(n)) \in Nat
          /\ \A i \in 1 .. Cardinality(Edge(n)) : PrefixOf(n, EdgeStart(n) + i) \in DOMAIN page
      BY EdgeProperties DEF IInv, CoreInv
    <3>2. EdgePages(n) \in [1 .. Cardinality(Edge(n)) -> Page]
      BY <3>1 DEF EdgePages, IInv, CoreInv, TypeOK
    <3>. QED  BY <3>1, <3>2, FunctionIsSequence
  <2>. QED  BY <1>1, <1>2, <2>1, <2>2, <2>3 DEF BorrowInv, CachedCountExact
<1>. QED  BY <1>4, <1>5 DEF BorrowInv

LEMMA AllocDoneKeepsBorrow ==
    ASSUME IInv, BorrowInv, AllocDone
    PROVE  BorrowInv'
<1>0. PICK c \in Req : c = cur
  BY DEF AllocDone, IInv, CoreInv, ControlInv
<1>. DEFINE t == table[c] \o Popped(Extra(c))
<1>1. /\ pc = "allocate" /\ cur = c /\ status[c] = "admitted"
      /\ table' = [table EXCEPT ![c] = t]
      /\ status' = [status EXCEPT ![c] = "running"]
      /\ pc' = "idle" /\ UNCHANGED <<page, ref, cached, hit, lock>>
      /\ table \in [Req -> Seq(Page)] /\ hit[c] = Len(table[c])
      /\ hit[c] \in Nat
      /\ status \in [Req -> {"waiting", "admitted", "running", "finished"}]
  BY <1>0 DEF AllocDone, IInv, CoreInv, ControlInv, TypeOK, BorrowInv, PagesInv
<1>2. /\ hit[c] <= Len(t) /\ \A i \in 1 .. hit[c] : t[i] = table[c][i]
  <2>1. /\ Peak(c) \in Int /\ Len(table[c]) \in Nat /\ Len(free) \in Nat
    BY <1>1, Sizes, LenProperties DEF IInv, CoreInv, TypeOK
  <2>2. Extra(c) \in 0 .. Len(free)
    BY <1>0, <2>1 DEF AllocDone, Extra
  <2>3. Popped(Extra(c)) \in Seq(Page) /\ Len(Popped(Extra(c))) = Extra(c)
    BY <2>2, AllocateTypes DEF IInv, CoreInv, TypeOK
  <2>. QED  BY <1>1, <2>1, <2>2, <2>3, ConcatProperties
<1>. HIDE DEF t
<1>3. Borrows(c)'
  <2>1. CASE table[c] = << >>
    <3>1. hit[c] = 0 /\ Keys(Prompt[c]) \in Seq(Key)
      BY <1>1, <2>1, EmptySeq, EngineAssumption, KeysType
    <3>. QED  BY <1>1, <1>2, <3>1, LenProperties DEF Borrows
  <2>2. CASE table[c] # << >>
    BY <1>1, <1>2, <2>2 DEF Borrows, BorrowInv, PagesInv
  <2>. QED  BY <2>1, <2>2
<1>4. ASSUME NEW r \in Req, r # c PROVE Borrows(r)'
  BY <1>1, <1>4, BorrowKept DEF BorrowInv, PagesInv
<1>5. PagesInv'
  BY <1>1, <1>3, <1>4 DEF BorrowInv, PagesInv
<1>. QED  BY <1>1, <1>5 DEF BorrowInv, CachedCountExact

\* A request gives its pages and its lock back.
LEMMA ReleaseKeepsBorrow ==
    ASSUME IInv, BorrowInv, NEW r \in Req,
           UNCHANGED <<page, cached>>, pc' = "idle",
           table' = [table EXCEPT ![r] = << >>],
           hit' = hit \/ hit' = [hit EXCEPT ![r] = 0],
           lock' = [lock EXCEPT ![r] = Root] \/ lock' = lock,
           \/ status' = [status EXCEPT ![r] = "finished"] /\ pc \in {"idle", "insert"}
           \/ /\ status' = [status EXCEPT ![r] = "waiting"] /\ hit'[r] = 0
              /\ pc = "allocate" /\ cur = r
    PROVE  BorrowInv'
<1>1. /\ table \in [Req -> Seq(Page)] /\ hit \in [Req -> Nat] /\ lock \in [Req -> Seq(Key)]
      /\ status \in [Req -> {"waiting", "admitted", "running", "finished"}]
  BY DEF IInv, CoreInv, TypeOK, Key
<1>2. Borrows(r)'
  BY <1>1 DEF Borrows
<1>3. ASSUME NEW s \in Req, s # r PROVE Borrows(s)'
  BY <1>1, <1>3, BorrowKept DEF BorrowInv, PagesInv
<1>4. PagesInv'
  BY <1>1, <1>2, <1>3 DEF BorrowInv, PagesInv
<1>. QED  BY <1>4 DEF BorrowInv, CachedCountExact

LEMMA CommitLeafKeepsBorrow ==
    ASSUME IInv, BorrowInv, NEW r \in Req, CommitLeaf(r)
    PROVE  BorrowInv'
<1>1. /\ \A p \in DOMAIN page : p \in DOMAIN page' /\ page'[p] = page[p]
      /\ UNCHANGED <<status, out, table, hit, lock, pc, cur>>
      /\ IsFiniteSet(DOMAIN page') /\ CachedCountExact'
  BY LeafOnlyAdds DEF IInv, BorrowInv, reqVars, CommitLeaf
<1>2. ASSUME NEW s \in Req PROVE Borrows(s)'
  BY <1>1, BorrowKept DEF BorrowInv, PagesInv
<1>3. PagesInv'
  BY <1>1, <1>2 DEF BorrowInv, PagesInv
<1>. QED  BY <1>1, <1>3 DEF BorrowInv

LEMMA InitBorrowInv == Init => BorrowInv
<1>. SUFFICES ASSUME Init
              PROVE  BorrowInv
  OBVIOUS
<1>1. PagesInv
  BY DEF Init, PagesInv, Borrows
<1>2. IsFiniteSet(DOMAIN page) /\ CachedCountExact
  BY FS_EmptySet DEF Init, CacheInit, CachedCountExact
<1>. QED  BY <1>1, <1>2 DEF BorrowInv

\* BorrowInv is inductive together with IInv.
LEMMA BorrowInvInductive == IInv /\ BorrowInv /\ [Next]_vars => BorrowInv'
<1>. SUFFICES ASSUME IInv, BorrowInv, [Next]_vars
              PROVE  BorrowInv'
  OBVIOUS
<1>0. ASSUME Quiet PROVE BorrowInv'
  BY <1>0, QuietKeepsBorrow
<1>1. ASSUME NEW r \in Req, Admit(r) \/ AbortUninitialised(r)
      PROVE  Quiet
  BY <1>1 DEF Quiet, Admit, AbortUninitialised, IInv, CoreInv, TypeOK
<1>2. ASSUME NEW r \in Req, PrefillInit(r)
      PROVE  BorrowInv'
  BY <1>2, PrefillInitKeepsBorrow
<1>3. ASSUME NEW r \in Req, NEW t \in Gen[r], Generate(r, t)
      PROVE  Quiet
  BY <1>3 DEF Quiet, Generate
<1>4. ASSUME NEW r \in Req, FreeRequestKv(r)
      PROVE  Quiet \/ BorrowInv'
  <2>1. CASE RadixEnabled
    BY <1>4, <2>1 DEF Quiet, FreeRequestKv, reqVars
  <2>2. CASE ~ RadixEnabled
    BY <1>4, <2>2, ReleaseKeepsBorrow DEF FreeRequestKv
  <2>. QED  BY <2>1, <2>2
<1>5. ASSUME NEW r \in Req, CommitLeaf(r)
      PROVE  BorrowInv'
  BY <1>5, CommitLeafKeepsBorrow
<1>6. ASSUME NEW r \in Req, CommitFullEdge(r) \/ CommitSplit(r)
      PROVE  Quiet
  BY <1>6 DEF Quiet, CommitFullEdge, InsertFullEdge, CommitSplit, InsertSplit, reqVars
<1>7. ASSUME NEW r \in Req, CommitEnd(r)
      PROVE  BorrowInv'
  BY <1>7, ReleaseKeepsBorrow DEF CommitEnd, Unlock
<1>8. ASSUME NEW n \in Nodes, AllocEvict(n)
      PROVE  BorrowInv'
  BY <1>8, AllocEvictKeepsBorrow
<1>9. CASE AllocDone
  BY <1>9, AllocDoneKeepsBorrow
<1>10. CASE AllocFail
  <2>1. PICK r \in Req : r = cur
    BY <1>10 DEF AllocFail, IInv, CoreInv, ControlInv
  <2>2. hit'[r] = 0
    BY <1>10, <2>1 DEF AllocFail, IInv, CoreInv, TypeOK
  <2>. QED  BY <1>10, <2>1, <2>2, ReleaseKeepsBorrow DEF AllocFail, Unlock
<1>11. ASSUME Terminated \/ UNCHANGED vars
       PROVE  Quiet
  BY <1>11 DEF Quiet, Terminated, vars
<1>12. ASSUME NEW r \in Req, CommitRaises(r)
       PROVE  Quiet
  BY <1>12 DEF Quiet, CommitRaises, IInv, CoreInv, TypeOK
<1>. QED  BY <1>0, <1>1, <1>2, <1>3, <1>4, <1>5, <1>6, <1>7, <1>8, <1>9, <1>10, <1>11, <1>12
          DEF Next, Retire, Abort

-----------------------------------------------------------------------------
(* Theorems *)

\* BorrowInv holds in every reachable state.
THEOREM BorrowInvariant == Spec => [](IInv /\ BorrowInv)
BY InitIInv, InitBorrowInv, InvariantIsInductive, BorrowInvInductive, PTL DEF Spec

\* While a request holds borrowed pages they are the tree's pages of its prompt,
\* whatever is evicted, inserted, split or aborted meanwhile.
THEOREM BorrowsPinned == Spec => []BorrowedPagesPinned
<1>1. BorrowInv => BorrowedPagesPinned
  BY DEF BorrowInv, PagesInv, Borrows, BorrowedPagesPinned
<1>. QED  BY BorrowInvariant, <1>1, PTL

\* The counter behind num_cached_pages is the number of pages in the tree.
THEOREM CachedCountIsExact == Spec => []CachedCountExact
<1>1. BorrowInv => CachedCountExact
  BY DEF BorrowInv
<1>. QED  BY BorrowInvariant, <1>1, PTL

\* Inserts and splits neither drop a prefix from the tree nor change its page.
THEOREM OnlyEvictionForgetsPages == Spec => OnlyEvictionForgets
<1>. DEFINE Kept == \A p \in DOMAIN page : p \in DOMAIN page' /\ page'[p] = page[p]
<1>1. ASSUME IInv, [Next]_vars, \A n \in Nodes : ~ EvictLeaf(n)
      PROVE  Kept
  <2>1. ASSUME UNCHANGED page PROVE Kept
    BY <2>1
  <2>2. ASSUME NEW r \in Req, CommitLeaf(r) PROVE Kept
    BY <1>1, <2>2, LeafOnlyAdds DEF IInv
  <2>3. UNCHANGED page \/ \E r \in Req : CommitLeaf(r)
    BY <1>1 DEF Next, vars, Admit, PrefillInit, MatchAndLock, Generate, Retire, Abort,
                FreeRequestKv, AbortUninitialised, CommitFullEdge, InsertFullEdge, CommitSplit,
                InsertSplit, CommitEnd, Unlock, AllocEvict, AllocDone, AllocFail, Terminated,
                CommitRaises
  <2>. HIDE DEF Kept
  <2>. QED  BY <2>1, <2>2, <2>3
<1>2. IInv /\ [Next]_vars => [(\A n \in Nodes : ~ EvictLeaf(n)) => Kept]_vars
  BY <1>1
<1>. QED  BY InitIInv, InvariantIsInductive, <1>2, PTL DEF Spec, OnlyEvictionForgets

\* A tree with a node that nothing locks has such a leaf: the deepest node below it.
LEMMA UnlockedNodeHasLeaf ==
    ASSUME IInv, IsFiniteSet(DOMAIN page), NEW n \in Nodes, ref[n] = 0
    PROVE  EvictableLeaves # {}
<1>. DEFINE B     == Cardinality(DOMAIN page)
            Below == {m \in Nodes : IsPrefix(n, m)}
            Rooms == {B - Len(m) : m \in Below}
<1>1. B \in Nat
  BY FS_CardinalityType
<1>2. \A m \in Nodes : m \in Seq(Key) /\ m \in DOMAIN page /\ Len(m) \in Nat /\ Len(m) <= B
  BY LengthBounded, LenProperties DEF IInv, CoreInv, TreeInv
<1>. HIDE DEF B
<1>3. n \in Below
  BY <1>2, PrefixReflexive
<1>4. Rooms \in SUBSET Nat /\ Rooms # {}
  <2>1. \A m \in Below : B - Len(m) \in Nat
    BY <1>1, <1>2
  <2>. QED  BY <1>3, <2>1
<1>5. PICK k \in Rooms : \A j \in Rooms : k <= j
  BY <1>4, LeastNatural
<1>6. PICK m \in Below : k = B - Len(m)
  OBVIOUS
<1>7. \A d \in Below : Len(d) <= Len(m)
  <2>1. \A d \in Below : B - Len(m) <= B - Len(d)
    BY <1>5, <1>6
  <2>. QED  BY <1>1, <1>2, <2>1
<1>8. IsLeaf(m)
  <2>1. ASSUME NEW d \in Nodes, IsPrefix(m, d) PROVE d = m
    <3>1. IsPrefix(n, d)
      BY <1>2, <2>1, PrefixTransitive
    <3>2. Len(d) <= Len(m)
      BY <1>7, <3>1
    <3>3. IsPrefix(d, d)
      BY <1>2, PrefixReflexive
    <3>4. IsPrefix(d, m)
      BY <1>2, <2>1, <3>2, <3>3, PrefixesComparable
    <3>. QED  BY <1>2, <2>1, <3>4, PrefixAntisymmetric
  <2>. QED  BY <2>1 DEF IsLeaf
<1>9. ref[m] = 0
  <2>1. Holders(n) = {}
    BY HoldersFinite, FS_EmptySet DEF IInv, CoreInv, LockConservation
  <2>2. Holders(m) \subseteq Holders(n)
    <3>1. ASSUME NEW r \in Holders(m) PROVE r \in Holders(n)
      <4>1. r \in Req /\ lock[r] # Root /\ IsPrefix(m, lock[r]) /\ lock[r] \in Seq(Key)
        BY DEF Holders, IInv, CoreInv, TypeOK, Key
      <4>2. IsPrefix(n, lock[r])
        BY <1>2, <4>1, PrefixTransitive
      <4>. QED  BY <4>1, <4>2 DEF Holders
    <3>. QED  BY <3>1
  <2>3. Cardinality(Holders(m)) = 0
    BY <2>1, <2>2, FS_EmptySet
  <2>. QED  BY <2>3 DEF IInv, CoreInv, LockConservation
<1>. QED  BY <1>8, <1>9 DEF EvictableLeaves

\* allocate raises only when no page of the tree is unlocked: leaf by leaf, eviction
\* reaches everything num_evictable_pages counts.
THEOREM EvictionKeepsPromise == Spec => EvictKeepsPromise
<1>1. ASSUME IInv, BorrowInv, AllocFail PROVE NumEvictable = 0
  <2>1. EvictableLeaves = {} /\ IsFiniteSet(DOMAIN page)
    BY <1>1 DEF AllocFail, BorrowInv
  <2>2. \A p \in DOMAIN page : ref[OwnerNode(p)] # 0
    <3>1. ASSUME NEW p \in DOMAIN page PROVE OwnerNode(p) \in Nodes
      BY <1>1, OwnerProperties DEF IInv, CoreInv
    <3>. QED  BY <1>1, <2>1, <3>1, UnlockedNodeHasLeaf
  <2>3. {p \in DOMAIN page : ref[OwnerNode(p)] = 0} = {}
    BY <2>2
  <2>. QED  BY <2>3, FS_EmptySet DEF NumEvictable
<1>2. IInv /\ BorrowInv /\ [Next]_vars => [AllocFail => NumEvictable = 0]_vars
  BY <1>1
<1>. QED  BY InitIInv, InitBorrowInv, InvariantIsInductive, BorrowInvInductive, <1>2, PTL
          DEF Spec, EvictKeepsPromise

-----------------------------------------------------------------------------
(* Without a radix cache *)

\* What is popped off a list without duplicates and what is left of it.
LEMMA StackSplit ==
    ASSUME NEW S, NEW s \in Seq(S), IsInjective(s), NEW n \in 0 .. Len(s)
    PROVE  LET left == SubSeq(s, 1, Len(s) - n)
               pop  == [i \in 1 .. n |-> s[Len(s) + 1 - i]]
           IN  /\ IsInjective(left) /\ IsInjective(pop)
               /\ ToSet(left) \cap ToSet(pop) = {}
               /\ ToSet(left) \cup ToSet(pop) = ToSet(s)
<1>. DEFINE left == SubSeq(s, 1, Len(s) - n)
            pop  == [i \in 1 .. n |-> s[Len(s) + 1 - i]]
            k    == Len(s) - n
<1>1. Len(s) \in Nat /\ n \in Nat /\ k \in 0 .. Len(s) /\ DOMAIN s = 1 .. Len(s)
  BY LenProperties
<1>2. DOMAIN left = 1 .. k /\ \A i \in 1 .. k : left[i] = s[i]
  BY <1>1
<1>3. DOMAIN pop = 1 .. n /\ \A i \in 1 .. n : pop[i] = s[Len(s) + 1 - i]
  OBVIOUS
<1>. HIDE DEF left, pop
<1>4. IsInjective(left) /\ IsInjective(pop)
  <2>1. IsInjective(left)
    BY <1>1, <1>2 DEF IsInjective
  <2>2. ASSUME NEW i \in 1 .. n, NEW j \in 1 .. n, pop[i] = pop[j] PROVE i = j
    <3>1. Len(s) + 1 - i \in DOMAIN s /\ Len(s) + 1 - j \in DOMAIN s
      BY <1>1
    <3>2. Len(s) + 1 - i = Len(s) + 1 - j
      BY <1>3, <2>2, <3>1 DEF IsInjective
    <3>. QED  BY <1>1, <3>2
  <2>. QED  BY <1>3, <2>1, <2>2 DEF IsInjective
<1>5. ToSet(left) \cap ToSet(pop) = {}
  <2>1. ASSUME NEW i \in 1 .. k, NEW j \in 1 .. n, left[i] = pop[j] PROVE FALSE
    <3>1. i \in DOMAIN s /\ Len(s) + 1 - j \in DOMAIN s /\ i < Len(s) + 1 - j
      BY <1>1
    <3>2. i = Len(s) + 1 - j
      BY <1>2, <1>3, <2>1, <3>1 DEF IsInjective
    <3>. QED  BY <1>1, <3>1, <3>2
  <2>. QED  BY <1>2, <1>3, <2>1 DEF ToSet
<1>6. ToSet(left) \cup ToSet(pop) = ToSet(s)
  <2>1. ASSUME NEW i \in 1 .. Len(s) PROVE s[i] \in ToSet(left) \cup ToSet(pop)
    <3>1. CASE i <= k
      BY <1>1, <1>2, <3>1 DEF ToSet
    <3>2. CASE i > k
      <4>1. Len(s) + 1 - i \in 1 .. n /\ Len(s) + 1 - (Len(s) + 1 - i) = i
        BY <1>1, <3>2
      <4>. QED  BY <1>3, <4>1 DEF ToSet
    <3>. QED  BY <1>1, <3>1, <3>2
  <2>2. ToSet(left) \subseteq ToSet(s)
    BY <1>1, <1>2 DEF ToSet
  <2>3. ToSet(pop) \subseteq ToSet(s)
    <3>1. \A i \in 1 .. n : Len(s) + 1 - i \in DOMAIN s
      BY <1>1
    <3>. QED  BY <1>3, <3>1 DEF ToSet
  <2>. QED  BY <1>1, <2>1, <2>2, <2>3 DEF ToSet
<1>. QED  BY <1>4, <1>5, <1>6 DEF left, pop

\* The pages popped off the free list and those left on it are parts of it.
LEMMA FreeListSplit ==
    ASSUME free \in Seq(Page), IsInjective(free), NEW n \in 0 .. Len(free)
    PROVE  LET left == SubSeq(free, 1, Len(free) - n)
               pop  == Popped(n)
           IN  /\ IsInjective(left) /\ IsInjective(pop)
               /\ ToSet(left) \cap ToSet(pop) = {}
               /\ ToSet(left) \cup ToSet(pop) = ToSet(free)
BY StackSplit DEF Popped

\* Pages given back are appended to the free list.
LEMMA FreeListJoined ==
    ASSUME NEW S, NEW s \in Seq(S), NEW t \in Seq(S), IsInjective(s), IsInjective(t),
           ToSet(s) \cap ToSet(t) = {}
    PROVE  IsInjective(s \o t) /\ ToSet(s \o t) = ToSet(s) \cup ToSet(t)
<1>1. /\ Len(s) \in Nat /\ Len(t) \in Nat /\ DOMAIN s = 1 .. Len(s) /\ DOMAIN t = 1 .. Len(t)
      /\ DOMAIN (s \o t) = 1 .. Len(s) + Len(t)
      /\ \A i \in 1 .. Len(s) : (s \o t)[i] = s[i]
      /\ \A i \in Len(s) + 1 .. Len(s) + Len(t) : (s \o t)[i] = t[i - Len(s)]
  BY LenProperties, ConcatProperties
<1>. DEFINE st == s \o t
<1>. HIDE DEF st
<1>2. /\ DOMAIN st = 1 .. Len(s) + Len(t)
      /\ \A i \in 1 .. Len(s) : st[i] = s[i]
      /\ \A i \in Len(s) + 1 .. Len(s) + Len(t) : st[i] = t[i - Len(s)] /\ i - Len(s) \in 1 .. Len(t)
      /\ \A i \in 1 .. Len(t) : Len(s) + i \in Len(s) + 1 .. Len(s) + Len(t) /\ st[Len(s) + i] = t[i]
  BY <1>1 DEF st
<1>3. \A i \in DOMAIN st : i \in 1 .. Len(s) \/ i \in Len(s) + 1 .. Len(s) + Len(t)
  BY <1>1, <1>2
<1>4. ASSUME NEW i \in DOMAIN st, NEW j \in DOMAIN st, st[i] = st[j] PROVE i = j
  <2>1. CASE i \in 1 .. Len(s) /\ j \in 1 .. Len(s)
    BY <1>1, <1>2, <1>4, <2>1 DEF IsInjective
  <2>2. CASE i \notin 1 .. Len(s) /\ j \notin 1 .. Len(s)
    <3>1. /\ i \in Len(s) + 1 .. Len(s) + Len(t) /\ j \in Len(s) + 1 .. Len(s) + Len(t)
      BY <1>3, <2>2
    <3>2. /\ i - Len(s) \in DOMAIN t /\ j - Len(s) \in DOMAIN t
          /\ t[i - Len(s)] = t[j - Len(s)]
      BY <1>1, <1>2, <1>4, <3>1
    <3>3. \A k, l \in DOMAIN t : t[k] = t[l] => k = l
      BY DEF IsInjective
    <3>4. i - Len(s) = j - Len(s)
      BY <3>2, <3>3
    <3>. QED  BY <1>1, <3>1, <3>4
  <2>3. CASE i \in 1 .. Len(s) /\ j \notin 1 .. Len(s)
    <3>1. j \in Len(s) + 1 .. Len(s) + Len(t)
      BY <1>3, <2>3
    <3>2. st[i] \in ToSet(s)
      BY <1>1, <1>2, <2>3 DEF ToSet
    <3>3. st[j] \in ToSet(t)
      BY <1>1, <1>2, <3>1 DEF ToSet
    <3>. QED  BY <1>4, <3>2, <3>3
  <2>4. CASE i \notin 1 .. Len(s) /\ j \in 1 .. Len(s)
    <3>1. i \in Len(s) + 1 .. Len(s) + Len(t)
      BY <1>3, <2>4
    <3>2. st[j] \in ToSet(s)
      BY <1>1, <1>2, <2>4 DEF ToSet
    <3>3. st[i] \in ToSet(t)
      BY <1>1, <1>2, <3>1 DEF ToSet
    <3>. QED  BY <1>4, <3>2, <3>3
  <2>. QED  BY <2>1, <2>2, <2>3, <2>4
<1>5. ToSet(st) = ToSet(s) \cup ToSet(t)
  <2>1. ToSet(st) \subseteq ToSet(s) \cup ToSet(t)
    BY <1>1, <1>2, <1>3 DEF ToSet
  <2>2. ToSet(s) \subseteq ToSet(st)
    BY <1>1, <1>2 DEF ToSet
  <2>3. ToSet(t) \subseteq ToSet(st)
    BY <1>1, <1>2 DEF ToSet
  <2>. QED  BY <2>1, <2>2, <2>3
<1>. QED  BY <1>4, <1>5 DEF IsInjective, st

\* Every page is once on the free list or once in the table of a running request.
OwnerInv ==
    /\ DOMAIN page = {} /\ pc # "insert"
    /\ \A r \in Req : hit[r] = 0 /\ IsInjective(table[r])
    /\ \A r \in Req : status[r] # "running" => table[r] = << >>
    /\ IsInjective(free)
    /\ \A r \in Req : ToSet(table[r]) \cap ToSet(free) = {}
    /\ \A r, s \in Req : r # s => ToSet(table[r]) \cap ToSet(table[s]) = {}
    /\ \A g \in Page : g \in ToSet(free) \/ \E r \in Req : g \in ToSet(table[r])

\* The empty sequence holds nothing, once.
LEMMA EmptyTable == IsInjective(<< >>) /\ ToSet(<< >>) = {}
<1>1. DOMAIN << >> = {}
  OBVIOUS
<1>. QED  BY <1>1 DEF IsInjective, ToSet

LEMMA InitOwnerInv == Init => OwnerInv
<1>. SUFFICES ASSUME Init PROVE OwnerInv
  OBVIOUS
<1>1. /\ DOMAIN page = {} /\ pc = "idle" /\ NumPages \in Nat
      /\ \A r \in Req : hit[r] = 0 /\ table[r] = << >>
      /\ DOMAIN free = 1 .. NumPages /\ \A i \in 1 .. NumPages : free[i] = i - 1
  BY PoolAssumption DEF Init, CacheInit, PoolInit
<1>2. IsInjective(free)
  BY <1>1 DEF IsInjective
<1>3. ASSUME NEW g \in Page PROVE g \in ToSet(free)
  <2>1. g + 1 \in 1 .. NumPages /\ g = (g + 1) - 1
    BY <1>1 DEF Page
  <2>. QED  BY <1>1, <2>1 DEF ToSet
<1>. QED  BY <1>1, <1>2, <1>3, EmptyTable DEF OwnerInv

\* A step that moves no page.
PagesStay ==
    /\ UNCHANGED <<free, table, hit>>
    /\ DOMAIN page' = {} /\ pc' # "insert"
    /\ \A r \in Req : status[r] = "running" => status'[r] = "running"

LEMMA PagesStayKeepsOwner ==
    ASSUME OwnerInv, PagesStay
    PROVE  OwnerInv'
BY DEF OwnerInv, PagesStay

\* The new pages of the table come off the free list.
LEMMA AllocDoneKeepsOwner ==
    ASSUME IInv, OwnerInv, AllocDone
    PROVE  OwnerInv'
<1>0. PICK c \in Req : c = cur
  BY DEF AllocDone, IInv, CoreInv, ControlInv
<1>. DEFINE n    == Extra(c)
            pop  == Popped(n)
            left == SubSeq(free, 1, Len(free) - n)
            t    == table[c] \o pop
<1>1. /\ n \in 0 .. Len(free) /\ free \in Seq(Page) /\ table \in [Req -> Seq(Page)]
      /\ pop \in Seq(Page)
  <2>1. /\ Peak(c) \in Int /\ Len(table[c]) \in Nat /\ Len(free) \in Nat
        /\ free \in Seq(Page) /\ table \in [Req -> Seq(Page)]
    BY Sizes, LenProperties DEF IInv, CoreInv, TypeOK
  <2>2. n \in 0 .. Len(free)
    BY <1>0, <2>1 DEF AllocDone, Extra
  <2>. QED  BY <2>1, <2>2, AllocateTypes
<1>2. /\ table' = [table EXCEPT ![c] = t] /\ free' = left
      /\ status' = [status EXCEPT ![c] = "running"]
      /\ pc' = "idle" /\ UNCHANGED <<page, hit>>
      /\ status \in [Req -> {"waiting", "admitted", "running", "finished"}]
  BY <1>0 DEF AllocDone, Allocate, IInv, CoreInv, TypeOK
<1>3. /\ IsInjective(left) /\ IsInjective(pop)
      /\ ToSet(left) \cap ToSet(pop) = {}
      /\ ToSet(left) \cup ToSet(pop) = ToSet(free)
  BY <1>1, FreeListSplit DEF OwnerInv
<1>. HIDE DEF n, pop, left
<1>4. IsInjective(t) /\ ToSet(t) = ToSet(table[c]) \cup ToSet(pop)
  <2>1. IsInjective(table[c]) /\ ToSet(table[c]) \cap ToSet(pop) = {}
    BY <1>3 DEF OwnerInv
  <2>. QED  BY <1>1, <1>3, <2>1, FreeListJoined
<1>. HIDE DEF t
<1>5. /\ table'[c] = t /\ status'[c] = "running"
      /\ \A r \in Req : r # c => table'[r] = table[r] /\ status'[r] = status[r]
  BY <1>1, <1>2
<1>6. \A r \in Req : ToSet(table'[r]) \cap ToSet(left) = {}
  BY <1>3, <1>4, <1>5 DEF OwnerInv
<1>7. \A r, s \in Req : r # s => ToSet(table'[r]) \cap ToSet(table'[s]) = {}
  BY <1>3, <1>4, <1>5 DEF OwnerInv
<1>8. \A g \in Page : g \in ToSet(left) \/ \E r \in Req : g \in ToSet(table'[r])
  BY <1>3, <1>4, <1>5 DEF OwnerInv
<1>9. \A r \in Req : IsInjective(table'[r]) /\ (status'[r] # "running" => table'[r] = << >>)
  BY <1>4, <1>5 DEF OwnerInv
<1>. QED  BY <1>2, <1>3, <1>6, <1>7, <1>8, <1>9 DEF OwnerInv

\* The pages of a request that ends go back to the free list.
LEMMA FreeRequestKvKeepsOwner ==
    ASSUME ~ RadixEnabled, IInv, OwnerInv, NEW c \in Req, FreeRequestKv(c)
    PROVE  OwnerInv'
<1>. DEFINE joined == free \o table[c]
<1>1. /\ free \in Seq(Page) /\ table \in [Req -> Seq(Page)]
      /\ status \in [Req -> {"waiting", "admitted", "running", "finished"}]
      /\ table' = [table EXCEPT ![c] = << >>] /\ free' = joined
      /\ status' = [status EXCEPT ![c] = "finished"]
      /\ pc = "idle" /\ UNCHANGED <<page, hit, pc>>
  BY DEF FreeRequestKv, Free, IInv, CoreInv, TypeOK
<1>2. IsInjective(joined) /\ ToSet(joined) = ToSet(free) \cup ToSet(table[c])
  <2>1. /\ IsInjective(free) /\ IsInjective(table[c])
        /\ ToSet(free) \cap ToSet(table[c]) = {}
    BY DEF OwnerInv
  <2>. QED  BY <1>1, <2>1, FreeListJoined
<1>. HIDE DEF joined
<1>3. /\ table'[c] = << >> /\ ToSet(table'[c]) = {} /\ IsInjective(table'[c])
      /\ \A r \in Req : r # c => table'[r] = table[r] /\ status'[r] = status[r]
  BY <1>1, EmptyTable
<1>4. \A r \in Req : ToSet(table'[r]) \cap ToSet(joined) = {}
  BY <1>2, <1>3 DEF OwnerInv
<1>5. \A r, s \in Req : r # s => ToSet(table'[r]) \cap ToSet(table'[s]) = {}
  BY <1>3 DEF OwnerInv
<1>6. \A g \in Page : g \in ToSet(joined) \/ \E r \in Req : g \in ToSet(table'[r])
  BY <1>2, <1>3 DEF OwnerInv
<1>7. \A r \in Req : IsInjective(table'[r]) /\ (status'[r] # "running" => table'[r] = << >>)
  BY <1>3 DEF OwnerInv
<1>. QED  BY <1>1, <1>2, <1>4, <1>5, <1>6, <1>7 DEF OwnerInv

\* Ownership, one step per action.
LEMMA OwnerInvInductive ==
    ~ RadixEnabled /\ IInv /\ OwnerInv /\ [Next]_vars => OwnerInv'
<1>. SUFFICES ASSUME ~ RadixEnabled, IInv, OwnerInv, [Next]_vars
              PROVE  OwnerInv'
  OBVIOUS
<1>0. ASSUME PagesStay PROVE OwnerInv'
  BY <1>0, PagesStayKeepsOwner
<1>1. ASSUME NEW r \in Req, Admit(r) \/ AbortUninitialised(r)
      PROVE  PagesStay
  BY <1>1 DEF PagesStay, OwnerInv, Admit, AbortUninitialised, IInv, CoreInv, TypeOK
<1>2. ASSUME NEW r \in Req, PrefillInit(r)
      PROVE  PagesStay
  BY <1>2 DEF PagesStay, OwnerInv, PrefillInit
<1>3. ASSUME NEW r \in Req, NEW t \in Gen[r], Generate(r, t)
      PROVE  PagesStay
  BY <1>3 DEF PagesStay, OwnerInv, Generate
<1>4. ASSUME NEW r \in Req, FreeRequestKv(r)
      PROVE  OwnerInv'
  BY <1>4, FreeRequestKvKeepsOwner
<1>5. ASSUME NEW r \in Req, CommitLeaf(r) \/ CommitFullEdge(r) \/ CommitSplit(r) \/ CommitEnd(r)
      PROVE  FALSE
  BY <1>5 DEF OwnerInv, CommitLeaf, CommitFullEdge, CommitSplit, CommitEnd, Inserting
<1>6. ASSUME NEW n \in Nodes, AllocEvict(n)
      PROVE  FALSE
  BY <1>6 DEF OwnerInv, IInv, CoreInv, TreeInv
<1>7. CASE AllocDone
  BY <1>7, AllocDoneKeepsOwner
<1>8. CASE AllocFail
  <2>1. PICK c \in Req : c = cur /\ status[c] = "admitted"
    BY <1>8 DEF AllocFail, IInv, CoreInv, ControlInv
  <2>2. /\ table' = [table EXCEPT ![c] = << >>] /\ hit' = [hit EXCEPT ![c] = 0]
        /\ status' = [status EXCEPT ![c] = "waiting"]
        /\ pc' = "idle" /\ UNCHANGED <<free, page>>
        /\ table \in [Req -> Seq(Page)] /\ hit \in [Req -> Nat]
        /\ status \in [Req -> {"waiting", "admitted", "running", "finished"}]
    BY <1>8, <2>1 DEF AllocFail, Unlock, IInv, CoreInv, TypeOK
  <2>3. table[c] = << >> /\ hit[c] = 0
    BY <2>1 DEF OwnerInv
  <2>4. table' = table /\ hit' = hit
    BY <2>2, <2>3
  <2>5. PagesStay
    BY <2>1, <2>2, <2>4 DEF PagesStay, OwnerInv
  <2>. QED  BY <1>0, <2>5
<1>9. ASSUME Terminated \/ UNCHANGED vars
      PROVE  PagesStay
  BY <1>9 DEF PagesStay, OwnerInv, Terminated, vars
<1>10. ASSUME NEW r \in Req, CommitRaises(r)
       PROVE  FALSE
  BY <1>10 DEF CommitRaises, OwnerInv
<1>. QED  BY <1>0, <1>1, <1>2, <1>3, <1>4, <1>5, <1>6, <1>7, <1>8, <1>9, <1>10
          DEF Next, Retire, Abort

\* No page is lost, in the terms of the theorem below.
EveryPageOwned == \A g \in Page : g \in ToSet(free) \/ \E r \in Req : g \in OwnPages(r)

\* Without a radix cache no page has two owners and none is lost, whatever is
\* admitted, retracted, finished or aborted in whatever order.
THEOREM PagesOwnedOnce ==
    ASSUME ~ RadixEnabled
    PROVE  Spec => [](SingleOwner /\ EveryPageOwned)
<1>1. IInv /\ OwnerInv => SingleOwner /\ EveryPageOwned
  <2>. SUFFICES ASSUME IInv, OwnerInv
                PROVE  SingleOwner /\ EveryPageOwned
    OBVIOUS
  <2>1. \A r \in Req : /\ table[r] \in Seq(Page) /\ Len(table[r]) \in Nat
                       /\ DOMAIN table[r] = 1 .. Len(table[r])
    BY LenProperties DEF IInv, CoreInv, TypeOK
  <2>2. ASSUME NEW r \in Req
        PROVE  OwnPositions(r) = DOMAIN table[r] /\ OwnPages(r) = ToSet(table[r])
    <3>1. OwnPositions(r) = DOMAIN table[r]
      BY <2>1, <2>2 DEF OwnPositions, OwnerInv
    <3>. QED  BY <3>1 DEF OwnPages, ToSet
  <2>3. CachedPages = {}
    BY DEF CachedPages, OwnerInv
  <2>4. SingleOwner
    BY <2>2, <2>3 DEF SingleOwner, CachedPagesNotFree, OwnerInv, IsInjective
  <2>. QED  BY <2>2, <2>4 DEF OwnerInv, EveryPageOwned
<1>2. IInv /\ OwnerInv /\ [Next]_vars => (IInv /\ OwnerInv)'
  BY InvariantIsInductive, OwnerInvInductive
<1>. QED  BY <1>1, <1>2, InitIInv, InitOwnerInv, PTL DEF Spec

-----------------------------------------------------------------------------
(* The admission test is enough, without a radix cache *)

\* The peaks as a function: what the admission test adds up.
peakOf == [r \in Req |-> Peak(r)]

\* What the lemmas of this section take for granted.  With negative numbers of
\* max_tokens it need not be so.
PeaksAddUp == \A r \in Req : Peak(r) >= 0

\* A peak is then a number of pages, whatever state the request is in.
LEMMA PeakIsNatural ==
    ASSUME PeaksAddUp
    PROVE  \A r \in Req : peakOf[r] = Peak(r) /\ Peak(r) \in Nat
<1>. SUFFICES ASSUME NEW r \in Req PROVE Peak(r) \in Nat
  BY DEF peakOf
<1>1. Len(Prompt[r]) + MaxNew[r] \in Int
  <2>1. Len(Prompt[r]) \in Nat /\ MaxNew[r] \in Int
    BY EngineAssumption, LenProperties
  <2>. QED  BY <2>1
<1>2. Peak(r) \in Int
  BY <1>1, PagesAreNumbers DEF Peak
<1>. QED  BY <1>2 DEF PeaksAddUp

\* What the admission test adds up is that sum.
LEMMA PeakSum ==
    ASSUME PeaksAddUp, NEW S \in SUBSET Req
    PROVE  MapThenSumSet(Peak, S) = SumOf(peakOf, S)
<1>. DEFINE IsTotal(H) == H = [T \in SUBSET S |->
                                IF T = {} THEN 0 ELSE Peak(Chosen(T)) + H[T \ {Chosen(T)}]]
            L == CHOOSE H : IsTotal(H)
<1>1. MapThenSumSet(Peak, S) = L[S]
  BY DEF MapThenSumSet, MapThenFoldSet, Chosen
<1>2. IsFiniteSet(S) /\ \A r \in S : peakOf[r] = Peak(r) /\ Peak(r) \in Nat
  BY PeakIsNatural, EngineAssumption, FS_Subset
<1>3. NatOn(peakOf, S)
  BY <1>2 DEF NatOn
<1>4. ASSUME NEW H PROVE IsFold(H, peakOf, S) <=> IsTotal(H)
  <2>1. ASSUME NEW T \in SUBSET S
        PROVE  Turn(peakOf, H, T)
                 = IF T = {} THEN 0 ELSE Peak(Chosen(T)) + H[T \ {Chosen(T)}]
    <3>1. T # {} => Chosen(T) \in S
      BY DEF Chosen
    <3>. QED  BY <1>2, <3>1 DEF Turn
  <2>2. [T \in SUBSET S |-> Turn(peakOf, H, T)]
          = [T \in SUBSET S |-> IF T = {} THEN 0 ELSE Peak(Chosen(T)) + H[T \ {Chosen(T)}]]
    BY <2>1
  <2>. QED  BY <2>2 DEF IsFold
<1>. HIDE DEF IsTotal
<1>5. IsFold(L, peakOf, S)
  <2>1. \E H : IsFold(H, peakOf, S)
    BY <1>2, <1>3, FoldExists
  <2>2. \E H : IsTotal(H)
    BY <1>4, <2>1
  <2>3. IsTotal(L)
    BY <2>2
  <2>. QED  BY <1>4, <2>3
<1>. HIDE DEF L
<1>6. L[S] = SumOf(peakOf, S)
  BY <1>2, <1>3, <1>5, FoldGivesSum
<1>. QED  BY <1>1, <1>6

\* How the sum of the peaks changes with one request.
LEMMA PeakRules ==
    ASSUME PeaksAddUp
    PROVE  /\ SumRules(peakOf, Req)
           /\ \A S \in SUBSET Req : SumOf(peakOf, S) \in Nat
           /\ \A S \in SUBSET Req : \A T \in SUBSET S : SumOf(peakOf, T) <= SumOf(peakOf, S)
           /\ \A S \in SUBSET Req : \A r \in Req \ S :
                 SumOf(peakOf, S \cup {r}) = Peak(r) + SumOf(peakOf, S)
           /\ \A S \in SUBSET Req : \A r \in S :
                 SumOf(peakOf, S) = Peak(r) + SumOf(peakOf, S \ {r})
<1>1. \A r \in Req : peakOf[r] = Peak(r) /\ Peak(r) \in Nat
  BY PeakIsNatural
<1>2. ASSUME NEW S \in SUBSET Req PROVE SumRules(peakOf, S)
  <2>1. IsFiniteSet(S) /\ NatOn(peakOf, S)
    BY <1>1, EngineAssumption, FS_Subset DEF NatOn
  <2>. QED  BY <2>1, SumFacts
<1>3. SumRules(peakOf, Req)
  BY <1>2
<1>4. \A S \in SUBSET Req : \A T \in SUBSET S : SumOf(peakOf, T) <= SumOf(peakOf, S)
  BY <1>2 DEF SumRules
<1>. QED  BY <1>1, <1>3, <1>4 DEF SumRules

Running == {r \in Req : status[r] = "running"}

\* Who runs has taken exactly its peak from the pool, and the peaks of all who were
\* admitted fit the pool: what is not taken yet is still free.
ReserveInv ==
    /\ \A r \in Running : Len(table[r]) = Peak(r)
    /\ Len(free) + SumOf(peakOf, Running) = NumPages
    /\ SumOf(peakOf, Active) <= NumPages

\* The invariant when a step changes neither pages nor who runs.
LEMMA ReserveKept ==
    ASSUME PeaksAddUp, ReserveInv, UNCHANGED <<free, table>>, Running' = Running, Active' \subseteq Active
    PROVE  ReserveInv'
<1>1. /\ SumOf(peakOf, Active') <= SumOf(peakOf, Active)
      /\ SumOf(peakOf, Active') \in Nat /\ SumOf(peakOf, Active) \in Nat /\ NumPages \in Nat
  BY PeakRules, PoolAssumption DEF Active
<1>2. SumOf(peakOf, Active') <= NumPages
  BY <1>1, AtMost DEF ReserveInv
<1>. QED  BY <1>2 DEF ReserveInv

\* Admission adds a peak that fits beside those in flight.
LEMMA AdmitReserve ==
    ASSUME PeaksAddUp, IInv, ReserveInv, NEW r \in Req, Admit(r)
    PROVE  ReserveInv'
<1>1. /\ status \in [Req -> {"waiting", "admitted", "running", "finished"}]
      /\ status[r] = "waiting" /\ status' = [status EXCEPT ![r] = "admitted"]
      /\ UNCHANGED <<free, table>>
      /\ MapThenSumSet(Peak, Active) + Peak(r) <= NumPages
  BY DEF Admit, CanAdmit, IInv, CoreInv, TypeOK
<1>2. Active' = Active \cup {r} /\ r \in Req \ Active /\ Running' = Running
  BY <1>1 DEF Active, Running
<1>3. SumOf(peakOf, Active') <= NumPages
  <2>1. Active \in SUBSET Req
    BY DEF Active
  <2>2. /\ SumOf(peakOf, Active \cup {r}) = Peak(r) + SumOf(peakOf, Active)
        /\ SumOf(peakOf, Active) \in Nat /\ Peak(r) \in Nat
    BY <1>2, <2>1, PeakRules, PeakIsNatural
  <2>3. MapThenSumSet(Peak, Active) = SumOf(peakOf, Active)
    BY <2>1, PeakSum
  <2>. QED  BY <1>1, <1>2, <2>2, <2>3
<1>. QED  BY <1>1, <1>2, <1>3 DEF ReserveInv

\* What an admitted request still needs is free.
LEMMA RoomForCur ==
    ASSUME PeaksAddUp, IInv, OwnerInv, ReserveInv, NEW c \in Req, status[c] = "admitted"
    PROVE  /\ Extra(c) = Peak(c) /\ Peak(c) \in Nat
           /\ Len(free) >= Extra(c) /\ Len(free) \in Nat
           /\ c \notin Running /\ table[c] = << >>
<1>1. table[c] = << >> /\ Peak(c) \in Nat /\ Len(free) \in Nat
  BY PeakIsNatural, LenProperties DEF OwnerInv, IInv, CoreInv, TypeOK
<1>2. Extra(c) = Peak(c)
  BY <1>1 DEF Extra
<1>3. /\ c \notin Running /\ Running \in SUBSET Req /\ Running \cup {c} \subseteq Active
      /\ Active \in SUBSET Req
  BY DEF Running, Active
<1>4. /\ SumOf(peakOf, Running \cup {c}) = Peak(c) + SumOf(peakOf, Running)
      /\ SumOf(peakOf, Running \cup {c}) <= SumOf(peakOf, Active)
      /\ SumOf(peakOf, Running) \in Nat /\ SumOf(peakOf, Active) \in Nat
  BY <1>3, PeakRules
<1>5. /\ Len(free) + SumOf(peakOf, Running) = NumPages /\ SumOf(peakOf, Active) <= NumPages
      /\ NumPages \in Nat
  BY PoolAssumption DEF ReserveInv
<1>6. Len(free) >= Peak(c)
  BY <1>1, <1>4, <1>5
<1>. QED  BY <1>1, <1>2, <1>3, <1>6

\* allocate moves a peak from the free list to the one who runs now.
LEMMA AllocDoneReserve ==
    ASSUME PeaksAddUp, IInv, OwnerInv, ReserveInv, AllocDone
    PROVE  ReserveInv'
<1>1. PICK c \in Req : c = cur /\ status[c] = "admitted"
  BY DEF AllocDone, IInv, CoreInv, ControlInv
<1>. DEFINE n == Peak(c)
            pop == Popped(n)
<1>2. /\ Extra(c) = n /\ n \in Nat /\ Len(free) >= n /\ Len(free) \in Nat
      /\ c \notin Running /\ table[c] = << >>
  BY <1>1, RoomForCur
<1>3. /\ status' = [status EXCEPT ![c] = "running"]
      /\ table' = [table EXCEPT ![c] = @ \o pop]
      /\ free' = SubSeq(free, 1, Len(free) - n)
      /\ status \in [Req -> {"waiting", "admitted", "running", "finished"}]
      /\ table \in [Req -> Seq(Page)] /\ free \in Seq(Page)
  BY <1>1, <1>2 DEF AllocDone, Allocate, IInv, CoreInv, TypeOK
<1>. HIDE DEF n
<1>4. Running' = Running \cup {c} /\ Active' = Active /\ Running \in SUBSET Req
  BY <1>1, <1>3 DEF Running, Active
<1>5. Len(free') = Len(free) - n
  BY <1>2, <1>3, SubSeqProperties
<1>6. Len(table'[c]) = n
  <2>1. pop \in Seq(Page) /\ Len(pop) = n
    <3>1. n \in 0 .. Len(free)
      BY <1>2
    <3>2. pop \in Seq(Page)
      BY <1>3, <3>1, AllocateTypes
    <3>3. Len(pop) = n
      BY <1>2 DEF Popped
    <3>. QED  BY <3>2, <3>3
  <2>. HIDE DEF pop
  <2>2. << >> \o pop = pop
    BY <2>1
  <2>. QED  BY <1>2, <1>3, <2>1, <2>2
<1>7. \A r \in Running' : Len(table'[r]) = Peak(r)
  <2>1. \A r \in Running : table'[r] = table[r] /\ Len(table[r]) = Peak(r)
    BY <1>2, <1>3 DEF ReserveInv
  <2>. QED  BY <1>4, <1>6, <2>1 DEF n
<1>8. Len(free') + SumOf(peakOf, Running') = NumPages
  <2>1. /\ SumOf(peakOf, Running \cup {c}) = n + SumOf(peakOf, Running)
        /\ SumOf(peakOf, Running) \in Nat
    BY <1>2, <1>4, PeakRules DEF n
  <2>2. Len(free) + SumOf(peakOf, Running) = NumPages
    BY DEF ReserveInv
  <2>. QED  BY <1>2, <1>4, <1>5, <2>1, <2>2
<1>. QED  BY <1>4, <1>7, <1>8 DEF ReserveInv

\* A request that ends gives its peak back.
LEMMA FreeRequestKvReserve ==
    ASSUME ~ RadixEnabled, PeaksAddUp, IInv, OwnerInv, ReserveInv, NEW c \in Req,
           FreeRequestKv(c)
    PROVE  ReserveInv'
<1>1. /\ status[c] = "running" /\ status' = [status EXCEPT ![c] = "finished"]
      /\ table' = [table EXCEPT ![c] = << >>] /\ free' = free \o table[c]
      /\ status \in [Req -> {"waiting", "admitted", "running", "finished"}]
      /\ table \in [Req -> Seq(Page)] /\ free \in Seq(Page)
  BY DEF FreeRequestKv, Free, IInv, CoreInv, TypeOK
<1>2. /\ c \in Running /\ Running' = Running \ {c} /\ Running \in SUBSET Req
      /\ Active' \subseteq Active /\ Active \in SUBSET Req
  BY <1>1 DEF Running, Active
<1>3. /\ Len(free') = Len(free) + Peak(c) /\ Len(free) \in Nat /\ Peak(c) \in Nat
  <2>1. Len(table[c]) = Peak(c)
    BY <1>2 DEF ReserveInv
  <2>2. table[c] \in Seq(Page)
    BY <1>1
  <2>3. Len(free \o table[c]) = Len(free) + Len(table[c])
    BY <1>1, <2>2, ConcatProperties
  <2>. QED  BY <1>1, <2>1, <2>3, LenProperties, PeakIsNatural
<1>4. \A r \in Running' : Len(table'[r]) = Peak(r)
  BY <1>1, <1>2 DEF ReserveInv
<1>5. Len(free') + SumOf(peakOf, Running') = NumPages
  <2>1. /\ SumOf(peakOf, Running) = Peak(c) + SumOf(peakOf, Running \ {c})
        /\ SumOf(peakOf, Running \ {c}) \in Nat
    BY <1>2, PeakRules
  <2>2. Len(free) + SumOf(peakOf, Running) = NumPages
    BY DEF ReserveInv
  <2>. QED  BY <1>2, <1>3, <2>1, <2>2
<1>6. SumOf(peakOf, Active') <= NumPages
  <2>1. /\ SumOf(peakOf, Active') <= SumOf(peakOf, Active)
        /\ SumOf(peakOf, Active') \in Nat /\ SumOf(peakOf, Active) \in Nat /\ NumPages \in Nat
    BY <1>2, PeakRules, PoolAssumption
  <2>. QED  BY <2>1, AtMost DEF ReserveInv
<1>. QED  BY <1>4, <1>5, <1>6 DEF ReserveInv

\* Nobody runs at first; every step keeps the reservation.
LEMMA InitReserve == PeaksAddUp /\ Init => ReserveInv
<1>. SUFFICES ASSUME PeaksAddUp, Init PROVE ReserveInv
  OBVIOUS
<1>1. Running = {} /\ Active = {}
  BY DEF Init, Running, Active
<1>2. Len(free) = NumPages /\ NumPages \in Nat
  BY PoolAssumption DEF Init, PoolInit
<1>3. SumOf(peakOf, {}) = 0
  BY PeakRules DEF SumRules
<1>. QED  BY <1>1, <1>2, <1>3 DEF ReserveInv

\* The reservation, one step per action.
LEMMA ReserveInvInductive ==
    ~ RadixEnabled /\ PeaksAddUp /\ IInv /\ OwnerInv /\ ReserveInv /\ [Next]_vars => ReserveInv'
<1>. SUFFICES ASSUME ~ RadixEnabled, PeaksAddUp, IInv, OwnerInv, ReserveInv, [Next]_vars
              PROVE  ReserveInv'
  OBVIOUS
<1>0. status \in [Req -> {"waiting", "admitted", "running", "finished"}]
  BY DEF IInv, CoreInv, TypeOK
<1>1. ASSUME NEW r \in Req, Admit(r) PROVE ReserveInv'
  BY <1>1, AdmitReserve
<1>2. ASSUME NEW r \in Req, PrefillInit(r) PROVE ReserveInv'
  BY <1>2, ReserveKept DEF PrefillInit, Running, Active
<1>3. ASSUME NEW r \in Req, NEW t \in Gen[r], Generate(r, t) PROVE ReserveInv'
  BY <1>3, ReserveKept DEF Generate, Running, Active
<1>4. ASSUME NEW r \in Req, FreeRequestKv(r) PROVE ReserveInv'
  BY <1>4, FreeRequestKvReserve
<1>5. ASSUME NEW r \in Req, AbortUninitialised(r) PROVE ReserveInv'
  <2>1. /\ status[r] = "admitted" /\ status' = [status EXCEPT ![r] = "finished"]
        /\ UNCHANGED <<free, table>>
    BY <1>5 DEF AbortUninitialised
  <2>2. Running' = Running /\ Active' \subseteq Active
    BY <1>0, <2>1 DEF Running, Active
  <2>. QED  BY <2>1, <2>2, ReserveKept
<1>6. ASSUME NEW r \in Req, CommitLeaf(r) \/ CommitFullEdge(r) \/ CommitSplit(r) \/ CommitEnd(r)
      PROVE  FALSE
  BY <1>6 DEF OwnerInv, CommitLeaf, CommitFullEdge, CommitSplit, CommitEnd, Inserting
<1>7. ASSUME NEW n \in Nodes, AllocEvict(n) PROVE FALSE
  BY <1>7 DEF OwnerInv, IInv, CoreInv, TreeInv
<1>8. CASE AllocDone
  BY <1>8, AllocDoneReserve
<1>9. CASE AllocFail
  <2>1. PICK c \in Req : c = cur /\ status[c] = "admitted"
    BY <1>9 DEF AllocFail, IInv, CoreInv, ControlInv
  <2>2. Len(free) >= Extra(c) /\ Len(free) < Extra(c) /\ Len(free) \in Nat /\ Extra(c) \in Nat
    BY <1>9, <2>1, RoomForCur DEF AllocFail
  <2>. QED  BY <2>2
<1>10. ASSUME Terminated \/ UNCHANGED vars PROVE ReserveInv'
  BY <1>10, ReserveKept DEF Terminated, vars, Running, Active
<1>11. ASSUME NEW r \in Req, CommitRaises(r) PROVE FALSE
  BY <1>11 DEF CommitRaises
<1>. QED  BY <1>1, <1>2, <1>3, <1>4, <1>5, <1>6, <1>7, <1>8, <1>9, <1>10, <1>11
          DEF Next, Retire, Abort

\* Without a radix cache, and with no peak negative, what paged_kv_can_admit reserves
\* is enough: whoever was admitted together, finished, was put back or aborted since,
\* allocate finds the pages of the peak on the free list and never raises.
THEOREM AdmissionReserves ==
    ASSUME ~ RadixEnabled
    PROVE  Spec => []ReservationSuffices
<1>. DEFINE Reserved == PeaksAddUp => ReserveInv
<1>1. IInv /\ OwnerInv /\ Reserved => ReservationSuffices
  <2>. SUFFICES ASSUME PeaksAddUp, IInv, OwnerInv, ReserveInv, pc = "allocate"
                PROVE  Len(free) >= Extra(cur)
    BY DEF ReservationSuffices, AllocateSucceeds, PeaksAddUp
  <2>1. PICK c \in Req : c = cur /\ status[c] = "admitted"
    BY DEF IInv, CoreInv, ControlInv
  <2>. QED  BY <2>1, RoomForCur
<1>2. /\ IInv /\ OwnerInv /\ Reserved /\ [Next]_vars => (IInv /\ OwnerInv /\ Reserved)'
      /\ Init => IInv /\ OwnerInv /\ Reserved
  BY InvariantIsInductive, OwnerInvInductive, ReserveInvInductive, InitIInv, InitOwnerInv,
     InitReserve
<1>. QED  BY <1>1, <1>2, PTL DEF Spec

-----------------------------------------------------------------------------
(* The pool, as its clients see it *)

\* The owner of a page, read off the tables.
OwnerReads ==
    \A g \in Page :
        /\ \A r \in Req : g \in ToSet(table[r]) => Owner[g] = r
        /\ (\A r \in Req : g \notin ToSet(table[r])) => Owner[g] = Free_

\* What a table holds is what its request owns.
LEMMA TablesAreOwned ==
    ASSUME IInv, OwnerInv
    PROVE  CachedPages = {} /\ \A r \in Req : OwnPages(r) = ToSet(table[r])
<1>1. \A r \in Req : Len(table[r]) \in Nat /\ DOMAIN table[r] = 1 .. Len(table[r])
  BY LenProperties DEF IInv, CoreInv, TypeOK
<1>2. \A r \in Req : OwnPositions(r) = DOMAIN table[r]
  BY <1>1 DEF OwnPositions, OwnerInv
<1>. QED  BY <1>2 DEF OwnPages, ToSet, CachedPages, OwnerInv

\* A page has one table to be found in, so its owner is unique.
LEMMA OwnerIsRead == IInv /\ OwnerInv => OwnerReads
<1>. SUFFICES ASSUME IInv, OwnerInv, NEW g \in Page
              PROVE  /\ \A r \in Req : g \in ToSet(table[r]) => Owner[g] = r
                     /\ (\A r \in Req : g \notin ToSet(table[r])) => Owner[g] = Free_
  BY DEF OwnerReads
<1>1. CachedPages = {} /\ \A r \in Req : OwnPages(r) = ToSet(table[r])
  BY TablesAreOwned
<1>2. ASSUME NEW r \in Req, g \in ToSet(table[r]) PROVE Owner[g] = r
  <2>1. \A s \in Req : g \in OwnPages(s) => s = r
    BY <1>1, <1>2 DEF OwnerInv
  <2>2. (CHOOSE s \in Req : g \in OwnPages(s)) = r
    BY <1>1, <1>2, <2>1
  <2>. QED  BY <1>1, <1>2, <2>2 DEF Owner
<1>3. ASSUME \A r \in Req : g \notin ToSet(table[r]) PROVE Owner[g] = Free_
  <2>1. g \in ToSet(free)
    BY <1>3 DEF OwnerInv
  <2>. QED  BY <1>1, <1>3, <2>1 DEF Owner
<1>. QED  BY <1>2, <1>3

\* A step that leaves the tables alone leaves every page with its owner.
LEMMA OwnersStay ==
    ASSUME OwnerReads, OwnerReads', \A r \in Req : ToSet(table'[r]) = ToSet(table[r])
    PROVE  Owner' = Owner
<1>1. ASSUME NEW g \in Page PROVE Owner'[g] = Owner[g]
  <2>1. CASE \E r \in Req : g \in ToSet(table[r])
    BY <2>1 DEF OwnerReads
  <2>2. CASE \A r \in Req : g \notin ToSet(table[r])
    BY <2>2 DEF OwnerReads
  <2>. QED  BY <2>1, <2>2
<1>2. Page' = Page
  BY DEF Page
<1>3. Owner = [g \in Page |-> Owner[g]] /\ Owner' = [g \in Page |-> Owner'[g]]
  BY <1>2 DEF Owner
<1>. HIDE DEF Owner
<1>. QED  BY <1>1, <1>3

\* The pages of S leave the free list for the table of c, or the other way.
LEMMA OwnersMove ==
    ASSUME OwnerReads, OwnerReads', NEW c \in Req, NEW S \in SUBSET Page,
           \A r \in Req \ {c} : table'[r] = table[r],
           \/ /\ ToSet(table'[c]) = ToSet(table[c]) \cup S
              /\ \A r \in Req : ToSet(table[r]) \cap S = {}
           \/ ToSet(table'[c]) = {} /\ S = ToSet(table[c])
    PROVE  Pool!Take(c) \/ Pool!Return(c)
<1>1. /\ Owner' = [g \in Page |-> Owner'[g]]
      /\ \A g \in Page : (\E r \in Req : g \in ToSet(table[r]))
                         \/ (\A r \in Req : g \notin ToSet(table[r]))
  BY DEF Owner, Page
<1>2. CASE /\ ToSet(table'[c]) = ToSet(table[c]) \cup S
           /\ \A r \in Req : ToSet(table[r]) \cap S = {}
  <2>1. \A g \in S : Owner[g] = "free"
    BY <1>2 DEF OwnerReads, Free_
  <2>2. ASSUME NEW g \in Page PROVE Owner'[g] = IF g \in S THEN c ELSE Owner[g]
    <3>1. CASE g \in S
      BY <1>2, <3>1 DEF OwnerReads
    <3>2. CASE g \notin S /\ \E r \in Req : g \in ToSet(table[r])
      BY <1>2, <3>2 DEF OwnerReads
    <3>3. CASE g \notin S /\ \A r \in Req : g \notin ToSet(table[r])
      BY <1>2, <3>3 DEF OwnerReads
    <3>. QED  BY <1>1, <3>1, <3>2, <3>3
  <2>3. Owner' = [g \in Page |-> IF g \in S THEN c ELSE Owner[g]]
    <3>. HIDE DEF Owner
    <3>. QED  BY <1>1, <2>2
  <2>4. Pool!Move(S, "free", c)
    BY <2>1, <2>3 DEF Pool!Move
  <2>. QED  BY <2>4 DEF Pool!Take
<1>3. CASE ToSet(table'[c]) = {} /\ S = ToSet(table[c])
  <2>1. \A g \in S : Owner[g] = c
    BY <1>3 DEF OwnerReads
  <2>2. ASSUME NEW g \in Page PROVE Owner'[g] = IF g \in S THEN "free" ELSE Owner[g]
    <3>1. CASE g \in S
      <4>1. \A r \in Req \ {c} : g \notin ToSet(table[r])
        BY <1>3, <3>1, <2>1 DEF OwnerReads
      <4>. QED  BY <1>3, <3>1, <4>1 DEF OwnerReads, Free_
    <3>2. CASE g \notin S /\ \E r \in Req : g \in ToSet(table[r])
      BY <1>3, <3>2 DEF OwnerReads
    <3>3. CASE g \notin S /\ \A r \in Req : g \notin ToSet(table[r])
      BY <1>3, <3>3 DEF OwnerReads
    <3>. QED  BY <1>1, <3>1, <3>2, <3>3
  <2>3. Owner' = [g \in Page |-> IF g \in S THEN "free" ELSE Owner[g]]
    <3>. HIDE DEF Owner
    <3>. QED  BY <1>1, <2>2
  <2>4. Pool!Move(S, c, "free")
    BY <2>1, <2>3 DEF Pool!Move
  <2>. QED  BY <2>4 DEF Pool!Return
<1>. QED  BY <1>2, <1>3

\* Every step moves pages as the contract of the pool allows.
LEMMA PoolStep ==
    ASSUME ~ RadixEnabled, IInv, OwnerInv, OwnerReads, OwnerReads', [Next]_vars
    PROVE  [Pool!Next]_Owner
<1>0. ASSUME table' = table PROVE Owner' = Owner
  BY <1>0, OwnersStay
<1>1. CASE table' = table
  BY <1>0, <1>1
<1>2. ASSUME NEW c \in Req, FreeRequestKv(c)
      PROVE  Pool!Next
  <2>. DEFINE S == ToSet(table[c])
  <2>1. /\ table \in [Req -> Seq(Page)] /\ table' = [table EXCEPT ![c] = << >>]
    BY <1>2 DEF FreeRequestKv, IInv, CoreInv, TypeOK
  <2>2. S \in SUBSET Page
    BY <2>1, LenProperties, ElementOfSeq DEF ToSet
  <2>3. ToSet(table'[c]) = {} /\ \A r \in Req \ {c} : table'[r] = table[r]
    BY <2>1, EmptyTable
  <2>4. Pool!Take(c) \/ Pool!Return(c)
    BY <2>2, <2>3, OwnersMove
  <2>. QED  BY <2>4 DEF Pool!Next
<1>3. CASE AllocDone
  <2>1. PICK c \in Req : c = cur
    BY <1>3 DEF AllocDone, IInv, CoreInv, ControlInv
  <2>. DEFINE n == Extra(c)
              pop == Popped(n)
              S == ToSet(pop)
  <2>2. /\ n \in 0 .. Len(free) /\ free \in Seq(Page) /\ table \in [Req -> Seq(Page)]
        /\ pop \in Seq(Page)
    <3>1. /\ Peak(c) \in Int /\ Len(table[c]) \in Nat /\ Len(free) \in Nat
          /\ free \in Seq(Page) /\ table \in [Req -> Seq(Page)]
      BY Sizes, LenProperties DEF IInv, CoreInv, TypeOK
    <3>2. n \in 0 .. Len(free)
      BY <1>3, <2>1, <3>1 DEF AllocDone, Extra
    <3>. QED  BY <3>1, <3>2, AllocateTypes
  <2>3. table' = [table EXCEPT ![c] = @ \o pop]
    BY <1>3, <2>1 DEF AllocDone
  <2>4. S \subseteq ToSet(free) /\ IsInjective(pop)
    BY <2>2, FreeListSplit DEF OwnerInv
  <2>. HIDE DEF n, pop
  <2>5. S \in SUBSET Page
    BY <2>2, LenProperties, ElementOfSeq DEF ToSet
  <2>6. \A r \in Req : ToSet(table[r]) \cap S = {}
    BY <2>4 DEF OwnerInv
  <2>7. ToSet(table'[c]) = ToSet(table[c]) \cup S
    <3>1. IsInjective(table[c]) /\ table[c] \in Seq(Page)
      BY <2>2 DEF OwnerInv
    <3>2. ToSet(table[c] \o pop) = ToSet(table[c]) \cup ToSet(pop)
      BY <2>2, <2>4, <2>6, <3>1, FreeListJoined
    <3>. QED  BY <2>2, <2>3, <3>2
  <2>8. \A r \in Req \ {c} : table'[r] = table[r]
    BY <2>2, <2>3
  <2>. HIDE DEF S
  <2>9. Pool!Take(c) \/ Pool!Return(c)
    BY <2>5, <2>6, <2>7, <2>8, OwnersMove
  <2>. QED  BY <2>9 DEF Pool!Next
<1>4. ASSUME NEW r \in Req, Admit(r) \/ PrefillInit(r) \/ (\E t \in Gen[r] : Generate(r, t))
                            \/ AbortUninitialised(r) \/ CommitRaises(r)
      PROVE  table' = table
  BY <1>4 DEF Admit, PrefillInit, Generate, AbortUninitialised, CommitRaises
<1>5. ASSUME NEW r \in Req, CommitLeaf(r) \/ CommitFullEdge(r) \/ CommitSplit(r) \/ CommitEnd(r)
      PROVE  FALSE
  BY <1>5 DEF OwnerInv, CommitLeaf, CommitFullEdge, CommitSplit, CommitEnd, Inserting
<1>6. ASSUME NEW n \in Nodes, AllocEvict(n)
      PROVE  FALSE
  BY <1>6 DEF OwnerInv, IInv, CoreInv, TreeInv
<1>7. CASE AllocFail
  <2>1. PICK c \in Req : c = cur /\ status[c] = "admitted"
    BY <1>7 DEF AllocFail, IInv, CoreInv, ControlInv
  <2>2. table[c] = << >> /\ table' = [table EXCEPT ![c] = << >>] /\ table \in [Req -> Seq(Page)]
    BY <1>7, <2>1 DEF AllocFail, OwnerInv, IInv, CoreInv, TypeOK
  <2>. QED  BY <1>1, <2>2
<1>8. CASE Terminated \/ UNCHANGED vars
  BY <1>1, <1>8 DEF Terminated, vars
<1>. QED  BY <1>1, <1>2, <1>3, <1>4, <1>5, <1>6, <1>7, <1>8 DEF Next, Retire, Abort

\* Without a radix cache the engine implements the contract of the pool: every page
\* has one owner, and changes it only from the pool to a request and back.
THEOREM ImplementsPagePool ==
    ASSUME ~ RadixEnabled
    PROVE  Spec => PagePoolSpec
<1>1. Init => Pool!Init
  <2>. SUFFICES ASSUME Init PROVE Pool!Init
    OBVIOUS
  <2>1. OwnerReads
    BY InitIInv, InitOwnerInv, OwnerIsRead
  <2>2. \A r \in Req : ToSet(table[r]) = {}
    BY EmptyTable DEF Init
  <2>3. \A g \in Page : Owner[g] = "free"
    BY <2>1, <2>2 DEF OwnerReads, Free_
  <2>4. Owner = [g \in Page |-> Owner[g]]
    BY DEF Owner
  <2>. HIDE DEF Owner
  <2>. QED  BY <2>3, <2>4 DEF Pool!Init
<1>2. /\ IInv /\ OwnerInv /\ [Next]_vars => (IInv /\ OwnerInv)'
      /\ Init => IInv /\ OwnerInv
  BY InvariantIsInductive, OwnerInvInductive, InitIInv, InitOwnerInv
<1>3. IInv /\ OwnerInv /\ OwnerReads /\ OwnerReads' /\ [Next]_vars => [Pool!Next]_Owner
  BY PoolStep
<1>. QED  BY <1>1, <1>2, <1>3, OwnerIsRead, PTL DEF Spec, PagePoolSpec, Pool!Spec

-----------------------------------------------------------------------------
(* With a radix cache: whose the pages are *)

\* A slice of a table, by the positions it takes.
LEMMA SliceOf ==
    ASSUME NEW S, NEW t \in Seq(S), NEW a \in Nat, NEW b \in Nat, a <= b, b <= Len(t)
    PROVE  LET s == SubSeq(t, a + 1, b)
           IN  /\ s \in Seq(S) /\ DOMAIN s = 1 .. b - a
               /\ \A i \in 1 .. b - a : s[i] = t[a + i]
               /\ ToSet(s) = {t[i] : i \in a + 1 .. b}
               /\ (\A i, j \in a + 1 .. b : t[i] = t[j] => i = j) => IsInjective(s)
<1>. DEFINE s == SubSeq(t, a + 1, b)
<1>1. s \in Seq(S)
  <2>1. \A i \in a + 1 .. b : t[i] \in S
    BY LenProperties, ElementOfSeq
  <2>. QED  BY <2>1, SubSeqProperties
<1>2. /\ DOMAIN s = 1 .. b - a /\ \A i \in 1 .. b - a : s[i] = t[a + i]
  <2>1. Len(t) \in Nat /\ a + 1 \in Nat /\ a + 1 <= b + 1
    BY LenProperties
  <2>2. DOMAIN s = 1 .. b - a
    BY <2>1
  <2>3. ASSUME NEW i \in 1 .. b - a PROVE s[i] = t[a + i]
    <3>1. (a + 1) + i - 1 = a + i
      OBVIOUS
    <3>. QED  BY <2>1, <3>1
  <2>. QED  BY <2>2, <2>3
<1>. HIDE DEF s
<1>3. \A i \in a + 1 .. b : i - a \in 1 .. b - a /\ a + (i - a) = i
  OBVIOUS
<1>4. \A i \in 1 .. b - a : a + i \in a + 1 .. b
  OBVIOUS
<1>5. ToSet(s) = {t[i] : i \in a + 1 .. b}
  <2>1. ASSUME NEW i \in a + 1 .. b PROVE t[i] = s[i - a] /\ i - a \in DOMAIN s
    BY <1>2, <1>3
  <2>. QED  BY <1>2, <1>4, <2>1 DEF ToSet
<1>6. ASSUME \A i, j \in a + 1 .. b : t[i] = t[j] => i = j PROVE IsInjective(s)
  <2>1. ASSUME NEW i \in 1 .. b - a, NEW j \in 1 .. b - a, s[i] = s[j] PROVE i = j
    <3>1. a + i = a + j
      BY <1>2, <1>4, <1>6, <2>1
    <3>. QED  BY <3>1
  <2>. QED  BY <1>2, <2>1 DEF IsInjective
<1>. QED  BY <1>1, <1>2, <1>5, <1>6 DEF s

\* What two lists hold, one after the other.
LEMMA JoinedMembers ==
    ASSUME NEW S, NEW s \in Seq(S), NEW t \in Seq(S)
    PROVE  ToSet(s \o t) = ToSet(s) \cup ToSet(t)
<1>1. /\ Len(s) \in Nat /\ Len(t) \in Nat /\ DOMAIN s = 1 .. Len(s) /\ DOMAIN t = 1 .. Len(t)
      /\ DOMAIN (s \o t) = 1 .. Len(s) + Len(t)
      /\ \A i \in 1 .. Len(s) : (s \o t)[i] = s[i]
      /\ \A i \in Len(s) + 1 .. Len(s) + Len(t) : (s \o t)[i] = t[i - Len(s)]
  BY LenProperties, ConcatProperties
<1>. DEFINE st == s \o t
<1>. HIDE DEF st
<1>2. /\ DOMAIN st = 1 .. Len(s) + Len(t)
      /\ \A i \in 1 .. Len(s) : st[i] = s[i]
      /\ \A i \in DOMAIN st \ (1 .. Len(s)) : st[i] = t[i - Len(s)] /\ i - Len(s) \in 1 .. Len(t)
      /\ \A i \in 1 .. Len(t) : Len(s) + i \in DOMAIN st /\ st[Len(s) + i] = t[i]
      /\ \A i \in 1 .. Len(s) : i \in DOMAIN st
  BY <1>1 DEF st
<1>3. ToSet(st) \subseteq ToSet(s) \cup ToSet(t)
  BY <1>1, <1>2 DEF ToSet
<1>4. ToSet(s) \subseteq ToSet(st)
  BY <1>1, <1>2 DEF ToSet
<1>5. ToSet(t) \subseteq ToSet(st)
  BY <1>1, <1>2 DEF ToSet
<1>. QED  BY <1>3, <1>4, <1>5 DEF st

\* What is popped off a list and what is left of it.
LEMMA PoppedMembers ==
    ASSUME free \in Seq(Page), NEW n \in 0 .. Len(free)
    PROVE  ToSet(SubSeq(free, 1, Len(free) - n)) \cup ToSet(Popped(n)) = ToSet(free)
<1>. DEFINE left == SubSeq(free, 1, Len(free) - n)
            pop  == Popped(n)
            k    == Len(free) - n
<1>1. Len(free) \in Nat /\ n \in Nat /\ k \in 0 .. Len(free) /\ DOMAIN free = 1 .. Len(free)
  BY LenProperties
<1>2. DOMAIN left = 1 .. k /\ \A i \in 1 .. k : left[i] = free[i]
  BY <1>1
<1>3. DOMAIN pop = 1 .. n /\ \A i \in 1 .. n : pop[i] = free[Len(free) + 1 - i]
  BY DEF Popped
<1>. HIDE DEF left, pop
<1>4. ASSUME NEW i \in 1 .. Len(free) PROVE free[i] \in ToSet(left) \cup ToSet(pop)
  <2>1. CASE i <= k
    BY <1>1, <1>2, <2>1 DEF ToSet
  <2>2. CASE i > k
    <3>1. Len(free) + 1 - i \in 1 .. n /\ Len(free) + 1 - (Len(free) + 1 - i) = i
      BY <1>1, <2>2
    <3>. QED  BY <1>3, <3>1 DEF ToSet
  <2>. QED  BY <1>1, <2>1, <2>2
<1>5. ToSet(left) \subseteq ToSet(free)
  BY <1>1, <1>2 DEF ToSet
<1>6. ToSet(pop) \subseteq ToSet(free)
  <2>1. \A i \in 1 .. n : Len(free) + 1 - i \in DOMAIN free
    BY <1>1
  <2>. QED  BY <1>3, <2>1 DEF ToSet
<1>. QED  BY <1>1, <1>4, <1>5, <1>6 DEF ToSet, left, pop

-----------------------------------------------------------------------------
(* What a commit finds of its own *)

\* Slices of sequences that agree up to there are the same.
LEMMA SameSlice ==
    ASSUME NEW S, NEW s \in Seq(S), NEW t \in Seq(S), NEW a \in Nat, NEW b \in Nat,
           a <= b, b <= Len(s), b <= Len(t), \A j \in 1 .. Len(s) : t[j] = s[j]
    PROVE  SubSeq(t, a + 1, b) = SubSeq(s, a + 1, b)
<1>1. Len(s) \in Nat /\ \A i \in 1 .. b - a : a + i \in 1 .. Len(s)
  BY LenProperties
<1>. DEFINE u == SubSeq(s, a + 1, b)
            v == SubSeq(t, a + 1, b)
<1>2. /\ u \in Seq(S) /\ DOMAIN u = 1 .. b - a /\ \A i \in 1 .. b - a : u[i] = s[a + i]
      /\ v \in Seq(S) /\ DOMAIN v = 1 .. b - a /\ \A i \in 1 .. b - a : v[i] = t[a + i]
  BY SliceOf
<1>. HIDE DEF u, v
<1>3. \A i \in 1 .. b - a : u[i] = v[i]
  BY <1>1, <1>2
<1>4. u = [i \in DOMAIN u |-> u[i]] /\ v = [i \in DOMAIN v |-> v[i]]
  BY <1>2
<1>. QED  BY <1>2, <1>3, <1>4 DEF u, v

\* A longer token sequence has the keys of the shorter one and maybe more.
LEMMA KeysGrow ==
    ASSUME NEW s \in Seq(Token), NEW t \in Seq(Token)
    PROVE  /\ Len(Keys(s)) \in Nat /\ Len(Keys(s \o t)) \in Nat
           /\ Len(Keys(s)) <= Len(Keys(s \o t))
           /\ \A i \in 1 .. Len(Keys(s)) : Keys(s \o t)[i] = Keys(s)[i]
<1>. DEFINE m == Len(s)
            n == Len(s \o t)
<1>1. /\ s \o t \in Seq(Token) /\ m \in Nat /\ n \in Nat /\ m <= n
      /\ \A j \in 1 .. m : (s \o t)[j] = s[j]
  BY LenProperties, ConcatProperties
<1>2. Len(Keys(s)) = WholePages(m) /\ Len(Keys(s \o t)) = WholePages(n)
  BY <1>1, KeysType
<1>. HIDE DEF m, n
<1>3. /\ WholePages(m) \in Nat /\ WholePages(n) \in Nat /\ WholePages(m) <= WholePages(n)
  <2>1. WholePages(m) \in Nat /\ WholePages(n) \in Nat
    <3>1. \A a \in Nat : a <= a
      OBVIOUS
    <3>. QED  BY <1>1, <3>1, PagesMonotonic, PoolAssumption
  <2>2. PageSize \in Nat \ {0}
    BY PoolAssumption
  <2>3. m \div PageSize <= n \div PageSize
    BY <1>1, <2>2
  <2>. QED  BY <2>1, <2>3 DEF WholePages
<1>4. \A i \in 1 .. WholePages(m) : (i - 1) * PageSize \in Nat /\ i * PageSize <= m
  BY <1>1, PagesMonotonic, PoolAssumption
<1>5. ASSUME NEW i \in 1 .. WholePages(m)
      PROVE  Keys(s \o t)[i] = Keys(s)[i]
  <2>1. (i - 1) * PageSize \in Nat /\ i * PageSize <= m /\ i * PageSize = (i - 1) * PageSize + PageSize
    BY <1>4, PoolAssumption
  <2>2. PICK a \in Nat, b \in Nat : a = (i - 1) * PageSize /\ b = i * PageSize /\ a <= b /\ b <= m
    BY <2>1, PoolAssumption
  <2>3. SubSeq(s \o t, a + 1, b) = SubSeq(s, a + 1, b)
    <3>1. b <= n
      BY <1>1, <2>2
    <3>. DEFINE u == s \o t
    <3>2. /\ u \in Seq(Token) /\ a <= b /\ b <= Len(s) /\ b <= Len(u)
          /\ \A j \in 1 .. Len(s) : u[j] = s[j]
      BY <1>1, <2>2, <3>1 DEF m, n
    <3>3. SubSeq(u, a + 1, b) = SubSeq(s, a + 1, b)
      <4>. HIDE DEF u
      <4>. QED  BY <3>2, SameSlice
    <3>. QED  BY <3>3
  <2>4. i \in 1 .. WholePages(n)
    BY <1>3
  <2>5. /\ Keys(s \o t)[i] = SubSeq(s \o t, a + 1, b)
        /\ Keys(s)[i] = SubSeq(s, a + 1, b)
    BY <2>2, <2>4 DEF Keys, m, n
  <2>. QED  BY <2>3, <2>5
<1>. QED  BY <1>2, <1>3, <1>5

\* The sequence a request commits begins with its whole prompt, and so with what it
\* borrowed.
LEMMA CommittedStarts ==
    ASSUME CoreInv, NEW r \in Req, Borrows(r), table[r] # << >>
    PROVE  /\ hit[r] \in 0 .. Len(Committed(r)) /\ hit[r] <= Len(table[r])
           /\ \A i \in 1 .. hit[r] : /\ PrefixOf(Committed(r), i) \in DOMAIN page
                                     /\ page[PrefixOf(Committed(r), i)] = table[r][i]
<1>0. Prompt[r] \in Seq(Token) /\ out[r] \in Seq(Token) /\ Tokens(r) \in Seq(Token)
  BY EngineAssumption, ConcatProperties DEF CoreInv, CoreTypes, Tokens
<1>1. PICK k \in Seq(Key), q \in Seq(Key) : k = Keys(Prompt[r]) /\ q = Committed(r)
  BY <1>0, KeysType DEF Committed
<1>2. /\ Len(k) \in Nat /\ Len(q) \in Nat /\ Len(k) <= Len(q)
      /\ \A i \in 1 .. Len(k) : q[i] = k[i]
  BY <1>0, <1>1, KeysGrow DEF Committed, Tokens
<1>4. /\ hit[r] \in 0 .. Len(k) /\ hit[r] <= Len(table[r])
      /\ \A i \in 1 .. hit[r] : PrefixOf(k, i) \in DOMAIN page /\ page[PrefixOf(k, i)] = table[r][i]
  BY <1>1 DEF Borrows
<1>5. ASSUME NEW i \in 1 .. hit[r] PROVE PrefixOf(q, i) = PrefixOf(k, i)
  <2>1. i \in 0 .. Len(k) /\ i \in 0 .. Len(q) /\ i \in 1 .. Len(k)
    BY <1>2, <1>4
  <2>2. /\ PrefixOf(k, i) \in Seq(Key) /\ Len(PrefixOf(k, i)) = i
        /\ PrefixOf(q, i) \in Seq(Key) /\ Len(PrefixOf(q, i)) = i
        /\ \A j \in 1 .. i : PrefixOf(k, i)[j] = k[j] /\ PrefixOf(q, i)[j] = q[j]
    BY <2>1, PrefixOfProperties
  <2>3. \A j \in 1 .. i : j \in 1 .. Len(k)
    BY <2>1, <1>2
  <2>4. \A j \in 1 .. i : PrefixOf(q, i)[j] = PrefixOf(k, i)[j]
    BY <1>2, <2>2, <2>3
  <2>. QED  BY <2>2, <2>4, SeqEqual
<1>. QED  BY <1>1, <1>2, <1>4, <1>5

\* The walk stands where the edge of the child begins.
LEMMA ChildEdge ==
    ASSUME CoreInv, NEW r \in Req, Inserting(r), HasChild(Committed(r), at)
    PROVE  LET c == Child(Committed(r), at)
           IN  /\ c \in Nodes /\ c \in Seq(Key) /\ Len(c) \in Nat
               /\ EdgeStart(c) = at /\ at < Len(c)
               /\ Cardinality(Edge(c)) = Len(c) - at
<1>. DEFINE q == Committed(r)
            c == Child(q, at)
            p == PrefixOf(q, at + 1)
<1>1. /\ q \in Seq(Key) /\ Len(q) \in Nat /\ at \in Nat /\ at < Len(q)
      /\ at = 0 \/ PrefixOf(q, at) \in Nodes
  BY InsertingFacts
<1>2. /\ p \in DOMAIN page /\ c \in Nodes /\ c \in Seq(Key) /\ IsPrefix(p, c)
      /\ OwnerNode(p) = c /\ Len(c) \in Nat
  BY OwnerProperties, LenProperties DEF HasChild, Child, CoreInv, TreeInv
<1>3. p \in Seq(Key) /\ Len(p) = at + 1 /\ p \in Edge(c)
  BY <1>1, <1>2, PrefixOfProperties DEF Edge
<1>4. /\ EdgeStart(c) \in Nat /\ Len(c) = EdgeStart(c) + Cardinality(Edge(c))
      /\ Cardinality(Edge(c)) \in Nat
      /\ Edge(c) = {PrefixOf(c, i) : i \in EdgeStart(c) + 1 .. Len(c)}
  BY <1>2, EdgeIsInterval DEF CoreInv
<1>. HIDE DEF q, c, p
<1>5. at + 1 <= Len(c)
  BY <1>2, <1>3, PrefixPointwise
<1>6. EdgeStart(c) <= at
  <2>1. PICK i \in EdgeStart(c) + 1 .. Len(c) : p = PrefixOf(c, i)
    BY <1>3, <1>4
  <2>2. i \in 0 .. Len(c)
    BY <1>2, <1>4
  <2>3. Len(p) = i
    BY <1>2, <2>1, <2>2, PrefixOfProperties
  <2>. QED  BY <1>1, <1>3, <1>4, <2>1, <2>3
<1>7. ~ (EdgeStart(c) < at)
  <2>1. SUFFICES ASSUME EdgeStart(c) < at
                 PROVE  FALSE
    OBVIOUS
  <2>2. at # 0 /\ PrefixOf(q, at) \in Nodes /\ at \in EdgeStart(c) + 1 .. Len(c)
    BY <1>1, <1>4, <1>5, <2>1
  <2>3. PrefixOf(q, at) = PrefixOf(c, at)
    <3>1. at \in 0 .. at + 1 /\ at + 1 \in 0 .. Len(c) /\ at + 1 \in 0 .. Len(q)
      BY <1>1, <1>2, <1>5
    <3>2. PrefixOf(PrefixOf(q, at + 1), at) = PrefixOf(q, at)
      BY <1>1, <3>1, PrefixOfPrefixOf
    <3>3. p = PrefixOf(c, at + 1)
      BY <1>2, <1>3, PrefixIsPrefixOf
    <3>4. PrefixOf(PrefixOf(c, at + 1), at) = PrefixOf(c, at)
      BY <1>2, <3>1, PrefixOfPrefixOf
    <3>. QED  BY <3>2, <3>3, <3>4 DEF p
  <2>4. PrefixOf(q, at) \in Edge(c)
    BY <1>4, <2>2, <2>3
  <2>5. OwnerNode(PrefixOf(q, at)) = c /\ OwnerNode(PrefixOf(q, at)) = PrefixOf(q, at)
    BY <2>2, <2>4, NodeOwnsItself DEF Edge, CoreInv
  <2>6. Len(PrefixOf(q, at)) = at
    BY <1>1, PrefixOfProperties
  <2>. QED  BY <1>1, <1>5, <2>5, <2>6
<1>. QED  BY <1>1, <1>2, <1>4, <1>5, <1>6, <1>7 DEF c, q

-----------------------------------------------------------------------------
(* What each step does to the owners of the pages *)

\* The step leaves request r the pages it owns, at their places; or some of them.
SamePlaces(r) ==
    /\ OwnPositions(r)' = OwnPositions(r)
    /\ \A i \in OwnPositions(r) : table'[r][i] = table[r][i]
FewerPlaces(r) ==
    /\ OwnPositions(r)' \subseteq OwnPositions(r)
    /\ \A i \in OwnPositions(r)' : table'[r][i] = table[r][i]

\* Places of the table, and what they hold.
LEMMA OwnTypes ==
    ASSUME CoreInv, NEW r \in Req
    PROVE  /\ table[r] \in Seq(Page) /\ Len(table[r]) \in Nat /\ DOMAIN table[r] = 1 .. Len(table[r])
           /\ \A i \in 1 .. Len(table[r]) : table[r][i] \in Page
           /\ OwnPositions(r) \subseteq 1 .. Len(table[r])
           /\ OwnPages(r) \subseteq Page
<1>1. table[r] \in Seq(Page) /\ Len(table[r]) \in Nat /\ DOMAIN table[r] = 1 .. Len(table[r])
  BY LenProperties DEF CoreInv, CoreTypes
<1>2. \A i \in 1 .. Len(table[r]) : table[r][i] \in Page
  BY <1>1, ElementOfSeq
<1>. QED  BY <1>1, <1>2 DEF OwnPositions, OwnPages

\* These steps move no page: the places of a request in allocate are borrowed.
LEMMA NoPlaceMoves ==
    ASSUME IInv, BorrowInv,
           \/ UNCHANGED vars \/ AllocFail
           \/ \E r \in Req : \/ Admit(r) \/ PrefillInit(r) \/ AbortUninitialised(r)
                             \/ CommitRaises(r)
                             \/ \E t \in Gen[r] : Generate(r, t)
                             \/ RadixEnabled /\ FreeRequestKv(r)
    PROVE  UNCHANGED <<free, page>> /\ \A s \in Req : SamePlaces(s)
<1>0. /\ table \in [Req -> Seq(Page)] /\ hit \in [Req -> Nat] /\ at \in Nat
      /\ \A r \in Req : Len(table[r]) \in Nat
  BY LenProperties DEF IInv, TypeOK
<1>1. ASSUME UNCHANGED <<free, page, table, hit>>, pc # "insert",
             pc' = "insert" => at' = 0
      PROVE  UNCHANGED <<free, page>> /\ \A s \in Req : SamePlaces(s)
  BY <1>0, <1>1 DEF SamePlaces, OwnPositions
<1>2. CASE UNCHANGED vars
  BY <1>2 DEF vars, SamePlaces, OwnPositions
<1>3. CASE AllocFail
  <2>1. PICK c \in Req : /\ c = cur /\ hit[c] = Len(table[c]) /\ pc = "allocate"
    BY <1>3 DEF AllocFail, IInv, CoreInv, ControlInv, BorrowInv, PagesInv
  <2>2. /\ table' = [table EXCEPT ![c] = << >>] /\ hit' = [hit EXCEPT ![c] = 0]
        /\ pc' = "idle" /\ UNCHANGED <<free, page>>
    BY <1>3, <2>1 DEF AllocFail, Unlock
  <2>3. OwnPositions(c) = {} /\ OwnPositions(c)' = {}
    BY <1>0, <2>1, <2>2, EmptySeq DEF OwnPositions
  <2>4. \A s \in Req \ {c} : SamePlaces(s)
    BY <1>0, <2>1, <2>2 DEF SamePlaces, OwnPositions
  <2>. QED  BY <2>2, <2>3, <2>4 DEF SamePlaces
<1>4. ASSUME NEW r \in Req, PrefillInit(r)
      PROVE  UNCHANGED <<free, page>> /\ \A s \in Req : SamePlaces(s)
  <2>. DEFINE q == Keys(Prompt[r])
  <2>1. /\ pc = "idle" /\ pc' = "allocate" /\ UNCHANGED <<free, page>>
        /\ status[r] = "admitted" /\ table[r] = << >> /\ hit[r] = 0
    BY <1>4 DEF PrefillInit, MatchAndLock, BorrowInv, PagesInv
  <2>2. CASE ~ RadixEnabled
    BY <1>1, <1>4, <2>1, <2>2 DEF PrefillInit
  <2>3. CASE RadixEnabled
    <3>1. /\ table' = [table EXCEPT ![r] = MatchedPages(q)] /\ hit' = [hit EXCEPT ![r] = MatchLen(q)]
      BY <1>4, <2>3 DEF PrefillInit
    <3>2. MatchLen(q) \in Nat /\ Len(MatchedPages(q)) = MatchLen(q)
      <4>1. q \in Seq(Key)
        BY EngineAssumption, KeysType
      <4>. HIDE DEF q
      <4>2. MatchLen(q) \in Nat /\ \A i \in 1 .. MatchLen(q) : PrefixOf(q, i) \in DOMAIN page
        BY <4>1, MatchLenProperties, LenProperties
      <4>3. MatchedPages(q) \in [1 .. MatchLen(q) -> Page]
        BY <4>2 DEF MatchedPages, IInv, TypeOK
      <4>. QED  BY <4>2, <4>3, FunctionIsSequence
    <3>. HIDE DEF q
    <3>3. OwnPositions(r) = {} /\ OwnPositions(r)' = {}
      BY <1>0, <2>1, <3>1, <3>2, EmptySeq DEF OwnPositions
    <3>4. \A s \in Req \ {r} : SamePlaces(s)
      BY <1>0, <2>1, <3>1 DEF SamePlaces, OwnPositions
    <3>. QED  BY <2>1, <3>3, <3>4 DEF SamePlaces
  <2>. QED  BY <2>2, <2>3
<1>5. ASSUME NEW r \in Req, Admit(r) \/ AbortUninitialised(r) \/ (\E t \in Gen[r] : Generate(r, t))
                             \/ (RadixEnabled /\ FreeRequestKv(r)) \/ CommitRaises(r)
      PROVE  UNCHANGED <<free, page>> /\ \A s \in Req : SamePlaces(s)
  <2>1. UNCHANGED <<free, page, table, hit>> /\ pc # "insert" /\ (pc' = "insert" => at' = 0)
    BY <1>5 DEF Admit, AbortUninitialised, Generate, FreeRequestKv, CommitRaises, reqVars
  <2>. QED  BY <1>1, <2>1
<1>. QED  BY <1>2, <1>3, <1>4, <1>5

\* A turn of insert_and_return takes from the places of its request those it walks.
LEMMA TurnTakesPlaces ==
    ASSUME CoreInv, NEW r \in Req, pc = "insert", cur = r, UNCHANGED <<table, hit, pc, cur>>,
           at' \in Nat, at <= at'
    PROVE  /\ OwnPositions(r)' = OwnPositions(r) \ (at + 1 .. at')
           /\ \A s \in Req \ {r} : SamePlaces(s)
           /\ \A s \in Req : FewerPlaces(s)
<1>0. /\ at \in Nat /\ \A s \in Req : hit[s] \in Nat /\ Len(table[s]) \in Nat
  BY LenProperties DEF CoreInv, CoreTypes
<1>1. OwnPositions(r)' = OwnPositions(r) \ (at + 1 .. at')
  BY <1>0 DEF OwnPositions
<1>2. \A s \in Req \ {r} : SamePlaces(s)
  BY DEF SamePlaces, OwnPositions
<1>. QED  BY <1>1, <1>2 DEF SamePlaces, FewerPlaces

\* The places a request gives back at its end are all it has.
LEMMA EndTakesPlaces ==
    ASSUME CoreInv, NEW r \in Req, table' = [table EXCEPT ![r] = << >>], hit' = hit,
           pc = "idle" \/ (pc = "insert" /\ cur = r), pc' = "idle"
    PROVE  /\ OwnPositions(r)' = {}
           /\ \A s \in Req \ {r} : SamePlaces(s)
           /\ \A s \in Req : FewerPlaces(s)
<1>0. table \in [Req -> Seq(Page)]
  BY DEF CoreInv, CoreTypes
<1>1. OwnPositions(r)' = {}
  BY <1>0, EmptySeq DEF OwnPositions
<1>2. \A s \in Req \ {r} : SamePlaces(s)
  BY <1>0 DEF SamePlaces, OwnPositions
<1>. QED  BY <1>1, <1>2 DEF SamePlaces, FewerPlaces

\* Where a request that runs, and commits, has its own pages.
LEMMA RunningPlaces ==
    ASSUME CoreInv, BorrowInv, NEW r \in Req, status[r] = "running"
    PROVE  /\ ~ RadixEnabled /\ pc # "insert" => OwnPositions(r) = 1 .. Len(table[r])
           /\ pc = "insert" /\ cur = r /\ at = Len(Committed(r)) =>
                 OwnPositions(r) = at + 1 .. Len(table[r])
<1>1. /\ table[r] \in Seq(Page) /\ Len(table[r]) \in Nat /\ hit[r] \in Nat /\ at \in Nat
      /\ Borrows(r)
  BY LenProperties DEF CoreInv, CoreTypes, BorrowInv, PagesInv
<1>2. CASE table[r] = << >>
  BY <1>1, <1>2, EmptySeq DEF OwnPositions
<1>3. CASE table[r] # << >>
  <2>1. ~ RadixEnabled => hit[r] = 0
    <3>1. SUFFICES ASSUME ~ RadixEnabled, hit[r] > 0
                   PROVE  FALSE
      BY <1>1
    <3>2. lock[r] = Root
      BY <3>1 DEF CoreInv, UnlockedInv
    <3>3. /\ hit[r] \in 0 .. Len(Keys(Prompt[r]))
          /\ IsPrefix(PrefixOf(Keys(Prompt[r]), hit[r]), Root)
      BY <1>3, <3>1, <3>2, <1>1 DEF Borrows
    <3>4. Keys(Prompt[r]) \in Seq(Key)
      BY EngineAssumption, KeysType
    <3>5. Len(PrefixOf(Keys(Prompt[r]), hit[r])) = hit[r]
      BY <3>3, <3>4, PrefixOfProperties
    <3>. QED  BY <1>1, <3>1, <3>3, <3>5, EmptySeq DEF Root, IsPrefix
  <2>2. hit[r] <= Len(Committed(r)) /\ Len(Committed(r)) \in Nat
    <3>1. hit[r] \in 0 .. Len(Committed(r))
      BY <1>1, <1>3, CommittedStarts
    <3>. QED  BY <3>1, Sizes, LenProperties
  <2>3. ASSUME ~ RadixEnabled, pc # "insert"
        PROVE  OwnPositions(r) = 1 .. Len(table[r])
    BY <1>1, <2>1, <2>3 DEF OwnPositions
  <2>4. ASSUME pc = "insert", cur = r, at = Len(Committed(r))
        PROVE  OwnPositions(r) = at + 1 .. Len(table[r])
    BY <1>1, <2>2, <2>4 DEF OwnPositions
  <2>. QED  BY <2>3, <2>4
<1>. QED  BY <1>2, <1>3

\* What the places say about the pages.
LEMMA PlacesToPages ==
    ASSUME NEW r \in Req
    PROVE  /\ SamePlaces(r) => FewerPlaces(r) /\ OwnPages(r)' = OwnPages(r)
           /\ FewerPlaces(r) => OwnPages(r)' \subseteq OwnPages(r)
<1>1. OwnPages(r)' = {table'[r][i] : i \in OwnPositions(r)'}
  BY DEF OwnPages
<1>. QED  BY <1>1 DEF SamePlaces, FewerPlaces, OwnPages

\* Eviction puts the pages of an edge on the free list.
LEMMA EvictEffect ==
    ASSUME IInv, NEW n \in Nodes, AllocEvict(n)
    PROVE  /\ EdgePages(n) \in Seq(Page) /\ free' = free \o EdgePages(n)
           /\ DOMAIN EdgePages(n) = 1 .. Cardinality(Edge(n))
           /\ ToSet(EdgePages(n)) = {page[p] : p \in Edge(n)}
           /\ (\A p, q \in Edge(n) : page[p] = page[q] => p = q) => IsInjective(EdgePages(n))
           /\ Edge(n) \subseteq DOMAIN page
           /\ DOMAIN page' = DOMAIN page \ Edge(n)
           /\ \A p \in DOMAIN page' : page'[p] = page[p]
           /\ \A r \in Req : SamePlaces(r)
<1>1. /\ free' = free \o EdgePages(n)
      /\ page' = [p \in DOMAIN page \ Edge(n) |-> page[p]]
      /\ UNCHANGED <<table, hit, pc, cur, at>>
  BY DEF AllocEvict, EvictLeaf, Free, reqVars
<1>2. Edge(n) \subseteq DOMAIN page
  BY DEF Edge
<1>3. /\ Cardinality(Edge(n)) \in Nat
      /\ \A i \in 1 .. Cardinality(Edge(n)) : PrefixOf(n, EdgeStart(n) + i) \in DOMAIN page
  BY EdgeProperties DEF IInv, CoreInv
<1>4. EdgePages(n) \in [1 .. Cardinality(Edge(n)) -> Page]
  BY <1>3 DEF EdgePages, IInv, TypeOK
<1>5. EdgePages(n) \in Seq(Page)
  BY <1>3, <1>4, FunctionIsSequence
<1>6. \A r \in Req : SamePlaces(r)
  BY <1>1 DEF SamePlaces, OwnPositions
<1>. HIDE DEF EdgePages, Edge
<1>. QED  BY <1>1, <1>2, <1>5, <1>6, EdgePagesAre DEF IInv, CoreInv

\* allocate takes pages off the free list for a request that has none of its own.
LEMMA TakeEffect ==
    ASSUME CoreInv, BorrowInv, AllocDone
    PROVE  \E c \in Req :
             LET t == Popped(Extra(c))
                 k == Len(table[c])
             IN  /\ c = cur /\ UNCHANGED page /\ k \in Nat
                 /\ Extra(c) \in 0 .. Len(free) /\ t \in Seq(Page) /\ Len(t) = Extra(c)
                 /\ free' = SubSeq(free, 1, Len(free) - Extra(c))
                 /\ OwnPositions(c) = {}
                 /\ OwnPositions(c)' = k + 1 .. k + Len(t)
                 /\ \A i \in k + 1 .. k + Len(t) : table'[c][i] = t[i - k]
                 /\ \A s \in Req \ {c} : SamePlaces(s)
<1>1. PICK c \in Req : c = cur
  BY DEF AllocDone, CoreInv, ControlInv
<1>. DEFINE n == Extra(c)
            t == Popped(n)
            k == Len(table[c])
<1>2. /\ Peak(c) \in Int /\ k \in Nat /\ Len(free) \in Nat
      /\ free \in Seq(Page) /\ table \in [Req -> Seq(Page)] /\ table[c] \in Seq(Page)
      /\ hit \in [Req -> Nat] /\ hit[c] = k
  BY <1>1, Sizes, LenProperties DEF CoreInv, CoreTypes, BorrowInv, PagesInv, AllocDone
<1>3. n \in 0 .. Len(free)
  BY <1>1, <1>2 DEF AllocDone, Extra
<1>4. t \in Seq(Page) /\ Len(t) = n
  BY <1>2, <1>3, AllocateTypes
<1>5. /\ table' = [table EXCEPT ![c] = table[c] \o t] /\ free' = SubSeq(free, 1, Len(free) - n)
      /\ pc = "allocate" /\ pc' = "idle" /\ UNCHANGED <<page, hit>>
  BY <1>1, <1>2 DEF AllocDone, Allocate
<1>. HIDE DEF n, t, k
<1>6. table'[c] = table[c] \o t /\ \A s \in Req \ {c} : table'[s] = table[s]
  BY <1>2, <1>5
<1>7. /\ Len(table'[c]) = k + Len(t) /\ n \in Nat
      /\ \A i \in k + 1 .. k + Len(t) : table'[c][i] = t[i - k]
  BY <1>2, <1>3, <1>4, <1>6, ConcatProperties, LenProperties DEF k
<1>8. OwnPositions(c) = {} /\ OwnPositions(c)' = k + 1 .. k + Len(t)
  BY <1>2, <1>4, <1>5, <1>7 DEF OwnPositions, k
<1>9. \A s \in Req \ {c} : SamePlaces(s)
  BY <1>5, <1>6 DEF SamePlaces, OwnPositions
<1>. QED  BY <1>1, <1>2, <1>3, <1>4, <1>5, <1>7, <1>8, <1>9 DEF n, t, k

\* A new leaf takes its pages from the request, which had borrowed none of them.
LEMMA LeafEffect ==
    ASSUME CoreInv, BorrowInv, NEW r \in Req, CommitLeaf(r)
    PROVE  LET q   == Committed(r)
               new == {PrefixOf(q, i) : i \in at + 1 .. Len(q)}
           IN  /\ UNCHANGED free
               /\ at + 1 .. Len(q) \subseteq OwnPositions(r)
               /\ OwnPositions(r)' = OwnPositions(r) \ (at + 1 .. Len(q))
               /\ \A s \in Req : FewerPlaces(s)
               /\ \A s \in Req \ {r} : SamePlaces(s)
               /\ DOMAIN page' = DOMAIN page \cup new /\ DOMAIN page \cap new = {}
               /\ \A p \in DOMAIN page : page'[p] = page[p]
               /\ \A p \in new : Len(p) \in at + 1 .. Len(q) /\ page'[p] = table[r][Len(p)]
               /\ \A i \in at + 1 .. Len(q) : PrefixOf(q, i) \in new /\ page'[PrefixOf(q, i)] = table[r][i]
               /\ \A p, s \in new : Len(p) = Len(s) => p = s
<1>. DEFINE q   == Committed(r)
            new == {PrefixOf(q, i) : i \in at + 1 .. Len(q)}
<1>1. /\ Inserting(r) /\ ~ HasChild(q, at) /\ UNCHANGED <<free, table, hit, pc, cur>> /\ at' = Len(q)
      /\ page' = [p \in DOMAIN page \cup new |-> IF p \in new THEN table[r][Len(p)] ELSE page[p]]
  BY DEF CommitLeaf, InsertLeaf, reqVars
<1>2. /\ q \in Seq(Key) /\ Len(q) \in Nat /\ at \in Nat /\ at < Len(q) /\ Len(q) <= Len(table[r])
      /\ pc = "insert" /\ cur = r
  BY <1>1, InsertingFacts
<1>3. DOMAIN page \cap new = {}
  BY <1>1, <1>2, LeafIsNew DEF CoreInv
<1>4. \A i \in at + 1 .. Len(q) : Len(PrefixOf(q, i)) = i
  BY <1>2, PrefixOfProperties
<1>5. hit[r] <= at /\ hit[r] \in Nat /\ Len(table[r]) \in Nat
  <2>1. hit[r] \in Nat /\ Borrows(r) /\ table[r] \in Seq(Page) /\ Len(table[r]) \in Nat
    BY LenProperties DEF CoreInv, CoreTypes, BorrowInv, PagesInv
  <2>2. table[r] # << >>
    BY <1>2, <2>1, EmptySeq
  <2>3. \A i \in 1 .. hit[r] : PrefixOf(q, i) \in DOMAIN page
    BY <2>1, <2>2, CommittedStarts
  <2>4. PrefixOf(q, at + 1) \notin DOMAIN page
    BY <1>1 DEF HasChild
  <2>. HIDE DEF q
  <2>. QED  BY <1>2, <2>1, <2>3, <2>4
<1>. HIDE DEF q
<1>6. at + 1 .. Len(q) \subseteq OwnPositions(r)
  BY <1>2, <1>5 DEF OwnPositions
<1>7. /\ OwnPositions(r)' = OwnPositions(r) \ (at + 1 .. Len(q))
      /\ \A s \in Req \ {r} : SamePlaces(s)
      /\ \A s \in Req : FewerPlaces(s)
  <2>1. at' \in Nat /\ at <= at'
    BY <1>1, <1>2
  <2>. QED  BY <1>1, <1>2, <2>1, TurnTakesPlaces
<1>8. /\ \A p \in new : Len(p) \in at + 1 .. Len(q) /\ p = PrefixOf(q, Len(p))
      /\ \A i \in at + 1 .. Len(q) : PrefixOf(q, i) \in new
  BY <1>4
<1>. HIDE DEF new
<1>9. /\ DOMAIN page' = DOMAIN page \cup new
      /\ \A p \in DOMAIN page : page'[p] = page[p]
      /\ \A p \in new : page'[p] = table[r][Len(p)]
  BY <1>1, <1>3
<1>10. \A i \in at + 1 .. Len(q) : PrefixOf(q, i) \in new /\ page'[PrefixOf(q, i)] = table[r][i]
  BY <1>4, <1>8, <1>9
<1>11. \A p, s \in new : Len(p) = Len(s) => p = s
  BY <1>8
<1>. QED  BY <1>1, <1>3, <1>6, <1>7, <1>8, <1>9, <1>10, <1>11 DEF q, new

\* An edge that matches whole gives back the pages of the table there, or nothing.
LEMMA FullEdgeEffect ==
    ASSUME CoreInv, NEW r \in Req, CommitFullEdge(r)
    PROVE  LET c  == Child(Committed(r), at)
               in == SubSeq(table[r], at + 1, Len(c))
           IN  /\ UNCHANGED page
               /\ Inserting(r) /\ HasChild(Committed(r), at) /\ IsPrefix(c, Committed(r))
               /\ c \in Nodes /\ Len(c) \in Nat /\ at < Len(c) /\ Len(c) <= Len(table[r])
               /\ in \in Seq(Page)
               /\ ToSet(in) = {table[r][i] : i \in at + 1 .. Len(c)}
               /\ (\A i, j \in at + 1 .. Len(c) : table[r][i] = table[r][j] => i = j) => IsInjective(in)
               /\ free' = free \o (IF in = EdgePages(c) THEN << >> ELSE in)
               /\ in = EdgePages(c) => \A i \in at + 1 .. Len(c) : table[r][i] \in CachedPages
               /\ OwnPositions(r)' = OwnPositions(r) \ (at + 1 .. Len(c))
               /\ \A s \in Req : FewerPlaces(s)
               /\ \A s \in Req \ {r} : SamePlaces(s)
<1>. DEFINE q  == Committed(r)
            c  == Child(q, at)
            in == SubSeq(table[r], at + 1, Len(c))
<1>1. /\ Inserting(r) /\ HasChild(q, at) /\ IsPrefix(c, q)
      /\ UNCHANGED <<page, table, hit, pc, cur>> /\ at' = Len(c)
      /\ free' = free \o (IF in = EdgePages(c) THEN << >> ELSE in)
  BY DEF CommitFullEdge, InsertFullEdge, Free, reqVars
<1>2. /\ q \in Seq(Key) /\ Len(q) \in Nat /\ at \in Nat /\ at < Len(q) /\ Len(q) <= Len(table[r])
      /\ pc = "insert" /\ cur = r /\ table[r] \in Seq(Page) /\ Len(table[r]) \in Nat
  BY <1>1, InsertingFacts, LenProperties
<1>3. /\ c \in Nodes /\ c \in Seq(Key) /\ Len(c) \in Nat /\ at < Len(c) /\ EdgeStart(c) = at
      /\ Cardinality(Edge(c)) = Len(c) - at
  BY <1>1, ChildEdge
<1>. HIDE DEF c, q
<1>4. Len(c) <= Len(q)
  BY <1>1, <1>2, <1>3, PrefixPointwise
<1>5. /\ in \in Seq(Page) /\ DOMAIN in = 1 .. Len(c) - at
      /\ \A i \in 1 .. Len(c) - at : in[i] = table[r][at + i]
      /\ ToSet(in) = {table[r][i] : i \in at + 1 .. Len(c)}
      /\ (\A i, j \in at + 1 .. Len(c) : table[r][i] = table[r][j] => i = j) => IsInjective(in)
  <2>1. at <= Len(c) /\ Len(c) <= Len(table[r])
    BY <1>2, <1>3, <1>4
  <2>2. PICK a \in Nat, b \in Nat, T \in Seq(Page) : a = at /\ b = Len(c) /\ T = table[r]
    BY <1>2, <1>3
  <2>. DEFINE v == SubSeq(T, a + 1, b)
  <2>3. a <= b /\ b <= Len(T)
    BY <2>1, <2>2
  <2>4. /\ v \in Seq(Page) /\ DOMAIN v = 1 .. b - a
        /\ \A i \in 1 .. b - a : v[i] = T[a + i]
        /\ ToSet(v) = {T[i] : i \in a + 1 .. b}
        /\ (\A i, j \in a + 1 .. b : T[i] = T[j] => i = j) => IsInjective(v)
    BY <2>3, SliceOf
  <2>5. in = v
    BY <2>2
  <2>. HIDE DEF in, v
  <2>. QED  BY <2>2, <2>4, <2>5
<1>. HIDE DEF in
<1>6. ASSUME in = EdgePages(c) PROVE \A i \in at + 1 .. Len(c) : table[r][i] \in CachedPages
  <2>1. ToSet(EdgePages(c)) = {page[p] : p \in Edge(c)}
    BY <1>3, EdgePagesAre DEF CoreInv
  <2>2. Edge(c) \subseteq DOMAIN page
    BY DEF Edge
  <2>3. {page[p] : p \in Edge(c)} \subseteq CachedPages
    BY <2>2 DEF CachedPages
  <2>4. ToSet(in) \subseteq CachedPages
    BY <1>6, <2>1, <2>3, Zenon
  <2>5. ASSUME NEW i \in at + 1 .. Len(c) PROVE table[r][i] \in ToSet(in)
    BY <1>5, Zenon
  <2>. QED  BY <2>4, <2>5, Zenon
<1>7. /\ OwnPositions(r)' = OwnPositions(r) \ (at + 1 .. Len(c))
      /\ \A s \in Req \ {r} : SamePlaces(s)
      /\ \A s \in Req : FewerPlaces(s)
  <2>1. at' \in Nat /\ at <= at'
    BY <1>1, <1>2, <1>3
  <2>. QED  BY <1>1, <1>2, <2>1, TurnTakesPlaces
<1>8. Len(c) <= Len(table[r])
  BY <1>2, <1>3, <1>4
<1>. QED  BY <1>1, <1>3, <1>5, <1>6, <1>7, <1>8 DEF q, c, in

\* A split moves no page; the request walks past its places of the common part.
LEMMA SplitEffect ==
    ASSUME CoreInv, NEW r \in Req, CommitSplit(r)
    PROVE  LET k == SplitPoint(Committed(r), at)
           IN  /\ UNCHANGED <<free, page>>
               /\ Inserting(r) /\ HasChild(Committed(r), at)
               /\ ~ IsPrefix(Child(Committed(r), at), Committed(r))
               /\ k \in Nat /\ OwnPositions(r)' = OwnPositions(r) \ (at + 1 .. k)
               /\ \A s \in Req : FewerPlaces(s)
               /\ \A s \in Req \ {r} : SamePlaces(s)
<1>. DEFINE q == Committed(r)
<1>1. /\ Inserting(r) /\ HasChild(q, at) /\ ~ IsPrefix(Child(q, at), q)
      /\ UNCHANGED <<free, page, table, hit, pc, cur>> /\ at' = SplitPoint(q, at)
  BY DEF CommitSplit, InsertSplit, reqVars
<1>2. /\ q \in Seq(Key) /\ Len(q) \in Nat /\ at \in Nat /\ at < Len(q)
      /\ pc = "insert" /\ cur = r
  BY <1>1, InsertingFacts
<1>3. SplitPoint(q, at) \in at + 1 .. Len(q)
  BY <1>1, <1>2, SplitPointProperties DEF CoreInv
<1>. HIDE DEF q
<1>4. /\ OwnPositions(r)' = OwnPositions(r) \ (at + 1 .. SplitPoint(q, at))
      /\ \A s \in Req \ {r} : SamePlaces(s)
      /\ \A s \in Req : FewerPlaces(s)
  <2>1. at' \in Nat /\ at <= at'
    BY <1>1, <1>2, <1>3
  <2>. QED  BY <1>1, <1>2, <2>1, TurnTakesPlaces
<1>. QED  BY <1>1, <1>2, <1>3, <1>4 DEF q

\* At its end a request gives back all it still owns.
LEMMA EndEffect ==
    ASSUME CoreInv, BorrowInv, NEW r \in Req, CommitEnd(r) \/ (~ RadixEnabled /\ FreeRequestKv(r))
    PROVE  \E t \in Seq(Page) :
              /\ UNCHANGED page /\ free' = free \o t
              /\ ToSet(t) = OwnPages(r)
              /\ (\A i, j \in OwnPositions(r) : table[r][i] = table[r][j] => i = j) => IsInjective(t)
              /\ OwnPositions(r)' = {}
              /\ \A s \in Req : FewerPlaces(s)
              /\ \A s \in Req \ {r} : SamePlaces(s)
<1>0. /\ table[r] \in Seq(Page) /\ Len(table[r]) \in Nat /\ at \in Nat
  BY LenProperties DEF CoreInv, CoreTypes
<1>1. CASE CommitEnd(r)
  <2>. DEFINE t == SubSeq(table[r], at + 1, Len(table[r]))
  <2>1. /\ pc = "insert" /\ cur = r /\ at = Len(Committed(r)) /\ free' = free \o t
        /\ UNCHANGED <<page, hit>> /\ table' = [table EXCEPT ![r] = << >>] /\ pc' = "idle"
    BY <1>1 DEF CommitEnd, Free, Unlock
  <2>2. status[r] = "running" /\ at <= Len(table[r])
    BY <2>1, Sizes DEF CoreInv, ControlInv, CommitFits
  <2>3. OwnPositions(r) = at + 1 .. Len(table[r])
    BY <2>1, <2>2, RunningPlaces
  <2>4. /\ t \in Seq(Page) /\ ToSet(t) = {table[r][i] : i \in at + 1 .. Len(table[r])}
        /\ (\A i, j \in at + 1 .. Len(table[r]) : table[r][i] = table[r][j] => i = j) => IsInjective(t)
    <3>1. PICK a \in Nat, b \in Nat, T \in Seq(Page) : a = at /\ b = Len(table[r]) /\ T = table[r]
      BY <1>0
    <3>. DEFINE v == SubSeq(T, a + 1, b)
    <3>2. a <= b /\ b <= Len(T)
      BY <1>0, <2>2, <3>1
    <3>3. /\ v \in Seq(Page) /\ DOMAIN v = 1 .. b - a
          /\ \A i \in 1 .. b - a : v[i] = T[a + i]
          /\ ToSet(v) = {T[i] : i \in a + 1 .. b}
          /\ (\A i, j \in a + 1 .. b : T[i] = T[j] => i = j) => IsInjective(v)
      BY <3>2, SliceOf
    <3>4. t = v
      BY <3>1
    <3>. HIDE DEF t, v
    <3>. QED  BY <3>1, <3>3, <3>4
  <2>5. /\ OwnPositions(r)' = {}
        /\ \A s \in Req \ {r} : SamePlaces(s)
        /\ \A s \in Req : FewerPlaces(s)
    BY <2>1, EndTakesPlaces
  <2>. HIDE DEF t
  <2>6. /\ ToSet(t) = OwnPages(r)
        /\ (\A i, j \in OwnPositions(r) : table[r][i] = table[r][j] => i = j) => IsInjective(t)
    BY <2>3, <2>4 DEF OwnPages
  <2>7. t \in Seq(Page) /\ UNCHANGED page /\ free' = free \o t
    BY <2>1, <2>4
  <2>. QED  BY <2>5, <2>6, <2>7
<1>2. CASE ~ RadixEnabled /\ FreeRequestKv(r)
  <2>1. /\ pc = "idle" /\ status[r] = "running" /\ free' = free \o table[r]
        /\ UNCHANGED <<page, hit, pc>> /\ table' = [table EXCEPT ![r] = << >>]
    BY <1>2 DEF FreeRequestKv, Free
  <2>2. OwnPositions(r) = 1 .. Len(table[r]) /\ DOMAIN table[r] = 1 .. Len(table[r])
    BY <1>0, <1>2, <2>1, RunningPlaces, LenProperties
  <2>3. /\ OwnPositions(r)' = {}
        /\ \A s \in Req \ {r} : SamePlaces(s)
        /\ \A s \in Req : FewerPlaces(s)
    BY <2>1, EndTakesPlaces
  <2>4. ToSet(table[r]) = OwnPages(r)
    BY <2>2 DEF ToSet, OwnPages
  <2>5. (\A i, j \in OwnPositions(r) : table[r][i] = table[r][j] => i = j) => IsInjective(table[r])
    BY <2>2 DEF IsInjective
  <2>. QED  BY <1>0, <2>1, <2>3, <2>4, <2>5
<1>. QED  BY <1>1, <1>2

-----------------------------------------------------------------------------
(* No page is lost *)

\* Page g is on the free list, in the tree, or owned by a request.
Found(g) == \/ g \in ToSet(free)
            \/ g \in CachedPages
            \/ \E r \in Req : g \in OwnPages(r)

Accounted == \A g \in Page : Found(g)

\* What one request alone gives away must be found elsewhere.
LEMMA OthersKeepPages ==
    ASSUME NEW g, NEW r \in Req, \A s \in Req \ {r} : SamePlaces(s),
           ToSet(free) \subseteq ToSet(free'), CachedPages \subseteq CachedPages',
           g \in OwnPages(r) => Found(g)', Found(g)
    PROVE  Found(g)'
<1>1. \A s \in Req \ {r} : OwnPages(s)' = OwnPages(s)
  BY PlacesToPages
<1>2. Found(g)' <=> \/ g \in ToSet(free')
                    \/ g \in CachedPages'
                    \/ \E s \in Req : g \in OwnPages(s)'
  BY DEF Found
<1>. QED  BY <1>1, <1>2 DEF Found

\* A place that the walk has not passed is still there.
LEMMA PlaceLeft ==
    ASSUME NEW r \in Req, NEW i \in OwnPositions(r)', FewerPlaces(r), NEW g, g = table[r][i]
    PROVE  Found(g)'
<1>1. g \in OwnPages(r)'
  BY DEF OwnPages, FewerPlaces
<1>. QED  BY <1>1 DEF Found

\* A page that is freed is found.
LEMMA GivenBackIsFound ==
    ASSUME free \in Seq(Page), NEW t \in Seq(Page), free' = free \o t
    PROVE  ToSet(free') = ToSet(free) \cup ToSet(t)
BY JoinedMembers

LEMMA EvictLosesNone ==
    ASSUME IInv, NEW n \in Nodes, AllocEvict(n), NEW g \in Page, Found(g)
    PROVE  Found(g)'
<1>1. /\ EdgePages(n) \in Seq(Page) /\ free' = free \o EdgePages(n)
      /\ ToSet(EdgePages(n)) = {page[p] : p \in Edge(n)}
      /\ DOMAIN page' = DOMAIN page \ Edge(n)
      /\ \A p \in DOMAIN page' : page'[p] = page[p]
      /\ \A r \in Req : SamePlaces(r)
  BY EvictEffect
<1>2. ToSet(free') = ToSet(free) \cup {page[p] : p \in Edge(n)}
  BY <1>1, GivenBackIsFound DEF IInv, TypeOK
<1>. HIDE DEF Edge, EdgePages
<1>3. \A r \in Req : OwnPages(r)' = OwnPages(r)
  BY <1>1, PlacesToPages
<1>4. g \in CachedPages => g \in ToSet(free') \/ g \in CachedPages'
  BY <1>1, <1>2 DEF CachedPages
<1>5. Found(g)' <=> \/ g \in ToSet(free')
                    \/ g \in CachedPages'
                    \/ \E s \in Req : g \in OwnPages(s)'
  BY DEF Found
<1>. QED  BY <1>2, <1>3, <1>4, <1>5 DEF Found

LEMMA TakeLosesNone ==
    ASSUME IInv, BorrowInv, AllocDone, NEW g \in Page, Found(g)
    PROVE  Found(g)'
<1>1. PICK c \in Req :
        LET t == Popped(Extra(c))
            k == Len(table[c])
        IN  /\ c = cur /\ UNCHANGED page /\ k \in Nat
            /\ Extra(c) \in 0 .. Len(free) /\ t \in Seq(Page) /\ Len(t) = Extra(c)
            /\ free' = SubSeq(free, 1, Len(free) - Extra(c))
            /\ OwnPositions(c) = {}
            /\ OwnPositions(c)' = k + 1 .. k + Len(t)
            /\ \A i \in k + 1 .. k + Len(t) : table'[c][i] = t[i - k]
            /\ \A s \in Req \ {c} : SamePlaces(s)
  BY TakeEffect DEF IInv
<1>. DEFINE t == Popped(Extra(c))
            k == Len(table[c])
<1>2. ToSet(free') \cup ToSet(t) = ToSet(free)
  BY <1>1, PoppedMembers DEF IInv, TypeOK
<1>3. /\ t \in Seq(Page) /\ k \in Nat /\ OwnPositions(c)' = k + 1 .. k + Len(t)
      /\ \A i \in k + 1 .. k + Len(t) : table'[c][i] = t[i - k]
      /\ OwnPages(c) = {}
  BY <1>1 DEF OwnPages
<1>. HIDE DEF t, k
<1>4. ToSet(t) \subseteq OwnPages(c)'
  <2>1. SUFFICES ASSUME NEW j \in 1 .. Len(t) PROVE t[j] \in OwnPages(c)'
    BY <1>3, LenProperties DEF ToSet
  <2>2. Len(t) \in Nat /\ k + j \in k + 1 .. k + Len(t) /\ (k + j) - k = j
    BY <1>3, LenProperties
  <2>. QED  BY <1>3, <2>2 DEF OwnPages
<1>5. \A s \in Req \ {c} : OwnPages(s)' = OwnPages(s)
  BY <1>1, PlacesToPages
<1>6. CachedPages' = CachedPages
  BY <1>1 DEF CachedPages
<1>7. Found(g)' <=> \/ g \in ToSet(free')
                    \/ g \in CachedPages'
                    \/ \E s \in Req : g \in OwnPages(s)'
  BY DEF Found
<1>. QED  BY <1>2, <1>3, <1>4, <1>5, <1>6, <1>7 DEF Found

LEMMA LeafLosesNone ==
    ASSUME IInv, BorrowInv, NEW r \in Req, CommitLeaf(r), NEW g \in Page, Found(g)
    PROVE  Found(g)'
<1>. DEFINE q == Committed(r)
<1>1. /\ UNCHANGED free
      /\ OwnPositions(r)' = OwnPositions(r) \ (at + 1 .. Len(q))
      /\ FewerPlaces(r)
      /\ \A s \in Req \ {r} : SamePlaces(s)
      /\ \A i \in at + 1 .. Len(q) : PrefixOf(q, i) \in DOMAIN page' /\ page'[PrefixOf(q, i)] = table[r][i]
      /\ \A p \in DOMAIN page : p \in DOMAIN page' /\ page'[p] = page[p]
  BY LeafEffect DEF IInv
<1>. HIDE DEF q
<1>2. CachedPages \subseteq CachedPages'
  BY <1>1 DEF CachedPages
<1>3. ASSUME g \in OwnPages(r) PROVE Found(g)'
  <2>1. PICK i \in OwnPositions(r) : g = table[r][i]
    BY <1>3 DEF OwnPages
  <2>2. CASE i \in at + 1 .. Len(q)
    BY <1>1, <2>1, <2>2 DEF Found, CachedPages
  <2>3. CASE i \notin at + 1 .. Len(q)
    BY <1>1, <2>1, <2>3, PlaceLeft
  <2>. QED  BY <2>2, <2>3
<1>. QED  BY <1>1, <1>2, <1>3, OthersKeepPages

LEMMA FullEdgeLosesNone ==
    ASSUME IInv, NEW r \in Req, CommitFullEdge(r), NEW g \in Page, Found(g)
    PROVE  Found(g)'
<1>. DEFINE c  == Child(Committed(r), at)
            in == SubSeq(table[r], at + 1, Len(c))
            t  == IF in = EdgePages(c) THEN << >> ELSE in
<1>1. /\ UNCHANGED page
      /\ in \in Seq(Page)
      /\ ToSet(in) = {table[r][i] : i \in at + 1 .. Len(c)}
      /\ free' = free \o t
      /\ in = EdgePages(c) => \A i \in at + 1 .. Len(c) : table[r][i] \in CachedPages
      /\ OwnPositions(r)' = OwnPositions(r) \ (at + 1 .. Len(c))
      /\ FewerPlaces(r)
      /\ \A s \in Req \ {r} : SamePlaces(s)
  BY FullEdgeEffect DEF IInv
<1>. HIDE DEF c, in
<1>2. t \in Seq(Page) /\ ToSet(free') = ToSet(free) \cup ToSet(t)
  <2>1. t \in Seq(Page)
    BY <1>1
  <2>. QED  BY <1>1, <2>1, GivenBackIsFound DEF IInv, TypeOK
<1>3. CachedPages' = CachedPages
  BY <1>1 DEF CachedPages
<1>4. ASSUME g \in OwnPages(r) PROVE Found(g)'
  <2>1. PICK i \in OwnPositions(r) : g = table[r][i]
    BY <1>4 DEF OwnPages
  <2>2. CASE i \in at + 1 .. Len(c)
    <3>1. CASE in = EdgePages(c)
      <4>1. g \in CachedPages'
        BY <1>1, <1>3, <2>1, <2>2, <3>1
      <4>. QED  BY <4>1 DEF Found
    <3>2. CASE in # EdgePages(c)
      <4>1. g \in ToSet(free')
        BY <1>1, <1>2, <2>1, <2>2, <3>2
      <4>. QED  BY <4>1 DEF Found
    <3>. QED  BY <3>1, <3>2
  <2>3. CASE i \notin at + 1 .. Len(c)
    BY <1>1, <2>1, <2>3, PlaceLeft
  <2>. QED  BY <2>2, <2>3
<1>. HIDE DEF t
<1>. QED  BY <1>1, <1>2, <1>3, <1>4, OthersKeepPages

LEMMA SplitLosesNone ==
    ASSUME IInv, SplitsOnlyBorrowed, NEW r \in Req, CommitSplit(r), NEW g \in Page, Found(g)
    PROVE  Found(g)'
<1>. DEFINE k == SplitPoint(Committed(r), at)
<1>1. /\ UNCHANGED <<free, page>>
      /\ Inserting(r) /\ HasChild(Committed(r), at)
      /\ ~ IsPrefix(Child(Committed(r), at), Committed(r))
      /\ k \in Nat /\ OwnPositions(r)' = OwnPositions(r) \ (at + 1 .. k)
      /\ FewerPlaces(r)
      /\ \A s \in Req \ {r} : SamePlaces(s)
  BY SplitEffect DEF IInv
<1>2. k <= hit[r]
  BY <1>1 DEF SplitsOnlyBorrowed
<1>. HIDE DEF k
<1>3. OwnPositions(r)' = OwnPositions(r)
  <2>1. hit[r] \in Nat /\ at \in Nat
    BY DEF IInv, TypeOK
  <2>2. OwnPositions(r) \cap (at + 1 .. k) = {}
    BY <1>1, <1>2, <2>1 DEF OwnPositions
  <2>. QED  BY <1>1, <2>2
<1>4. g \in OwnPages(r) => Found(g)'
  BY <1>1, <1>3, PlaceLeft DEF OwnPages
<1>5. CachedPages' = CachedPages
  BY <1>1 DEF CachedPages
<1>. QED  BY <1>1, <1>4, <1>5, OthersKeepPages

LEMMA EndLosesNone ==
    ASSUME IInv, BorrowInv, NEW r \in Req, CommitEnd(r) \/ (~ RadixEnabled /\ FreeRequestKv(r)),
           NEW g \in Page, Found(g)
    PROVE  Found(g)'
<1>1. PICK t \in Seq(Page) :
        /\ UNCHANGED page /\ free' = free \o t
        /\ ToSet(t) = OwnPages(r)
        /\ \A s \in Req \ {r} : SamePlaces(s)
  BY EndEffect DEF IInv
<1>2. ToSet(free') = ToSet(free) \cup OwnPages(r)
  BY <1>1, GivenBackIsFound DEF IInv, TypeOK
<1>3. CachedPages' = CachedPages
  BY <1>1 DEF CachedPages
<1>4. g \in OwnPages(r) => Found(g)'
  BY <1>2 DEF Found
<1>. QED  BY <1>1, <1>2, <1>3, <1>4, OthersKeepPages

\* Every page stays found, one step per action; only a split can lose some.
LEMMA AccountedInductive ==
    IInv /\ BorrowInv /\ SplitsOnlyBorrowed /\ Accounted /\ [Next]_vars => Accounted'
<1>. SUFFICES ASSUME IInv, BorrowInv, SplitsOnlyBorrowed, Accounted, [Next]_vars,
                     NEW g \in Page
              PROVE  Found(g)'
  BY DEF Accounted, Page
<1>0. Found(g)
  BY DEF Accounted
<1>1. ASSUME \/ UNCHANGED vars \/ AllocFail
             \/ \E r \in Req : \/ Admit(r) \/ PrefillInit(r) \/ AbortUninitialised(r)
                               \/ CommitRaises(r)
                               \/ \E t \in Gen[r] : Generate(r, t)
                               \/ RadixEnabled /\ FreeRequestKv(r)
      PROVE  Found(g)'
  <2>1. UNCHANGED <<free, page>> /\ \A s \in Req : SamePlaces(s)
    BY <1>1, NoPlaceMoves
  <2>2. CachedPages' = CachedPages /\ \A s \in Req : OwnPages(s)' = OwnPages(s)
    BY <2>1, PlacesToPages DEF CachedPages
  <2>3. Found(g)' <=> \/ g \in ToSet(free')
                      \/ g \in CachedPages'
                      \/ \E s \in Req : g \in OwnPages(s)'
    BY DEF Found
  <2>. QED  BY <1>0, <2>1, <2>2, <2>3 DEF Found
<1>2. ASSUME NEW n \in Nodes, AllocEvict(n) PROVE Found(g)'
  BY <1>0, <1>2, EvictLosesNone
<1>3. CASE AllocDone
  BY <1>0, <1>3, TakeLosesNone
<1>4. ASSUME NEW r \in Req, CommitLeaf(r) PROVE Found(g)'
  BY <1>0, <1>4, LeafLosesNone
<1>5. ASSUME NEW r \in Req, CommitFullEdge(r) PROVE Found(g)'
  BY <1>0, <1>5, FullEdgeLosesNone
<1>6. ASSUME NEW r \in Req, CommitSplit(r) PROVE Found(g)'
  BY <1>0, <1>6, SplitLosesNone
<1>7. ASSUME NEW r \in Req, CommitEnd(r) \/ (~ RadixEnabled /\ FreeRequestKv(r)) PROVE Found(g)'
  BY <1>0, <1>7, EndLosesNone
<1>. QED  BY <1>1, <1>2, <1>3, <1>4, <1>5, <1>6, <1>7, EngineAssumption
          DEF Next, Retire, Abort, Terminated

\* Nothing is lost before the first request.
LEMMA InitAccounted == Init => Accounted
<1>. SUFFICES ASSUME Init, NEW g \in Page PROVE g \in ToSet(free)
  BY DEF Accounted, Found
<1>1. NumPages \in Nat /\ DOMAIN free = 1 .. NumPages /\ \A i \in 1 .. NumPages : free[i] = i - 1
  BY PoolAssumption DEF Init, PoolInit
<1>2. g + 1 \in 1 .. NumPages /\ g = (g + 1) - 1
  BY <1>1 DEF Page
<1>. QED  BY <1>1, <1>2 DEF ToSet

\* A split deeper than what the request had borrowed is the only way a page is lost:
\* while commits split edges no deeper, every page stays on the free list, in the
\* tree or with a request, through evictions, aborts and rolled back allocations.
THEOREM OnlySplitsLosePages ==
    Spec /\ []SplitsOnlyBorrowed => []NoPageLost
<1>1. Accounted => NoPageLost
  <2>. SUFFICES ASSUME Accounted, NEW g \in Page PROVE Owner[g] # Lost_
    BY DEF NoPageLost
  <2>1. (\E r \in Req : g \in OwnPages(r)) =>
           (CHOOSE r \in Req : g \in OwnPages(r)) \in Req
    OBVIOUS
  <2>2. "lost" \notin Req
    BY OwnerAssumption DEF Lost_
  <2>. QED  BY <2>1, <2>2 DEF Accounted, Found, Owner, Lost_, Cache_, Free_
<1>2. IInv /\ BorrowInv /\ SplitsOnlyBorrowed /\ Accounted /\ [Next]_vars => Accounted'
  BY AccountedInductive
<1>. QED  BY <1>1, <1>2, InitAccounted, BorrowInvariant, PTL DEF Spec

-----------------------------------------------------------------------------
(* No page has two owners *)

PagesOf(T) == {page[p] : p \in T}

\* Each page is once on the free list, at one of the prefixes T of the tree, or at
\* one own place of one table, or elsewhere: at no two of these.
Apart(T) ==
    /\ IsInjective(free)
    /\ PagesOf(T) \cap ToSet(free) = {}
    /\ \A p, q \in T : page[p] = page[q] => p = q
    /\ \A r \in Req :
        /\ \A i, j \in OwnPositions(r) : table[r][i] = table[r][j] => i = j
        /\ OwnPages(r) \cap (ToSet(free) \cup PagesOf(T)) = {}
        /\ \A s \in Req : s # r => OwnPages(s) \cap OwnPages(r) = {}

LEMMA SingleOwnerIsApart ==
    ASSUME NEW T
    PROVE  /\ T = DOMAIN page => (SingleOwner <=> Apart(T))
           /\ T = DOMAIN page' => (SingleOwner' <=> Apart(T)')
BY DEF SingleOwner, Apart, PagesOf, CachedPages, CachedPagesNotFree

\* Of two owners of one kind or another neither comes to have a page of the other
\* when none gets a page it had not.
LEMMA FewerApart ==
    ASSUME NEW T, Apart(T), UNCHANGED free, \A p \in T : page'[p] = page[p],
           \A s \in Req : FewerPlaces(s)
    PROVE  Apart(T)'
<1>1. PagesOf(T)' = PagesOf(T)
  BY DEF PagesOf
<1>2. \A s \in Req : OwnPages(s)' \subseteq OwnPages(s)
  BY PlacesToPages
<1>3. \A s \in Req : \A i, j \in OwnPositions(s)' : table'[s][i] = table'[s][j] => i = j
  BY DEF Apart, FewerPlaces
<1>4. \A p, q \in T : page'[p] = page'[q] => p = q
  BY DEF Apart
<1>5. ASSUME NEW s \in Req
      PROVE  /\ OwnPages(s)' \cap (ToSet(free') \cup PagesOf(T)') = {}
             /\ \A u \in Req : u # s => OwnPages(u)' \cap OwnPages(s)' = {}
  BY <1>1, <1>2 DEF Apart
<1>6. IsInjective(free') /\ PagesOf(T)' \cap ToSet(free') = {}
  BY <1>1 DEF Apart
<1>. QED  BY <1>3, <1>4, <1>5, <1>6 DEF Apart

\* Pages that a request gives back come from it alone.
LEMMA GivenBackApart ==
    ASSUME NEW T, Apart(T), free \in Seq(Page), NEW t \in Seq(Page), NEW r \in Req,
           \A p \in T : page'[p] = page[p], free' = free \o t, IsInjective(t),
           ToSet(t) \subseteq OwnPages(r), ToSet(t) \cap OwnPages(r)' = {},
           \A s \in Req : FewerPlaces(s)
    PROVE  Apart(T)'
<1>1. IsInjective(free') /\ ToSet(free') = ToSet(free) \cup ToSet(t)
  <2>1. IsInjective(free) /\ ToSet(free) \cap ToSet(t) = {}
    BY DEF Apart
  <2>. QED  BY <2>1, FreeListJoined
<1>2. PagesOf(T)' = PagesOf(T)
  BY DEF PagesOf
<1>3. \A s \in Req : OwnPages(s)' \subseteq OwnPages(s)
  BY PlacesToPages
<1>4. PagesOf(T)' \cap ToSet(free') = {}
  BY <1>1, <1>2 DEF Apart
<1>5. ASSUME NEW s \in Req
      PROVE  /\ \A i, j \in OwnPositions(s)' : table'[s][i] = table'[s][j] => i = j
             /\ OwnPages(s)' \cap (ToSet(free') \cup PagesOf(T)') = {}
             /\ \A u \in Req : u # s => OwnPages(u)' \cap OwnPages(s)' = {}
  <2>1. \A i, j \in OwnPositions(s)' : table'[s][i] = table'[s][j] => i = j
    BY DEF Apart, FewerPlaces
  <2>2. ToSet(t) \cap OwnPages(s)' = {}
    BY <1>3 DEF Apart
  <2>3. OwnPages(s)' \cap (ToSet(free') \cup PagesOf(T)') = {}
    BY <1>1, <1>2, <1>3, <2>2 DEF Apart
  <2>4. \A u \in Req : u # s => OwnPages(u)' \cap OwnPages(s)' = {}
    BY <1>3 DEF Apart
  <2>. QED  BY <2>1, <2>3, <2>4
<1>6. \A p, q \in T : page'[p] = page'[q] => p = q
  BY DEF Apart
<1>. QED  BY <1>1, <1>4, <1>5, <1>6 DEF Apart

\* Pages that an edge of the tree gives back were the edge's alone.
LEMMA EdgeFreedApart ==
    ASSUME NEW T, NEW e \in SUBSET T, Apart(T), free \in Seq(Page), NEW t \in Seq(Page),
           free' = free \o t, ToSet(t) = PagesOf(e), IsInjective(t),
           \A p \in T \ e : page'[p] = page[p], \A s \in Req : SamePlaces(s)
    PROVE  Apart(T \ e)'
<1>1. ToSet(t) \subseteq PagesOf(T)
  BY DEF PagesOf
<1>2. IsInjective(free') /\ ToSet(free') = ToSet(free) \cup ToSet(t)
  <2>1. IsInjective(free) /\ ToSet(free) \cap ToSet(t) = {}
    BY <1>1 DEF Apart
  <2>. QED  BY <2>1, FreeListJoined
<1>3. PagesOf(T \ e)' \subseteq PagesOf(T) /\ PagesOf(T \ e)' \cap ToSet(t) = {}
  <2>1. ASSUME NEW p \in T \ e PROVE page'[p] \in PagesOf(T) /\ page'[p] \notin ToSet(t)
    BY DEF Apart, PagesOf
  <2>. QED  BY <2>1 DEF PagesOf
<1>4. PagesOf(T \ e)' \cap ToSet(free') = {}
  BY <1>2, <1>3 DEF Apart
<1>5. \A p, q \in T \ e : page'[p] = page'[q] => p = q
  BY DEF Apart
<1>6. \A s \in Req : OwnPages(s)' = OwnPages(s)
  BY PlacesToPages
<1>7. ASSUME NEW s \in Req
      PROVE  /\ \A i, j \in OwnPositions(s)' : table'[s][i] = table'[s][j] => i = j
             /\ OwnPages(s)' \cap (ToSet(free') \cup PagesOf(T \ e)') = {}
             /\ \A u \in Req : u # s => OwnPages(u)' \cap OwnPages(s)' = {}
  <2>1. \A i, j \in OwnPositions(s)' : table'[s][i] = table'[s][j] => i = j
    BY DEF Apart, SamePlaces
  <2>2. OwnPages(s) \cap (ToSet(free) \cup PagesOf(T)) = {}
    BY DEF Apart
  <2>3. OwnPages(s)' \cap (ToSet(free') \cup PagesOf(T \ e)') = {}
    BY <1>1, <1>2, <1>3, <1>6, <2>2
  <2>4. \A u \in Req : u # s => OwnPages(u)' \cap OwnPages(s)' = {}
    BY <1>6 DEF Apart
  <2>. QED  BY <2>1, <2>3, <2>4
<1>. QED  BY <1>2, <1>4, <1>5, <1>7 DEF Apart

\* Pages that an edge of the tree takes come off the free list.
LEMMA EdgeTakenApart ==
    ASSUME NEW T, NEW e, Apart(T), T \cap e = {}, NEW t,
           IsInjective(free'), ToSet(free') \cap ToSet(t) = {},
           ToSet(free') \cup ToSet(t) = ToSet(free),
           PagesOf(e)' = ToSet(t), \A p, q \in e : page'[p] = page'[q] => p = q,
           \A p \in T : page'[p] = page[p], \A s \in Req : SamePlaces(s)
    PROVE  Apart(T \cup e)'
<1>1. PagesOf(T \cup e)' = PagesOf(T) \cup ToSet(t)
  <2>1. PagesOf(T)' = PagesOf(T)
    BY DEF PagesOf
  <2>2. PagesOf(T \cup e)' = PagesOf(T)' \cup PagesOf(e)'
    BY DEF PagesOf
  <2>. QED  BY <2>1, <2>2
<1>2. PagesOf(T \cup e)' \cap ToSet(free') = {}
  BY <1>1 DEF Apart
<1>3. ASSUME NEW p \in T \cup e, NEW q \in T \cup e, page'[p] = page'[q]
      PROVE  p = q
  <2>1. \A x \in T, y \in e : page'[x] # page'[y]
    <3>1. \A y \in e : page'[y] \in ToSet(t)
      BY DEF PagesOf
    <3>2. \A x \in T : page'[x] \notin ToSet(free)
      BY DEF Apart, PagesOf
    <3>. QED  BY <3>1, <3>2
  <2>. QED  BY <1>3, <2>1 DEF Apart
<1>4. \A s \in Req : OwnPages(s)' = OwnPages(s)
  BY PlacesToPages
<1>5. ASSUME NEW s \in Req
      PROVE  /\ \A i, j \in OwnPositions(s)' : table'[s][i] = table'[s][j] => i = j
             /\ OwnPages(s)' \cap (ToSet(free') \cup PagesOf(T \cup e)') = {}
             /\ \A u \in Req : u # s => OwnPages(u)' \cap OwnPages(s)' = {}
  <2>1. \A i, j \in OwnPositions(s)' : table'[s][i] = table'[s][j] => i = j
    BY DEF Apart, SamePlaces
  <2>2. OwnPages(s)' \cap (ToSet(free') \cup PagesOf(T \cup e)') = {}
    <3>1. OwnPages(s) \cap (ToSet(free) \cup PagesOf(T)) = {}
      BY DEF Apart
    <3>2. ToSet(free') \cup PagesOf(T \cup e)' = ToSet(free) \cup PagesOf(T)
      BY <1>1
    <3>. QED  BY <1>4, <3>1, <3>2
  <2>. QED  BY <1>4, <2>1, <2>2 DEF Apart
<1>. QED  BY <1>2, <1>3, <1>5 DEF Apart

\* Pages that a request takes come off the free list.
LEMMA TakenApart ==
    ASSUME NEW T, NEW c \in Req, NEW k \in Nat, NEW t \in Seq(Page), Apart(T),
           \A p \in T : page'[p] = page[p],
           IsInjective(free'), IsInjective(t), ToSet(free') \cap ToSet(t) = {},
           ToSet(free') \cup ToSet(t) = ToSet(free),
           OwnPositions(c)' = k + 1 .. k + Len(t),
           \A i \in k + 1 .. k + Len(t) : table'[c][i] = t[i - k],
           \A s \in Req \ {c} : SamePlaces(s)
    PROVE  Apart(T)'
<1>1. /\ OwnPages(c)' = ToSet(t)
      /\ \A i, j \in OwnPositions(c)' : table'[c][i] = table'[c][j] => i = j
  <2>1. Len(t) \in Nat /\ DOMAIN t = 1 .. Len(t)
    BY LenProperties
  <2>2. \A i \in k + 1 .. k + Len(t) : i - k \in 1 .. Len(t)
    BY <2>1
  <2>3. \A j \in 1 .. Len(t) : k + j \in k + 1 .. k + Len(t) /\ (k + j) - k = j
    BY <2>1
  <2>4. OwnPages(c)' = {table'[c][i] : i \in k + 1 .. k + Len(t)}
    BY DEF OwnPages
  <2>5. OwnPages(c)' = ToSet(t)
    <3>1. ToSet(t) = {t[j] : j \in 1 .. Len(t)}
      BY <2>1 DEF ToSet
    <3>2. \A i \in k + 1 .. k + Len(t) : table'[c][i] \in ToSet(t)
      BY <2>2, <3>1
    <3>3. \A j \in 1 .. Len(t) : t[j] \in OwnPages(c)'
      BY <2>3, <2>4
    <3>4. OwnPages(c)' \subseteq ToSet(t)
      BY <2>4, <3>2
    <3>5. ToSet(t) \subseteq OwnPages(c)'
      <4>. HIDE DEF OwnPages
      <4>. QED  BY <3>1, <3>3
    <3>. QED  BY <3>4, <3>5
  <2>6. ASSUME NEW i \in k + 1 .. k + Len(t), NEW j \in k + 1 .. k + Len(t), table'[c][i] = table'[c][j]
        PROVE  i = j
    <3>1. t[i - k] = t[j - k]
      BY <2>6
    <3>2. i - k = j - k
      BY <2>1, <2>2, <3>1 DEF IsInjective
    <3>. QED  BY <3>2
  <2>. QED  BY <2>5, <2>6
<1>2. \A s \in Req \ {c} : OwnPages(s)' = OwnPages(s)
  BY PlacesToPages
<1>3. PagesOf(T)' = PagesOf(T)
  BY DEF PagesOf
<1>4. PagesOf(T)' \cap ToSet(free') = {}
  BY <1>3 DEF Apart
<1>5. \A p, q \in T : page'[p] = page'[q] => p = q
  BY DEF Apart
<1>6. ASSUME NEW s \in Req
      PROVE  /\ \A i, j \in OwnPositions(s)' : table'[s][i] = table'[s][j] => i = j
             /\ OwnPages(s)' \cap (ToSet(free') \cup PagesOf(T)') = {}
             /\ \A u \in Req : u # s => OwnPages(u)' \cap OwnPages(s)' = {}
  <2>1. \A i, j \in OwnPositions(s)' : table'[s][i] = table'[s][j] => i = j
    <3>1. CASE s = c
      BY <1>1, <3>1
    <3>2. CASE s # c
      BY <3>2 DEF Apart, SamePlaces
    <3>. QED  BY <3>1, <3>2
  <2>2. OwnPages(s)' \cap (ToSet(free') \cup PagesOf(T)') = {}
    <3>1. CASE s = c
      BY <1>1, <1>3, <3>1 DEF Apart
    <3>2. CASE s # c
      <4>1. OwnPages(s) \cap (ToSet(free) \cup PagesOf(T)) = {}
        BY DEF Apart
      <4>. QED  BY <1>2, <1>3, <3>2, <4>1
    <3>. QED  BY <3>1, <3>2
  <2>3. ASSUME NEW u \in Req, u # s PROVE OwnPages(u)' \cap OwnPages(s)' = {}
    <3>1. OwnPages(u) \cap OwnPages(s) = {} /\ OwnPages(s) \cap ToSet(free) = {}
          /\ OwnPages(u) \cap ToSet(free) = {}
      BY <2>3 DEF Apart
    <3>. QED  BY <1>1, <1>2, <2>3, <3>1
  <2>. QED  BY <2>1, <2>2, <2>3
<1>. QED  BY <1>4, <1>5, <1>6 DEF Apart

\* Pages that a new leaf takes over were the request's alone.
LEMMA LeafApart ==
    ASSUME NEW T, NEW new, NEW I, NEW r \in Req, Apart(T), UNCHANGED free, T \cap new = {},
           I \subseteq OwnPositions(r), OwnPositions(r)' = OwnPositions(r) \ I,
           \A s \in Req : FewerPlaces(s),
           \A p \in T : page'[p] = page[p],
           \A p \in new : Len(p) \in I /\ page'[p] = table[r][Len(p)],
           \A p, s \in new : Len(p) = Len(s) => p = s
    PROVE  Apart(T \cup new)'
<1>. DEFINE S == {table[r][i] : i \in I}
<1>1. S \subseteq OwnPages(r)
  BY DEF OwnPages
<1>2. \A p \in new : page'[p] \in S
  OBVIOUS
<1>3. PagesOf(T \cup new)' \subseteq PagesOf(T) \cup S
  BY <1>2 DEF PagesOf
<1>4. S \cap OwnPages(r)' = {}
  BY DEF OwnPages, FewerPlaces, Apart
<1>5. ASSUME NEW p \in T \cup new, NEW s \in T \cup new, page'[p] = page'[s]
      PROVE  p = s
  <2>1. CASE p \in new /\ s \in new
    <3>1. Len(p) = Len(s)
      BY <1>5, <2>1 DEF Apart
    <3>. QED  BY <2>1, <3>1
  <2>2. CASE p \notin new /\ s \notin new
    BY <1>5, <2>2 DEF Apart
  <2>3. CASE (p \in new) # (s \in new)
    <3>1. \A x \in new, y \in T : page'[x] # page'[y]
      <4>1. \A y \in T : page'[y] \in PagesOf(T)
        BY DEF PagesOf
      <4>2. S \cap PagesOf(T) = {}
        BY <1>1 DEF Apart
      <4>. HIDE DEF S
      <4>. QED  BY <1>2, <4>1, <4>2
    <3>. QED  BY <1>5, <2>3, <3>1
  <2>. QED  BY <2>1, <2>2, <2>3
<1>. HIDE DEF S
<1>6. \A s \in Req : OwnPages(s)' \subseteq OwnPages(s)
  BY PlacesToPages
<1>7. IsInjective(free') /\ PagesOf(T \cup new)' \cap ToSet(free') = {}
  BY <1>1, <1>3 DEF Apart
<1>8. ASSUME NEW s \in Req
      PROVE  /\ \A i, j \in OwnPositions(s)' : table'[s][i] = table'[s][j] => i = j
             /\ OwnPages(s)' \cap (ToSet(free') \cup PagesOf(T \cup new)') = {}
             /\ \A u \in Req : u # s => OwnPages(u)' \cap OwnPages(s)' = {}
  <2>1. \A i, j \in OwnPositions(s)' : table'[s][i] = table'[s][j] => i = j
    BY DEF Apart, FewerPlaces
  <2>2. S \cap OwnPages(s)' = {}
    BY <1>1, <1>4, <1>6 DEF Apart
  <2>3. OwnPages(s)' \cap (ToSet(free') \cup PagesOf(T \cup new)') = {}
    BY <1>3, <1>6, <2>2 DEF Apart
  <2>4. \A u \in Req : u # s => OwnPages(u)' \cap OwnPages(s)' = {}
    BY <1>6 DEF Apart
  <2>. QED  BY <2>1, <2>3, <2>4
<1>. QED  BY <1>5, <1>7, <1>8 DEF Apart

\* Of an edge the request had borrowed whole nothing is freed, and nothing of it was
\* the request's.
LEMMA FullEdgeBorrowed ==
    ASSUME CoreInv, BorrowInv, NEW r \in Req, CommitFullEdge(r), hit[r] >= Len(Child(Committed(r), at))
    PROVE  UNCHANGED <<free, page>> /\ OwnPositions(r)' = OwnPositions(r)
<1>. DEFINE c  == Child(Committed(r), at)
            in == SubSeq(table[r], at + 1, Len(c))
<1>1. /\ UNCHANGED page
      /\ Inserting(r) /\ HasChild(Committed(r), at) /\ IsPrefix(c, Committed(r))
      /\ c \in Nodes /\ Len(c) \in Nat /\ at < Len(c) /\ Len(c) <= Len(table[r])
      /\ in \in Seq(Page)
      /\ free' = free \o (IF in = EdgePages(c) THEN << >> ELSE in)
      /\ OwnPositions(r)' = OwnPositions(r) \ (at + 1 .. Len(c))
  BY FullEdgeEffect
<1>2. hit[r] >= Len(c)
  OBVIOUS
<1>3. /\ hit[r] \in Nat /\ at \in Nat /\ Len(table[r]) \in Nat /\ pc = "insert" /\ cur = r
      /\ table[r] \in Seq(Page) /\ free \in Seq(Page)
  BY <1>1, LenProperties DEF CoreInv, CoreTypes, Inserting
<1>4. in = EdgePages(c) /\ OwnPositions(r)' = OwnPositions(r)
  <2>1. table[r] # << >> /\ Borrows(r)
    BY <1>1, <1>3, EmptySeq DEF BorrowInv, PagesInv
  <2>2. \A i \in 1 .. hit[r] : page[PrefixOf(Committed(r), i)] = table[r][i]
    BY <2>1, CommittedStarts
  <2>3. /\ c \in Seq(Key) /\ EdgeStart(c) = at /\ Cardinality(Edge(c)) = Len(c) - at
    BY <1>1, ChildEdge 
  <2>4. \A i \in 1 .. Len(c) : PrefixOf(c, i) = PrefixOf(Committed(r), i)
    <3>1. Committed(r) \in Seq(Key)
      BY <1>1, InsertingFacts 
    <3>. HIDE DEF c
    <3>2. c = PrefixOf(Committed(r), Len(c)) /\ Len(c) <= Len(Committed(r))
      BY <1>1, <2>3, <3>1, PrefixIsPrefixOf, PrefixPointwise
    <3>3. \A i \in 1 .. Len(c) : PrefixOf(PrefixOf(Committed(r), Len(c)), i) = PrefixOf(Committed(r), i)
      <4>1. Len(c) \in 0 .. Len(Committed(r)) /\ 1 .. Len(c) \subseteq 0 .. Len(c)
        BY <1>1, <3>1, <3>2, LenProperties
      <4>. QED  BY <3>1, <4>1, PrefixOfPrefixOf
    <3>. QED  BY <3>2, <3>3
  <2>. HIDE DEF c
  <2>5. in = [i \in 1 .. Len(c) - at |-> table[r][at + i]]
    <3>1. \A i \in at + 1 .. Len(c) : table[r][i] \in Page
      BY <1>1, <1>3, ElementOfSeq, LenProperties
    <3>2. /\ DOMAIN in = 1 .. Len(c) - at
          /\ \A i \in 1 .. Len(c) - at : in[i] = table[r][at + i]
      <4>1. PICK a \in Nat, b \in Nat, t \in Seq(Page) : a = at /\ b = Len(c) /\ t = table[r]
        BY <1>1, <1>3
      <4>2. a <= b /\ b <= Len(t)
        BY <1>1, <1>3, <4>1
      <4>3. /\ DOMAIN SubSeq(t, a + 1, b) = 1 .. b - a
            /\ \A i \in 1 .. b - a : SubSeq(t, a + 1, b)[i] = t[a + i]
        BY <4>2, SliceOf
      <4>. QED  BY <4>1, <4>3
    <3>3. in = [i \in DOMAIN in |-> in[i]]
      BY <1>1
    <3>. HIDE DEF in
    <3>. QED  BY <3>2, <3>3
  <2>6. \A i \in 1 .. Len(c) - at : table[r][at + i] = page[PrefixOf(c, at + i)]
    <3>1. \A i \in 1 .. Len(c) - at : at + i \in 1 .. Len(c) /\ at + i \in 1 .. hit[r]
      BY <1>1, <1>2, <1>3
    <3>. QED  BY <2>2, <2>4, <3>1
  <2>7. EdgePages(c) = [i \in 1 .. Len(c) - at |-> page[PrefixOf(c, at + i)]]
    BY <2>3 DEF EdgePages
  <2>8. in = EdgePages(c)
    <3>. HIDE DEF in
    <3>. QED  BY <2>5, <2>6, <2>7
  <2>9. OwnPositions(r) \cap (at + 1 .. Len(c)) = {}
    BY <1>1, <1>2, <1>3 DEF OwnPositions
  <2>. QED  BY <1>1, <2>8, <2>9 DEF c
<1>. HIDE DEF c, in
<1>5. free' = free
  BY <1>1, <1>3, <1>4
<1>. QED  BY <1>1, <1>4, <1>5

\* Of an edge the request had borrowed nothing of, all that is freed was its own.
LEMMA FullEdgeGiven ==
    ASSUME CoreInv, BorrowInv, NEW T, Apart(T), BorrowsWholeEdges, NEW r \in Req, CommitFullEdge(r)
    PROVE  \E t \in Seq(Page) :
             /\ UNCHANGED page /\ free' = free \o t /\ IsInjective(t)
             /\ ToSet(t) \subseteq OwnPages(r) /\ ToSet(t) \cap OwnPages(r)' = {}
             /\ OwnPages(r) \subseteq ToSet(t) \cup OwnPages(r)' \cup CachedPages
             /\ \A s \in Req : FewerPlaces(s)
             /\ \A s \in Req \ {r} : SamePlaces(s)
<1>. DEFINE c  == Child(Committed(r), at)
            in == SubSeq(table[r], at + 1, Len(c))
            t  == IF in = EdgePages(c) THEN << >> ELSE in
<1>1. /\ UNCHANGED page /\ Inserting(r) /\ HasChild(Committed(r), at) /\ IsPrefix(c, Committed(r))
      /\ Len(c) \in Nat /\ at < Len(c) /\ Len(c) <= Len(table[r])
      /\ in \in Seq(Page)
      /\ ToSet(in) = {table[r][i] : i \in at + 1 .. Len(c)}
      /\ (\A i, j \in at + 1 .. Len(c) : table[r][i] = table[r][j] => i = j) => IsInjective(in)
      /\ free' = free \o t
      /\ in = EdgePages(c) => \A i \in at + 1 .. Len(c) : table[r][i] \in CachedPages
      /\ OwnPositions(r)' = OwnPositions(r) \ (at + 1 .. Len(c))
      /\ \A s \in Req : FewerPlaces(s)
      /\ \A s \in Req \ {r} : SamePlaces(s)
  BY FullEdgeEffect
<1>2. hit[r] <= at \/ hit[r] >= Len(c)
  BY <1>1 DEF BorrowsWholeEdges
<1>3. /\ hit[r] \in Nat /\ at \in Nat /\ Len(table[r]) \in Nat /\ pc = "insert" /\ cur = r
      /\ table[r] \in Seq(Page) /\ free \in Seq(Page)
  BY <1>1, LenProperties DEF CoreInv, CoreTypes, Inserting
<1>4. PICK e \in Seq(Page) : e = << >> /\ IsInjective(e) /\ ToSet(e) = {}
  <2>1. << >> \in Seq(Page) /\ IsInjective(<< >>) /\ ToSet(<< >>) = {}
    BY EmptyTable
  <2>. QED  BY <2>1
<1>5. ASSUME free' = free, OwnPages(r) \subseteq OwnPages(r)' \cup CachedPages
      PROVE  \E u \in Seq(Page) :
               /\ free' = free \o u /\ IsInjective(u)
               /\ ToSet(u) \subseteq OwnPages(r) /\ ToSet(u) \cap OwnPages(r)' = {}
               /\ OwnPages(r) \subseteq ToSet(u) \cup OwnPages(r)' \cup CachedPages
  <2>1. free' = free \o e
    BY <1>3, <1>4, <1>5
  <2>. QED  BY <1>4, <1>5, <2>1
<1>6. ASSUME hit[r] >= Len(c)
      PROVE  free' = free /\ OwnPages(r) \subseteq OwnPages(r)' \cup CachedPages
  <2>1. UNCHANGED free /\ OwnPositions(r)' = OwnPositions(r)
    BY <1>6, FullEdgeBorrowed
  <2>2. OwnPages(r)' = OwnPages(r)
    BY <1>1, <2>1 DEF OwnPages, FewerPlaces
  <2>. QED  BY <2>1, <2>2
<1>. HIDE DEF c, in
<1>7. ASSUME in = EdgePages(c)
      PROVE  free' = free /\ OwnPages(r) \subseteq OwnPages(r)' \cup CachedPages
  <2>1. free' = free
    BY <1>1, <1>3, <1>7
  <2>2. ASSUME NEW i \in OwnPositions(r) PROVE table[r][i] \in OwnPages(r)' \cup CachedPages
    <3>1. CASE i \in OwnPositions(r)'
      BY <1>1, <3>1 DEF OwnPages, FewerPlaces
    <3>2. CASE i \in at + 1 .. Len(c)
      BY <1>1, <1>7, <3>2
    <3>. QED  BY <1>1, <3>1, <3>2
  <2>. QED  BY <2>1, <2>2 DEF OwnPages
<1>8. CASE hit[r] <= at /\ in # EdgePages(c)
  <2>1. /\ free' = free \o in /\ at + 1 .. Len(c) \subseteq OwnPositions(r)
    BY <1>1, <1>3, <1>8 DEF OwnPositions
  <2>2. ToSet(in) \subseteq OwnPages(r)
    BY <1>1, <2>1 DEF OwnPages
  <2>3. IsInjective(in)
    BY <1>1, <2>1 DEF Apart
  <2>4. ToSet(in) \cap OwnPages(r)' = {}
    BY <1>1, <2>1 DEF OwnPages, FewerPlaces, Apart
  <2>5. OwnPages(r) \subseteq ToSet(in) \cup OwnPages(r)'
    BY <1>1 DEF OwnPages, FewerPlaces
  <2>. QED  BY <1>1, <2>1, <2>2, <2>3, <2>4, <2>5
<1>. QED  BY <1>1, <1>2, <1>5, <1>6, <1>7, <1>8

\* The pages of an edge were the tree's alone.
LEMMA EvictKeepsOwners ==
    ASSUME IInv, SingleOwner, NEW n \in Nodes, AllocEvict(n)
    PROVE  SingleOwner'
<1>1. PICK T, e, t :
        /\ t \in Seq(Page) /\ e \subseteq T
        /\ T = DOMAIN page /\ DOMAIN page' = T \ e
        /\ free' = free \o t /\ ToSet(t) = PagesOf(e)
        /\ (\A p, q \in e : page[p] = page[q] => p = q) => IsInjective(t)
        /\ \A p \in T \ e : page'[p] = page[p]
        /\ \A r \in Req : SamePlaces(r)
  <2>1. PICK T, e, t : t = EdgePages(n) /\ T = DOMAIN page /\ e = Edge(n)
    OBVIOUS
  <2>2. /\ t \in Seq(Page) /\ e \subseteq T /\ DOMAIN page' = T \ e
        /\ free' = free \o t /\ ToSet(t) = {page[p] : p \in e}
        /\ (\A p, q \in e : page[p] = page[q] => p = q) => IsInjective(t)
        /\ \A p \in DOMAIN page' : page'[p] = page[p]
        /\ \A r \in Req : SamePlaces(r)
    BY <2>1, EvictEffect
  <2>3. ToSet(t) = PagesOf(e)
    BY <2>2 DEF PagesOf
  <2>. QED  BY <2>1, <2>2, <2>3
<1>2. Apart(T) /\ free \in Seq(Page)
  BY <1>1, SingleOwnerIsApart DEF IInv, TypeOK
<1>3. IsInjective(t)
  BY <1>1, <1>2 DEF Apart
<1>4. Apart(T \ e)'
  BY <1>1, <1>2, <1>3, EdgeFreedApart
<1>. QED  BY <1>1, <1>4, SingleOwnerIsApart

\* The new pages of the table come off the free list.
LEMMA TakeKeepsOwners ==
    ASSUME IInv, BorrowInv, SingleOwner, AllocDone
    PROVE  SingleOwner'
<1>1. PICK c \in Req, t \in Seq(Page), k \in Nat :
        /\ t = Popped(Extra(c)) /\ UNCHANGED page
        /\ Extra(c) \in 0 .. Len(free)
        /\ free' = SubSeq(free, 1, Len(free) - Extra(c))
        /\ OwnPositions(c)' = k + 1 .. k + Len(t)
        /\ \A i \in k + 1 .. k + Len(t) : table'[c][i] = t[i - k]
        /\ \A s \in Req \ {c} : SamePlaces(s)
  BY TakeEffect DEF IInv
<1>2. /\ IsInjective(free') /\ IsInjective(t)
      /\ ToSet(free') \cap ToSet(t) = {}
      /\ ToSet(free') \cup ToSet(t) = ToSet(free)
  BY <1>1, FreeListSplit DEF IInv, TypeOK, SingleOwner
<1>3. PICK T : T = DOMAIN page /\ T = DOMAIN page' /\ \A p \in T : page'[p] = page[p]
  BY <1>1
<1>4. Apart(T)
  BY <1>3, SingleOwnerIsApart
<1>5. Apart(T)'
  BY <1>1, <1>2, <1>3, <1>4, TakenApart
<1>. QED  BY <1>3, <1>5, SingleOwnerIsApart

\* A new leaf takes over pages that were the request's alone.
LEMMA LeafKeepsOwners ==
    ASSUME IInv, BorrowInv, SingleOwner, NEW r \in Req, CommitLeaf(r)
    PROVE  SingleOwner'
<1>1. PICK T, new, I :
        /\ T = DOMAIN page /\ T \cup new = DOMAIN page' /\ T \cap new = {}
        /\ UNCHANGED free /\ I \subseteq OwnPositions(r) /\ OwnPositions(r)' = OwnPositions(r) \ I
        /\ \A s \in Req : FewerPlaces(s)
        /\ \A p \in T : page'[p] = page[p]
        /\ \A p \in new : Len(p) \in I /\ page'[p] = table[r][Len(p)]
        /\ \A p, s \in new : Len(p) = Len(s) => p = s
  <2>1. PICK T, new, I :
          /\ T = DOMAIN page /\ I = at + 1 .. Len(Committed(r))
          /\ new = {PrefixOf(Committed(r), i) : i \in at + 1 .. Len(Committed(r))}
    OBVIOUS
  <2>. QED  BY <2>1, LeafEffect DEF IInv
<1>2. Apart(T)
  BY <1>1, SingleOwnerIsApart
<1>3. Apart(T \cup new)'
  BY <1>1, <1>2, LeafApart
<1>. QED  BY <1>1, <1>3, SingleOwnerIsApart

\* What the commit of a matched edge frees was the request's alone, and the request
\* loses no other page.
LEMMA FullEdgeOwners ==
    ASSUME IInv, BorrowInv, SingleOwner, BorrowsWholeEdges, NEW r \in Req, CommitFullEdge(r)
    PROVE  \E t \in Seq(Page) :
             /\ UNCHANGED page /\ free' = free \o t /\ IsInjective(t)
             /\ ToSet(t) \subseteq OwnPages(r) /\ ToSet(t) \cap OwnPages(r)' = {}
             /\ OwnPages(r) \subseteq ToSet(t) \cup OwnPages(r)'
             /\ \A s \in Req : FewerPlaces(s)
             /\ \A s \in Req \ {r} : SamePlaces(s)
<1>1. PICK T : T = DOMAIN page
  OBVIOUS
<1>2. Apart(T) /\ CoreInv
  BY <1>1, SingleOwnerIsApart DEF IInv
<1>3. OwnPages(r) \cap CachedPages = {}
  BY DEF SingleOwner
<1>. QED  BY <1>2, <1>3, FullEdgeGiven

\* No page gets a second owner, one step per action; only an edge of which the
\* request had borrowed a part could give it one.
LEMMA SingleOwnerInductive ==
    IInv /\ BorrowInv /\ BorrowsWholeEdges /\ SingleOwner /\ [Next]_vars => SingleOwner'
<1>. SUFFICES ASSUME IInv, BorrowInv, BorrowsWholeEdges, SingleOwner, [Next]_vars
              PROVE  SingleOwner'
  OBVIOUS
<1>0. /\ free \in Seq(Page) /\ CoreInv
      /\ \A r \in Req : OwnPositions(r)' = {} => OwnPages(r)' = {}
  BY DEF IInv, TypeOK, OwnPages
<1>. DEFINE GivenBack(r, t) ==
              /\ UNCHANGED page /\ free' = free \o t /\ IsInjective(t)
              /\ ToSet(t) \subseteq OwnPages(r) /\ ToSet(t) \cap OwnPages(r)' = {}
              /\ \A s \in Req : FewerPlaces(s)
<1>1. ASSUME UNCHANGED <<free, page>>, \A s \in Req : FewerPlaces(s)
      PROVE  SingleOwner'
  <2>1. PICK T : T = DOMAIN page /\ T = DOMAIN page' /\ \A p \in T : page'[p] = page[p]
    BY <1>1
  <2>2. Apart(T)
    BY <2>1, SingleOwnerIsApart
  <2>3. Apart(T)'
    BY <1>1, <2>1, <2>2, FewerApart
  <2>. QED  BY <2>1, <2>3, SingleOwnerIsApart
<1>2. ASSUME NEW r \in Req, NEW t \in Seq(Page), GivenBack(r, t)
      PROVE  SingleOwner'
  <2>1. PICK T : T = DOMAIN page /\ T = DOMAIN page' /\ \A p \in T : page'[p] = page[p]
    BY <1>2
  <2>2. Apart(T)
    BY <2>1, SingleOwnerIsApart
  <2>3. Apart(T)'
    BY <1>0, <1>2, <2>1, <2>2, GivenBackApart
  <2>. QED  BY <2>1, <2>3, SingleOwnerIsApart
<1>3. ASSUME \/ UNCHANGED vars \/ AllocFail
             \/ \E r \in Req : \/ Admit(r) \/ PrefillInit(r) \/ AbortUninitialised(r)
                               \/ CommitRaises(r)
                               \/ \E t \in Gen[r] : Generate(r, t)
                               \/ RadixEnabled /\ FreeRequestKv(r)
      PROVE  SingleOwner'
  <2>1. UNCHANGED <<free, page>> /\ \A s \in Req : SamePlaces(s)
    BY <1>3, NoPlaceMoves
  <2>. QED  BY <1>1, <2>1, PlacesToPages
<1>4. ASSUME NEW n \in Nodes, AllocEvict(n) PROVE SingleOwner'
  BY <1>4, EvictKeepsOwners
<1>5. CASE AllocDone
  BY <1>5, TakeKeepsOwners
<1>6. ASSUME NEW r \in Req, CommitLeaf(r) PROVE SingleOwner'
  BY <1>6, LeafKeepsOwners
<1>7. ASSUME NEW r \in Req, CommitFullEdge(r) PROVE SingleOwner'
  <2>1. PICK t \in Seq(Page) : GivenBack(r, t)
    BY <1>7, FullEdgeOwners
  <2>. QED  BY <1>2, <2>1
<1>8. ASSUME NEW r \in Req, CommitSplit(r) PROVE SingleOwner'
  BY <1>0, <1>1, <1>8, SplitEffect
<1>9. ASSUME NEW r \in Req, CommitEnd(r) \/ (~ RadixEnabled /\ FreeRequestKv(r))
      PROVE SingleOwner'
  <2>1. PICK t \in Seq(Page) :
          /\ UNCHANGED page /\ free' = free \o t
          /\ ToSet(t) = OwnPages(r)
          /\ (\A i, j \in OwnPositions(r) : table[r][i] = table[r][j] => i = j) => IsInjective(t)
          /\ OwnPositions(r)' = {}
          /\ \A s \in Req : FewerPlaces(s)
    BY <1>0, <1>9, EndEffect
  <2>2. IsInjective(t)
    BY <2>1 DEF SingleOwner
  <2>3. ToSet(t) \subseteq OwnPages(r) /\ ToSet(t) \cap OwnPages(r)' = {}
    BY <1>0, <2>1
  <2>. QED  BY <1>2, <2>1, <2>2, <2>3
<1>. QED  BY <1>3, <1>4, <1>5, <1>6, <1>7, <1>8, <1>9, EngineAssumption
          DEF Next, Retire, Abort, Terminated

\* Before the first request the pool has every page, once.
LEMMA InitSingleOwner == Init => SingleOwner
<1>. SUFFICES ASSUME Init PROVE SingleOwner
  OBVIOUS
<1>1. /\ NumPages \in Nat /\ DOMAIN free = 1 .. NumPages /\ \A i \in 1 .. NumPages : free[i] = i - 1
      /\ DOMAIN page = {} /\ \A r \in Req : table[r] = << >>
  BY PoolAssumption DEF Init, PoolInit, CacheInit
<1>2. IsInjective(free)
  BY <1>1 DEF IsInjective
<1>3. \A r \in Req : OwnPositions(r) = {}
  BY <1>1, EmptySeq DEF OwnPositions
<1>. QED  BY <1>1, <1>2, <1>3 DEF SingleOwner, OwnPages, CachedPages, CachedPagesNotFree

\* An edge borrowed in part is the only way a page comes to have two owners: while
\* no commit walks one, a page is once on the free list, once in the tree or once in
\* one table.
THEOREM OnlyPartialBorrowsShare ==
    Spec /\ []BorrowsWholeEdges => []SingleOwner
BY SingleOwnerInductive, InitSingleOwner, BorrowInvariant, PTL DEF Spec

-----------------------------------------------------------------------------
(* The two disagreements, and nothing else, break it *)

\* Whenever a commit walks an edge that its request had borrowed in part, pages of
\* the tree end up on the free list.
THEOREM PartialBorrowFreesCached ==
    ASSUME IInv, BorrowInv, SingleOwner, NEW r \in Req, CommitFullEdge(r), ~ BorrowsWholeEdges
    PROVE  ~ CachedPagesNotFree'
<1>. DEFINE c  == Child(Committed(r), at)
            in == SubSeq(table[r], at + 1, Len(c))
<1>1. /\ UNCHANGED page /\ Inserting(r) /\ Len(c) \in Nat /\ Len(c) <= Len(table[r])
      /\ in \in Seq(Page)
      /\ ToSet(in) = {table[r][i] : i \in at + 1 .. Len(c)}
      /\ free' = free \o (IF in = EdgePages(c) THEN << >> ELSE in)
      /\ in = EdgePages(c) => \A i \in at + 1 .. Len(c) : table[r][i] \in CachedPages
  BY FullEdgeEffect DEF IInv
<1>2. /\ hit[r] \in Nat /\ at \in Nat /\ Len(table[r]) \in Nat /\ pc = "insert" /\ cur = r
      /\ table[r] \in Seq(Page) /\ free \in Seq(Page)
  BY <1>1, LenProperties DEF IInv, TypeOK, Inserting
<1>3. ~ (hit[r] <= at) /\ ~ (hit[r] >= Len(c))
  BY <1>2 DEF BorrowsWholeEdges, Inserting
<1>. HIDE DEF c, in
<1>4. in # EdgePages(c)
  <2>1. hit[r] + 1 \in OwnPositions(r) /\ hit[r] + 1 \in at + 1 .. Len(c)
    BY <1>1, <1>2, <1>3 DEF OwnPositions
  <2>2. table[r][hit[r] + 1] \in OwnPages(r)
    BY <2>1 DEF OwnPages
  <2>. QED  BY <1>1, <2>1, <2>2 DEF SingleOwner
<1>5. table[r][hit[r]] \in CachedPages'
  <2>1. table[r] # << >> /\ Borrows(r)
    BY <1>1, <1>2, <1>3, EmptySeq DEF BorrowInv, PagesInv
  <2>2. hit[r] \in 1 .. hit[r]
    BY <1>2, <1>3
  <2>3. /\ PrefixOf(Committed(r), hit[r]) \in DOMAIN page
        /\ page[PrefixOf(Committed(r), hit[r])] = table[r][hit[r]]
    BY <2>1, <2>2, CommittedStarts DEF IInv
  <2>4. CachedPages' = CachedPages
    BY <1>1 DEF CachedPages
  <2>. QED  BY <2>3, <2>4 DEF CachedPages
<1>6. table[r][hit[r]] \in ToSet(free')
  <2>1. ToSet(free') = ToSet(free) \cup ToSet(in)
    BY <1>1, <1>2, <1>4, GivenBackIsFound
  <2>2. hit[r] \in at + 1 .. Len(c)
    BY <1>1, <1>2, <1>3
  <2>. QED  BY <1>1, <2>1, <2>2
<1>. QED  BY <1>5, <1>6 DEF CachedPagesNotFree

\* Whenever a commit splits an edge deeper than its request had borrowed, a page that
\* had an owner has none.
THEOREM DeepSplitLosesPage ==
    ASSUME IInv, SingleOwner, NEW r \in Req, CommitSplit(r), ~ SplitsOnlyBorrowed
    PROVE  \E g \in Page : Found(g) /\ ~ Found(g)'
<1>. DEFINE k == SplitPoint(Committed(r), at)
<1>1. /\ UNCHANGED <<free, page>>
      /\ Inserting(r) /\ k \in Nat
      /\ OwnPositions(r)' = OwnPositions(r) \ (at + 1 .. k)
      /\ FewerPlaces(r)
      /\ \A s \in Req \ {r} : SamePlaces(s)
  BY SplitEffect DEF IInv
<1>2. /\ hit[r] \in Nat /\ at \in Nat /\ Len(table[r]) \in Nat /\ pc = "insert" /\ cur = r
  BY <1>1, LenProperties DEF IInv, TypeOK, Inserting
<1>3. ~ (k <= hit[r])
  BY <1>2 DEF SplitsOnlyBorrowed, Inserting
<1>4. k \in at + 1 .. k /\ k <= Len(table[r])
  <2>1. /\ Committed(r) \in Seq(Key) /\ Len(Committed(r)) \in Nat /\ at < Len(Committed(r))
        /\ Len(Committed(r)) <= Len(table[r])
    BY <1>1, InsertingFacts DEF IInv
  <2>2. HasChild(Committed(r), at)
    BY DEF CommitSplit, InsertSplit
  <2>3. k \in at + 1 .. Len(Committed(r))
    BY <1>2, <2>1, <2>2, SplitPointProperties DEF IInv, CoreInv
  <2>. QED  BY <1>2, <2>1, <2>3
<1>. HIDE DEF k
<1>5. k \in OwnPositions(r) /\ k \notin OwnPositions(r)'
  BY <1>1, <1>2, <1>3, <1>4 DEF OwnPositions
<1>. DEFINE g == table[r][k]
<1>6. g \in OwnPages(r) /\ g \in Page
  BY <1>5, OwnTypes DEF IInv, OwnPages
<1>7. g \notin OwnPages(r)'
  BY <1>1, <1>5 DEF OwnPages, FewerPlaces, SingleOwner
<1>8. \A s \in Req \ {r} : OwnPages(s)' = OwnPages(s) /\ g \notin OwnPages(s)
  BY <1>1, <1>6, PlacesToPages DEF SingleOwner
<1>9. g \notin ToSet(free') /\ g \notin CachedPages'
  <2>1. CachedPages' = CachedPages
    BY <1>1 DEF CachedPages
  <2>. QED  BY <1>1, <1>6, <2>1 DEF SingleOwner
<1>10. PICK x \in Page : x = g
  BY <1>6
<1>. HIDE DEF g
<1>11. Found(x)' <=> \/ x \in ToSet(free')
                     \/ x \in CachedPages'
                     \/ \E s \in Req : x \in OwnPages(s)'
  BY DEF Found
<1>12. Found(x) /\ ~ Found(x)'
  BY <1>6, <1>7, <1>8, <1>9, <1>10, <1>11 DEF Found
<1>. QED  BY <1>12

-----------------------------------------------------------------------------
(* The engine with its cache implements the pool *)

Owners == Req \cup {Free_, Cache_}

\* The pages of an owner.
Holds(o) == IF o = Free_ THEN ToSet(free) ELSE IF o = Cache_ THEN CachedPages ELSE OwnPages(o)

\* The owner function reads them off.
OwnersRead ==
    \A g \in Page : /\ \E o \in Owners : g \in Holds(o)
                    /\ \A o \in Owners : g \in Holds(o) => Owner[g] = o

LEMMA HoldersOf ==
    /\ Holds(Free_) = ToSet(free) /\ Holds(Cache_) = CachedPages
    /\ \A r \in Req : Holds(r) = OwnPages(r) /\ r # Free_ /\ r # Cache_
    /\ Free_ # Cache_
BY OwnerAssumption DEF Holds, Free_, Cache_

\* The same of the next state.
LEMMA HoldersNext ==
    /\ Holds(Free_)' = ToSet(free') /\ Holds(Cache_)' = CachedPages'
    /\ \A r \in Req : Holds(r)' = OwnPages(r)'
BY OwnerAssumption DEF Holds, Free_, Cache_

LEMMA SingleOwnerReads == SingleOwner /\ Accounted => OwnersRead
<1>. SUFFICES ASSUME SingleOwner, Accounted, NEW g \in Page
              PROVE  /\ \E o \in Owners : g \in Holds(o)
                     /\ \A o \in Owners : g \in Holds(o) => Owner[g] = o
  BY DEF OwnersRead
<1>1. \E o \in Owners : g \in Holds(o)
  BY HoldersOf DEF Accounted, Found, Owners
<1>2. ASSUME NEW o \in Owners, g \in Holds(o) PROVE Owner[g] = o
  <2>1. CASE o = Free_
    <3>1. g \in ToSet(free)
      BY <1>2, <2>1, HoldersOf
    <3>2. g \notin CachedPages /\ \A r \in Req : g \notin OwnPages(r)
      BY <3>1 DEF SingleOwner, CachedPagesNotFree
    <3>. QED  BY <2>1, <3>1, <3>2 DEF Owner
  <2>2. CASE o = Cache_
    <3>1. g \in CachedPages
      BY <1>2, <2>2, HoldersOf
    <3>. QED  BY <2>2, <3>1 DEF Owner
  <2>3. CASE o \in Req
    <3>1. g \in OwnPages(o)
      BY <1>2, <2>3, HoldersOf
    <3>2. g \notin CachedPages /\ \A s \in Req : g \in OwnPages(s) => s = o
      BY <2>3, <3>1 DEF SingleOwner
    <3>3. (CHOOSE s \in Req : g \in OwnPages(s)) = o
      BY <2>3, <3>1, <3>2
    <3>. QED  BY <2>3, <3>1, <3>2, <3>3 DEF Owner
  <2>. QED  BY <2>1, <2>2, <2>3 DEF Owners
<1>. QED  BY <1>1, <1>2

\* What leaves one owner for another, the rest staying where it is, is a move.
LEMMA MovesAre ==
    ASSUME OwnersRead, OwnersRead', NEW S \in SUBSET Page, NEW a \in Owners, NEW b \in Owners,
           S \subseteq Holds(a), S \subseteq Holds(b)',
           \A o \in Owners : Holds(o) \ S \subseteq Holds(o)'
    PROVE  Pool!Move(S, a, b)
<1>1. Page' = Page /\ Owners' = Owners
  BY DEF Page, Owners, Free_, Cache_
<1>2. ASSUME NEW g \in Page, NEW o \in Owners
      PROVE  /\ g \in Holds(o) => Owner[g] = o
             /\ g \in Holds(o)' => Owner'[g] = o
  <2>1. \A x \in Page : \A u \in Owners : x \in Holds(u)' => Owner'[x] = u
    BY <1>1 DEF OwnersRead
  <2>. QED  BY <2>1 DEF OwnersRead
<1>3. \A g \in S : Owner[g] = a
  BY <1>2
<1>4. ASSUME NEW g \in Page PROVE Owner'[g] = IF g \in S THEN b ELSE Owner[g]
  <2>1. CASE g \in S
    BY <1>2, <2>1
  <2>2. CASE g \notin S
    <3>1. PICK o \in Owners : g \in Holds(o)
      BY DEF OwnersRead
    <3>. QED  BY <1>2, <2>2, <3>1
  <2>. QED  BY <2>1, <2>2
<1>5. Owner' = [g \in Page |-> Owner'[g]]
  BY <1>1 DEF Owner
<1>6. Owner' = [g \in Page |-> IF g \in S THEN b ELSE Owner[g]]
  <2>. HIDE DEF Owner
  <2>. QED  BY <1>4, <1>5
<1>. QED  BY <1>3, <1>6 DEF Pool!Move

\* A step that keeps all pages with their owners changes no owner.
LEMMA StaysIsStutter ==
    ASSUME OwnersRead, OwnersRead', \A o \in Owners : Holds(o) \subseteq Holds(o)'
    PROVE  Owner' = Owner
<1>1. PICK S \in SUBSET Page : S = {}
  OBVIOUS
<1>2. Free_ \in Owners
  BY DEF Owners
<1>3. Pool!Move(S, Free_, Free_)
  BY <1>1, <1>2, MovesAre
<1>4. Owner' = [g \in Page |-> Owner[g]]
  BY <1>1, <1>3 DEF Pool!Move
<1>5. Owner = [g \in Page |-> Owner[g]]
  BY DEF Owner
<1>. QED  BY <1>4, <1>5

\* For a request that moves pages from or to one other owner.
LEMMA OthersStay ==
    ASSUME NEW r \in Req, \A s \in Req \ {r} : SamePlaces(s)
    PROVE  \A s \in Req \ {r} : Holds(s)' = Holds(s)
BY HoldersOf, HoldersNext, PlacesToPages

\* Every step moves pages as the contract of the pool allows.
LEMMA CachedPoolStep ==
    ASSUME IInv, BorrowInv, SingleOwner, BorrowsWholeEdges, SplitsOnlyBorrowed,
           OwnersRead, OwnersRead', [Next]_vars
    PROVE  [Pool!Next]_Owner
<1>0. /\ free \in Seq(Page) /\ Free_ \in Owners /\ Cache_ \in Owners /\ Req \subseteq Owners
      /\ \A r \in Req : OwnPages(r) \subseteq Page
  BY OwnTypes DEF IInv, TypeOK, Owners
<1>1. ASSUME \/ UNCHANGED vars \/ AllocFail
             \/ \E r \in Req : \/ Admit(r) \/ PrefillInit(r) \/ AbortUninitialised(r)
                               \/ CommitRaises(r)
                               \/ \E t \in Gen[r] : Generate(r, t)
                               \/ RadixEnabled /\ FreeRequestKv(r)
      PROVE  Owner' = Owner
  <2>1. UNCHANGED <<free, page>> /\ \A s \in Req : SamePlaces(s)
    BY <1>1, NoPlaceMoves
  <2>2. CachedPages' = CachedPages /\ \A s \in Req : OwnPages(s)' = OwnPages(s)
    BY <2>1, PlacesToPages DEF CachedPages
  <2>3. \A o \in Owners : Holds(o) \subseteq Holds(o)'
    BY <2>1, <2>2, HoldersOf, HoldersNext DEF Owners
  <2>. QED  BY <2>3, StaysIsStutter
<1>2. ASSUME NEW n \in Nodes, AllocEvict(n) PROVE Pool!Evict
  <2>1. /\ EdgePages(n) \in Seq(Page) /\ free' = free \o EdgePages(n)
        /\ ToSet(EdgePages(n)) = {page[p] : p \in Edge(n)}
        /\ Edge(n) \subseteq DOMAIN page
        /\ DOMAIN page' = DOMAIN page \ Edge(n)
        /\ \A p \in DOMAIN page' : page'[p] = page[p]
        /\ \A r \in Req : SamePlaces(r)
    BY <1>2, EvictEffect
  <2>. DEFINE S == ToSet(EdgePages(n))
  <2>2. ToSet(free') = ToSet(free) \cup S
    BY <1>0, <2>1, GivenBackIsFound
  <2>3. S \in SUBSET Page
    BY <2>1 DEF IInv, TypeOK
  <2>4. S \subseteq CachedPages /\ CachedPages \ S \subseteq CachedPages'
    BY <2>1 DEF CachedPages
  <2>5. \A s \in Req : OwnPages(s)' = OwnPages(s)
    BY <2>1, PlacesToPages
  <2>. HIDE DEF S
  <2>6. \A o \in Owners : Holds(o) \ S \subseteq Holds(o)'
    BY <2>2, <2>4, <2>5, HoldersOf, HoldersNext DEF Owners
  <2>7. Pool!Move(S, Cache_, Free_)
    BY <1>0, <2>2, <2>3, <2>4, <2>6, HoldersOf, HoldersNext, MovesAre
  <2>. QED  BY <2>3, <2>7 DEF Pool!Evict, Cache_, Free_
<1>3. ASSUME AllocDone PROVE \E c \in Req : Pool!Take(c)
  <2>1. PICK c \in Req :
          LET t == Popped(Extra(c))
              k == Len(table[c])
          IN  /\ c = cur /\ UNCHANGED page /\ k \in Nat
              /\ Extra(c) \in 0 .. Len(free) /\ t \in Seq(Page) /\ Len(t) = Extra(c)
              /\ free' = SubSeq(free, 1, Len(free) - Extra(c))
              /\ OwnPositions(c) = {}
              /\ OwnPositions(c)' = k + 1 .. k + Len(t)
              /\ \A i \in k + 1 .. k + Len(t) : table'[c][i] = t[i - k]
              /\ \A s \in Req \ {c} : SamePlaces(s)
    BY <1>3, TakeEffect DEF IInv
  <2>. DEFINE t == Popped(Extra(c))
              k == Len(table[c])
              S == ToSet(t)
  <2>2. ToSet(free') \cup S = ToSet(free)
    BY <1>0, <2>1, PoppedMembers
  <2>3. /\ t \in Seq(Page) /\ k \in Nat /\ OwnPositions(c)' = k + 1 .. k + Len(t)
        /\ \A i \in k + 1 .. k + Len(t) : table'[c][i] = t[i - k]
        /\ OwnPages(c) = {}
    BY <2>1 DEF OwnPages
  <2>. HIDE DEF t, k
  <2>4. S \subseteq OwnPages(c)'
    <3>1. SUFFICES ASSUME NEW j \in 1 .. Len(t) PROVE t[j] \in OwnPages(c)'
      BY <2>3, LenProperties DEF ToSet
    <3>2. Len(t) \in Nat /\ k + j \in k + 1 .. k + Len(t) /\ (k + j) - k = j
      BY <2>3, LenProperties
    <3>. QED  BY <2>3, <3>2 DEF OwnPages
  <2>5. S \in SUBSET Page
    BY <2>3, LenProperties, ElementOfSeq DEF ToSet
  <2>. HIDE DEF S
  <2>6. CachedPages' = CachedPages
    BY <2>1 DEF CachedPages
  <2>7. \A s \in Req \ {c} : Holds(s)' = Holds(s)
    BY <2>1, OthersStay
  <2>8. \A o \in Owners : Holds(o) \ S \subseteq Holds(o)'
    BY <2>2, <2>3, <2>6, <2>7, HoldersOf, HoldersNext DEF Owners
  <2>9. Pool!Move(S, Free_, c)
    BY <1>0, <2>2, <2>4, <2>5, <2>8, HoldersOf, HoldersNext, MovesAre
  <2>. QED  BY <2>5, <2>9 DEF Pool!Take, Free_
<1>4. ASSUME NEW r \in Req, CommitLeaf(r) PROVE Pool!Donate(r)
  <2>. DEFINE q == Committed(r)
              S == {table[r][i] : i \in at + 1 .. Len(q)}
  <2>1. /\ UNCHANGED free
        /\ at + 1 .. Len(q) \subseteq OwnPositions(r)
        /\ OwnPositions(r)' = OwnPositions(r) \ (at + 1 .. Len(q))
        /\ FewerPlaces(r)
        /\ \A s \in Req \ {r} : SamePlaces(s)
        /\ \A p \in DOMAIN page : p \in DOMAIN page' /\ page'[p] = page[p]
        /\ \A i \in at + 1 .. Len(q) : PrefixOf(q, i) \in DOMAIN page' /\ page'[PrefixOf(q, i)] = table[r][i]
    BY <1>4, LeafEffect DEF IInv
  <2>. HIDE DEF q
  <2>2. S \subseteq OwnPages(r) /\ OwnPages(r) \ S \subseteq OwnPages(r)'
    BY <2>1 DEF OwnPages, FewerPlaces
  <2>3. CachedPages \subseteq CachedPages' /\ S \subseteq CachedPages'
    BY <2>1 DEF CachedPages
  <2>4. \A s \in Req \ {r} : Holds(s)' = Holds(s)
    BY <2>1, OthersStay
  <2>5. S \in SUBSET Page
    BY <1>0, <2>2
  <2>. HIDE DEF S
  <2>6. \A o \in Owners : Holds(o) \ S \subseteq Holds(o)'
    BY <2>1, <2>2, <2>3, <2>4, HoldersOf, HoldersNext DEF Owners
  <2>7. Pool!Move(S, r, Cache_)
    BY <1>0, <2>2, <2>3, <2>5, <2>6, HoldersOf, HoldersNext, MovesAre
  <2>. QED  BY <2>5, <2>7 DEF Pool!Donate, Cache_
<1>5. ASSUME NEW r \in Req, NEW t \in Seq(Page), UNCHANGED page, free' = free \o t,
             ToSet(t) \subseteq OwnPages(r), OwnPages(r) \subseteq ToSet(t) \cup OwnPages(r)',
             \A s \in Req \ {r} : SamePlaces(s)
      PROVE  Pool!Return(r)
  <2>. DEFINE S == ToSet(t)
  <2>1. ToSet(free') = ToSet(free) \cup S
    BY <1>0, <1>5, GivenBackIsFound
  <2>2. S \in SUBSET Page
    BY <1>0, <1>5
  <2>3. CachedPages' = CachedPages
    BY <1>5 DEF CachedPages
  <2>4. \A s \in Req \ {r} : Holds(s)' = Holds(s)
    BY <1>5, OthersStay
  <2>5. S \subseteq OwnPages(r) /\ OwnPages(r) \ S \subseteq OwnPages(r)'
    BY <1>5
  <2>. HIDE DEF S
  <2>6. \A o \in Owners : Holds(o) \ S \subseteq Holds(o)'
    BY <2>1, <2>3, <2>4, <2>5, HoldersOf, HoldersNext DEF Owners
  <2>7. Pool!Move(S, r, Free_)
    BY <1>0, <2>1, <2>2, <2>5, <2>6, HoldersOf, HoldersNext, MovesAre
  <2>. QED  BY <2>2, <2>7 DEF Pool!Return, Free_
<1>6. ASSUME NEW r \in Req, CommitFullEdge(r) PROVE Pool!Return(r)
  BY <1>5, <1>6, FullEdgeOwners
<1>7. ASSUME NEW r \in Req, CommitSplit(r) PROVE Owner' = Owner
  <2>. DEFINE k == SplitPoint(Committed(r), at)
  <2>1. /\ UNCHANGED <<free, page>>
        /\ Inserting(r) /\ HasChild(Committed(r), at)
        /\ ~ IsPrefix(Child(Committed(r), at), Committed(r))
        /\ k \in Nat /\ OwnPositions(r)' = OwnPositions(r) \ (at + 1 .. k)
        /\ FewerPlaces(r)
        /\ \A s \in Req \ {r} : SamePlaces(s)
    BY <1>7, SplitEffect DEF IInv
  <2>2. k <= hit[r]
    BY <2>1 DEF SplitsOnlyBorrowed
  <2>. HIDE DEF k
  <2>3. OwnPositions(r) \cap (at + 1 .. k) = {}
    <3>1. hit[r] \in Nat /\ at \in Nat
      BY DEF IInv, TypeOK
    <3>. QED  BY <2>1, <2>2, <3>1 DEF OwnPositions
  <2>4. OwnPages(r)' = OwnPages(r)
    BY <2>1, <2>3 DEF OwnPages, FewerPlaces
  <2>5. CachedPages' = CachedPages /\ \A s \in Req : OwnPages(s)' = OwnPages(s)
    BY <2>1, <2>4, PlacesToPages DEF CachedPages
  <2>6. \A o \in Owners : Holds(o) \subseteq Holds(o)'
    BY <2>1, <2>5, HoldersOf, HoldersNext DEF Owners
  <2>. QED  BY <2>6, StaysIsStutter
<1>8. ASSUME NEW r \in Req, CommitEnd(r) \/ (~ RadixEnabled /\ FreeRequestKv(r))
      PROVE  Pool!Return(r)
  <2>1. PICK t \in Seq(Page) :
          /\ UNCHANGED page /\ free' = free \o t
          /\ ToSet(t) = OwnPages(r)
          /\ \A s \in Req \ {r} : SamePlaces(s)
    BY <1>8, EndEffect DEF IInv
  <2>2. ToSet(t) \subseteq OwnPages(r) /\ OwnPages(r) \subseteq ToSet(t) \cup OwnPages(r)'
    BY <2>1
  <2>. QED  BY <1>5, <2>1, <2>2
<1>. QED  BY <1>1, <1>2, <1>3, <1>4, <1>6, <1>7, <1>8, EngineAssumption
          DEF Next, Retire, Abort, Terminated, Pool!Next

\* With its radix cache the engine implements the contract of the pool, as long as
\* its commits walk no edge borrowed in part and split none deeper than borrowed:
\* pages go from the pool to a request, from there to the cache or back, and from
\* the cache back to the pool, and each has one owner all the time.
THEOREM CachedPoolRefinement ==
    Spec /\ []BorrowsWholeEdges /\ []SplitsOnlyBorrowed => PagePoolSpec
<1>1. Init => Pool!Init
  <2>. SUFFICES ASSUME Init PROVE Pool!Init
    OBVIOUS
  <2>1. OwnersRead
    BY InitSingleOwner, InitAccounted, SingleOwnerReads
  <2>2. \A g \in Page : g \in ToSet(free)
    <3>1. NumPages \in Nat /\ DOMAIN free = 1 .. NumPages /\ \A i \in 1 .. NumPages : free[i] = i - 1
      BY PoolAssumption DEF Init, PoolInit
    <3>2. \A g \in Page : g + 1 \in 1 .. NumPages /\ g = (g + 1) - 1
      BY <3>1 DEF Page
    <3>. QED  BY <3>1, <3>2 DEF ToSet
  <2>3. \A g \in Page : Owner[g] = "free"
    BY <2>1, <2>2, HoldersOf DEF OwnersRead, Owners, Free_
  <2>4. Owner = [g \in Page |-> Owner[g]]
    BY DEF Owner
  <2>. HIDE DEF Owner
  <2>. QED  BY <2>3, <2>4 DEF Pool!Init
<1>2. /\ Init => SingleOwner /\ Accounted
      /\ IInv /\ BorrowInv /\ BorrowsWholeEdges /\ SingleOwner /\ [Next]_vars => SingleOwner'
      /\ IInv /\ BorrowInv /\ SplitsOnlyBorrowed /\ Accounted /\ [Next]_vars => Accounted'
  BY InitSingleOwner, InitAccounted, SingleOwnerInductive, AccountedInductive
<1>3. /\ IInv /\ BorrowInv /\ SingleOwner /\ BorrowsWholeEdges /\ SplitsOnlyBorrowed
      /\ OwnersRead /\ OwnersRead' /\ [Next]_vars
      => [Pool!Next]_Owner
  BY CachedPoolStep
<1>. QED  BY <1>1, <1>2, <1>3, SingleOwnerReads, BorrowInvariant, PTL
          DEF Spec, PagePoolSpec, Pool!Spec

-----------------------------------------------------------------------------
(* A workload that meets the conditions *)

\* Two prompts have the same pages or differ in the first one, and no answer fills a
\* page: prompts that come again, each with a short answer.
RepeatedPrompts ==
    /\ \A r \in Req : WholePages(Len(Prompt[r]) + Longest(r)) = WholePages(Len(Prompt[r]))
    /\ \A r, s \in Req :
          /\ Keys(Prompt[r]) # << >> /\ Keys(Prompt[s]) # << >>
          /\ Keys(Prompt[r])[1] = Keys(Prompt[s])[1]
          => Keys(Prompt[r]) = Keys(Prompt[s])

\* The nodes are the prompts, and a match finds all of one or nothing.
RepeatInv ==
    /\ \A n \in Nodes : \E s \in Req : n = Keys(Prompt[s])
    /\ \A r \in Req : hit[r] = 0 \/ hit[r] = Len(Keys(Prompt[r]))

\* What is committed is the prompt.
LEMMA CommittedIsPrompt ==
    ASSUME CoreInv, RepeatedPrompts, NEW r \in Req
    PROVE  /\ Committed(r) = Keys(Prompt[r]) /\ Keys(Prompt[r]) \in Seq(Key)
           /\ Len(Keys(Prompt[r])) \in Nat
<1>1. /\ Prompt[r] \in Seq(Token) /\ out[r] \in Seq(Token) /\ Tokens(r) \in Seq(Token)
      /\ Tokens(r) = Prompt[r] \o out[r] /\ Longest(r) \in Nat
  BY EngineAssumption, ConcatProperties DEF CoreInv, CoreTypes, Tokens, Longest
<1>2. PICK k \in Seq(Key), q \in Seq(Key) : k = Keys(Prompt[r]) /\ q = Committed(r)
  BY <1>1, KeysType DEF Committed
<1>3. /\ Len(k) \in Nat /\ Len(q) \in Nat /\ Len(k) <= Len(q)
      /\ \A i \in 1 .. Len(k) : q[i] = k[i]
  BY <1>1, <1>2, KeysGrow DEF Committed
<1>4. Len(q) <= Len(k)
  <2>1. /\ Len(Prompt[r]) \in Nat /\ Len(out[r]) \in Nat
        /\ Len(Tokens(r)) = Len(Prompt[r]) + Len(out[r]) /\ Len(out[r]) <= Longest(r)
    <3>1. Len(out[r]) <= Longest(r)
      BY DEF CoreInv, SizeInv
    <3>. QED  BY <1>1, <3>1, ConcatProperties, LenProperties
  <2>2. /\ Len(Tokens(r)) \in Nat /\ Len(Prompt[r]) + Longest(r) \in Nat
        /\ Len(Tokens(r)) <= Len(Prompt[r]) + Longest(r)
    <3>1. Longest(r) \in Nat
      BY <1>1
    <3>2. PICK a \in Nat, b \in Nat, c \in Nat :
                  a = Len(Prompt[r]) /\ b = Len(out[r]) /\ c = Longest(r)
      BY <2>1, <3>1, Zenon
    <3>3. Len(Tokens(r)) = a + b /\ b <= c
      BY <2>1, <3>2, Zenon
    <3>4. a + b \in Nat /\ a + c \in Nat /\ a + b <= a + c
      BY <3>3
    <3>. QED  BY <3>2, <3>3, <3>4, Zenon
  <2>3. WholePages(Len(Tokens(r))) <= WholePages(Len(Prompt[r]) + Longest(r))
    <3>1. \A m, n \in Nat : m <= n => WholePages(m) <= WholePages(n)
      BY PoolAssumption DEF WholePages
    <3>. QED  BY <2>2, <3>1
  <2>4. Len(k) = WholePages(Len(Prompt[r])) /\ Len(q) = WholePages(Len(Tokens(r)))
    BY <1>1, <1>2, KeysType DEF Committed
  <2>. QED  BY <2>3, <2>4 DEF RepeatedPrompts
<1>5. Len(q) = Len(k)
  BY <1>3, <1>4
<1>6. q = k
  BY <1>3, <1>5, SeqEqual
<1>. QED  BY <1>2, <1>3, <1>6

\* The node under the first page of a prompt is the prompt.
LEMMA NodeIsPrompt ==
    ASSUME CoreInv, RepeatedPrompts, RepeatInv, NEW r \in Req,
           Len(Keys(Prompt[r])) >= 1, NEW n \in Nodes,
           n[1] = Keys(Prompt[r])[1]
    PROVE  n = Keys(Prompt[r])
<1>1. PICK s \in Req : n = Keys(Prompt[s])
  BY DEF RepeatInv
<1>2. n # << >> /\ Keys(Prompt[r]) # << >>
  BY EmptySeq DEF CoreInv, TreeInv
<1>. QED  BY <1>1, <1>2 DEF RepeatedPrompts

\* The child of the root under the first page of a prompt is the prompt.
LEMMA FirstChildIsPrompt ==
    ASSUME CoreInv, RepeatedPrompts, RepeatInv, NEW r \in Req,
           Len(Keys(Prompt[r])) >= 1, HasChild(Keys(Prompt[r]), 0)
    PROVE  Child(Keys(Prompt[r]), 0) = Keys(Prompt[r])
<1>. DEFINE q == Keys(Prompt[r])
<1>1. q \in Seq(Key) /\ Len(q) \in Nat /\ Len(q) >= 1
  BY CommittedIsPrompt
<1>. HIDE DEF q
<1>2. PrefixOf(q, 1) \in DOMAIN page /\ 0 + 1 = 1
  BY DEF HasChild, q
<1>3. /\ Child(q, 0) \in Nodes /\ IsPrefix(PrefixOf(q, 1), Child(q, 0))
      /\ Child(q, 0) \in Seq(Key)
  BY <1>2, OwnerProperties DEF Child, CoreInv, TreeInv
<1>4. 1 \in 0 .. Len(q) /\ 1 \in 1 .. 1
  BY <1>1
<1>5. /\ PrefixOf(q, 1) \in Seq(Key) /\ Len(PrefixOf(q, 1)) = 1
      /\ PrefixOf(q, 1)[1] = q[1]
  BY <1>1, <1>4, PrefixOfProperties
<1>6. Child(q, 0)[1] = q[1]
  BY <1>3, <1>4, <1>5, PrefixPointwise
<1>. QED  BY <1>1, <1>3, <1>6, NodeIsPrompt DEF q

\* The child of a commit is the whole prompt, and the walk has not begun.
LEMMA ChildIsPrompt ==
    ASSUME CoreInv, RepeatedPrompts, RepeatInv, NEW r \in Req, Inserting(r)
    PROVE  /\ at = 0
           /\ HasChild(Committed(r), at) =>
                 Child(Committed(r), at) = Committed(r) /\ IsPrefix(Committed(r), Committed(r))
<1>. DEFINE q == Committed(r)
<1>1. /\ q \in Seq(Key) /\ Len(q) \in Nat /\ at \in Nat /\ at < Len(q)
      /\ at = 0 \/ PrefixOf(q, at) \in Nodes
      /\ q = Keys(Prompt[r])
  BY InsertingFacts, CommittedIsPrompt
<1>. HIDE DEF q
<1>2. at = 0
  <2>1. SUFFICES ASSUME at # 0 PROVE FALSE
    OBVIOUS
  <2>2. /\ at \in 0 .. Len(q) /\ 1 \in 1 .. at /\ Len(q) >= 1
    BY <1>1, <2>1
  <2>3. PrefixOf(q, at)[1] = q[1] /\ Len(PrefixOf(q, at)) = at
    BY <1>1, <2>2, PrefixOfProperties
  <2>4. PrefixOf(q, at) = q
    BY <1>1, <2>1, <2>2, <2>3, NodeIsPrompt
  <2>. QED  BY <1>1, <2>3, <2>4
<1>3. ASSUME HasChild(q, at) PROVE Child(q, at) = q
  <2>1. Len(q) >= 1 /\ HasChild(q, 0)
    BY <1>1, <1>2, <1>3
  <2>. QED  BY <1>1, <1>2, <2>1, FirstChildIsPrompt
<1>4. IsPrefix(q, q)
  BY <1>1, PrefixReflexive
<1>. QED  BY <1>2, <1>3, <1>4 DEF q

\* A match finds the whole prompt or nothing.
LEMMA MatchIsPrompt ==
    ASSUME CoreInv, RepeatedPrompts, RepeatInv, NEW r \in Req
    PROVE  LET q == Keys(Prompt[r]) IN MatchLen(q) = 0 \/ MatchLen(q) = Len(q)
<1>. DEFINE q == Keys(Prompt[r])
<1>1. q \in Seq(Key) /\ Len(q) \in Nat
  BY CommittedIsPrompt
<1>2. PICK k \in 0 .. Len(q) :
          /\ k = MatchLen(q)
          /\ \A i \in 1 .. k : PrefixOf(q, i) \in DOMAIN page
          /\ k < Len(q) => PrefixOf(q, k + 1) \notin DOMAIN page
  BY <1>1, MatchLenProperties
<1>. HIDE DEF q
<1>3. SUFFICES ASSUME k # 0, k # Len(q) PROVE FALSE
  BY <1>2 DEF q
<1>4. /\ k \in Nat /\ 1 \in 1 .. k /\ 1 \in 0 .. Len(q) /\ Len(q) >= 1 /\ k < Len(q)
      /\ k + 1 \in 1 .. Len(q) /\ 1 \in 1 .. 1
  BY <1>1, <1>2, <1>3
<1>5. PICK n \in Nodes : n \in Seq(Key) /\ IsPrefix(PrefixOf(q, 1), n)
  BY <1>2, <1>4, OwnerProperties DEF CoreInv, TreeInv
<1>6. /\ PrefixOf(q, 1) \in Seq(Key) /\ Len(PrefixOf(q, 1)) = 1
      /\ PrefixOf(q, 1)[1] = q[1]
  BY <1>1, <1>4, PrefixOfProperties
<1>7. n[1] = q[1]
  BY <1>4, <1>5, <1>6, PrefixPointwise
<1>8. n = q
  BY <1>4, <1>7, NodeIsPrompt DEF q
<1>9. PrefixOf(q, k + 1) \in DOMAIN page
  BY <1>4, <1>5, <1>8 DEF CoreInv, TreeInv
<1>. QED  BY <1>2, <1>4, <1>9

LEMMA RepeatInvInductive ==
    RepeatedPrompts /\ IInv /\ RepeatInv /\ [Next]_vars => RepeatInv'
<1>. SUFFICES ASSUME RepeatedPrompts, IInv, RepeatInv, [Next]_vars
              PROVE  RepeatInv'
  OBVIOUS
<1>0. hit \in [Req -> Nat] /\ CoreInv
  BY DEF IInv, TypeOK
<1>1. ASSUME Nodes' \subseteq Nodes, \A r \in Req : hit'[r] = hit[r] \/ hit'[r] = 0
      PROVE  RepeatInv'
  BY <1>1 DEF RepeatInv
<1>2. ASSUME NEW r \in Req, Admit(r) \/ AbortUninitialised(r) \/ FreeRequestKv(r)
                            \/ CommitFullEdge(r) \/ CommitRaises(r)
      PROVE  RepeatInv'
  BY <1>1, <1>2 DEF Admit, AbortUninitialised, FreeRequestKv, CommitFullEdge, InsertFullEdge,
                    CommitRaises, reqVars, Nodes
<1>3. ASSUME NEW r \in Req, PrefillInit(r)
      PROVE  RepeatInv'
  <2>1. CASE ~ RadixEnabled
    BY <1>1, <1>3, <2>1 DEF PrefillInit, Nodes
  <2>2. CASE RadixEnabled
    <3>1. Nodes' = Nodes /\ hit' = [hit EXCEPT ![r] = MatchLen(Keys(Prompt[r]))]
      BY <1>3, <2>2 DEF PrefillInit, MatchAndLock, Nodes
    <3>2. \/ MatchLen(Keys(Prompt[r])) = 0
          \/ MatchLen(Keys(Prompt[r])) = Len(Keys(Prompt[r]))
      BY <1>0, MatchIsPrompt
    <3>. QED  BY <1>0, <3>1, <3>2 DEF RepeatInv
  <2>. QED  BY <2>1, <2>2
<1>4. ASSUME NEW r \in Req, NEW t \in Gen[r], Generate(r, t)
      PROVE  RepeatInv'
  BY <1>1, <1>4 DEF Generate, Nodes
<1>5. ASSUME NEW r \in Req, CommitLeaf(r)
      PROVE  RepeatInv'
  <2>1. Nodes' = Nodes \cup {Committed(r)} /\ UNCHANGED hit
    BY <1>5 DEF CommitLeaf, InsertLeaf, reqVars, Nodes
  <2>2. Committed(r) = Keys(Prompt[r])
    BY <1>0, CommittedIsPrompt
  <2>. QED  BY <2>1, <2>2 DEF RepeatInv
<1>6. ASSUME NEW r \in Req, CommitSplit(r)
      PROVE  FALSE
  <2>1. Inserting(r) /\ HasChild(Committed(r), at) /\ ~ IsPrefix(Child(Committed(r), at), Committed(r))
    BY <1>6 DEF CommitSplit, InsertSplit
  <2>. QED  BY <1>0, <2>1, ChildIsPrompt
<1>7. ASSUME NEW r \in Req, CommitEnd(r)
      PROVE  RepeatInv'
  BY <1>1, <1>7 DEF CommitEnd, Unlock, Nodes
<1>8. ASSUME NEW n \in Nodes, AllocEvict(n)
      PROVE  RepeatInv'
  BY <1>1, <1>8 DEF AllocEvict, EvictLeaf, reqVars, Nodes
<1>9. CASE AllocDone
  BY <1>1, <1>9 DEF AllocDone, Nodes
<1>10. CASE AllocFail
  <2>1. Nodes' = Nodes /\ hit' = [hit EXCEPT ![cur] = 0]
    BY <1>10 DEF AllocFail, Unlock, Nodes
  <2>. QED  BY <1>0, <1>1, <2>1
<1>11. CASE Terminated \/ UNCHANGED vars
  BY <1>1, <1>11 DEF Terminated, vars, Nodes
<1>. QED  BY <1>2, <1>3, <1>4, <1>5, <1>6, <1>7, <1>8, <1>9, <1>10, <1>11
          DEF Next, Retire, Abort

LEMMA RepeatInvHolds ==
    ASSUME RepeatedPrompts
    PROVE  Spec => [](IInv /\ RepeatInv)
<1>1. Init => RepeatInv
  BY DEF Init, CacheInit, RepeatInv, Nodes
<1>2. IInv /\ RepeatInv /\ [Next]_vars => (IInv /\ RepeatInv)'
  BY InvariantIsInductive, RepeatInvInductive
<1>. QED  BY <1>1, <1>2, InitIInv, PTL DEF Spec

LEMMA RepeatMeetsConditions ==
    ASSUME RepeatedPrompts, CoreInv, RepeatInv
    PROVE  BorrowsWholeEdges /\ SplitsOnlyBorrowed
<1>1. ASSUME NEW r \in Req, Inserting(r), HasChild(Committed(r), at)
      PROVE  /\ IsPrefix(Child(Committed(r), at), Committed(r))
             /\ hit[r] <= at \/ hit[r] >= Len(Child(Committed(r), at))
  <2>1. /\ at = 0 /\ Child(Committed(r), at) = Committed(r)
        /\ IsPrefix(Committed(r), Committed(r))
    BY <1>1, ChildIsPrompt
  <2>2. Committed(r) = Keys(Prompt[r]) /\ Len(Keys(Prompt[r])) \in Nat
    BY CommittedIsPrompt
  <2>3. hit[r] = 0 \/ hit[r] = Len(Committed(r))
    BY <2>2 DEF RepeatInv
  <2>. QED  BY <2>1, <2>2, <2>3
<1>. QED  BY <1>1 DEF BorrowsWholeEdges, SplitsOnlyBorrowed

\* Where the same prompts come again and no answer fills a page, the cache is safe as it
\* is: no page has two owners, none is lost, and the pool keeps its contract, whatever is
\* evicted, retracted or aborted.
THEOREM RepeatedPromptsKeepPages ==
    ASSUME RepeatedPrompts
    PROVE  Spec => [](SingleOwner /\ NoPageLost) /\ PagePoolSpec
<1>1. IInv /\ RepeatInv => BorrowsWholeEdges /\ SplitsOnlyBorrowed
  BY RepeatMeetsConditions DEF IInv
<1>2. Spec => []BorrowsWholeEdges /\ []SplitsOnlyBorrowed
  BY <1>1, RepeatInvHolds, PTL
<1>. QED  BY <1>2, OnlyPartialBorrowsShare, OnlySplitsLosePages, CachedPoolRefinement, PTL
=============================================================================
