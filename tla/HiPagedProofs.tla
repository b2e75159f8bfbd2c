--------------------------- MODULE HiPagedProofs ----------------------------
(***************************************************************************)
(* Theorems about HiPagedEngine, for every set of requests, both pools of  *)
(* every size and every order of calls and of turns of evict: types, the   *)
(* lock counts and the one pin of a promotion, the shape of the tree, the  *)
(* count of its pages, one owner for every page of host memory, a turn of  *)
(* evict that keeps what admission counted on, and pages of locked nodes   *)
(* that stay where they are.  While no promotion changes a page that the   *)
(* walk of match_prefix returned, borrowed pages stay in GPU memory; while *)
(* commits keep to whole borrowed edges as well, no GPU page has two       *)
(* owners; and both is so where the same prompts come again.               *)
(*                                                                         *)
(* But for a promotion, which pins one child more, the invariant HiInv is  *)
(* that of PagedEngine (CoreInv) with what the tiers, the walk of          *)
(* match_prefix and evict add: the steps the two engines share are those   *)
(* proved in PagedEngineProofs.                                            *)
(***************************************************************************)
EXTENDS HiPagedEngine, PagedEngineProofs

\* The tier that prefix p is in.
TierOf(p) == tier[OwnerNode(p)]

\* A node has a tier and its pages are pages of that tier's pool.
TierInv ==
    /\ tier \in [Nodes -> {"GPU", "CPU"}]
    /\ freeCpu \in Seq(CpuPage)
    /\ \A p \in DOMAIN page : page[p] \in IF TierOf(p) = "GPU" THEN Page ELSE CpuPage

\* Where a walk of match_prefix has got to is in the tree, and so is the child that
\* is being promoted.
MatchInv ==
    /\ pc \in {"idle", "match", "promote", "allocate", "insert"}
    /\ pc \in {"idle", "allocate"} => at = 0
    /\ pc \in {"match", "promote"} =>
          /\ cur \in Req /\ status[cur] = "admitted"
          /\ at \in 0 .. Len(Query)
          /\ at # 0 => PrefixOf(Query, at) \in DOMAIN page
    /\ pc = "promote" => /\ at < Len(Query) /\ HasChild(Query, at)
                         /\ tier[NextChild] = "CPU"

\* Whatever evict has still to look at is unlocked and in GPU memory, and so is the
\* node it makes room for, which it has taken off its heap.
EvictInv ==
    /\ evicting \in BOOLEAN /\ dropped \in Nat
    /\ evicting => pc \in {"promote", "allocate"}
    /\ ~ evicting => todo = {} /\ victim = Root
    /\ todo \subseteq EvictableGpu
    /\ victim # Root => victim \in EvictableGpu \ todo

\* The inductive invariant.
HiInv ==
    /\ CoreTypes
    /\ TreeInv(Key) /\ IsFiniteSet(DOMAIN page)
    /\ HiLockConservation
    /\ ControlInv /\ UnlockedInv /\ SizeInv
    /\ TierInv /\ MatchInv /\ EvictInv

-----------------------------------------------------------------------------
(* Out of a promotion the invariant is that of the engine over one tier *)

LEMMA HiIsCore ==
    ASSUME HiInv, pc # "promote"
    PROVE  CoreInv
<1>1. LockConservation
  BY HoldersFinite DEF HiInv, HiLockConservation, LockConservation, Promoted
<1>. QED  BY <1>1 DEF HiInv, CoreInv

LEMMA CoreIsHi ==
    ASSUME CoreInv', pc' # "promote", IsFiniteSet(DOMAIN page'), TierInv', MatchInv', EvictInv'
    PROVE  HiInv'
<1>1. \A n : Cardinality(Holders(n)') \in Nat
  BY EngineAssumption, FS_Subset, FS_CardinalityType DEF Holders
<1>2. HiLockConservation'
  BY <1>1 DEF CoreInv, HiLockConservation, LockConservation, Promoted
<1>. QED  BY <1>2 DEF HiInv, CoreInv

\* Owners depend on the nodes only.
LEMMA NodesKeepOwners ==
    ASSUME Nodes' = Nodes
    PROVE  \A p : OwnerNode(p)' = OwnerNode(p)
BY DEF OwnerNode

LEMMA TiersStay ==
    ASSUME TierInv, Nodes' = Nodes, UNCHANGED <<page, tier, freeCpu>>
    PROVE  TierInv'
<1>1. \A p : OwnerNode(p)' = OwnerNode(p)
  BY NodesKeepOwners
<1>. QED  BY <1>1 DEF TierInv, TierOf

\* Outside of allocate no eviction is under way.
LEMMA NoEviction ==
    ASSUME HiInv, pc \notin {"promote", "allocate"}
    PROVE  evicting = FALSE /\ todo = {} /\ victim = Root /\ dropped \in Nat
BY DEF HiInv, EvictInv

LEMMA EvictIdle ==
    ASSUME evicting' = FALSE, todo' = {}, victim' = Root, dropped' \in Nat
    PROVE  EvictInv'
BY DEF EvictInv

-----------------------------------------------------------------------------
(* The steps of PagedEngine *)

\* A step of the engine that leaves the pages of the tree where they are.
LEMMA SharedStep ==
    ASSUME HiInv, CoreInv', UNCHANGED <<page, hiVars>>, Nodes' = Nodes,
           pc \in {"idle", "insert"}, pc' \in {"idle", "insert"}, pc' = "idle" => at' = 0
    PROVE  HiInv'
<1>1. TierInv' /\ IsFiniteSet(DOMAIN page')
  BY TiersStay DEF HiInv, hiVars
<1>2. MatchInv'
  BY DEF MatchInv
<1>3. EvictInv'
  BY NoEviction, EvictIdle DEF hiVars
<1>. QED  BY <1>1, <1>2, <1>3, CoreIsHi

LEMMA EngineSteps ==
    ASSUME HiInv, UNCHANGED hiVars, NEW r \in Req,
           \/ \E t \in Gen[r] : Generate(r, t)
           \/ Retire(r) \/ Abort(r) \/ CommitRaises(r) \/ AbortUninitialised(r)
           \/ CommitFullEdge(r) \/ CommitEnd(r)
    PROVE  HiInv'
<1>. pc \in {"idle", "insert"} => CoreInv /\ (pc = "idle" => at = 0)
  BY HiIsCore DEF HiInv, MatchInv
<1>1. ASSUME NEW t \in Gen[r], Generate(r, t)
      PROVE  HiInv'
  <2>1. pc = "idle" /\ UNCHANGED <<page, ref, pc, at>>
    BY <1>1 DEF Generate
  <2>2. CoreInv' /\ Nodes' = Nodes
    BY <1>1, <2>1, GenerateStep DEF Nodes
  <2>. QED  BY <2>1, <2>2, SharedStep
<1>2. ASSUME FreeRequestKv(r)
      PROVE  HiInv'
  <2>1. /\ pc = "idle" /\ UNCHANGED <<page, ref>>
        /\ pc' = "insert" \/ (pc' = pc /\ at' = at)
    BY <1>2 DEF FreeRequestKv
  <2>2. CoreInv' /\ Nodes' = Nodes
    BY <1>2, <2>1, FreeRequestKvStep DEF Nodes
  <2>. QED  BY <2>1, <2>2, SharedStep
<1>3. ASSUME AbortUninitialised(r)
      PROVE  HiInv'
  <2>1. pc = "idle" /\ UNCHANGED <<page, ref, pc, at>>
    BY <1>3 DEF AbortUninitialised
  <2>2. CoreInv' /\ Nodes' = Nodes
    BY <1>3, <2>1, AbortUninitialisedStep DEF Nodes
  <2>. QED  BY <2>1, <2>2, SharedStep
<1>6. ASSUME CommitRaises(r)
      PROVE  HiInv'
  <2>1. pc = "idle" /\ UNCHANGED <<page, ref, pc, at>>
    BY <1>6 DEF CommitRaises
  <2>2. CoreInv' /\ Nodes' = Nodes
    BY <1>6, <2>1, CommitRaisesStep DEF Nodes
  <2>. QED  BY <2>1, <2>2, SharedStep
<1>4. ASSUME CommitFullEdge(r)
      PROVE  HiInv'
  <2>1. pc = "insert" /\ UNCHANGED <<page, ref, pc>>
    BY <1>4 DEF CommitFullEdge, InsertFullEdge, Inserting
  <2>2. CoreInv' /\ Nodes' = Nodes
    BY <1>4, <2>1, CommitFullEdgeStep DEF Nodes
  <2>. QED  BY <2>1, <2>2, SharedStep
<1>5. ASSUME CommitEnd(r)
      PROVE  HiInv'
  <2>1. pc = "insert" /\ pc' = "idle" /\ at' = 0 /\ UNCHANGED page /\ Nodes' = Nodes
    BY <1>5 DEF CommitEnd, Unlock, Nodes
  <2>2. CoreInv'
    BY <1>5, <2>1, CommitEndStep
  <2>. QED  BY <2>1, <2>2, SharedStep
<1>. QED  BY <1>1, <1>2, <1>3, <1>4, <1>5, <1>6 DEF Retire, Abort

\* An admission changes the status alone.
LEMMA HiAdmitStep ==
    ASSUME HiInv, NEW r \in Req, HiAdmit(r)
    PROVE  HiInv'
<1>1. /\ pc = "idle" /\ status[r] = "waiting" /\ at = 0
      /\ status' = [status EXCEPT ![r] = "admitted"]
      /\ UNCHANGED <<free, page, ref, older, cached, out, table, hit, lock, pc, cur, at, hiVars>>
  BY DEF HiAdmit, cacheVars, HiInv, MatchInv
<1>2. CoreInv
  BY <1>1, HiIsCore
<1>3. CoreTypes' /\ Nodes' = Nodes
  BY <1>1, <1>2 DEF CoreInv, CoreTypes, Nodes
<1>4. TreeInv(Key)' /\ LockConservation'
  BY <1>1, <1>2, TreeUntouched DEF CoreInv
<1>5. ControlInv' /\ UnlockedInv' /\ SizeInv'
  BY <1>1, <1>2 DEF CoreInv, CoreTypes, ControlInv, UnlockedInv, SizeInv, Peak
<1>6. CoreInv'
  BY <1>3, <1>4, <1>5 DEF CoreInv
<1>. QED  BY <1>1, <1>3, <1>6, SharedStep

LEMMA MatchStartStep ==
    ASSUME HiInv, NEW r \in Req, MatchStart(r)
    PROVE  HiInv'
<1>1. /\ pc = "idle" /\ status[r] = "admitted" /\ at = 0
      /\ pc' = "match" /\ cur' = r
      /\ UNCHANGED <<free, page, ref, older, cached, status, out, table, hit, lock, at, hiVars>>
  BY DEF MatchStart, cacheVars, reqVars, HiInv, MatchInv
<1>2. CoreInv
  BY <1>1, HiIsCore
<1>3. CoreTypes' /\ Nodes' = Nodes
  BY <1>1, <1>2 DEF CoreInv, CoreTypes, Nodes
<1>4. TreeInv(Key)' /\ LockConservation'
  BY <1>1, <1>2, TreeUntouched DEF CoreInv
<1>5. ControlInv' /\ UnlockedInv' /\ SizeInv'
  BY <1>1, <1>2 DEF CoreInv, CoreTypes, ControlInv, UnlockedInv, SizeInv, Peak
<1>6. CoreInv'
  BY <1>3, <1>4, <1>5 DEF CoreInv
<1>7. TierInv' /\ IsFiniteSet(DOMAIN page')
  BY <1>1, <1>3, TiersStay DEF HiInv, hiVars
<1>8. MatchInv'
  <2>1. Keys(Prompt[r]) \in Seq(Key) /\ Len(Keys(Prompt[r])) \in Nat
    BY EngineAssumption, KeysType, LenProperties
  <2>. QED  BY <1>1, <2>1 DEF MatchInv, Query
<1>9. EvictInv'
  BY <1>1, NoEviction, EvictIdle DEF hiVars
<1>. QED  BY <1>1, <1>6, <1>7, <1>8, <1>9, CoreIsHi

-----------------------------------------------------------------------------
(* A commit in the tree of two tiers *)

\* A new leaf is in GPU memory, and its pages come from the request's table; the
\* other prefixes stay where they are.
LEMMA HiCommitLeafEffect ==
    ASSUME HiInv, NEW r \in Req, HiCommitLeaf(r)
    PROVE  /\ tier' \in [Nodes' -> {"GPU", "CPU"}] /\ IsFiniteSet(DOMAIN page')
           /\ \A p \in DOMAIN page :
                 p \in DOMAIN page' /\ page'[p] = page[p] /\ TierOf(p)' = TierOf(p)
           /\ \A p \in DOMAIN page' \ DOMAIN page : page'[p] \in Page /\ TierOf(p)' = "GPU"
<1>. DEFINE q == Committed(r)
            new == {PrefixOf(q, i) : i \in at + 1 .. Len(q)}
<1>1. /\ Inserting(r) /\ pc = "insert" /\ InsertLeaf(q, table[r], at)
      /\ tier' = [m \in Nodes' |-> IF m \in Nodes THEN tier[m] ELSE "GPU"]
  BY DEF HiCommitLeaf, CommitLeaf, Inserting, Nodes
<1>2. CoreInv
  BY <1>1, HiIsCore
<1>4. /\ q \in Seq(Key) /\ at \in Nat /\ at < Len(q) /\ Len(q) \in Nat
      /\ at = 0 \/ PrefixOf(q, at) \in Nodes
      /\ table[r] \in Seq(Page) /\ Len(q) <= Len(table[r])
  BY <1>1, <1>2, InsertingFacts
<1>5. /\ Nodes' = Nodes \cup {q}
      /\ page' = [p \in DOMAIN page \cup new |->
                     IF p \in new THEN table[r][Len(p)] ELSE page[p]]
  BY <1>1 DEF InsertLeaf, Nodes
<1>. HIDE DEF q
<1>6. /\ \A m \in Nodes : ~ IsPrefix(q, m)
      /\ \A p \in DOMAIN page : OwnerNode(p)' = OwnerNode(p)
      /\ \A p \in new : p \notin DOMAIN page /\ OwnerNode(p)' = q
  BY <1>1, <1>2, <1>4, LeafKeepsTree DEF CoreInv
<1>7. q \notin Nodes
  BY <1>4, <1>6, PrefixReflexive
<1>8. tier' \in [Nodes' -> {"GPU", "CPU"}]
  BY <1>1 DEF HiInv, TierInv
<1>9. ASSUME NEW p \in DOMAIN page
      PROVE  p \in DOMAIN page' /\ page'[p] = page[p] /\ TierOf(p)' = TierOf(p)
  <2>1. OwnerNode(p) \in Nodes
    BY <1>2, OwnerProperties DEF CoreInv
  <2>. QED  BY <1>1, <1>5, <1>6, <2>1 DEF TierOf
<1>10. ASSUME NEW p \in new
       PROVE  page'[p] \in Page /\ TierOf(p)' = "GPU"
  <2>1. PICK i \in at + 1 .. Len(q) : p = PrefixOf(q, i)
    OBVIOUS
  <2>2. Len(p) = i
    <3>1. i \in 0 .. Len(q)
      BY <1>4, <2>1
    <3>2. Len(PrefixOf(q, i)) = i
      BY <1>4, <3>1, PrefixOfProperties, Zenon
    <3>. QED  BY <2>1, <3>2, Zenon
  <2>3. page'[p] = table[r][i] /\ table[r][i] \in Page
    BY <1>4, <1>5, <2>1, <2>2, ElementOfSeq
  <2>4. TierOf(p)' = "GPU"
    BY <1>1, <1>5, <1>6, <1>7 DEF TierOf
  <2>. QED  BY <2>3, <2>4
<1>11. IsFiniteSet(DOMAIN page')
  <2>1. IsFiniteSet(new)
    BY <1>4, PrefixesCounted
  <2>2. IsFiniteSet(DOMAIN page \cup new)
    BY <2>1, FS_Union DEF HiInv
  <2>. QED  BY <1>5, <2>2
<1>. HIDE DEF new
<1>12. DOMAIN page' \ DOMAIN page \subseteq new
  BY <1>5
<1>. QED  BY <1>8, <1>9, <1>10, <1>11, <1>12

LEMMA HiCommitLeafStep ==
    ASSUME HiInv, NEW r \in Req, HiCommitLeaf(r)
    PROVE  HiInv'
<1>1. CommitLeaf(r) /\ UNCHANGED <<freeCpu, evictVars, pc>> /\ pc = "insert"
  BY DEF HiCommitLeaf, CommitLeaf, Inserting
<1>2. CoreInv' /\ EvictInv' /\ MatchInv'
  BY <1>1, HiIsCore, CommitLeafStep, NoEviction, EvictIdle DEF evictVars, MatchInv
<1>3. TierInv' /\ IsFiniteSet(DOMAIN page')
  BY <1>1, HiCommitLeafEffect DEF HiInv, TierInv
<1>. QED  BY <1>1, <1>2, <1>3, CoreIsHi

\* The upper half of a split edge keeps the tier of the whole edge.
LEMMA HiCommitSplitEffect ==
    ASSUME HiInv, NEW r \in Req, HiCommitSplit(r)
    PROVE  /\ tier' \in [Nodes' -> {"GPU", "CPU"}] /\ page' = page
           /\ \A p \in DOMAIN page : TierOf(p)' = TierOf(p)
<1>. DEFINE q == Committed(r)
            c == Child(q, at)
            upper == PrefixOf(q, SplitPoint(q, at))
<1>1. /\ Inserting(r)
      /\ tier' = [m \in Nodes' |-> IF m \in Nodes THEN tier[m] ELSE tier[c]]
      /\ pc = "insert" /\ InsertSplit(q, at)
  BY DEF HiCommitSplit, CommitSplit, Inserting, Nodes
<1>2. CoreInv
  BY <1>1, HiIsCore
<1>4. q \in Seq(Key) /\ at \in Nat /\ at < Len(q) /\ Len(q) \in Nat
  BY <1>1, <1>2, InsertingFacts
<1>5. /\ Nodes' = Nodes \cup {upper} /\ UNCHANGED page
      /\ HasChild(q, at) /\ ~ IsPrefix(c, q)
  BY <1>1 DEF InsertSplit, Nodes
<1>. HIDE DEF q
<1>6. \A p \in DOMAIN page : \/ OwnerNode(p)' = OwnerNode(p)
                             \/ OwnerNode(p) = c /\ OwnerNode(p)' = upper
  BY <1>1, <1>2, <1>4, SplitKeepsTree DEF CoreInv
<1>7. c \in Nodes /\ c \in Seq(Key) /\ IsPrefix(PrefixOf(q, at + 1), c)
  BY <1>2, <1>5, OwnerProperties DEF CoreInv, TreeInv, HasChild, Child
<1>8. upper \in Nodes => tier[upper] = tier[c]
  <2>1. SUFFICES ASSUME upper \in Nodes PROVE FALSE
    OBVIOUS
  <2>2. SplitPoint(q, at) \in at + 1 .. Len(q) /\ IsPrefix(upper, c)
    BY <1>2, <1>4, <1>5, SplitPointProperties DEF CoreInv
  <2>3. upper \in Seq(Key) /\ IsPrefix(upper, q)
    BY <1>4, <2>2, PrefixOfProperties
  <2>4. IsPrefix(PrefixOf(q, at + 1), upper)
    BY <1>4, <2>2, PrefixOfPrefixOf
  <2>5. IsPrefix(c, upper)
    BY <1>2, <1>5, <2>1, <2>4, OwnerProperties DEF CoreInv, HasChild, Child
  <2>6. c = upper
    BY <1>7, <2>2, <2>3, <2>5, PrefixAntisymmetric
  <2>. QED  BY <1>5, <2>3, <2>6
<1>. HIDE DEF c, upper
<1>9. tier' \in [Nodes' -> {"GPU", "CPU"}]
  BY <1>1, <1>7 DEF HiInv, TierInv
<1>10. ASSUME NEW p \in DOMAIN page
       PROVE  TierOf(p)' = TierOf(p)
  <2>1. OwnerNode(p) \in Nodes
    BY <1>2, OwnerProperties DEF CoreInv
  <2>. QED  BY <1>1, <1>5, <1>6, <1>8, <2>1 DEF TierOf
<1>. QED  BY <1>5, <1>9, <1>10

LEMMA HiCommitSplitStep ==
    ASSUME HiInv, NEW r \in Req, HiCommitSplit(r)
    PROVE  HiInv'
<1>1. CommitSplit(r) /\ UNCHANGED <<freeCpu, evictVars, pc>> /\ pc = "insert"
  BY DEF HiCommitSplit, CommitSplit, Inserting
<1>2. CoreInv' /\ EvictInv' /\ MatchInv'
  BY <1>1, HiIsCore, CommitSplitStep, NoEviction, EvictIdle DEF evictVars, MatchInv
<1>3. TierInv' /\ IsFiniteSet(DOMAIN page')
  BY <1>1, HiCommitSplitEffect DEF HiInv, TierInv
<1>. QED  BY <1>1, <1>2, <1>3, CoreIsHi

-----------------------------------------------------------------------------
(* The walk of match_prefix *)

\* The walk is that of an admitted request over the keys of its prompt; nothing is
\* locked for it yet, and the child it has found is a node.
LEMMA MatchFacts ==
    ASSUME HiInv, pc \in {"match", "promote"}
    PROVE  /\ cur \in Req /\ status[cur] = "admitted" /\ lock[cur] = Root
           /\ Query \in Seq(Key) /\ Len(Query) \in Nat /\ at \in 0 .. Len(Query)
           /\ HasChild(Query, at) => NextChild \in Nodes /\ NextChild \in Seq(Key)
<1>1. cur \in Req /\ status[cur] = "admitted" /\ at \in 0 .. Len(Query)
  BY DEF HiInv, MatchInv
<1>2. Query \in Seq(Key) /\ Len(Query) \in Nat
  BY <1>1, EngineAssumption, KeysType, LenProperties DEF Query
<1>3. lock[cur] = Root
  BY <1>1 DEF HiInv, UnlockedInv
<1>4. HasChild(Query, at) => NextChild \in Nodes /\ NextChild \in Seq(Key)
  BY OwnerProperties DEF HiInv, TreeInv, HasChild, NextChild, Child
<1>. QED  BY <1>1, <1>2, <1>3, <1>4

\* The tree is a matter of its prefixes and its nodes.
LEMMA SameTree ==
    ASSUME TreeInv(Key), DOMAIN page' = DOMAIN page, Nodes' = Nodes
    PROVE  TreeInv(Key)'
BY DEF TreeInv

\* The stamps of a walk are of nodes.
LEMMA WalkStamps ==
    ASSUME NEW n, older \subseteq Nodes \X Nodes, older' = Touched(Path(n), Nodes)
    PROVE  older' \subseteq Nodes \X Nodes
BY DEF Touched, Path

\* What the walk takes of an edge in GPU memory are pages of the GPU pool.
LEMMA WalkedPages ==
    ASSUME HiInv, pc = "match", ~ WalkEnded, tier[NextChild] = "GPU"
    PROVE  LET k == SplitPoint(Query, at)
               taken == [i \in 1 .. k - at |-> page[PrefixOf(Query, at + i)]]
           IN  /\ k \in at + 1 .. Len(Query) /\ PrefixOf(Query, k) \in DOMAIN page
               /\ taken \in Seq(Page)
<1>. DEFINE q == Query
            k == SplitPoint(Query, at)
            c == NextChild
            taken == [i \in 1 .. k - at |-> page[PrefixOf(q, at + i)]]
<1>1. /\ q \in Seq(Key) /\ Len(q) \in Nat /\ at \in 0 .. Len(q)
      /\ at < Len(q) /\ HasChild(q, at) /\ c \in Nodes /\ c \in Seq(Key)
  BY MatchFacts DEF WalkEnded
<1>2. k \in at + 1 .. Len(q) /\ IsPrefix(PrefixOf(q, k), c)
  BY <1>1, SplitPointProperties DEF HiInv, NextChild
<1>. HIDE DEF q, k, c
<1>3. TreeInv(Key) /\ c \in DOMAIN page
  BY <1>1 DEF HiInv, TreeInv
<1>4. PrefixOf(q, at + 1) \in DOMAIN page /\ OwnerNode(PrefixOf(q, at + 1)) = c
  BY <1>1 DEF HasChild, NextChild, Child, q, c
<1>5. ASSUME NEW j \in at + 1 .. k
      PROVE  PrefixOf(q, j) \in DOMAIN page /\ page[PrefixOf(q, j)] \in Page
  <2>1. /\ PrefixOf(q, j) \in Seq(Key) /\ PrefixOf(q, k) \in Seq(Key)
        /\ IsPrefix(PrefixOf(q, j), PrefixOf(q, k))
        /\ IsPrefix(PrefixOf(q, at + 1), PrefixOf(q, j))
    <3>1. k \in 0 .. Len(q) /\ j \in 0 .. Len(q) /\ j \in 0 .. k /\ at + 1 \in 0 .. j
      BY <1>1, <1>2
    <3>. QED  BY <1>1, <3>1, PrefixOfProperties, PrefixOfPrefixOf
  <2>2. IsPrefix(PrefixOf(q, j), c)
    BY <1>1, <1>2, <2>1, PrefixTransitive
  <2>3. PrefixOf(q, j) \in DOMAIN page /\ OwnerNode(PrefixOf(q, j)) = c
    BY <1>3, <1>4, <2>1, <2>2, SameOwner
  <2>. QED  BY <2>3 DEF HiInv, TierInv, TierOf, c
<1>6. PrefixOf(q, k) \in DOMAIN page
  BY <1>1, <1>2, <1>5
<1>7. taken \in Seq(Page)
  <2>1. k - at \in Nat /\ \A i \in 1 .. k - at : at + i \in at + 1 .. k
    BY <1>1, <1>2
  <2>2. taken \in [1 .. k - at -> Page]
    BY <1>5, <2>1
  <2>. QED  BY <2>1, <2>2, FunctionIsSequence
<1>. QED  BY <1>2, <1>6, <1>7 DEF q, k

LEMMA MatchGpuChildStep ==
    ASSUME HiInv, MatchGpuChild
    PROVE  HiInv'
<1>. DEFINE k == SplitPoint(Query, at)
            taken == [i \in 1 .. k - at |-> page[PrefixOf(Query, at + i)]]
<1>1. /\ pc = "match" /\ ~ WalkEnded /\ tier[NextChild] = "GPU"
      /\ at' = k /\ hit' = [hit EXCEPT ![cur] = k]
      /\ table' = [table EXCEPT ![cur] = table[cur] \o taken]
      /\ older' = Touched(Path(NextChild), Nodes)
      /\ UNCHANGED <<free, page, ref, cached, status, out, lock, pc, cur, hiVars>>
  BY DEF MatchGpuChild
<1>2. k \in at + 1 .. Len(Query) /\ PrefixOf(Query, k) \in DOMAIN page /\ taken \in Seq(Page)
  BY <1>1, WalkedPages
<1>. HIDE DEF k, taken
<1>3. CoreInv
  BY <1>1, HiIsCore
<1>4. /\ cur \in Req /\ status[cur] = "admitted" /\ Len(Query) \in Nat /\ at \in Nat
      /\ Nodes' = Nodes /\ Query' = Query
  BY <1>1, MatchFacts DEF Nodes, Query
<1>5. k \in Nat /\ k \in 0 .. Len(Query)
  BY <1>2, <1>4
<1>6. CoreTypes'
  <2>1. table[cur] \in Seq(Page)
    BY <1>3, <1>4 DEF CoreInv, CoreTypes
  <2>2. table[cur] \o taken \in Seq(Page)
    BY <1>2, <2>1, ConcatProperties
  <2>3. table' \in [Req -> Seq(Page)]
    BY <1>1, <1>3, <2>2 DEF CoreInv, CoreTypes
  <2>4. older' \subseteq Nodes \X Nodes
    BY <1>1, <1>3, WalkStamps DEF CoreInv, CoreTypes
  <2>. QED  BY <1>1, <1>3, <1>4, <1>5, <2>3, <2>4 DEF CoreInv, CoreTypes
<1>7. TreeInv(Key)' /\ LockConservation'
  BY <1>1, <1>3, TreeUntouched DEF CoreInv
<1>8. ControlInv' /\ UnlockedInv'
  BY <1>1, <1>3 DEF CoreInv, ControlInv, UnlockedInv
<1>9. SizeInv'
  <2>1. \A r \in Req : status[r] = "running" => table'[r] = table[r]
    BY <1>1, <1>3, <1>4 DEF CoreInv, CoreTypes
  <2>. QED  BY <1>1, <1>3, <2>1 DEF CoreInv, SizeInv, Peak
<1>10. TierInv' /\ IsFiniteSet(DOMAIN page')
  BY <1>1, <1>4, TiersStay DEF HiInv, hiVars
<1>11. MatchInv'
  BY <1>1, <1>2, <1>4, <1>5 DEF MatchInv
<1>12. EvictInv'
  BY <1>1, NoEviction, EvictIdle DEF hiVars
<1>13. CoreInv'
  BY <1>6, <1>7, <1>8, <1>9 DEF CoreInv
<1>. QED  BY <1>1, <1>10, <1>11, <1>12, <1>13, CoreIsHi

\* The child in host memory is pinned before allocate may evict.
LEMMA MatchCpuChildStep ==
    ASSUME HiInv, MatchCpuChild
    PROVE  HiInv'
<1>1. /\ pc = "match" /\ ~ WalkEnded /\ tier[NextChild] = "CPU" /\ pc' = "promote"
      /\ ref' = [ref EXCEPT ![NextChild] = @ + 1]
      /\ older' = Touched(Path(NextChild), Nodes)
      /\ UNCHANGED <<free, page, cached, status, out, table, hit, lock, cur, at, hiVars>>
  BY DEF MatchCpuChild, reqVars
<1>2. /\ cur \in Req /\ status[cur] = "admitted" /\ at < Len(Query) /\ HasChild(Query, at)
      /\ NextChild \in Nodes /\ Nodes' = Nodes /\ Query' = Query
  BY <1>1, MatchFacts DEF WalkEnded, Nodes, Query
<1>3. NextChild' = NextChild /\ HasChild(Query, at)'
  BY <1>1, <1>2, NodesKeepOwners DEF NextChild, Child, HasChild
<1>4. CoreTypes'
  <2>1. older' \subseteq Nodes \X Nodes
    BY <1>1, WalkStamps DEF HiInv, CoreTypes
  <2>2. Ints(ref')
    BY <1>1, <1>2 DEF HiInv, CoreTypes, Ints, Nodes
  <2>. QED  BY <1>1, <1>2, <2>1, <2>2 DEF HiInv, CoreTypes
<1>5. TreeInv(Key)' /\ IsFiniteSet(DOMAIN page')
  BY <1>1, <1>2, SameTree DEF HiInv
<1>6. HiLockConservation'
  <2>1. Promoted = {} /\ Promoted' = {NextChild}
    BY <1>1, <1>3 DEF Promoted
  <2>2. \A n : Holders(n)' = Holders(n)
    BY <1>1 DEF Holders
  <2>3. \A n \in Nodes : ref'[n] = ref[n] + (IF n = NextChild THEN 1 ELSE 0)
    BY <1>1, <1>2 DEF HiInv, CoreTypes, Ints, Nodes
  <2>. QED  BY <1>1, <1>2, <2>1, <2>2, <2>3, HoldersFinite DEF HiInv, HiLockConservation
<1>7. ControlInv' /\ UnlockedInv' /\ SizeInv'
  BY <1>1, <1>2 DEF HiInv, ControlInv, UnlockedInv, SizeInv, Peak
<1>8. TierInv'
  BY <1>1, <1>2, TiersStay DEF HiInv, hiVars
<1>9. MatchInv'
  BY <1>1, <1>2, <1>3 DEF HiInv, MatchInv, hiVars
<1>10. EvictInv'
  BY <1>1, NoEviction, EvictIdle DEF hiVars
<1>. QED  BY <1>4, <1>5, <1>6, <1>7, <1>8, <1>9, <1>10 DEF HiInv

LEMMA MatchEndStep ==
    ASSUME HiInv, MatchEnd
    PROVE  HiInv'
<1>. DEFINE n == IF at = 0 THEN Root ELSE OwnerNode(PrefixOf(Query, at))
<1>1. /\ pc = "match" /\ pc' = "allocate" /\ at' = 0
      /\ lock' = [lock EXCEPT ![cur] = n]
      /\ ref' = [m \in Nodes |-> IF IsPrefix(m, n) THEN ref[m] + 1 ELSE ref[m]]
      /\ UNCHANGED <<free, page, older, cached, status, out, table, hit, cur, hiVars>>
  BY DEF MatchEnd
<1>2. CoreInv
  BY <1>1, HiIsCore
<1>3. cur \in Req /\ status[cur] = "admitted" /\ lock[cur] = Root /\ Nodes' = Nodes
  BY <1>1, MatchFacts DEF Nodes
<1>4. n \in Nodes \cup {Root}
  BY <1>1, OwnerProperties DEF HiInv, MatchInv
<1>. HIDE DEF n
<1>5. LockConservation'
  BY <1>1, <1>2, <1>3, <1>4, LockKeepsCounts DEF CoreInv, CoreTypes, Key
<1>6. CoreTypes'
  <2>1. Ints(ref')
    BY <1>1, <1>2 DEF CoreInv, CoreTypes, Ints, Nodes
  <2>2. lock' \in [Req -> Seq(Seq(Token))]
    BY <1>1, <1>2, <1>4, EmptySeq DEF CoreInv, CoreTypes, Root
  <2>. QED  BY <1>1, <1>2, <1>3, <2>1, <2>2 DEF CoreInv, CoreTypes
<1>7. TreeInv(Key)' /\ IsFiniteSet(DOMAIN page')
  BY <1>1, <1>3, SameTree DEF HiInv
<1>8. ControlInv' /\ UnlockedInv' /\ SizeInv'
  <2>1. \A r \in Req : r # cur => lock'[r] = lock[r]
    BY <1>1, <1>2 DEF CoreInv, CoreTypes
  <2>. QED
    BY <1>1, <1>2, <1>3, <2>1, TierAssumption DEF CoreInv, ControlInv, UnlockedInv, SizeInv, Peak
<1>9. CoreInv'
  BY <1>5, <1>6, <1>7, <1>8 DEF CoreInv
<1>10. TierInv'
  BY <1>1, <1>3, TiersStay DEF HiInv, hiVars
<1>11. MatchInv' /\ EvictInv'
  BY <1>1, NoEviction, EvictIdle DEF MatchInv, hiVars
<1>. QED  BY <1>1, <1>7, <1>9, <1>10, <1>11, CoreIsHi

-----------------------------------------------------------------------------
(* Edges that change their tier *)

TierPages(t) == IF t = "GPU" THEN Page ELSE CpuPage

\* The pages of an edge are pages of its node's pool.
LEMMA EdgeTyped ==
    ASSUME HiInv, NEW n \in Nodes
    PROVE  /\ EdgeLen(n) \in Nat \ {0}
           /\ EdgePages(n) \in Seq(TierPages(tier[n])) /\ Len(EdgePages(n)) = EdgeLen(n)
<1>1. EdgeLen(n) \in Nat \ {0}
  BY EdgeIsInterval DEF HiInv, EdgeLen
<1>2. \A i \in 1 .. EdgeLen(n) : PrefixOf(n, EdgeStart(n) + i) \in Edge(n)
  BY EdgePlaces DEF HiInv, EdgeLen
<1>3. \A p \in Edge(n) : page[p] \in TierPages(tier[n])
  BY DEF HiInv, TierInv, TierOf, Edge, TierPages
<1>4. EdgePages(n) \in [1 .. EdgeLen(n) -> TierPages(tier[n])]
  BY <1>2, <1>3 DEF EdgePages, EdgeLen
<1>. QED  BY <1>1, <1>4, FunctionIsSequence

\* The prefixes of an edge are those its node owns.
LEMMA OwnedIsEdge ==
    ASSUME TreeInv(Key), NEW n, NEW p \in DOMAIN page
    PROVE  p \in Edge(n) <=> OwnerNode(p) = n
BY OwnerProperties DEF Edge

\* The prefixes of one edge change their tier and their pages, the others neither.
LEMMA RepageEffect ==
    ASSUME HiInv, NEW n \in Nodes, NEW t, NEW pages, Repage(n, pages),
           tier' = [tier EXCEPT ![n] = t], Nodes' = Nodes
    PROVE  /\ DOMAIN page' = DOMAIN page
           /\ \A p \in Edge(n) : /\ Len(p) - EdgeStart(n) \in 1 .. EdgeLen(n)
                                 /\ page'[p] = pages[Len(p) - EdgeStart(n)]
                                 /\ TierOf(p)' = t
           /\ \A p \in DOMAIN page \ Edge(n) : page'[p] = page[p] /\ TierOf(p)' = TierOf(p)
<1>1. /\ DOMAIN page' = DOMAIN page
      /\ \A p \in DOMAIN page :
            page'[p] = IF p \in Edge(n) THEN pages[Len(p) - EdgeStart(n)] ELSE page[p]
  BY DEF Repage
<1>2. /\ \A p : OwnerNode(p)' = OwnerNode(p)
      /\ \A p \in DOMAIN page : OwnerNode(p) \in Nodes /\ (p \in Edge(n) <=> OwnerNode(p) = n)
  BY NodesKeepOwners, OwnerProperties, OwnedIsEdge DEF HiInv
<1>3. \A p \in DOMAIN page : TierOf(p)' = IF p \in Edge(n) THEN t ELSE TierOf(p)
  BY <1>2 DEF HiInv, TierInv, TierOf
<1>4. \A p \in Edge(n) : p \in DOMAIN page /\ Len(p) - EdgeStart(n) \in 1 .. EdgeLen(n)
  BY EdgePlaces DEF HiInv, EdgeLen, Edge
<1>. QED  BY <1>1, <1>3, <1>4

\* New pages for an edge, all of the tier its node is in now.
LEMMA RepageKeepsTiers ==
    ASSUME HiInv, NEW n \in Nodes, NEW t \in {"GPU", "CPU"},
           NEW pages \in [1 .. EdgeLen(n) -> TierPages(t)],
           Repage(n, pages), tier' = [tier EXCEPT ![n] = t],
           Nodes' = Nodes, freeCpu' \in Seq(CpuPage)
    PROVE  TierInv' /\ DOMAIN page' = DOMAIN page
<1>1. tier' \in [Nodes' -> {"GPU", "CPU"}]
  BY DEF HiInv, TierInv
<1>2. ASSUME NEW p \in DOMAIN page
      PROVE  page'[p] \in IF TierOf(p)' = "GPU" THEN Page ELSE CpuPage
  <2>1. CASE p \in Edge(n)
    <3>1. /\ Len(p) - EdgeStart(n) \in 1 .. EdgeLen(n)
          /\ page'[p] = pages[Len(p) - EdgeStart(n)] /\ TierOf(p)' = t
      BY <2>1, RepageEffect
    <3>. QED  BY <3>1 DEF TierPages
  <2>2. CASE p \notin Edge(n)
    BY <2>2, RepageEffect DEF HiInv, TierInv
  <2>. QED  BY <2>1, <2>2
<1>. QED  BY <1>1, <1>2, RepageEffect DEF TierInv

\* The node whose promotion is under way.
LEMMA PromotedNode ==
    ASSUME HiInv, pc = "promote"
    PROVE  /\ NextChild \in Nodes /\ tier[NextChild] = "CPU"
           /\ at < Len(Query) /\ HasChild(Query, at)
           /\ \A n \in Nodes : ref[n] = Cardinality(Holders(n))
                                           + (IF n = NextChild THEN 1 ELSE 0)
<1>1. at < Len(Query) /\ HasChild(Query, at) /\ tier[NextChild] = "CPU"
  BY DEF HiInv, MatchInv
<1>. QED  BY <1>1, MatchFacts DEF HiInv, HiLockConservation, Promoted

\* The pin of a promotion that ends is taken back, and nothing else.
LEMMA UnpinStep ==
    ASSUME HiInv, pc = "promote", ref' = [ref EXCEPT ![NextChild] = @ - 1], UNCHANGED lock
    PROVE  Nodes' = Nodes /\ Ints(ref') /\ LockConservation'
<1>1. NextChild \in Nodes /\ Nodes' = Nodes
  BY PromotedNode DEF Nodes
<1>2. Ints(ref')
  BY <1>1 DEF HiInv, CoreTypes, Ints, Nodes
<1>3. \A n : Holders(n)' = Holders(n)
  BY DEF Holders
<1>4. \A n \in Nodes : ref'[n] = Cardinality(Holders(n))
  <2>1. \A n \in Nodes : Cardinality(Holders(n)) \in Nat
    BY HoldersFinite
  <2>. QED  BY <1>1, <2>1, PromotedNode DEF Nodes
<1>. QED  BY <1>1, <1>2, <1>3, <1>4 DEF HiInv, HiLockConservation, LockConservation

LEMMA PromoteDoneStep ==
    ASSUME HiInv, PromoteDone
    PROVE  HiInv'
<1>. DEFINE n == NextChild
            k == EdgeLen(n)
<1>1. /\ pc = "promote" /\ pc' = "match" /\ k <= Len(free) /\ Repage(n, Popped(k))
      /\ free' = SubSeq(free, 1, Len(free) - k) /\ freeCpu' = freeCpu \o EdgePages(n)
      /\ tier' = [tier EXCEPT ![n] = "GPU"] /\ ref' = [ref EXCEPT ![n] = @ - 1]
      /\ victim = Root /\ evicting' = FALSE /\ todo' = {} /\ UNCHANGED <<victim, dropped>>
      /\ UNCHANGED <<older, cached, status, out, table, hit, lock, cur, at>>
  BY DEF PromoteDone, Promote, Allocate, EvictEnough, EvictReset, reqVars
<1>2. n \in Nodes /\ tier[n] = "CPU" /\ Nodes' = Nodes /\ Ints(ref') /\ LockConservation'
  BY <1>1, PromotedNode, UnpinStep
<1>. HIDE DEF n
<1>3. k \in Nat /\ EdgePages(n) \in Seq(CpuPage)
  BY <1>2, EdgeTyped DEF TierPages
<1>. HIDE DEF k
<1>4. /\ Popped(k) \in [1 .. k -> TierPages("GPU")]
      /\ SubSeq(free, 1, Len(free) - k) \in Seq(Page)
  <2>1. free \in Seq(Page) /\ k \in 0 .. Len(free)
    BY <1>1, <1>3, LenProperties DEF HiInv, CoreTypes
  <2>2. Popped(k) \in Seq(Page) /\ Len(Popped(k)) = k
    BY <2>1, AllocateTypes
  <2>. QED  BY <2>1, <2>2, AllocateTypes, LenProperties DEF TierPages
<1>5. freeCpu' \in Seq(CpuPage)
  BY <1>1, <1>3, ConcatProperties DEF HiInv, TierInv
<1>6. TierInv' /\ DOMAIN page' = DOMAIN page
  BY <1>1, <1>2, <1>4, <1>5, RepageKeepsTiers DEF k
<1>7. CoreTypes'
  BY <1>1, <1>2, <1>4, <1>6 DEF HiInv, CoreTypes
<1>8. TreeInv(Key)' /\ IsFiniteSet(DOMAIN page')
  BY <1>2, <1>6, SameTree DEF HiInv
<1>9. ControlInv' /\ UnlockedInv' /\ SizeInv'
  BY <1>1 DEF HiInv, ControlInv, UnlockedInv, SizeInv, Peak
<1>10. MatchInv'
  BY <1>1, <1>6 DEF HiInv, MatchInv, Query
<1>11. EvictInv'
  BY <1>1, EvictIdle DEF HiInv, EvictInv
<1>12. CoreInv'
  BY <1>2, <1>7, <1>8, <1>9 DEF CoreInv
<1>. QED  BY <1>1, <1>6, <1>8, <1>10, <1>11, <1>12, CoreIsHi

LEMMA PromoteFailStep ==
    ASSUME HiInv, PromoteFail
    PROVE  HiInv'
<1>1. /\ pc = "promote" /\ pc' = "idle" /\ cur' = NoReq /\ at' = 0
      /\ ref' = [ref EXCEPT ![NextChild] = @ - 1]
      /\ table' = [table EXCEPT ![cur] = << >>]
      /\ hit' = [hit EXCEPT ![cur] = 0]
      /\ status' = [status EXCEPT ![cur] = "waiting"]
      /\ victim = Root /\ evicting' = FALSE /\ todo' = {} /\ UNCHANGED <<victim, dropped>>
      /\ UNCHANGED <<free, page, older, cached, out, lock, tier, freeCpu>>
  BY DEF PromoteFail, EvictShort, EvictReset
<1>2. Nodes' = Nodes /\ Ints(ref') /\ LockConservation'
  BY <1>1, UnpinStep
<1>3. cur \in Req /\ lock[cur] = Root
  BY <1>1, MatchFacts
<1>4. CoreTypes'
  BY <1>1, <1>2, EmptySeq DEF HiInv, CoreTypes
<1>5. TreeInv(Key)' /\ IsFiniteSet(DOMAIN page')
  BY <1>1, <1>2, SameTree DEF HiInv
<1>6. ControlInv' /\ UnlockedInv' /\ SizeInv'
  BY <1>1, <1>3 DEF HiInv, CoreTypes, ControlInv, UnlockedInv, SizeInv, Peak
<1>7. TierInv'
  BY <1>1, <1>2, TiersStay DEF HiInv
<1>8. MatchInv' /\ EvictInv'
  BY <1>1, EvictIdle DEF HiInv, MatchInv, EvictInv
<1>9. CoreInv'
  BY <1>2, <1>4, <1>5, <1>6 DEF CoreInv
<1>. QED  BY <1>1, <1>5, <1>7, <1>8, <1>9, CoreIsHi

LEMMA HiAllocDoneStep ==
    ASSUME HiInv, HiAllocDone
    PROVE  HiInv'
<1>1. /\ pc = "allocate" /\ pc' = "idle" /\ at = 0 /\ AllocDone /\ Nodes' = Nodes
      /\ victim = Root /\ evicting' = FALSE /\ todo' = {} /\ UNCHANGED <<victim, dropped>>
      /\ UNCHANGED <<page, at, tier, freeCpu>>
  BY DEF HiAllocDone, AllocDone, EvictEnough, EvictReset, HiInv, MatchInv, Nodes
<1>2. CoreInv'
  BY <1>1, HiIsCore, AllocDoneStep
<1>3. TierInv' /\ IsFiniteSet(DOMAIN page')
  BY <1>1, TiersStay DEF HiInv
<1>4. MatchInv' /\ EvictInv'
  BY <1>1, EvictIdle DEF HiInv, MatchInv, EvictInv
<1>. QED  BY <1>1, <1>2, <1>3, <1>4, CoreIsHi

LEMMA HiAllocFailStep ==
    ASSUME HiInv, HiAllocFail
    PROVE  HiInv'
<1>1. /\ pc = "allocate" /\ pc' = "idle" /\ at = 0
      /\ victim = Root /\ evicting' = FALSE /\ todo' = {} /\ UNCHANGED <<victim, dropped>>
      /\ UNCHANGED <<at, tier, freeCpu>>
  BY DEF HiAllocFail, EvictShort, EvictReset, HiInv, MatchInv
<1>2. CoreInv' /\ Nodes' = Nodes /\ UNCHANGED page
  BY <1>1, HiIsCore, AllocRollback DEF HiAllocFail
<1>3. TierInv' /\ IsFiniteSet(DOMAIN page')
  BY <1>1, <1>2, TiersStay DEF HiInv
<1>4. MatchInv' /\ EvictInv'
  BY <1>1, EvictIdle DEF HiInv, MatchInv, EvictInv
<1>. QED  BY <1>1, <1>2, <1>3, <1>4, CoreIsHi

-----------------------------------------------------------------------------
(* The turns of evict *)

\* A turn of evict concerns no request.
LEMMA RequestsKept ==
    ASSUME HiInv, pc \in {"promote", "allocate"}, UNCHANGED <<reqVars, pc, cur, at>>
    PROVE  ControlInv' /\ UnlockedInv' /\ SizeInv'
BY DEF HiInv, ControlInv, UnlockedInv, SizeInv, Peak, reqVars

\* A turn that leaves the nodes where they are, with the promoted child in host memory.
LEMMA TurnKeepsTree ==
    ASSUME HiInv, pc \in {"promote", "allocate"}, UNCHANGED <<reqVars, pc, cur, at>>,
           UNCHANGED <<ref, older, cached>>, free' \in Seq(Page), DOMAIN page' = DOMAIN page,
           pc = "promote" => tier'[NextChild] = "CPU",
           TierInv', EvictInv'
    PROVE  HiInv'
<1>1. Nodes' = Nodes /\ Query' = Query
  BY DEF Nodes, Query
<1>2. NextChild' = NextChild /\ (HasChild(Query, at)' <=> HasChild(Query, at))
  BY <1>1, NodesKeepOwners DEF NextChild, Child, HasChild
<1>3. CoreTypes'
  BY <1>1 DEF HiInv, CoreTypes, reqVars
<1>4. TreeInv(Key)' /\ IsFiniteSet(DOMAIN page')
  BY <1>1, SameTree DEF HiInv
<1>5. HiLockConservation'
  BY <1>1, <1>2 DEF HiInv, HiLockConservation, Promoted, Holders, reqVars
<1>6. MatchInv'
  BY <1>1, <1>2 DEF HiInv, MatchInv, reqVars
<1>. QED  BY <1>3, <1>4, <1>5, <1>6, RequestsKept DEF HiInv

\* A node goes to host memory, and its pages to the free list.
LEMMA DemoteStep ==
    ASSUME HiInv, pc \in {"promote", "allocate"}, UNCHANGED <<reqVars, pc, cur, at>>,
           NEW n \in EvictableGpu, Demote(n), evicting, evicting' = evicting,
           todo' \subseteq EvictableGpu \ {n}, victim' = Root, dropped' \in Nat
    PROVE  HiInv'
<1>. DEFINE k == EdgeLen(n)
            pages == [i \in 1 .. k |-> freeCpu[Len(freeCpu) + 1 - i]]
<1>1. /\ n \in Nodes /\ tier[n] = "GPU" /\ ref[n] = 0
      /\ k <= Len(freeCpu) /\ Repage(n, pages) /\ free' = free \o EdgePages(n)
      /\ freeCpu' = SubSeq(freeCpu, 1, Len(freeCpu) - k)
      /\ tier' = [tier EXCEPT ![n] = "CPU"] /\ UNCHANGED <<ref, older, cached>>
      /\ Nodes' = Nodes
  BY DEF EvictableGpu, Demote, Free, Nodes
<1>2. k \in Nat /\ EdgePages(n) \in Seq(Page)
  BY <1>1, EdgeTyped DEF TierPages
<1>. HIDE DEF k
<1>3. free' \in Seq(Page)
  BY <1>1, <1>2, ConcatProperties DEF HiInv, CoreTypes
<1>4. freeCpu \in Seq(CpuPage) /\ Len(freeCpu) \in Nat
  BY LenProperties DEF HiInv, TierInv
<1>5. freeCpu' \in Seq(CpuPage)
  BY <1>1, <1>2, <1>4, SubSeqProperties
<1>6. pages \in [1 .. k -> TierPages("CPU")]
  <2>1. \A i \in 1 .. k : Len(freeCpu) + 1 - i \in 1 .. Len(freeCpu)
    BY <1>1, <1>2, <1>4
  <2>2. \A i \in 1 .. k : freeCpu[Len(freeCpu) + 1 - i] \in CpuPage
    BY <1>4, <2>1, ElementOfSeq
  <2>. QED  BY <2>2 DEF TierPages
<1>7. TierInv' /\ DOMAIN page' = DOMAIN page
  BY <1>1, <1>5, <1>6, RepageKeepsTiers DEF k
<1>8. EvictInv'
  <2>1. \A m \in Nodes : m # n => tier'[m] = tier[m]
    BY <1>1 DEF HiInv, TierInv
  <2>2. EvictableGpu \ {n} \subseteq EvictableGpu'
    BY <1>1, <2>1 DEF EvictableGpu
  <2>. QED  BY <2>2 DEF HiInv, EvictInv
<1>9. pc = "promote" => tier'[NextChild] = "CPU"
  BY <1>1, PromotedNode DEF HiInv, TierInv
<1>. QED  BY <1>1, <1>3, <1>7, <1>8, <1>9, TurnKeepsTree

\* Nobody holds an unlocked node, and it is not the child being promoted.
LEMMA UnheldNode ==
    ASSUME HiInv, NEW n \in Nodes, ref[n] = 0
    PROVE  /\ n \notin Promoted
           /\ \A r \in Req : lock[r] # n
<1>1. Cardinality(Holders(n)) \in Nat /\ IsFiniteSet(Holders(n))
  BY HoldersFinite
<1>2. n \notin Promoted /\ Cardinality(Holders(n)) = 0
  BY <1>1 DEF HiInv, HiLockConservation
<1>3. Holders(n) = {}
  BY <1>1, <1>2, FS_EmptySet
<1>4. n \in Seq(Key) /\ n # Root
  BY DEF HiInv, TreeInv, Root
<1>5. IsPrefix(n, n)
  BY <1>4, PrefixReflexive
<1>. QED  BY <1>2, <1>3, <1>4, <1>5 DEF Holders

\* A promotion goes on where it was when another node has left the tree.
LEMMA WalkSurvivesDrop ==
    ASSUME HiInv, pc = "promote", NEW n \in Nodes, IsLeaf(n), n # NextChild
    PROVE  /\ at # 0 => PrefixOf(Query, at) \in DOMAIN page \ Edge(n)
           /\ PrefixOf(Query, at + 1) \in DOMAIN page \ Edge(n)
<1>. DEFINE q == Query
            c == NextChild
<1>1. /\ q \in Seq(Key) /\ Len(q) \in Nat /\ at \in 0 .. Len(q) /\ at < Len(q)
      /\ c \in Nodes /\ c \in Seq(Key) /\ PrefixOf(q, at + 1) \in DOMAIN page
  BY MatchFacts, PromotedNode DEF HasChild
<1>2. TreeInv(Key) /\ OwnerNode(PrefixOf(q, at + 1)) = c
  BY DEF HiInv, NextChild, Child
<1>3. PrefixOf(q, at + 1) \notin Edge(n)
  BY <1>1, <1>2, OwnedIsEdge
<1>4. ASSUME at # 0
      PROVE  PrefixOf(q, at) \in DOMAIN page \ Edge(n)
  <2>1. PrefixOf(q, at) \in DOMAIN page
    BY <1>4 DEF HiInv, MatchInv
  <2>2. /\ PrefixOf(q, at) \in Seq(Key) /\ PrefixOf(q, at + 1) \in Seq(Key)
        /\ IsPrefix(PrefixOf(q, at), PrefixOf(q, at + 1))
    <3>1. at + 1 \in 0 .. Len(q) /\ at \in 0 .. Len(q) /\ at \in 0 .. at + 1
      BY <1>1
    <3>. QED  BY <1>1, <3>1, PrefixOfProperties, PrefixOfPrefixOf
  <2>3. IsPrefix(PrefixOf(q, at + 1), c)
    BY <1>1, <1>2, OwnerProperties
  <2>4. IsPrefix(PrefixOf(q, at), c)
    BY <1>1, <2>2, <2>3, PrefixTransitive
  <2>5. OwnerNode(PrefixOf(q, at)) = n => IsPrefix(n, c)
    BY <1>1, <1>2, <2>1, <2>4, OwnerProperties
  <2>. QED  BY <1>1, <1>2, <2>1, <2>5, OwnedIsEdge DEF IsLeaf
<1>. QED  BY <1>1, <1>3, <1>4

\* What is not on the edge of a leaf that is dropped stays as it is.
LEMMA DropEffect ==
    ASSUME HiInv, NEW n \in Nodes, IsLeaf(n), DropNode(n)
    PROVE  /\ TreeInv(Key)' /\ DOMAIN page' = DOMAIN page \ Edge(n)
           /\ \A p \in DOMAIN page' :
                 /\ OwnerNode(p)' = OwnerNode(p) /\ page'[p] = page[p]
                 /\ TierOf(p)' = TierOf(p) /\ ref'[OwnerNode(p)] = ref[OwnerNode(p)]
<1>1. /\ page' = [p \in DOMAIN page \ Edge(n) |-> page[p]]
      /\ ref' = [m \in Nodes \ {n} |-> ref[m]] /\ Nodes' = Nodes \ {n}
      /\ tier' = [m \in Nodes \ {n} |-> tier[m]]
  BY DEF DropNode, Nodes
<1>2. TreeInv(Key)' /\ \A p \in DOMAIN page' : OwnerNode(p)' = OwnerNode(p)
  BY <1>1, RemovalKeepsTree DEF HiInv
<1>3. \A p \in DOMAIN page' : OwnerNode(p) \in Nodes \ {n}
  BY <1>1, OwnerProperties, OwnedIsEdge DEF HiInv
<1>. QED  BY <1>1, <1>2, <1>3 DEF TierOf

\* An unlocked leaf leaves the tree.
LEMMA DropStep ==
    ASSUME HiInv, pc \in {"promote", "allocate"}, UNCHANGED <<reqVars, pc, cur, at>>,
           NEW n \in Nodes, IsLeaf(n), ref[n] = 0, DropNode(n),
           free' \in Seq(Page), freeCpu' \in Seq(CpuPage), EvictInv'
    PROVE  HiInv'
<1>1. /\ page' = [p \in DOMAIN page \ Edge(n) |-> page[p]]
      /\ ref' = [m \in Nodes \ {n} |-> ref[m]] /\ Nodes' = Nodes \ {n}
      /\ tier' = [m \in Nodes \ {n} |-> tier[m]]
      /\ older' = Touched({}, Nodes \ {n})
      /\ cached' = cached - EdgeLen(n)
  BY DEF DropNode, Nodes
<1>2. TreeInv(Key)' /\ \A p \in DOMAIN page' : OwnerNode(p)' = OwnerNode(p)
  BY DropEffect
<1>3. n \notin Promoted /\ \A r \in Req : lock[r] # n
  BY UnheldNode
<1>4. CoreTypes'
  <2>1. EdgeLen(n) \in Nat
    BY EdgeTyped
  <2>2. older' \subseteq Nodes' \X Nodes'
    BY <1>1 DEF Touched, HiInv, CoreTypes
  <2>3. Ints(ref')
    BY <1>1 DEF HiInv, CoreTypes, Ints, Nodes
  <2>4. /\ DOMAIN page' \subseteq Seq(Seq(Token)) /\ Nodes' \subseteq Seq(Seq(Token))
        /\ cached' \in Int
    BY <1>1, <2>1 DEF HiInv, CoreTypes
  <2>. QED  BY <2>2, <2>3, <2>4 DEF HiInv, CoreTypes, reqVars
<1>5. IsFiniteSet(DOMAIN page')
  BY <1>1, FS_Subset DEF HiInv
<1>6. pc = "promote" => /\ at # 0 => PrefixOf(Query, at) \in DOMAIN page'
                        /\ HasChild(Query, at)' /\ NextChild' = NextChild /\ NextChild # n
  <2>. SUFFICES ASSUME pc = "promote"
                PROVE  /\ at # 0 => PrefixOf(Query, at) \in DOMAIN page'
                       /\ HasChild(Query, at)' /\ NextChild' = NextChild /\ NextChild # n
    OBVIOUS
  <2>1. NextChild # n
    BY <1>3 DEF Promoted
  <2>2. /\ at # 0 => PrefixOf(Query, at) \in DOMAIN page'
        /\ PrefixOf(Query, at + 1) \in DOMAIN page'
    BY <1>1, <2>1, WalkSurvivesDrop
  <2>3. Query' = Query
    BY DEF Query
  <2>. QED  BY <1>2, <2>1, <2>2, <2>3 DEF HasChild, NextChild, Child
<1>7. HiLockConservation'
  <2>1. Promoted' = Promoted
    BY <1>6 DEF Promoted
  <2>2. \A m : Holders(m)' = Holders(m)
    BY DEF Holders, reqVars
  <2>. QED  BY <1>1, <1>3, <2>1, <2>2 DEF HiInv, HiLockConservation, reqVars
<1>8. TierInv'
  <2>1. tier' \in [Nodes' -> {"GPU", "CPU"}]
    BY <1>1 DEF HiInv, TierInv
  <2>. QED  BY <1>1, <2>1, DropEffect DEF HiInv, TierInv
<1>9. MatchInv'
  BY <1>1, <1>6, MatchFacts, PromotedNode DEF HiInv, MatchInv, Query, reqVars
<1>. QED  BY <1>2, <1>4, <1>5, <1>7, <1>8, <1>9, RequestsKept DEF HiInv

\* The nodes that evict may take stay such when another node is dropped.
LEMMA DropKeepsEvictable ==
    ASSUME NEW n, DropNode(n)
    PROVE  EvictableGpu \ {n} \subseteq EvictableGpu'
BY DEF DropNode, EvictableGpu, Nodes

LEMMA HiEvictTurn ==
    ASSUME HiInv, HiEvict
    PROVE  HiInv'
<1>1. pc \in {"promote", "allocate"} /\ EvictStep(Asked) /\ UNCHANGED <<reqVars, pc, cur, at>>
  BY DEF HiEvict
<1>2. /\ free \in Seq(Page) /\ freeCpu \in Seq(CpuPage)
      /\ pc = "promote" => tier[NextChild] = "CPU"
  BY PromotedNode DEF HiInv, CoreTypes, TierInv
<1>3. ASSUME UNCHANGED <<free, cacheVars, tier, freeCpu>>, EvictInv'
      PROVE  HiInv'
  <2>1. UNCHANGED <<free, page, ref, older, cached, tier, freeCpu>> /\ Nodes' = Nodes
    BY <1>3 DEF cacheVars, Nodes
  <2>2. TierInv'
    BY <2>1, TiersStay DEF HiInv
  <2>. QED  BY <1>1, <1>2, <1>3, <2>1, <2>2, TurnKeepsTree
<1>4. ASSUME UNCHANGED <<cacheVars, tier>>
      PROVE  EvictableGpu' = EvictableGpu
  BY <1>4 DEF cacheVars, EvictableGpu, Nodes
<1>5. CASE EvictStart(Asked)
  <2>1. EvictInv'
    BY <1>1, <1>4, <1>5 DEF EvictStart, HiInv, EvictInv
  <2>. QED  BY <1>3, <1>5, <2>1 DEF EvictStart
<1>6. ASSUME NEW n \in todo, EvictDemote(Asked, n)
      PROVE  HiInv'
  BY <1>1, <1>6, DemoteStep DEF EvictDemote, Popping, HiInv, EvictInv
<1>7. ASSUME NEW n \in todo, EvictMakeRoom(Asked, n)
      PROVE  HiInv'
  <2>1. EvictInv'
    BY <1>1, <1>4, <1>7 DEF EvictMakeRoom, Popping, HiInv, EvictInv
  <2>. QED  BY <1>3, <1>7, <2>1 DEF EvictMakeRoom
<1>8. ASSUME NEW n \in Nodes, DropCpuLeaf(n)
      PROVE  HiInv'
  <2>1. /\ IsLeaf(n) /\ ref[n] = 0 /\ tier[n] = "CPU" /\ DropNode(n) /\ UNCHANGED free
        /\ freeCpu' = freeCpu \o EdgePages(n) /\ dropped' = dropped + EdgeLen(n)
        /\ UNCHANGED <<evicting, todo, victim>>
    BY <1>8 DEF DropCpuLeaf, EvictableCpu, EvictableLeaves
  <2>2. EdgePages(n) \in Seq(CpuPage) /\ EdgeLen(n) \in Nat
    BY <2>1, EdgeTyped DEF TierPages
  <2>3. freeCpu' \in Seq(CpuPage)
    BY <1>2, <2>1, <2>2, ConcatProperties
  <2>4. EvictInv'
    <3>1. n \notin EvictableGpu
      BY <2>1 DEF EvictableGpu
    <3>2. EvictableGpu \subseteq EvictableGpu'
      BY <2>1, <3>1, DropKeepsEvictable
    <3>. QED  BY <1>1, <2>1, <2>2, <3>2 DEF HiInv, EvictInv
  <2>. QED  BY <1>1, <1>2, <2>1, <2>3, <2>4, DropStep
<1>9. CASE DemoteVictim
  BY <1>1, <1>9, DemoteStep DEF DemoteVictim, RoomMade, HiInv, EvictInv
<1>10. CASE DropVictim
  <2>1. /\ victim \in Nodes /\ ref[victim] = 0 /\ tier[victim] = "GPU" /\ IsLeaf(victim)
        /\ victim \notin todo /\ todo \subseteq EvictableGpu /\ evicting
        /\ free' = free \o EdgePages(victim) /\ DropNode(victim)
        /\ victim' = Root /\ dropped' = 0 /\ UNCHANGED <<freeCpu, evicting, todo>>
    BY <1>10 DEF DropVictim, RoomMade, Free, HiInv, EvictInv, EvictableGpu
  <2>2. free' \in Seq(Page)
    BY <1>2, <2>1, EdgeTyped, ConcatProperties DEF TierPages
  <2>3. EvictInv'
    BY <1>1, <2>1, DropKeepsEvictable DEF HiInv, EvictInv
  <2>. QED  BY <1>1, <1>2, <2>1, <2>2, <2>3, DropStep
<1>11. CASE SkipVictim
  <2>1. EvictInv'
    BY <1>1, <1>4, <1>11 DEF SkipVictim, RoomMade, HiInv, EvictInv
  <2>. QED  BY <1>3, <1>11, <2>1 DEF SkipVictim
<1>. QED  BY <1>1, <1>5, <1>6, <1>7, <1>8, <1>9, <1>10, <1>11 DEF EvictStep

-----------------------------------------------------------------------------
(* The invariant *)

LEMMA InitHiInv == HiEngineInit => HiInv
<1>. SUFFICES ASSUME HiEngineInit PROVE HiInv
  OBVIOUS
<1>1. CoreInv /\ pc = "idle" /\ at = 0
  BY InitIInv DEF HiEngineInit, Init, IInv
<1>2. /\ page = << >> /\ ref = << >> /\ tier = << >> /\ evicting = FALSE /\ todo = {}
      /\ victim = Root /\ dropped = 0 /\ freeCpu = [i \in 1 .. NumCpuPages |-> i - 1]
  BY DEF HiEngineInit, HiInit, CacheInit
<1>3. DOMAIN page = {} /\ Nodes = {}
  BY <1>2 DEF Nodes
<1>4. freeCpu \in Seq(CpuPage)
  <2>1. freeCpu \in [1 .. NumCpuPages -> CpuPage] /\ NumCpuPages \in Nat
    BY <1>2, CpuPoolAssumption DEF CpuPage
  <2>. QED  BY <2>1, FunctionIsSequence
<1>5. TierInv /\ IsFiniteSet(DOMAIN page)
  BY <1>2, <1>3, <1>4, FS_EmptySet DEF TierInv
<1>6. HiLockConservation
  BY <1>1, <1>3 DEF CoreInv, LockConservation, HiLockConservation
<1>7. MatchInv /\ EvictInv
  BY <1>1, <1>2 DEF MatchInv, EvictInv
<1>. QED  BY <1>1, <1>5, <1>6, <1>7 DEF HiInv, CoreInv

LEMMA HiStutterStep ==
    ASSUME HiInv, UNCHANGED hvars
    PROVE  HiInv'
<1>1. /\ UNCHANGED <<free, page, ref, older, cached, status, out, table, hit, lock>>
      /\ UNCHANGED <<pc, cur, at>>
      /\ UNCHANGED <<tier, freeCpu, evicting, todo, victim, dropped>>
      /\ Nodes' = Nodes /\ Query' = Query
  BY DEF hvars, vars, hiVars, Nodes, Query
<1>2. NextChild' = NextChild /\ (HasChild(Query, at)' <=> HasChild(Query, at))
  BY <1>1, NodesKeepOwners DEF NextChild, Child, HasChild
<1>3. CoreTypes' /\ TreeInv(Key)' /\ IsFiniteSet(DOMAIN page')
  BY <1>1, SameTree DEF HiInv, CoreTypes
<1>4. HiLockConservation'
  BY <1>1, <1>2 DEF HiInv, HiLockConservation, Promoted, Holders
<1>5. ControlInv' /\ UnlockedInv' /\ SizeInv'
  <2>1. \A r : Committed(r)' = Committed(r)
    BY <1>1 DEF Committed, Tokens
  <2>. QED  BY <1>1, <2>1
            DEF HiInv, ControlInv, UnlockedInv, SizeInv, Peak, Longest, CommitFits
<1>6. TierInv'
  BY <1>1, TiersStay DEF HiInv
<1>7. MatchInv' /\ EvictInv'
  BY <1>1, <1>2 DEF HiInv, MatchInv, EvictInv, EvictableGpu
<1>. QED  BY <1>3, <1>4, <1>5, <1>6, <1>7 DEF HiInv

\* Every step of the engine over the hierarchical cache keeps the invariant.
LEMMA HiInvIsInductive == HiInv /\ [HiNext]_hvars => HiInv'
<1>. SUFFICES ASSUME HiInv, [HiNext]_hvars PROVE HiInv'
  OBVIOUS
<1>1. ASSUME NEW r \in Req,
             \/ HiAdmit(r)
             \/ MatchStart(r)
             \/ HiCommitLeaf(r) \/ HiCommitSplit(r)
             \/ /\ \/ \E t \in Gen[r] : Generate(r, t)
                   \/ Retire(r) \/ Abort(r) \/ CommitRaises(r) \/ AbortUninitialised(r)
                   \/ CommitFullEdge(r) \/ CommitEnd(r)
                /\ UNCHANGED hiVars
      PROVE  HiInv'
  BY <1>1, HiAdmitStep, MatchStartStep, HiCommitLeafStep, HiCommitSplitStep, EngineSteps
<1>2. CASE MatchCpuChild \/ MatchGpuChild \/ MatchEnd
  BY <1>2, MatchCpuChildStep, MatchGpuChildStep, MatchEndStep
<1>3. CASE PromoteDone \/ PromoteFail
  BY <1>3, PromoteDoneStep, PromoteFailStep
<1>4. CASE HiAllocDone \/ HiAllocFail
  BY <1>4, HiAllocDoneStep, HiAllocFailStep
<1>5. CASE HiEvict
  BY <1>5, HiEvictTurn
<1>6. CASE UNCHANGED hvars
  BY <1>6, HiStutterStep
<1>7. CASE Terminated /\ UNCHANGED hiVars
  BY <1>6, <1>7 DEF Terminated, hvars
<1>. QED  BY <1>1, <1>2, <1>3, <1>4, <1>5, <1>6, <1>7 DEF HiNext

LEMMA HiInvariant == HiSpec => []HiInv
BY InitHiInv, HiInvIsInductive, PTL DEF HiSpec

\* Every variable has its type over the hierarchical cache as well: the pages of a
\* table are pages of the GPU pool though those of a walked node may be elsewhere,
\* and evict looks at nodes only.
THEOREM HiTypeCorrect == HiSpec => []HiTypeOK
<1>1. HiInv => HiTypeOK
  <2>. SUFFICES ASSUME HiInv PROVE HiTypeOK
    OBVIOUS
  <2>1. \A p \in DOMAIN page : page[p] \in Page \cup CpuPage
    BY DEF HiInv, TierInv
  <2>2. pc \in {"idle", "match", "promote", "allocate", "insert"}
    BY DEF HiInv, MatchInv
  <2>3. todo \subseteq Nodes /\ victim \in Nodes \cup {Root} /\ evicting \in BOOLEAN
        /\ dropped \in Nat
    BY DEF HiInv, EvictInv, EvictableGpu
  <2>. QED  BY <2>1, <2>2, <2>3 DEF HiInv, CoreTypes, TierInv, HiTypeOK
<1>. QED  BY <1>1, HiInvariant, PTL

\* Across demotions, drops, promotions that succeed or raise, splits and rollbacks
\* ref_count counts the borrowers at or below a node, and the one promotion that
\* keeps its child from being dropped.
THEOREM HiLocksConserved == HiSpec => []HiLockConservation
<1>1. HiInv => HiLockConservation
  BY DEF HiInv
<1>. QED  BY <1>1, HiInvariant, PTL

-----------------------------------------------------------------------------
(* The pages of host memory *)

\* No prefix of the tree moves, and new ones are in GPU memory.
TreeStays ==
    /\ freeCpu' = freeCpu
    /\ \A p \in DOMAIN page :
          p \in DOMAIN page' /\ page'[p] = page[p] /\ TierOf(p)' = TierOf(p)
    /\ \A p \in DOMAIN page' \ DOMAIN page : TierOf(p)' = "GPU"

\* Host memory and what the tree has in it are as they were.
CpuStays ==
    /\ freeCpu' = freeCpu /\ InTier("CPU")' = InTier("CPU")
    /\ \A p \in InTier("CPU") : page'[p] = page[p]

LEMMA CpuStaysOwned ==
    ASSUME CpuPagesOwned, CpuStays
    PROVE  CpuPagesOwned'
<1>. DEFINE inTree == {page[p] : p \in InTier("CPU")}
<1>1. inTree' = inTree
  BY DEF CpuStays
<1>. QED  BY <1>1 DEF CpuStays, CpuPagesOwned

LEMMA StillTree ==
    ASSUME Nodes' = Nodes, UNCHANGED <<page, tier, freeCpu>>
    PROVE  TreeStays
<1>1. \A p : OwnerNode(p)' = OwnerNode(p)
  BY NodesKeepOwners
<1>. QED  BY <1>1 DEF TreeStays, TierOf

LEMMA TreeStaysOwned ==
    ASSUME CpuPagesOwned, TreeStays
    PROVE  CpuPagesOwned'
<1>1. CpuStays
  BY DEF TreeStays, CpuStays, InTier, TierOf
<1>. QED  BY <1>1, CpuStaysOwned

\* The pages of an edge go back to host memory's free list.
LEMMA CpuEdgeFreed ==
    ASSUME HiInv, CpuPagesOwned, NEW n \in Nodes, tier[n] = "CPU",
           freeCpu' = freeCpu \o EdgePages(n),
           InTier("CPU")' = InTier("CPU") \ Edge(n),
           \A p \in InTier("CPU") \ Edge(n) : page'[p] = page[p]
    PROVE  CpuPagesOwned'
<1>. DEFINE C == InTier("CPU")
            e == EdgePages(n)
<1>1. Edge(n) \subseteq C
  BY DEF Edge, InTier
<1>2. freeCpu \in Seq(CpuPage) /\ e \in Seq(CpuPage)
  BY EdgeTyped DEF HiInv, TierInv, TierPages
<1>3. ToSet(e) = {page[p] : p \in Edge(n)} /\ IsInjective(e)
  BY <1>1, EdgePagesAre DEF CpuPagesOwned, HiInv
<1>4. /\ IsInjective(freeCpu)
      /\ \A p, q \in C : page[p] = page[q] => p = q
      /\ {page[p] : p \in C} = CpuPage \ ToSet(freeCpu)
  BY DEF CpuPagesOwned
<1>. HIDE DEF C, e
<1>5. ToSet(freeCpu) \cap ToSet(e) = {}
  BY <1>1, <1>3, <1>4
<1>6. IsInjective(freeCpu') /\ ToSet(freeCpu') = ToSet(freeCpu) \cup ToSet(e)
  BY <1>2, <1>3, <1>4, <1>5, FreeListJoined DEF e
<1>7. /\ \A p, q \in C \ Edge(n) : page'[p] = page'[q] => p = q
      /\ {page'[p] : p \in C \ Edge(n)} = CpuPage \ ToSet(freeCpu')
  <2>1. \A p \in C \ Edge(n) : page'[p] = page[p]
    BY DEF C
  <2>2. \A p \in C \ Edge(n) : page[p] \notin ToSet(e)
    BY <1>1, <1>3, <1>4
  <2>. QED  BY <1>1, <1>3, <1>4, <1>6, <2>1, <2>2
<1>. QED  BY <1>6, <1>7 DEF CpuPagesOwned, C

\* Pages popped off host memory's free list become those of an edge.
LEMMA CpuEdgeTaken ==
    ASSUME HiInv, CpuPagesOwned, NEW n \in EvictableGpu, Demote(n)
    PROVE  CpuPagesOwned'
<1>. DEFINE C == InTier("CPU")
            k == EdgeLen(n)
            left == SubSeq(freeCpu, 1, Len(freeCpu) - k)
            pop == [i \in 1 .. k |-> freeCpu[Len(freeCpu) + 1 - i]]
<1>1. /\ n \in Nodes /\ tier[n] = "GPU" /\ k <= Len(freeCpu)
      /\ Repage(n, pop) /\ freeCpu' = left /\ tier' = [tier EXCEPT ![n] = "CPU"]
      /\ Nodes' = Nodes
  BY DEF EvictableGpu, Demote, Nodes
<1>2. /\ freeCpu \in Seq(CpuPage) /\ k \in 0 .. Len(freeCpu)
      /\ IsInjective(freeCpu)
      /\ \A p, q \in C : page[p] = page[q] => p = q
      /\ {page[p] : p \in C} = CpuPage \ ToSet(freeCpu)
  BY <1>1, EdgeTyped, LenProperties DEF HiInv, TierInv, CpuPagesOwned
<1>3. /\ IsInjective(left) /\ IsInjective(pop)
      /\ ToSet(left) \cap ToSet(pop) = {}
      /\ ToSet(left) \cup ToSet(pop) = ToSet(freeCpu)
  BY <1>2, StackSplit
<1>4. /\ DOMAIN page' = DOMAIN page
      /\ \A p \in Edge(n) : /\ Len(p) - EdgeStart(n) \in 1 .. k
                            /\ page'[p] = pop[Len(p) - EdgeStart(n)]
                            /\ TierOf(p)' = "CPU"
      /\ \A p \in DOMAIN page \ Edge(n) : page'[p] = page[p] /\ TierOf(p)' = TierOf(p)
  BY <1>1, RepageEffect
<1>5. DOMAIN pop = 1 .. k
  OBVIOUS
<1>. HIDE DEF k, pop, left
<1>6. ToSet(freeCpu) \subseteq CpuPage
  <2>1. DOMAIN freeCpu = 1 .. Len(freeCpu) /\ \A i \in 1 .. Len(freeCpu) : freeCpu[i] \in CpuPage
    BY <1>2, ElementOfSeq, LenProperties
  <2>. QED  BY <2>1 DEF ToSet
<1>7. C \cap Edge(n) = {} /\ C \subseteq DOMAIN page /\ Edge(n) \subseteq DOMAIN page
  BY <1>1 DEF InTier, Edge
<1>8. InTier("CPU")' = C \cup Edge(n)
  BY <1>4, <1>7 DEF InTier, TierOf
<1>9. ToSet(pop) = {page'[p] : p \in Edge(n)}
  <2>1. \A i \in 1 .. k : \E p \in Edge(n) : Len(p) - EdgeStart(n) = i
    <3>1. ASSUME NEW i \in 1 .. k
          PROVE  \E p \in Edge(n) : Len(p) - EdgeStart(n) = i
      <4>1. /\ PrefixOf(n, EdgeStart(n) + i) \in Edge(n)
            /\ Len(PrefixOf(n, EdgeStart(n) + i)) = EdgeStart(n) + i
        BY <1>1, EdgePlaces DEF HiInv, EdgeLen, k
      <4>2. EdgeStart(n) \in Nat /\ EdgeStart(n) + i - EdgeStart(n) = i
        BY <1>1, EdgeIsInterval DEF HiInv
      <4>. QED  BY <4>1, <4>2
    <3>. QED  BY <3>1
  <2>. QED  BY <1>4, <1>5, <2>1 DEF ToSet
<1>10. ASSUME NEW p \in Edge(n), NEW q \in Edge(n), page'[p] = page'[q]
       PROVE  p = q
  <2>1. Len(p) - EdgeStart(n) = Len(q) - EdgeStart(n)
    BY <1>3, <1>4, <1>5, <1>10 DEF IsInjective
  <2>2. /\ p = PrefixOf(n, Len(p)) /\ q = PrefixOf(n, Len(q))
        /\ EdgeStart(n) \in Nat /\ Len(p) \in Nat /\ Len(q) \in Nat
    BY <1>1, EdgePlaces, EdgeIsInterval, LenProperties DEF HiInv, TreeInv, Edge
  <2>. QED  BY <2>1, <2>2
<1>11. ASSUME NEW p \in C
       PROVE  page'[p] = page[p] /\ page'[p] \notin ToSet(pop)
  BY <1>2, <1>3, <1>4, <1>7
<1>12. \A p, q \in C \cup Edge(n) : page'[p] = page'[q] => p = q
  BY <1>2, <1>9, <1>10, <1>11
<1>13. {page'[p] : p \in C \cup Edge(n)} = CpuPage \ ToSet(left)
  <2>1. {page'[p] : p \in C \cup Edge(n)} = {page[p] : p \in C} \cup ToSet(pop)
    BY <1>9, <1>11
  <2>. QED  BY <1>2, <1>3, <1>6, <2>1
<1>. QED  BY <1>1, <1>3, <1>8, <1>12, <1>13 DEF CpuPagesOwned

\* A request's own steps move no page of the tree.
LEMMA RequestStepsMoveNothing ==
    ASSUME HiInv, NEW r \in Req,
           \/ HiAdmit(r)
           \/ MatchStart(r)
           \/ HiCommitLeaf(r) \/ HiCommitSplit(r)
           \/ /\ \/ \E t \in Gen[r] : Generate(r, t)
                 \/ Retire(r) \/ Abort(r) \/ CommitRaises(r) \/ AbortUninitialised(r)
                 \/ CommitFullEdge(r) \/ CommitEnd(r)
              /\ UNCHANGED hiVars
    PROVE  TreeStays
<1>1. CASE HiAdmit(r) \/ MatchStart(r)
  BY <1>1, StillTree DEF HiAdmit, MatchStart, cacheVars, hiVars, Nodes
<1>2. CASE HiCommitLeaf(r)
  BY <1>2, HiCommitLeafEffect DEF HiCommitLeaf, TreeStays
<1>3. CASE HiCommitSplit(r)
  BY <1>3, HiCommitSplitEffect DEF HiCommitSplit, TreeStays
<1>4. CASE /\ \/ \E t \in Gen[r] : Generate(r, t)
              \/ FreeRequestKv(r) \/ CommitRaises(r) \/ AbortUninitialised(r)
              \/ CommitFullEdge(r) \/ CommitEnd(r)
           /\ UNCHANGED hiVars
  <2>1. UNCHANGED page /\ Nodes' = Nodes
    BY <1>4 DEF Generate, FreeRequestKv, CommitRaises, AbortUninitialised, CommitFullEdge,
                InsertFullEdge, CommitEnd, Unlock, Nodes
  <2>. QED  BY <1>4, <2>1, StillTree DEF hiVars
<1>. QED  BY <1>1, <1>2, <1>3, <1>4 DEF Retire, Abort

LEMMA MatchStepsMoveNothing ==
    ASSUME MatchCpuChild \/ MatchGpuChild \/ MatchEnd \/ PromoteFail \/ HiAllocDone \/ HiAllocFail
    PROVE  TreeStays
<1>1. UNCHANGED <<page, tier, freeCpu>> /\ Nodes' = Nodes
  BY DEF MatchCpuChild, MatchGpuChild, MatchEnd, PromoteFail, HiAllocDone, AllocDone,
         HiAllocFail, Unlock, Nodes, hiVars
<1>. QED  BY <1>1, StillTree

\* A promotion gives the host pages of its edge back, each of them.
LEMMA PromotionFreesCpu ==
    ASSUME HiInv, CpuPagesOwned, PromoteDone
    PROVE  CpuPagesOwned'
<1>. DEFINE n == NextChild
<1>1. /\ pc = "promote" /\ Repage(n, Popped(EdgeLen(n))) /\ tier' = [tier EXCEPT ![n] = "GPU"]
      /\ freeCpu' = freeCpu \o EdgePages(n) /\ ref' = [ref EXCEPT ![n] = @ - 1]
  BY DEF PromoteDone, Promote
<1>2. n \in Nodes /\ tier[n] = "CPU" /\ Nodes' = Nodes
  BY <1>1, PromotedNode DEF Nodes
<1>. HIDE DEF n
<1>3. /\ DOMAIN page' = DOMAIN page
      /\ \A p \in Edge(n) : TierOf(p)' = "GPU"
      /\ \A p \in DOMAIN page \ Edge(n) : page'[p] = page[p] /\ TierOf(p)' = TierOf(p)
  BY <1>1, <1>2, RepageEffect
<1>4. InTier("CPU")' = InTier("CPU") \ Edge(n)
  BY <1>3 DEF InTier, TierOf
<1>5. \A p \in InTier("CPU") \ Edge(n) : page'[p] = page[p]
  BY <1>3 DEF InTier
<1>. QED  BY <1>1, <1>2, <1>4, <1>5, CpuEdgeFreed

\* What a drop leaves in each tier.
LEMMA DropInTier ==
    ASSUME HiInv, NEW n \in Nodes, IsLeaf(n), DropNode(n), NEW t
    PROVE  /\ InTier(t)' = InTier(t) \ Edge(n)
           /\ \A p \in InTier(t) \ Edge(n) : page'[p] = page[p]
BY DropEffect DEF InTier, TierOf

LEMMA EvictTurnKeepsCpuOwned ==
    ASSUME HiInv, CpuPagesOwned, HiEvict
    PROVE  CpuPagesOwned'
<1>1. EvictStep(Asked) /\ todo \subseteq EvictableGpu /\ (victim # Root => victim \in EvictableGpu)
  BY DEF HiEvict, HiInv, EvictInv
<1>2. CASE UNCHANGED <<cacheVars, tier, freeCpu>>
  BY <1>2, StillTree, TreeStaysOwned DEF cacheVars, Nodes
<1>3. ASSUME NEW n \in EvictableGpu, Demote(n)
      PROVE  CpuPagesOwned'
  BY <1>3, CpuEdgeTaken
<1>4. ASSUME NEW n \in Nodes, DropCpuLeaf(n)
      PROVE  CpuPagesOwned'
  <2>1. IsLeaf(n) /\ tier[n] = "CPU" /\ DropNode(n) /\ freeCpu' = freeCpu \o EdgePages(n)
    BY <1>4 DEF DropCpuLeaf, EvictableCpu, EvictableLeaves
  <2>. QED  BY <2>1, DropInTier, CpuEdgeFreed
<1>5. CASE DropVictim
  <2>1. /\ victim \in Nodes /\ tier[victim] = "GPU" /\ IsLeaf(victim) /\ DropNode(victim)
        /\ UNCHANGED freeCpu
    BY <1>1, <1>5 DEF DropVictim, RoomMade, EvictableGpu
  <2>2. InTier("CPU") \ Edge(victim) = InTier("CPU")
    BY <2>1 DEF InTier, Edge
  <2>. QED  BY <2>1, <2>2, DropInTier, CpuStaysOwned DEF CpuStays
<1>. QED  BY <1>1, <1>2, <1>3, <1>4, <1>5
          DEF EvictStep, EvictStart, EvictDemote, EvictMakeRoom, Popping, DemoteVictim, RoomMade,
              SkipVictim

LEMMA CpuOwnedInductive == HiInv /\ CpuPagesOwned /\ [HiNext]_hvars => CpuPagesOwned'
<1>. SUFFICES ASSUME HiInv, CpuPagesOwned, [HiNext]_hvars
              PROVE  CpuPagesOwned'
  OBVIOUS
<1>1. ASSUME NEW r \in Req,
             \/ HiAdmit(r)
             \/ MatchStart(r)
             \/ HiCommitLeaf(r) \/ HiCommitSplit(r)
             \/ /\ \/ \E t \in Gen[r] : Generate(r, t)
                   \/ Retire(r) \/ Abort(r) \/ CommitRaises(r) \/ AbortUninitialised(r)
                   \/ CommitFullEdge(r) \/ CommitEnd(r)
                /\ UNCHANGED hiVars
      PROVE  CpuPagesOwned'
  BY <1>1, RequestStepsMoveNothing, TreeStaysOwned
<1>2. CASE MatchCpuChild \/ MatchGpuChild \/ MatchEnd \/ PromoteFail \/ HiAllocDone \/ HiAllocFail
  BY <1>2, MatchStepsMoveNothing, TreeStaysOwned
<1>3. CASE PromoteDone
  BY <1>3, PromotionFreesCpu
<1>4. CASE HiEvict
  BY <1>4, EvictTurnKeepsCpuOwned
<1>5. CASE UNCHANGED hvars
  BY <1>5, StillTree, TreeStaysOwned DEF hvars, vars, hiVars, Nodes
<1>6. CASE Terminated /\ UNCHANGED hiVars
  BY <1>5, <1>6 DEF Terminated, hvars
<1>. QED  BY <1>1, <1>2, <1>3, <1>4, <1>5, <1>6 DEF HiNext

LEMMA InitCpuOwned == HiEngineInit => CpuPagesOwned
<1>. SUFFICES ASSUME HiEngineInit PROVE CpuPagesOwned
  OBVIOUS
<1>1. /\ freeCpu = [i \in 1 .. NumCpuPages |-> i - 1] /\ NumCpuPages \in Nat
      /\ page = << >>
  BY CpuPoolAssumption DEF HiEngineInit, HiInit, CacheInit
<1>2. InTier("CPU") = {}
  BY <1>1 DEF InTier
<1>3. DOMAIN freeCpu = 1 .. NumCpuPages /\ \A i \in 1 .. NumCpuPages : freeCpu[i] = i - 1
  BY <1>1
<1>4. IsInjective(freeCpu)
  BY <1>1, <1>3 DEF IsInjective
<1>5. CpuPage \subseteq ToSet(freeCpu)
  <2>1. ASSUME NEW g \in CpuPage
        PROVE  g + 1 \in 1 .. NumCpuPages /\ g = (g + 1) - 1
    BY <1>1 DEF CpuPage
  <2>. QED  BY <1>3, <2>1 DEF ToSet
<1>. QED  BY <1>2, <1>4, <1>5 DEF CpuPagesOwned

\* Of every page of host memory there is one owner, the free list or one prefix of
\* the tree, whatever order demotions, promotions, drops and splits come in.
THEOREM CpuPagesOwnedOnce == HiSpec => []CpuPagesOwned
BY InitHiInv, HiInvIsInductive, InitCpuOwned, CpuOwnedInductive, PTL DEF HiSpec

-----------------------------------------------------------------------------
(* What num_evictable_pages promises *)

\* The pages that num_evictable_pages counts.
EvictablePages == {p \in InTier("GPU") : ref[OwnerNode(p)] = 0}

\* The pages of one unlocked edge go from the tree, or to host memory, and to the
\* free list.
LEMMA EdgeToFreeList ==
    ASSUME HiInv, NEW n \in EvictableGpu, free' = free \o EdgePages(n),
           EvictablePages' = EvictablePages \ Edge(n)
    PROVE  Len(free') + HiNumEvictable' = Len(free) + HiNumEvictable
<1>1. n \in Nodes /\ tier[n] = "GPU" /\ ref[n] = 0
  BY DEF EvictableGpu
<1>2. Edge(n) \subseteq EvictablePages /\ IsFiniteSet(EvictablePages)
  <2>1. EvictablePages \subseteq DOMAIN page
    BY DEF EvictablePages, InTier
  <2>. QED  BY <1>1, <2>1, FS_Subset DEF HiInv, EvictablePages, InTier, Edge
<1>3. /\ Cardinality(EvictablePages \ Edge(n)) = Cardinality(EvictablePages) - EdgeLen(n)
      /\ Cardinality(EvictablePages) \in Nat /\ EdgeLen(n) \in Nat
  <2>1. IsFiniteSet(Edge(n)) /\ EvictablePages \cap Edge(n) = Edge(n)
    BY <1>2, FS_Subset
  <2>. QED  BY <1>2, <2>1, FS_Difference, FS_CardinalityType DEF EdgeLen
<1>4. Len(free') = Len(free) + EdgeLen(n) /\ Len(free) \in Nat
  <2>1. free \in Seq(Page) /\ EdgePages(n) \in Seq(Page) /\ Len(EdgePages(n)) = EdgeLen(n)
    BY <1>1, EdgeTyped DEF TierPages, HiInv, CoreTypes
  <2>. QED  BY <2>1, ConcatProperties, LenProperties
<1>5. /\ HiNumEvictable = Cardinality(EvictablePages)
      /\ HiNumEvictable' = Cardinality(EvictablePages')
  BY DEF HiNumEvictable, EvictablePages
<1>. QED  BY <1>3, <1>4, <1>5

LEMMA EvictTurnKeepsSum ==
    ASSUME HiInv, HiEvict
    PROVE  Len(free') + HiNumEvictable' = Len(free) + HiNumEvictable
<1>1. EvictStep(Asked) /\ todo \subseteq EvictableGpu /\ (victim # Root => victim \in EvictableGpu)
  BY DEF HiEvict, HiInv, EvictInv
<1>2. ASSUME EvictablePages' = EvictablePages, UNCHANGED free
      PROVE  Len(free') + HiNumEvictable' = Len(free) + HiNumEvictable
  BY <1>2 DEF HiNumEvictable, EvictablePages
<1>3. CASE UNCHANGED <<free, cacheVars, tier>>
  <2>1. UNCHANGED <<free, page, ref, tier>> /\ Nodes' = Nodes
    BY <1>3 DEF cacheVars, Nodes
  <2>2. \A p : OwnerNode(p)' = OwnerNode(p)
    BY <2>1, NodesKeepOwners
  <2>. QED  BY <1>2, <2>1, <2>2 DEF EvictablePages, InTier
<1>4. ASSUME NEW n \in EvictableGpu, Demote(n)
      PROVE  Len(free') + HiNumEvictable' = Len(free) + HiNumEvictable
  <2>1. /\ n \in Nodes /\ tier' = [tier EXCEPT ![n] = "CPU"] /\ UNCHANGED ref /\ Nodes' = Nodes
        /\ Repage(n, [i \in 1 .. EdgeLen(n) |-> freeCpu[Len(freeCpu) + 1 - i]])
        /\ free' = free \o EdgePages(n)
    BY <1>4 DEF EvictableGpu, Demote, Free, Nodes
  <2>2. /\ DOMAIN page' = DOMAIN page
        /\ \A p \in Edge(n) : TierOf(p)' = "CPU"
        /\ \A p \in DOMAIN page \ Edge(n) : TierOf(p)' = TierOf(p)
    BY <2>1, RepageEffect
  <2>3. \A p : OwnerNode(p)' = OwnerNode(p)
    BY <2>1, NodesKeepOwners
  <2>4. EvictablePages' = EvictablePages \ Edge(n)
    BY <2>1, <2>2, <2>3 DEF EvictablePages, InTier, TierOf
  <2>. QED  BY <2>1, <2>4, EdgeToFreeList
<1>5. ASSUME NEW n \in Nodes, IsLeaf(n), DropNode(n)
      PROVE  EvictablePages' = EvictablePages \ Edge(n)
  BY <1>5, DropEffect DEF EvictablePages, InTier, TierOf
<1>6. ASSUME NEW n \in Nodes, DropCpuLeaf(n)
      PROVE  Len(free') + HiNumEvictable' = Len(free) + HiNumEvictable
  <2>1. IsLeaf(n) /\ tier[n] = "CPU" /\ DropNode(n) /\ UNCHANGED free
    BY <1>6 DEF DropCpuLeaf, EvictableCpu, EvictableLeaves
  <2>2. EvictablePages \ Edge(n) = EvictablePages
    BY <2>1 DEF EvictablePages, InTier, Edge
  <2>. QED  BY <1>2, <1>5, <2>1, <2>2
<1>7. CASE DropVictim
  <2>1. /\ victim \in EvictableGpu /\ victim \in Nodes /\ IsLeaf(victim) /\ DropNode(victim)
        /\ free' = free \o EdgePages(victim)
    BY <1>1, <1>7 DEF DropVictim, RoomMade, EvictableGpu, Free
  <2>. QED  BY <1>5, <2>1, EdgeToFreeList
<1>. QED  BY <1>1, <1>3, <1>4, <1>6, <1>7
          DEF EvictStep, EvictStart, EvictDemote, EvictMakeRoom, Popping, DemoteVictim, RoomMade,
              SkipVictim

\* A turn of evict neither loses nor invents a page of what admission counted on:
\* the free pages and those num_evictable_pages counts are as many after it.
THEOREM EvictionKeepsSum == HiSpec => EvictKeepsSum
<1>1. HiInv /\ [HiNext]_hvars =>
          [HiEvict => Len(free') + HiNumEvictable' = Len(free) + HiNumEvictable]_hvars
  BY EvictTurnKeepsSum
<1>. QED  BY HiInvariant, <1>1, PTL DEF HiSpec, EvictKeepsSum

-----------------------------------------------------------------------------
(* Locked pages *)

\* A locked prefix in GPU memory stays there with its page.
LockedStay ==
    \A p \in InTier("GPU") : ref[OwnerNode(p)] > 0 =>
        p \in InTier("GPU")' /\ page'[p] = page[p]

\* It does so when only the edge of an unlocked node, or of one in host memory, is
\* touched.
LEMMA LockedOffEdge ==
    ASSUME HiInv, NEW n \in Nodes, ref[n] = 0 \/ tier[n] = "CPU",
           \A p \in DOMAIN page \ Edge(n) :
              p \in DOMAIN page' /\ page'[p] = page[p] /\ TierOf(p)' = TierOf(p)
    PROVE  LockedStay
<1>. SUFFICES ASSUME NEW p \in InTier("GPU"), ref[OwnerNode(p)] > 0
              PROVE  p \in InTier("GPU")' /\ page'[p] = page[p]
  BY DEF LockedStay
<1>1. p \in DOMAIN page \ Edge(n) /\ TierOf(p) = "GPU"
  BY DEF InTier, TierOf, Edge
<1>. QED  BY <1>1 DEF InTier, TierOf

LEMMA LockedStayStill ==
    ASSUME TreeStays
    PROVE  LockedStay
BY DEF TreeStays, LockedStay, InTier, TierOf

LEMMA EvictTurnKeepsLocked ==
    ASSUME HiInv, HiEvict
    PROVE  LockedStay
<1>1. EvictStep(Asked) /\ todo \subseteq EvictableGpu /\ (victim # Root => victim \in EvictableGpu)
  BY DEF HiEvict, HiInv, EvictInv
<1>2. CASE UNCHANGED <<cacheVars, tier, freeCpu>>
  BY <1>2, StillTree, LockedStayStill DEF cacheVars, Nodes
<1>3. ASSUME NEW n \in EvictableGpu, Demote(n)
      PROVE  LockedStay
  <2>1. /\ n \in Nodes /\ ref[n] = 0 /\ tier' = [tier EXCEPT ![n] = "CPU"] /\ Nodes' = Nodes
        /\ Repage(n, [i \in 1 .. EdgeLen(n) |-> freeCpu[Len(freeCpu) + 1 - i]])
    BY <1>3 DEF EvictableGpu, Demote, Nodes
  <2>2. \A p \in DOMAIN page \ Edge(n) :
           p \in DOMAIN page' /\ page'[p] = page[p] /\ TierOf(p)' = TierOf(p)
    BY <2>1, RepageEffect
  <2>. QED  BY <2>1, <2>2, LockedOffEdge
<1>4. ASSUME NEW n \in Nodes, IsLeaf(n), ref[n] = 0, DropNode(n)
      PROVE  LockedStay
  <2>1. \A p \in DOMAIN page \ Edge(n) :
           p \in DOMAIN page' /\ page'[p] = page[p] /\ TierOf(p)' = TierOf(p)
    BY <1>4, DropEffect
  <2>. QED  BY <1>4, <2>1, LockedOffEdge
<1>5. ASSUME NEW n \in Nodes, DropCpuLeaf(n)
      PROVE  LockedStay
  BY <1>4, <1>5 DEF DropCpuLeaf, EvictableCpu, EvictableLeaves
<1>6. CASE DropVictim
  BY <1>1, <1>4, <1>6 DEF DropVictim, RoomMade, EvictableGpu
<1>. QED  BY <1>1, <1>2, <1>3, <1>5, <1>6
          DEF EvictStep, EvictStart, EvictDemote, EvictMakeRoom, Popping, DemoteVictim, RoomMade,
              SkipVictim

LEMMA StepKeepsLocked ==
    ASSUME HiInv, HiNext
    PROVE  LockedStay
<1>1. ASSUME NEW r \in Req,
             \/ HiAdmit(r)
             \/ MatchStart(r)
             \/ HiCommitLeaf(r) \/ HiCommitSplit(r)
             \/ /\ \/ \E t \in Gen[r] : Generate(r, t)
                   \/ Retire(r) \/ Abort(r) \/ CommitRaises(r) \/ AbortUninitialised(r)
                   \/ CommitFullEdge(r) \/ CommitEnd(r)
                /\ UNCHANGED hiVars
      PROVE  LockedStay
  BY <1>1, RequestStepsMoveNothing, LockedStayStill
<1>2. CASE MatchCpuChild \/ MatchGpuChild \/ MatchEnd \/ PromoteFail \/ HiAllocDone \/ HiAllocFail
  BY <1>2, MatchStepsMoveNothing, LockedStayStill
<1>3. CASE PromoteDone
  <2>. DEFINE n == NextChild
  <2>1. /\ pc = "promote" /\ Repage(n, Popped(EdgeLen(n)))
        /\ tier' = [tier EXCEPT ![n] = "GPU"] /\ ref' = [ref EXCEPT ![n] = @ - 1]
    BY <1>3 DEF PromoteDone, Promote
  <2>2. n \in Nodes /\ tier[n] = "CPU" /\ Nodes' = Nodes
    BY <2>1, PromotedNode DEF Nodes
  <2>. HIDE DEF n
  <2>3. \A p \in DOMAIN page \ Edge(n) :
           p \in DOMAIN page' /\ page'[p] = page[p] /\ TierOf(p)' = TierOf(p)
    BY <2>1, <2>2, RepageEffect
  <2>. QED  BY <2>2, <2>3, LockedOffEdge
<1>4. CASE HiEvict
  BY <1>4, EvictTurnKeepsLocked
<1>5. CASE Terminated /\ UNCHANGED hiVars
  BY <1>5, StillTree, LockedStayStill DEF Terminated, vars, hiVars, Nodes
<1>. QED  BY <1>1, <1>2, <1>3, <1>4, <1>5 DEF HiNext

\* From the moment its node is locked no page of GPU memory that a request borrows
\* moves or is given away: what finding 5 is about can happen in the walk only.
THEOREM LockedPagesStayPut == HiSpec => LockedPagesStay
<1>1. HiInv /\ [HiNext]_hvars => [LockedStay]_hvars
  BY StepKeepsLocked
<1>2. HiInv /\ [HiNext]_hvars =>
         [\A p \in InTier("GPU") : ref[OwnerNode(p)] > 0 =>
             p \in InTier("GPU")' /\ page'[p] = page[p]]_hvars
  BY <1>1 DEF LockedStay
<1>. QED  BY HiInvariant, <1>2, PTL DEF HiSpec, LockedPagesStay

-----------------------------------------------------------------------------
(* What PagedEngine promises, over two tiers *)

\* The tree stays a compressed trie: a node keeps its place when its pages move.
THEOREM HiTreeStaysWellFormed == HiSpec => []TreeWellFormed
<1>1. HiInv => TreeWellFormed
  BY TreeIsWellFormed DEF HiInv
<1>. QED  BY <1>1, HiInvariant, PTL

\* A running request that asks for a positive number of tokens has a page for every
\* token of its sequence, wherever the walk found the first of them.
THEOREM HiTablesCoverTokens == HiSpec => []TableCoversTokens
<1>1. HiInv => TableCoversTokens
  BY PositiveCovers DEF TableCoversTokens, HiInv
<1>. QED  BY <1>1, HiInvariant, PTL

\* A dropped node takes the length of its edge off the count.
LEMMA DropCounted ==
    ASSUME HiInv, CachedCountExact, NEW n \in Nodes, DropNode(n)
    PROVE  CachedCountExact'
<1>1. DOMAIN page' = DOMAIN page \ Edge(n) /\ cached' = cached - EdgeLen(n)
  BY DEF DropNode
<1>2. IsFiniteSet(DOMAIN page) /\ DOMAIN page \cap Edge(n) = Edge(n)
  BY DEF HiInv, Edge
<1>3. Cardinality(DOMAIN page \ Edge(n)) = Cardinality(DOMAIN page) - EdgeLen(n)
  BY <1>2, FS_Difference DEF EdgeLen
<1>. QED  BY <1>1, <1>3 DEF CachedCountExact

LEMMA HiCountKept ==
    HiInv /\ CachedCountExact /\ [HiNext]_hvars => CachedCountExact'
<1>. SUFFICES ASSUME HiInv, CachedCountExact, [HiNext]_hvars
              PROVE  CachedCountExact'
  OBVIOUS
<1>1. ASSUME DOMAIN page' = DOMAIN page, cached' = cached
      PROVE  CachedCountExact'
  BY <1>1 DEF CachedCountExact
<1>2. ASSUME NEW r \in Req, HiCommitLeaf(r)
      PROVE  CachedCountExact'
  <2>1. CommitLeaf(r) /\ pc = "insert"
    BY <1>2 DEF HiCommitLeaf, CommitLeaf, Inserting
  <2>. QED  BY <2>1, HiIsCore, LeafOnlyAdds DEF HiInv
<1>3. ASSUME NEW r \in Req,
             \/ HiAdmit(r) \/ MatchStart(r) \/ HiCommitSplit(r)
             \/ /\ \/ \E t \in Gen[r] : Generate(r, t)
                   \/ Retire(r) \/ Abort(r) \/ CommitRaises(r) \/ AbortUninitialised(r)
                   \/ CommitFullEdge(r) \/ CommitEnd(r)
                /\ UNCHANGED hiVars
      PROVE  CachedCountExact'
  <2>1. page' = page /\ cached' = cached
    BY <1>3 DEF HiAdmit, MatchStart, cacheVars, HiCommitSplit, CommitSplit, InsertSplit,
                Generate, Retire, Abort, FreeRequestKv, CommitRaises, AbortUninitialised,
                CommitFullEdge, InsertFullEdge, CommitEnd, Unlock
  <2>. QED  BY <1>1, <2>1
<1>4. CASE MatchCpuChild \/ MatchGpuChild \/ MatchEnd \/ PromoteFail \/ HiAllocDone \/ HiAllocFail
  <2>1. page' = page /\ cached' = cached
    BY <1>4 DEF MatchCpuChild, MatchGpuChild, MatchEnd, PromoteFail, HiAllocDone, AllocDone,
                HiAllocFail, Unlock
  <2>. QED  BY <1>1, <2>1
<1>5. CASE PromoteDone
  BY <1>1, <1>5 DEF PromoteDone, Promote, Repage
<1>6. CASE HiEvict
  <2>1. EvictStep(Asked) /\ (victim # Root => victim \in Nodes)
    BY <1>6 DEF HiEvict, HiInv, EvictInv, EvictableGpu
  <2>2. CASE UNCHANGED cacheVars
    BY <1>1, <2>2 DEF cacheVars
  <2>3. ASSUME NEW n, Demote(n)
        PROVE  CachedCountExact'
    BY <1>1, <2>3 DEF Demote, Repage
  <2>4. ASSUME NEW n \in Nodes, DropNode(n)
        PROVE  CachedCountExact'
    BY <2>4, DropCounted
  <2>. QED  BY <2>1, <2>2, <2>3, <2>4
            DEF EvictStep, EvictStart, EvictDemote, EvictMakeRoom, DropCpuLeaf, DemoteVictim,
                DropVictim, SkipVictim, RoomMade
<1>7. CASE UNCHANGED hvars
  BY <1>1, <1>7 DEF hvars, vars
<1>8. CASE Terminated /\ UNCHANGED hiVars
  BY <1>1, <1>8 DEF Terminated, vars
<1>. QED  BY <1>2, <1>3, <1>4, <1>5, <1>6, <1>7, <1>8 DEF HiNext

\* num_cached_pages counts the pages of both tiers: a demotion or a promotion does
\* not change it, a drop from either tier takes its edge off.
THEOREM HiCachedCountIsExact == HiSpec => []CachedCountExact
<1>1. HiEngineInit => CachedCountExact
  <2>1. HiEngineInit => DOMAIN page = {} /\ cached = 0
    BY DEF HiEngineInit, Init, CacheInit
  <2>. QED  BY <2>1, FS_EmptySet DEF CachedCountExact
<1>. QED  BY <1>1, InitHiInv, HiInvIsInductive, HiCountKept, PTL DEF HiSpec

-----------------------------------------------------------------------------
(* What a request in flight attends to *)

\* match_prefix is walking for request r, which holds no lock yet.
Walking(r) == pc \in {"match", "promote"} /\ cur = r

\* Its match_prefix or its allocate is under way.
Called(r) == pc \in {"match", "promote", "allocate"} /\ cur = r

\* Out of a walk a request borrows what PagedEngine says, and the pages of the whole
\* path it has locked are in GPU memory; the walk has taken a page for each place.
HoldOf(r) ==
    /\ ~ Walking(r) => Borrows(r)
    /\ status[r] = "waiting" => hit[r] = 0 /\ table[r] = << >>
    /\ status[r] = "admitted" /\ ~ Called(r) => hit[r] = 0 /\ table[r] = << >>
    /\ lock[r] # Root => \A p \in DOMAIN page : IsPrefix(p, lock[r]) => p \in InTier("GPU")

WalkInv ==
    /\ pc = "allocate" => hit[cur] = Len(table[cur])
    /\ pc \in {"match", "promote"} => hit[cur] = at /\ Len(table[cur]) = at

HoldInv == WalkInv /\ \A r \in Req : HoldOf(r)

\* Whoever has locked a node holds every node on the path to it.
LEMMA OnLockedPath ==
    ASSUME HiInv, NEW r \in Req, lock[r] # Root,
           NEW p \in DOMAIN page, IsPrefix(p, lock[r])
    PROVE  ref[OwnerNode(p)] > 0
<1>1. lock[r] \in Nodes /\ OwnerNode(p) \in Nodes /\ IsPrefix(OwnerNode(p), lock[r])
  BY OwnerProperties DEF HiInv, HiLockConservation
<1>2. r \in Holders(OwnerNode(p))
  BY <1>1 DEF Holders
<1>3. Cardinality(Holders(OwnerNode(p))) > 0
  <2>1. IsFiniteSet(Holders(OwnerNode(p)))
    BY HoldersFinite
  <2>. QED  BY <1>2, <2>1, HoldersFinite, FS_EmptySet
<1>. QED  BY <1>1, <1>3, HoldersFinite DEF HiInv, HiLockConservation

\* A step that leaves the request its lock and its hits, and its table but for what
\* is appended.
Kept(r) ==
    /\ hit'[r] = hit[r] /\ lock'[r] = lock[r]
    /\ Len(table[r]) <= Len(table'[r])
    /\ \A i \in 1 .. Len(table[r]) : table'[r][i] = table[r][i]

\* What it has locked stays in GPU memory, and what it borrows in its place.
LEMMA PathStays ==
    ASSUME HiInv, HiInv', LockedStay, NEW r \in Req, lock[r] # Root, lock'[r] = lock[r],
           \A p \in DOMAIN page : IsPrefix(p, lock[r]) => p \in InTier("GPU")
    PROVE  /\ \A p \in DOMAIN page' : IsPrefix(p, lock[r]) => p \in InTier("GPU")'
           /\ \A p \in DOMAIN page : IsPrefix(p, lock[r]) => p \in DOMAIN page' /\ page'[p] = page[p]
<1>1. lock[r] \in DOMAIN page
  BY DEF HiInv, HiLockConservation, TreeInv
<1>2. ASSUME NEW p \in DOMAIN page, IsPrefix(p, lock[r])
      PROVE  p \in InTier("GPU")' /\ page'[p] = page[p]
  BY <1>2, OnLockedPath DEF LockedStay
<1>3. ASSUME NEW p \in DOMAIN page', IsPrefix(p, lock[r])
      PROVE  p \in DOMAIN page
  <2>1. p \in Seq(Key) /\ p # << >>
    BY DEF HiInv, TreeInv
  <2>. QED  BY <1>1, <1>3, <2>1, ClosedUnderPrefixes DEF HiInv
<1>. QED  BY <1>2, <1>3 DEF InTier

LEMMA BorrowsStay ==
    ASSUME HiInv, HiInv', LockedStay, NEW r \in Req, Borrows(r), table[r] # << >>, Kept(r),
           lock[r] # Root => \A p \in DOMAIN page : IsPrefix(p, lock[r]) => p \in InTier("GPU")
    PROVE  Borrows(r)'
<1>. DEFINE q == Keys(Prompt[r])
            h == hit[r]
<1>1. /\ h \in 0 .. Len(q) /\ h <= Len(table[r])
      /\ h > 0 => IsPrefix(PrefixOf(q, h), lock[r])
      /\ \A i \in 1 .. h : PrefixOf(q, i) \in DOMAIN page /\ page[PrefixOf(q, i)] = table[r][i]
  BY DEF Borrows
<1>2. /\ q \in Seq(Key) /\ Len(q) \in Nat
      /\ lock[r] \in Seq(Key) /\ table[r] \in Seq(Page) /\ Len(table[r]) \in Nat
      /\ table'[r] \in Seq(Page) /\ Len(table'[r]) \in Nat
  BY EngineAssumption, KeysType, LenProperties DEF HiInv, CoreTypes, Key
<1>3. hit'[r] = h /\ lock'[r] = lock[r] /\ h <= Len(table'[r])
  BY <1>1, <1>2 DEF Kept
<1>. HIDE DEF q, h
<1>4. ASSUME NEW i \in 1 .. h
      PROVE  /\ PrefixOf(q, i) \in DOMAIN page' /\ page'[PrefixOf(q, i)] = table'[r][i]
  <2>1. h \in Nat /\ i \in 0 .. Len(q) /\ h \in 0 .. Len(q) /\ i \in 0 .. h /\ h > 0
        /\ i \in 1 .. Len(table[r])
    BY <1>1, <1>2
  <2>2. /\ PrefixOf(q, i) \in Seq(Key) /\ PrefixOf(q, h) \in Seq(Key)
        /\ IsPrefix(PrefixOf(q, i), PrefixOf(q, h)) /\ IsPrefix(PrefixOf(q, h), lock[r])
    BY <1>1, <1>2, <2>1, PrefixOfProperties, PrefixOfPrefixOf
  <2>3. IsPrefix(PrefixOf(q, i), lock[r])
    BY <1>2, <2>2, PrefixTransitive
  <2>4. Len(PrefixOf(q, h)) = h /\ lock[r] # Root
    <3>1. Len(PrefixOf(q, h)) = h
      BY <1>2, <2>1, PrefixOfProperties
    <3>2. Len(PrefixOf(q, h)) <= Len(lock[r])
      BY <1>2, <2>2, PrefixPointwise
    <3>. QED  BY <2>1, <3>1, <3>2, EmptySeq DEF Root
  <2>5. PrefixOf(q, i) \in DOMAIN page /\ page[PrefixOf(q, i)] = table[r][i]
    BY <1>1
  <2>6. PrefixOf(q, i) \in DOMAIN page' /\ page'[PrefixOf(q, i)] = page[PrefixOf(q, i)]
    BY <1>3, <2>3, <2>4, <2>5, PathStays
  <2>. QED  BY <2>1, <2>5, <2>6 DEF Kept
<1>. QED  BY <1>1, <1>3, <1>4 DEF Borrows, q, h

\* A step that leaves the request its pages, and does not end its walk.
LEMMA HoldStays ==
    ASSUME HiInv, HiInv', LockedStay, NEW r \in Req, HoldOf(r),
           table'[r] = table[r], hit'[r] = hit[r], lock'[r] = lock[r],
           Walking(r) => Walking(r)',
           status'[r] = "waiting" => status[r] = "waiting",
           status'[r] = "admitted" /\ ~ Called(r)' =>
              status[r] = "waiting" \/ (status[r] = "admitted" /\ ~ Called(r))
    PROVE  HoldOf(r)'
<1>1. ASSUME ~ Walking(r)'
      PROVE  Borrows(r)'
  <2>1. Borrows(r)
    BY <1>1 DEF HoldOf
  <2>2. CASE table[r] # << >>
    <3>1. Len(table[r]) \in Nat /\ Kept(r)
      BY LenProperties DEF HiInv, CoreTypes, Kept
    <3>. QED  BY <2>1, <2>2, <3>1, BorrowsStay DEF HoldOf
  <2>3. CASE table[r] = << >>
    BY <2>3 DEF Borrows
  <2>. QED  BY <2>2, <2>3
<1>2. lock'[r] # Root => \A p \in DOMAIN page' : IsPrefix(p, lock'[r]) => p \in InTier("GPU")'
  BY PathStays DEF HoldOf
<1>. QED  BY <1>1, <1>2 DEF HoldOf

\* The same, said of a step that concerns another request, or no request.
LEMMA HoldOthers ==
    ASSUME HiInv, HiInv', LockedStay, NEW r \in Req, HoldOf(r),
           table'[r] = table[r], hit'[r] = hit[r], lock'[r] = lock[r], status'[r] = status[r],
           \/ pc' = pc /\ cur' = cur
           \/ cur # r /\ cur' # r
           \/ pc \in {"match", "promote"} /\ pc' \in {"match", "promote"} /\ cur' = cur
    PROVE  HoldOf(r)'
<1>1. Walking(r) = Walking(r)' /\ Called(r)' = Called(r)
  BY DEF Walking, Called
<1>. QED  BY <1>1, HoldStays

\* A request that has lost its lock and its table holds nothing.
LEMMA HoldNothing ==
    ASSUME NEW r \in Req, table'[r] = << >>, lock'[r] = Root,
           hit'[r] = 0 \/ status'[r] = "finished"
    PROVE  HoldOf(r)'
BY DEF HoldOf, Borrows

\* A request's own steps: what it borrows is as it was, or given up.
LEMMA RequestStepsHold ==
    ASSUME HiInv, HiInv', HoldInv, NEW r \in Req,
           \/ HiAdmit(r)
           \/ MatchStart(r)
           \/ HiCommitLeaf(r) \/ HiCommitSplit(r)
           \/ /\ \/ \E t \in Gen[r] : Generate(r, t)
                 \/ Retire(r) \/ Abort(r) \/ CommitRaises(r) \/ AbortUninitialised(r)
                 \/ CommitFullEdge(r) \/ CommitEnd(r)
              /\ UNCHANGED hiVars
    PROVE  HoldInv'
<1>1. LockedStay
  BY RequestStepsMoveNothing, LockedStayStill
<1>2. \A s \in Req : HoldOf(s)
  BY DEF HoldInv
<1>3. CASE HiAdmit(r)
  <2>1. /\ pc = "idle" /\ status[r] = "waiting" /\ UNCHANGED <<table, hit, lock, pc, cur, at>>
        /\ status' = [status EXCEPT ![r] = "admitted"]
    BY <1>3 DEF HiAdmit
  <2>2. \A s \in Req : s # r => status'[s] = status[s]
    BY <2>1 DEF HiInv, CoreTypes
  <2>3. \A s \in Req : s # r => HoldOf(s)'
    BY <1>1, <1>2, <2>1, <2>2, HoldOthers
  <2>4. ~ Walking(r) /\ ~ Walking(r)' /\ status'[r] = "admitted"
    BY <2>1 DEF Walking, HiInv, CoreTypes
  <2>5. HoldOf(r)'
    BY <1>1, <1>2, <2>1, <2>4, HoldStays
  <2>6. WalkInv'
    BY <2>1 DEF WalkInv
  <2>. QED  BY <2>3, <2>5, <2>6 DEF HoldInv
<1>4. CASE MatchStart(r)
  <2>1. /\ pc = "idle" /\ status[r] = "admitted" /\ pc' = "match" /\ cur' = r
        /\ UNCHANGED <<table, hit, lock, status, at>>
    BY <1>4 DEF MatchStart, reqVars
  <2>2. hit[r] = 0 /\ table[r] = << >> /\ at = 0
    BY <1>2, <2>1 DEF HoldOf, Called, HiInv, MatchInv
  <2>3. ASSUME NEW s \in Req PROVE HoldOf(s)'
    <3>1. ~ Walking(s) /\ ~ Called(s)
      BY <2>1 DEF Walking, Called
    <3>. QED  BY <1>1, <1>2, <2>1, <3>1, HoldStays
  <2>4. WalkInv'
    BY <2>1, <2>2 DEF WalkInv
  <2>. QED  BY <2>3, <2>4 DEF HoldInv
<1>5. CASE \/ HiCommitLeaf(r) \/ HiCommitSplit(r) \/ CommitFullEdge(r)
           \/ \E t \in Gen[r] : Generate(r, t)
  <2>1. /\ UNCHANGED <<table, hit, lock, status, pc, cur>>
        /\ pc \in {"idle", "insert"}
    BY <1>5 DEF HiCommitLeaf, CommitLeaf, HiCommitSplit, CommitSplit, CommitFullEdge, Inserting,
                reqVars, Generate
  <2>2. \A s \in Req : HoldOf(s)'
    BY <1>1, <1>2, <2>1, HoldOthers
  <2>3. WalkInv'
    BY <2>1 DEF WalkInv
  <2>. QED  BY <2>2, <2>3 DEF HoldInv
<1>6. CASE AbortUninitialised(r) \/ CommitRaises(r)
  <2>1. /\ pc = "idle" /\ UNCHANGED <<table, hit, lock, pc, cur, at>>
        /\ status' = [status EXCEPT ![r] = "finished"]
    BY <1>6 DEF AbortUninitialised, CommitRaises
  <2>2. \A s \in Req : s # r => status'[s] = status[s]
    BY <2>1 DEF HiInv, CoreTypes
  <2>3. \A s \in Req : s # r => HoldOf(s)'
    BY <1>1, <1>2, <2>1, <2>2, HoldOthers
  <2>4. ~ Walking(r) /\ ~ Walking(r)' /\ status'[r] = "finished"
    BY <2>1 DEF Walking, HiInv, CoreTypes
  <2>5. HoldOf(r)'
    BY <1>1, <1>2, <2>1, <2>4, HoldStays
  <2>6. WalkInv'
    BY <2>1 DEF WalkInv
  <2>. QED  BY <2>3, <2>5, <2>6 DEF HoldInv
<1>7. CASE FreeRequestKv(r)
  <2>1. /\ pc = "idle" /\ pc' = "insert" /\ status[r] = "running"
        /\ UNCHANGED <<table, hit, lock, status>>
    BY <1>7, TierAssumption DEF FreeRequestKv, reqVars
  <2>2. ASSUME NEW s \in Req PROVE HoldOf(s)'
    <3>1. ~ Walking(s) /\ ~ Called(s)
      BY <2>1 DEF Walking, Called
    <3>. QED  BY <1>1, <1>2, <2>1, <3>1, HoldStays
  <2>3. WalkInv'
    BY <2>1 DEF WalkInv
  <2>. QED  BY <2>2, <2>3 DEF HoldInv
<1>8. CASE CommitEnd(r)
  <2>1. /\ pc = "insert" /\ cur = r /\ pc' = "idle" /\ hit' = hit
        /\ table' = [table EXCEPT ![r] = << >>] /\ lock' = [lock EXCEPT ![r] = Root]
        /\ status' = [status EXCEPT ![r] = "finished"]
    BY <1>8 DEF CommitEnd
  <2>2. /\ table'[r] = << >> /\ lock'[r] = Root /\ status'[r] = "finished"
        /\ \A s \in Req : s # r => /\ table'[s] = table[s] /\ lock'[s] = lock[s]
                                   /\ status'[s] = status[s]
    BY <2>1 DEF HiInv, CoreTypes
  <2>3. ASSUME NEW s \in Req, s # r PROVE HoldOf(s)'
    <3>1. ~ Walking(s) /\ ~ Called(s) /\ ~ Walking(s)' /\ ~ Called(s)'
      BY <2>1 DEF Walking, Called
    <3>. QED  BY <1>1, <1>2, <2>1, <2>2, <2>3, <3>1, HoldStays
  <2>4. HoldOf(r)'
    BY <2>2, HoldNothing
  <2>5. WalkInv'
    BY <2>1 DEF WalkInv
  <2>. QED  BY <2>3, <2>4, <2>5 DEF HoldInv
<1>. QED  BY <1>3, <1>4, <1>5, <1>6, <1>7, <1>8 DEF Retire, Abort

\* The walk locks what it has found: all of it is in GPU memory.
LEMMA WalkEndHolds ==
    ASSUME HiInv, HiInv', HoldInv, WalkKeepsPages, MatchEnd
    PROVE  HoldOf(cur)' /\ WalkInv'
<1>. DEFINE q == Query
            top == PrefixOf(q, at)
            n == IF at = 0 THEN Root ELSE OwnerNode(top)
<1>1. /\ pc = "match" /\ pc' = "allocate" /\ cur' = cur
      /\ lock' = [lock EXCEPT ![cur] = n]
      /\ UNCHANGED <<page, tier, status, table, hit>>
      /\ Nodes' = Nodes
  BY DEF MatchEnd, hiVars, Nodes
<1>2. /\ cur \in Req /\ status[cur] = "admitted" /\ q \in Seq(Key) /\ Len(q) \in Nat
      /\ at \in 0 .. Len(q) /\ at \in Nat
      /\ hit[cur] = at /\ Len(table[cur]) = at
      /\ q = Keys(Prompt[cur])
  BY <1>1, MatchFacts DEF HoldInv, WalkInv, Query
<1>3. /\ lock'[cur] = n /\ hit'[cur] = at /\ table'[cur] = table[cur]
      /\ \A p : p \in InTier("GPU")' <=> p \in InTier("GPU")
  <2>1. \A p : OwnerNode(p)' = OwnerNode(p)
    BY <1>1, NodesKeepOwners
  <2>. QED  BY <1>1, <1>2, <2>1 DEF HiInv, CoreTypes, InTier
<1>4. \A i \in 1 .. at : PrefixOf(q, i) \in InTier("GPU") /\ page[PrefixOf(q, i)] = table[cur][i]
  BY <1>1 DEF WalkKeepsPages
<1>5. at # 0 => /\ top \in Seq(Key) /\ Len(top) = at /\ top \in DOMAIN page
                /\ n \in Nodes /\ n \in Seq(Key) /\ IsPrefix(top, n) /\ tier[n] = "GPU"
  <2>1. at # 0 => top \in DOMAIN page /\ tier[OwnerNode(top)] = "GPU"
    BY <1>2, <1>4 DEF InTier
  <2>2. top \in Seq(Key) /\ Len(top) = at
    BY <1>2, PrefixOfProperties
  <2>3. at # 0 => /\ n = OwnerNode(top) /\ n \in Nodes /\ IsPrefix(top, n)
    BY <2>1, OwnerProperties DEF HiInv
  <2>4. at # 0 => n \in Seq(Key)
    BY <2>3 DEF HiInv, TreeInv
  <2>. QED  BY <2>1, <2>2, <2>3, <2>4
<1>. HIDE DEF q, n
<1>6. ASSUME NEW p \in DOMAIN page, n # Root, IsPrefix(p, n)
      PROVE  p \in InTier("GPU")
  <2>1. at # 0 /\ p \in Seq(Key) /\ p # << >> /\ Len(p) \in Nat
    BY <1>6, LenProperties DEF HiInv, TreeInv, n
  <2>2. CASE Len(p) <= at
    <3>1. IsPrefix(p, top)
      BY <1>5, <1>6, <2>1, <2>2, PrefixesComparable
    <3>2. p = PrefixOf(top, Len(p)) /\ Len(p) \in 0 .. at
      BY <1>5, <2>1, <2>2, <3>1, PrefixIsPrefixOf
    <3>3. p = PrefixOf(q, Len(p))
      BY <1>2, <3>2, PrefixOfPrefixOf
    <3>4. Len(p) # 0
      BY <2>1, EmptySeq
    <3>. QED  BY <1>4, <2>1, <3>2, <3>3, <3>4
  <2>3. CASE at < Len(p)
    <3>1. IsPrefix(top, p)
      BY <1>2, <1>5, <1>6, <2>1, <2>3, PrefixesComparable
    <3>2. OwnerNode(top) = n
      BY <2>1 DEF n
    <3>3. OwnerNode(p) = n
      BY <1>5, <1>6, <2>1, <3>1, <3>2, SameOwner DEF HiInv
    <3>. QED  BY <1>5, <2>1, <3>3 DEF InTier
  <2>. QED  BY <1>2, <2>1, <2>2, <2>3
<1>7. Borrows(cur)'
  <2>1. at > 0 => IsPrefix(top, n)
    BY <1>2, <1>5
  <2>2. /\ hit'[cur] \in 0 .. Len(q) /\ hit'[cur] <= Len(table'[cur])
        /\ hit'[cur] > 0 => IsPrefix(PrefixOf(q, hit'[cur]), lock'[cur])
    BY <1>2, <1>3, <2>1
  <2>3. \A i \in 1 .. hit'[cur] : /\ PrefixOf(q, i) \in DOMAIN page'
                                  /\ page'[PrefixOf(q, i)] = table'[cur][i]
    BY <1>1, <1>3, <1>4 DEF InTier
  <2>4. q = Keys(Prompt[cur'])
    BY <1>1, <1>2
  <2>. QED  BY <1>1, <2>2, <2>3, <2>4 DEF Borrows
<1>8. lock'[cur] # Root => \A p \in DOMAIN page' : IsPrefix(p, lock'[cur]) => p \in InTier("GPU")'
  BY <1>1, <1>3, <1>6
<1>9. status'[cur'] = "admitted" /\ Called(cur)'
  BY <1>1, <1>2 DEF Called
<1>10. HoldOf(cur)'
  BY <1>1, <1>7, <1>8, <1>9 DEF HoldOf
<1>. QED  BY <1>1, <1>2, <1>10 DEF WalkInv

\* The rest of the walk, and allocate.
LEMMA WalkStepsHold ==
    ASSUME HiInv, HiInv', LockedStay, HoldInv, WalkKeepsPages,
           \/ MatchCpuChild \/ MatchGpuChild \/ MatchEnd \/ PromoteDone \/ PromoteFail
           \/ HiAllocDone \/ HiAllocFail
    PROVE  HoldInv'
<1>1. \A s \in Req : HoldOf(s)
  BY DEF HoldInv
<1>2. \/ pc \in {"match", "promote"}
      \/ pc = "allocate"
  BY DEF MatchCpuChild, MatchGpuChild, MatchEnd, PromoteDone, PromoteFail, HiAllocDone, HiAllocFail
<1>3. cur \in Req /\ status[cur] = "admitted"
  BY <1>2, MatchFacts DEF HiInv, ControlInv
<1>4. PICK c \in Req : c = cur
  BY <1>3
<1>5. /\ \A s \in Req : s # c => /\ table'[s] = table[s] /\ hit'[s] = hit[s]
                                 /\ lock'[s] = lock[s] /\ status'[s] = status[s]
      /\ cur' \in {c, NoReq}
  BY <1>4 DEF MatchCpuChild, MatchGpuChild, MatchEnd, PromoteDone, PromoteFail, HiAllocDone,
              AllocDone, HiAllocFail, reqVars, HiInv, CoreTypes
<1>6. ASSUME NEW s \in Req, s # c PROVE HoldOf(s)'
  <2>1. cur # s /\ cur' # s
    BY <1>4, <1>5, <1>6, EngineAssumption
  <2>. QED  BY <1>1, <1>5, <1>6, <2>1, HoldOthers
<1>7. ASSUME HoldOf(c)', WalkInv' PROVE HoldInv'
  BY <1>6, <1>7 DEF HoldInv
<1>8. CASE MatchCpuChild \/ PromoteDone
  <2>1. /\ pc \in {"match", "promote"} /\ pc' \in {"match", "promote"}
        /\ UNCHANGED <<table, hit, lock, status, cur, at>>
    BY <1>8 DEF MatchCpuChild, PromoteDone, reqVars
  <2>2. HoldOf(c)'
    BY <1>1, <2>1, HoldOthers
  <2>3. WalkInv'
    BY <2>1 DEF HoldInv, WalkInv
  <2>. QED  BY <1>7, <2>2, <2>3
<1>9. CASE MatchGpuChild
  <2>. DEFINE k == SplitPoint(Query, at)
              taken == [i \in 1 .. k - at |-> page[PrefixOf(Query, at + i)]]
  <2>1. /\ pc = "match" /\ pc' = pc /\ cur' = cur /\ at' = k /\ ~ WalkEnded
        /\ tier[NextChild] = "GPU"
        /\ hit' = [hit EXCEPT ![cur] = k] /\ table' = [table EXCEPT ![cur] = table[cur] \o taken]
        /\ UNCHANGED <<lock, status>>
    BY <1>9 DEF MatchGpuChild
  <2>2. k \in at + 1 .. Len(Query) /\ taken \in Seq(Page)
    BY <2>1, WalkedPages
  <2>3. at \in Nat /\ Len(Query) \in Nat /\ lock[cur] = Root
    BY <2>1, MatchFacts
  <2>4. Len(taken) = k - at
    <3>1. k - at \in Nat /\ DOMAIN taken = 1 .. k - at
      BY <2>2, <2>3
    <3>2. DOMAIN taken = 1 .. Len(taken) /\ Len(taken) \in Nat
      BY <2>2, LenProperties
    <3>. HIDE DEF taken
    <3>. QED  BY <3>1, <3>2
  <2>. HIDE DEF k, taken
  <2>5. Len(table[cur] \o taken) = k
    <3>1. table[cur] \in Seq(Page) /\ Len(table[cur]) = at
      BY <1>3, <2>1 DEF HiInv, CoreTypes, HoldInv, WalkInv
    <3>2. Len(table[cur] \o taken) = at + (k - at)
      BY <2>2, <2>4, <3>1, ConcatProperties
    <3>. QED  BY <2>2, <2>3, <3>2
  <2>6. hit'[cur] = k /\ Len(table'[cur]) = k
    BY <1>3, <2>1, <2>5 DEF HiInv, CoreTypes
  <2>7. WalkInv'
    BY <2>1, <2>6 DEF WalkInv
  <2>8. HoldOf(c)'
    <3>1. Walking(c)' /\ Called(c)' /\ status'[c] = "admitted" /\ lock'[c] = Root
      BY <1>3, <1>4, <2>1, <2>3 DEF Walking, Called
    <3>. QED  BY <3>1 DEF HoldOf
  <2>. QED  BY <1>7, <2>7, <2>8
<1>10. CASE MatchEnd
  <2>1. HoldOf(cur)' /\ WalkInv'
    BY <1>10, WalkEndHolds
  <2>2. cur' = c
    BY <1>4, <1>10 DEF MatchEnd
  <2>. QED  BY <1>7, <2>1, <2>2
<1>11. CASE PromoteFail \/ HiAllocFail
  <2>1. /\ pc' = "idle" /\ table' = [table EXCEPT ![cur] = << >>]
        /\ hit' = [hit EXCEPT ![cur] = 0]
    BY <1>11 DEF PromoteFail, HiAllocFail
  <2>2. lock'[c] = Root
    <3>1. CASE PromoteFail
      BY <1>4, <3>1, MatchFacts DEF PromoteFail
    <3>2. CASE HiAllocFail
      BY <1>3, <1>4, <3>2 DEF HiAllocFail, HiInv, CoreTypes
    <3>. QED  BY <1>11, <3>1, <3>2
  <2>3. table'[c] = << >> /\ hit'[c] = 0
    BY <1>3, <1>4, <2>1 DEF HiInv, CoreTypes
  <2>4. HoldOf(c)'
    BY <2>2, <2>3, HoldNothing
  <2>5. WalkInv'
    BY <2>1 DEF WalkInv
  <2>. QED  BY <1>7, <2>4, <2>5
<1>12. CASE HiAllocDone
  <2>. DEFINE x == Extra(cur)
  <2>1. /\ pc = "allocate" /\ pc' = "idle" /\ UNCHANGED <<hit, lock, page>>
        /\ table' = [table EXCEPT ![cur] = table[cur] \o Popped(x)]
        /\ status' = [status EXCEPT ![cur] = "running"] /\ Len(free) >= x
    BY <1>12 DEF HiAllocDone, AllocDone
  <2>2. table[c] \in Seq(Page) /\ Len(table[c]) \in Nat /\ Popped(x) \in Seq(Page)
    <3>1. free \in Seq(Page) /\ table[c] \in Seq(Page)
      BY DEF HiInv, CoreTypes
    <3>2. x \in 0 .. Len(free)
      <4>1. Peak(c) \in Int /\ Len(table[c]) \in Nat /\ Len(free) \in Nat
        BY <1>3, <1>4, <2>1, <3>1, HiIsCore, Sizes, LenProperties DEF CoreInv
      <4>. QED  BY <1>4, <2>1, <4>1 DEF Extra
    <3>. QED  BY <3>1, <3>2, AllocateTypes, LenProperties
  <2>. HIDE DEF x
  <2>3. table'[c] = table[c] \o Popped(x) /\ status'[c] = "running"
    BY <1>3, <1>4, <2>1 DEF HiInv, CoreTypes
  <2>4. Kept(c)
    BY <2>1, <2>2, <2>3, ConcatProperties, LenProperties DEF Kept
  <2>5. /\ Borrows(c)
        /\ lock[c] # Root => \A p \in DOMAIN page : IsPrefix(p, lock[c]) => p \in InTier("GPU")
    BY <1>1, <2>1 DEF HoldOf, Walking
  <2>6. Borrows(c)'
    <3>1. CASE table[c] # << >>
      BY <2>4, <2>5, <3>1, BorrowsStay
    <3>2. CASE table[c] = << >>
      <4>1. hit[c] = 0
        BY <1>4, <2>1, <3>2, EmptySeq DEF HoldInv, WalkInv
      <4>2. Len(Keys(Prompt[c])) \in Nat /\ Len(table'[c]) \in Nat
        BY EngineAssumption, KeysType, LenProperties DEF HiInv, CoreTypes
      <4>. QED  BY <2>1, <4>1, <4>2 DEF Borrows
    <3>. QED  BY <3>1, <3>2
  <2>7. lock'[c] # Root => \A p \in DOMAIN page' : IsPrefix(p, lock'[c]) => p \in InTier("GPU")'
    BY <2>1, <2>5, PathStays
  <2>8. HoldOf(c)'
    BY <2>3, <2>6, <2>7 DEF HoldOf
  <2>9. WalkInv'
    BY <2>1 DEF WalkInv
  <2>. QED  BY <1>7, <2>8, <2>9
<1>. QED  BY <1>8, <1>9, <1>10, <1>11, <1>12

LEMMA HoldInductive ==
    HiInv /\ HoldInv /\ WalkKeepsPages /\ [HiNext]_hvars => HoldInv'
<1>. SUFFICES ASSUME HiInv, HoldInv, WalkKeepsPages, [HiNext]_hvars
              PROVE  HoldInv'
  OBVIOUS
<1>1. HiInv'
  BY HiInvIsInductive
<1>2. ASSUME LockedStay, UNCHANGED <<table, hit, lock, status, pc, cur, at>>
      PROVE  HoldInv'
  <2>1. \A s \in Req : HoldOf(s)'
    BY <1>1, <1>2, HoldOthers DEF HoldInv
  <2>2. WalkInv'
    BY <1>2 DEF HoldInv, WalkInv
  <2>. QED  BY <2>1, <2>2 DEF HoldInv
<1>3. CASE UNCHANGED hvars
  <2>1. LockedStay
    BY <1>3, StillTree, LockedStayStill DEF hvars, vars, hiVars, Nodes
  <2>. QED  BY <1>2, <1>3, <2>1 DEF hvars, vars
<1>4. CASE HiNext
  <2>1. LockedStay
    BY <1>4, StepKeepsLocked
  <2>2. ASSUME NEW r \in Req,
               \/ HiAdmit(r)
               \/ MatchStart(r)
               \/ HiCommitLeaf(r) \/ HiCommitSplit(r)
               \/ /\ \/ \E t \in Gen[r] : Generate(r, t)
                     \/ Retire(r) \/ Abort(r) \/ CommitRaises(r) \/ AbortUninitialised(r)
                     \/ CommitFullEdge(r) \/ CommitEnd(r)
                  /\ UNCHANGED hiVars
        PROVE  HoldInv'
    BY <1>1, <2>2, RequestStepsHold
  <2>3. CASE \/ MatchCpuChild \/ MatchGpuChild \/ MatchEnd \/ PromoteDone \/ PromoteFail
             \/ HiAllocDone \/ HiAllocFail
    BY <1>1, <2>1, <2>3, WalkStepsHold
  <2>4. CASE HiEvict
    BY <1>2, <2>1, <2>4 DEF HiEvict, reqVars
  <2>5. CASE Terminated /\ UNCHANGED hiVars
    BY <1>3, <2>5 DEF Terminated, hvars
  <2>. QED  BY <1>4, <2>2, <2>3, <2>4, <2>5 DEF HiNext
<1>. QED  BY <1>3, <1>4

LEMMA InitHoldInv == HiEngineInit => HoldInv
<1>. SUFFICES ASSUME HiEngineInit PROVE HoldInv
  OBVIOUS
<1>1. /\ pc = "idle" /\ \A r \in Req : table[r] = << >> /\ hit[r] = 0 /\ lock[r] = Root
  BY DEF HiEngineInit, Init
<1>. QED  BY <1>1 DEF HoldInv, HoldOf, WalkInv, Borrows

\* As long as no walk loses a page it has collected, every node that is locked is in
\* GPU memory.
THEOREM LockedNodesOnGpu == HiSpec /\ []WalkKeepsPages => []LockedOnGpu
<1>1. HiInv /\ HoldInv => LockedOnGpu
  <2>. SUFFICES ASSUME HiInv, HoldInv, NEW n \in Nodes \ Promoted, ref[n] > 0
                PROVE  tier[n] = "GPU"
    BY DEF LockedOnGpu
  <2>1. Cardinality(Holders(n)) > 0
    BY HoldersFinite DEF HiInv, HiLockConservation
  <2>2. PICK r \in Req : lock[r] # Root /\ IsPrefix(n, lock[r])
    <3>1. Holders(n) # {}
      BY <2>1, FS_EmptySet
    <3>. QED  BY <3>1 DEF Holders
  <2>3. n \in DOMAIN page /\ OwnerNode(n) = n
    BY NodeOwnsItself DEF HiInv, TreeInv
  <2>. QED  BY <2>2, <2>3 DEF HoldInv, HoldOf, InTier
<1>. QED  BY <1>1, InitHiInv, HiInvIsInductive, InitHoldInv, HoldInductive, PTL DEF HiSpec

\* As long as no walk loses a page it has collected, what a request borrows are the GPU
\* pages of its prompt's prefix, from its lock to its release.
THEOREM HiBorrowedPagesStay == HiSpec /\ []WalkKeepsPages => []HiBorrowedPagesPinned
<1>1. HiInv /\ HoldInv => HiBorrowedPagesPinned
  <2>. SUFFICES ASSUME HiInv, HoldInv, NEW r \in Req, lock[r] # Root, table[r] # << >>,
                       NEW i \in 1 .. hit[r]
                PROVE  LET p == PrefixOf(Keys(Prompt[r]), i) IN
                       p \in InTier("GPU") /\ page[p] = table[r][i]
    BY DEF HiBorrowedPagesPinned
  <2>. DEFINE q == Keys(Prompt[r])
  <2>1. ~ Walking(r)
    BY MatchFacts DEF Walking
  <2>2. /\ hit[r] \in 0 .. Len(q) /\ (hit[r] > 0 => IsPrefix(PrefixOf(q, hit[r]), lock[r]))
        /\ PrefixOf(q, i) \in DOMAIN page /\ page[PrefixOf(q, i)] = table[r][i]
    BY <2>1 DEF HoldInv, HoldOf, Borrows
  <2>3. q \in Seq(Key) /\ Len(q) \in Nat /\ lock[r] \in Seq(Key)
    BY EngineAssumption, KeysType, LenProperties DEF HiInv, CoreTypes, Key
  <2>. HIDE DEF q
  <2>4. IsPrefix(PrefixOf(q, i), lock[r])
    <3>1. i \in 0 .. hit[r] /\ hit[r] > 0 /\ i \in 0 .. Len(q)
      BY <2>2, <2>3
    <3>2. PrefixOf(q, i) \in Seq(Key) /\ PrefixOf(q, hit[r]) \in Seq(Key)
          /\ IsPrefix(PrefixOf(q, i), PrefixOf(q, hit[r]))
      BY <2>2, <2>3, <3>1, PrefixOfProperties, PrefixOfPrefixOf
    <3>. QED  BY <2>2, <2>3, <3>1, <3>2, PrefixTransitive
  <2>5. PrefixOf(q, i) \in InTier("GPU")
    BY <2>2, <2>4 DEF HoldInv, HoldOf
  <2>. QED  BY <2>2, <2>5 DEF q
<1>. QED  BY <1>1, InitHiInv, HiInvIsInductive, InitHoldInv, HoldInductive, PTL DEF HiSpec

\* And it takes nothing else: a walk that ends with a page it has lost makes the
\* request attend to a page that is not its prompt's.
THEOREM StaleWalkBorrowsWrongPage ==
    ASSUME HiInv, HoldInv, MatchEnd, ~ WalkKeepsPages
    PROVE  ~ HiBorrowedPagesPinned'
<1>1. PICK i \in 1 .. at : LET p == PrefixOf(Query, i) IN
         ~ (p \in InTier("GPU") /\ page[p] = table[cur][i])
  BY DEF WalkKeepsPages
<1>2. /\ pc = "match" /\ cur' = cur /\ UNCHANGED <<page, tier, table, hit>> /\ Nodes' = Nodes
      /\ lock' = [lock EXCEPT ![cur] = IF at = 0 THEN Root ELSE OwnerNode(PrefixOf(Query, at))]
  BY DEF MatchEnd, hiVars, Nodes
<1>3. /\ cur \in Req /\ at \in Nat /\ hit[cur] = at /\ Len(table[cur]) = at
      /\ Query = Keys(Prompt[cur])
  BY <1>2, MatchFacts DEF HoldInv, WalkInv, Query
<1>4. PICK c \in Req : c = cur
  BY <1>3
<1>5. at # 0 /\ PrefixOf(Query, at) \in DOMAIN page
  BY <1>1, <1>2, <1>3 DEF HiInv, MatchInv
<1>6. lock'[c] = OwnerNode(PrefixOf(Query, at)) /\ lock'[c] # Root
  <2>1. lock'[c] = OwnerNode(PrefixOf(Query, at))
    BY <1>2, <1>4, <1>5 DEF HiInv, CoreTypes
  <2>2. OwnerNode(PrefixOf(Query, at)) \in Nodes
    BY <1>5, OwnerProperties DEF HiInv
  <2>. QED  BY <2>1, <2>2 DEF HiInv, TreeInv, Root
<1>7. table'[c] # << >> /\ table'[c] = table[c] /\ hit'[c] = at
  BY <1>2, <1>3, <1>4, <1>5, EmptySeq
<1>8. \A p : p \in InTier("GPU")' <=> p \in InTier("GPU")
  <2>1. \A p : OwnerNode(p)' = OwnerNode(p)
    BY <1>2, NodesKeepOwners
  <2>. QED  BY <1>2, <2>1 DEF InTier
<1>9. LET p == PrefixOf(Keys(Prompt[c]), i) IN
      ~ (p \in InTier("GPU")' /\ page'[p] = table'[c][i])
  BY <1>1, <1>2, <1>3, <1>4, <1>7, <1>8
<1>. QED  BY <1>6, <1>7, <1>9 DEF HiBorrowedPagesPinned

-----------------------------------------------------------------------------
(* No page of GPU memory has two owners *)

HiOwned == Apart(InTier("GPU"))

LEMMA HiOwnedIsApart ==
    ASSUME NEW T
    PROVE  /\ T = InTier("GPU") => (HiOwned <=> Apart(T))
           /\ T = InTier("GPU")' => (HiOwned' <=> Apart(T)')
<1>1. T = InTier("GPU") => (HiOwned <=> Apart(T))
  BY DEF HiOwned
<1>2. T = InTier("GPU")' => (HiOwned' <=> Apart(T)')
  BY DEF HiOwned, Apart, PagesOf
<1>. QED  BY <1>1, <1>2

\* Out of a walk the engine is that of PagedEngine, with what its requests borrow.
LEMMA HiBorrows ==
    ASSUME HiInv, HoldInv, CachedCountExact, pc \notin {"match", "promote"}
    PROVE  CoreInv /\ BorrowInv
<1>1. CoreInv
  BY HiIsCore
<1>2. PagesInv
  BY DEF HoldInv, HoldOf, WalkInv, Walking, Called, PagesInv
<1>. QED  BY <1>1, <1>2 DEF BorrowInv, HiInv

\* A step that moves no page, and gives no request a new one.
LEMMA QuietOwned ==
    ASSUME HiOwned, UNCHANGED <<free, page>>, InTier("GPU")' = InTier("GPU"),
           \A s \in Req : FewerPlaces(s)
    PROVE  HiOwned'
<1>1. PICK T : T = InTier("GPU") /\ T = InTier("GPU")' /\ \A p \in T : page'[p] = page[p]
  OBVIOUS
<1>2. Apart(T)
  BY <1>1, HiOwnedIsApart
<1>3. Apart(T)'
  BY <1>1, <1>2, FewerApart
<1>. QED  BY <1>1, <1>3, HiOwnedIsApart

LEMMA GpuStays ==
    ASSUME TreeStays, DOMAIN page' = DOMAIN page
    PROVE  InTier("GPU")' = InTier("GPU")
BY DEF TreeStays, InTier, TierOf

\* Out of a commit the places do not depend on how far a walk has got.
LEMMA TablesStay ==
    ASSUME HiInv, UNCHANGED <<table, hit>>, pc # "insert", pc' = "insert" => at' = 0
    PROVE  \A s \in Req : SamePlaces(s)
<1>1. \A s \in Req : hit[s] \in Nat /\ Len(table[s]) \in Nat
  BY LenProperties DEF HiInv, CoreTypes
<1>. QED  BY <1>1 DEF SamePlaces, OwnPositions

\* A request of which every page is borrowed, or that has none, owns none.
LEMMA WalkerOwnsNothing ==
    ASSUME NEW c \in Req, pc # "insert", pc' # "insert",
           hit'[c] = Len(table'[c]) \/ table'[c] = << >>, hit'[c] \in Nat,
           \A s \in Req \ {c} : table'[s] = table[s] /\ hit'[s] = hit[s]
    PROVE  \A s \in Req : FewerPlaces(s)
<1>1. OwnPositions(c)' = {}
  <2>1. CASE hit'[c] = Len(table'[c])
    BY <2>1 DEF OwnPositions
  <2>2. CASE table'[c] = << >>
    BY <2>2, EmptySeq DEF OwnPositions
  <2>. QED  BY <2>1, <2>2
<1>2. \A s \in Req \ {c} : SamePlaces(s)
  BY DEF SamePlaces, OwnPositions
<1>. QED  BY <1>1, <1>2, PlacesToPages DEF FewerPlaces

\* A turn of evict puts the pages of an edge on the free list, or none.
LEMMA EvictTurnKeepsOwned ==
    ASSUME HiInv, HiOwned, HiEvict
    PROVE  HiOwned'
<1>1. /\ EvictStep(Asked) /\ todo \subseteq EvictableGpu
      /\ victim # Root => victim \in EvictableGpu
      /\ \A s \in Req : SamePlaces(s)
  <2>1. UNCHANGED <<table, hit>> /\ pc # "insert" /\ pc' = pc
    BY DEF HiEvict, reqVars
  <2>2. \A s \in Req : SamePlaces(s)
    BY <2>1, TablesStay
  <2>. QED  BY <2>2 DEF HiEvict, HiInv, EvictInv
<1>2. \A s \in Req : FewerPlaces(s)
  BY <1>1, PlacesToPages
<1>3. CASE UNCHANGED <<free, cacheVars, tier, freeCpu>>
  <2>1. UNCHANGED <<free, page>> /\ TreeStays
    BY <1>3, StillTree DEF cacheVars, Nodes
  <2>. QED  BY <1>2, <2>1, GpuStays, QuietOwned
<1>4. ASSUME NEW n \in EvictableGpu, free' = free \o EdgePages(n),
             InTier("GPU")' = InTier("GPU") \ Edge(n),
             \A p \in InTier("GPU") \ Edge(n) : page'[p] = page[p]
      PROVE  HiOwned'
  <2>1. n \in Nodes /\ tier[n] = "GPU"
    BY DEF EvictableGpu
  <2>2. Edge(n) \subseteq InTier("GPU")
    BY <2>1 DEF Edge, InTier
  <2>3. free \in Seq(Page) /\ EdgePages(n) \in Seq(Page)
    BY <2>1, EdgeTyped DEF TierPages, HiInv, CoreTypes
  <2>4. /\ ToSet(EdgePages(n)) = {page[p] : p \in Edge(n)}
        /\ (\A p, q \in Edge(n) : page[p] = page[q] => p = q) => IsInjective(EdgePages(n))
    BY <2>1, EdgePagesAre DEF HiInv
  <2>5. PICK T, e, t : T = InTier("GPU") /\ e = Edge(n) /\ t = EdgePages(n)
    OBVIOUS
  <2>6. Apart(T) /\ e \subseteq T
    BY <2>2, <2>5, HiOwnedIsApart
  <2>7. IsInjective(t) /\ ToSet(t) = PagesOf(e)
    BY <2>4, <2>5, <2>6 DEF Apart, PagesOf
  <2>8. Apart(T \ e)'
    BY <1>1, <1>4, <2>3, <2>5, <2>6, <2>7, EdgeFreedApart
  <2>. QED  BY <1>4, <2>5, <2>8, HiOwnedIsApart
<1>5. ASSUME NEW n \in EvictableGpu, Demote(n)
      PROVE  HiOwned'
  <2>1. /\ n \in Nodes /\ tier' = [tier EXCEPT ![n] = "CPU"] /\ Nodes' = Nodes
        /\ Repage(n, [i \in 1 .. EdgeLen(n) |-> freeCpu[Len(freeCpu) + 1 - i]])
        /\ free' = free \o EdgePages(n)
    BY <1>5 DEF EvictableGpu, Demote, Free, Nodes
  <2>2. /\ DOMAIN page' = DOMAIN page
        /\ \A p \in Edge(n) : TierOf(p)' = "CPU"
        /\ \A p \in DOMAIN page \ Edge(n) : page'[p] = page[p] /\ TierOf(p)' = TierOf(p)
    BY <2>1, RepageEffect
  <2>3. /\ InTier("GPU")' = InTier("GPU") \ Edge(n)
        /\ \A p \in InTier("GPU") \ Edge(n) : page'[p] = page[p]
    BY <2>2 DEF InTier, TierOf
  <2>. QED  BY <1>4, <2>1, <2>3
<1>6. ASSUME NEW n \in Nodes, DropCpuLeaf(n)
      PROVE  HiOwned'
  <2>1. IsLeaf(n) /\ tier[n] = "CPU" /\ DropNode(n) /\ UNCHANGED free
    BY <1>6 DEF DropCpuLeaf, EvictableCpu, EvictableLeaves
  <2>2. InTier("GPU") \ Edge(n) = InTier("GPU")
    BY <2>1 DEF InTier, Edge
  <2>3. InTier("GPU")' = InTier("GPU") /\ \A p \in InTier("GPU") : page'[p] = page[p]
    BY <2>1, <2>2, DropInTier
  <2>4. PICK T : T = InTier("GPU") /\ T = InTier("GPU")' /\ \A p \in T : page'[p] = page[p]
    BY <2>3
  <2>5. Apart(T)
    BY <2>4, HiOwnedIsApart
  <2>6. Apart(T)'
    BY <1>2, <2>1, <2>4, <2>5, FewerApart
  <2>. QED  BY <2>4, <2>6, HiOwnedIsApart
<1>7. CASE DropVictim
  <2>1. /\ victim \in EvictableGpu /\ victim \in Nodes /\ IsLeaf(victim) /\ DropNode(victim)
        /\ free' = free \o EdgePages(victim)
    BY <1>1, <1>7 DEF DropVictim, RoomMade, EvictableGpu, Free
  <2>. QED  BY <1>4, <2>1, DropInTier
<1>. QED  BY <1>1, <1>3, <1>5, <1>6, <1>7
          DEF EvictStep, EvictStart, EvictDemote, EvictMakeRoom, Popping, DemoteVictim, RoomMade,
              SkipVictim

\* A promotion takes the pages of its edge off the free list, each of them once.
LEMMA PromotionTakesPages ==
    ASSUME HiInv, HiOwned, PromoteDone
    PROVE  HiOwned'
<1>. DEFINE k == EdgeLen(NextChild)
            pop == Popped(k)
<1>1. /\ pc = "promote" /\ pc' = "match" /\ UNCHANGED <<table, hit>>
      /\ k <= Len(free) /\ Repage(NextChild, pop)
      /\ free' = SubSeq(free, 1, Len(free) - k)
      /\ tier' = [tier EXCEPT ![NextChild] = "GPU"] /\ ref' = [ref EXCEPT ![NextChild] = @ - 1]
  BY DEF PromoteDone, Promote, Allocate, reqVars
<1>2. PICK n \in Nodes : n = NextChild /\ tier[n] = "CPU" /\ Nodes' = Nodes
  BY <1>1, PromotedNode DEF Nodes
<1>3. /\ free \in Seq(Page) /\ k \in 0 .. Len(free) /\ IsInjective(free)
  BY <1>1, <1>2, EdgeTyped, LenProperties DEF HiInv, CoreTypes, HiOwned, Apart
<1>4. /\ IsInjective(free') /\ IsInjective(pop)
      /\ ToSet(free') \cap ToSet(pop) = {}
      /\ ToSet(free') \cup ToSet(pop) = ToSet(free)
      /\ pop \in Seq(Page) /\ Len(pop) = k
  BY <1>1, <1>3, FreeListSplit, AllocateTypes
<1>5. /\ DOMAIN page' = DOMAIN page
      /\ \A p \in Edge(n) : /\ Len(p) - EdgeStart(n) \in 1 .. k
                            /\ page'[p] = pop[Len(p) - EdgeStart(n)]
                            /\ TierOf(p)' = "GPU"
      /\ \A p \in DOMAIN page \ Edge(n) : page'[p] = page[p] /\ TierOf(p)' = TierOf(p)
  <2>1. Repage(n, pop) /\ tier' = [tier EXCEPT ![n] = "GPU"] /\ Nodes' = Nodes /\ EdgeLen(n) = k
    BY <1>1, <1>2
  <2>2. /\ DOMAIN page' = DOMAIN page
        /\ \A p \in Edge(n) : /\ Len(p) - EdgeStart(n) \in 1 .. EdgeLen(n)
                              /\ page'[p] = pop[Len(p) - EdgeStart(n)]
                              /\ TierOf(p)' = "GPU"
        /\ \A p \in DOMAIN page \ Edge(n) : page'[p] = page[p] /\ TierOf(p)' = TierOf(p)
    <3>. HIDE DEF pop
    <3>. QED  BY <2>1, RepageEffect, Zenon
  <2>. QED  BY <2>1, <2>2
<1>6. DOMAIN pop = 1 .. k
  BY <1>3, <1>4, LenProperties
<1>7. ToSet(pop) = {page'[p] : p \in Edge(n)}
  <2>1. ASSUME NEW i \in 1 .. k
        PROVE  \E p \in Edge(n) : Len(p) - EdgeStart(n) = i
    <3>1. /\ PrefixOf(n, EdgeStart(n) + i) \in Edge(n)
          /\ Len(PrefixOf(n, EdgeStart(n) + i)) = EdgeStart(n) + i
      BY <1>2, EdgePlaces DEF HiInv, EdgeLen
    <3>2. EdgeStart(n) \in Nat /\ EdgeStart(n) + i - EdgeStart(n) = i
      BY EdgeIsInterval DEF HiInv
    <3>. QED  BY <3>1, <3>2
  <2>. HIDE DEF pop, k
  <2>. QED  BY <1>5, <1>6, <2>1 DEF ToSet
<1>. HIDE DEF pop, k
<1>8. ASSUME NEW p \in Edge(n), NEW q \in Edge(n), page'[p] = page'[q]
      PROVE  p = q
  <2>1. Len(p) - EdgeStart(n) = Len(q) - EdgeStart(n)
    BY <1>4, <1>5, <1>6, <1>8 DEF IsInjective
  <2>2. /\ p = PrefixOf(n, Len(p)) /\ q = PrefixOf(n, Len(q))
        /\ EdgeStart(n) \in Nat /\ Len(p) \in Nat /\ Len(q) \in Nat
    BY EdgePlaces, EdgeIsInterval, LenProperties DEF HiInv, TreeInv, Edge
  <2>. QED  BY <2>1, <2>2
<1>9. /\ InTier("GPU") \cap Edge(n) = {} /\ InTier("GPU") \subseteq DOMAIN page
      /\ Edge(n) \subseteq DOMAIN page
  BY <1>2 DEF InTier, Edge
<1>10. /\ InTier("GPU")' = InTier("GPU") \cup Edge(n)
       /\ \A p \in InTier("GPU") : page'[p] = page[p]
  BY <1>5, <1>9 DEF InTier, TierOf
<1>11. \A s \in Req : SamePlaces(s)
  BY <1>1, TablesStay
<1>12. PICK T, e, t : T = InTier("GPU") /\ e = Edge(n) /\ t = pop
  OBVIOUS
<1>13. Apart(T)
  BY <1>12, HiOwnedIsApart
<1>14. PagesOf(e)' = ToSet(t)
  BY <1>7, <1>12 DEF PagesOf
<1>15. Apart(T \cup e)'
  BY <1>4, <1>8, <1>9, <1>10, <1>11, <1>12, <1>13, <1>14, EdgeTakenApart
<1>. QED  BY <1>10, <1>12, <1>15, HiOwnedIsApart

\* The walk takes pages of the tree, which stay the tree's; allocate takes pages off
\* the free list.
LEMMA WalkKeepsOwned ==
    ASSUME HiInv, HoldInv, HoldInv', CachedCountExact, HiOwned,
           \/ MatchCpuChild \/ MatchGpuChild \/ MatchEnd \/ PromoteFail
           \/ HiAllocDone \/ HiAllocFail
    PROVE  HiOwned'
<1>1. /\ TreeStays /\ page' = page /\ InTier("GPU")' = InTier("GPU")
  <2>1. TreeStays
    BY MatchStepsMoveNothing
  <2>2. page' = page
    BY DEF MatchCpuChild, MatchGpuChild, MatchEnd, PromoteFail, HiAllocDone, AllocDone, HiAllocFail,
           Unlock
  <2>3. InTier("GPU")' = InTier("GPU")
    BY <2>1, <2>2, GpuStays
  <2>. QED  BY <2>1, <2>2, <2>3
<1>2. ASSUME UNCHANGED free, \A s \in Req : FewerPlaces(s)
      PROVE  HiOwned'
  BY <1>1, <1>2, QuietOwned
<1>3. CASE MatchCpuChild \/ MatchEnd
  <2>1. /\ UNCHANGED <<free, table, hit>> /\ pc = "match" /\ pc' # "insert"
    BY <1>3 DEF MatchCpuChild, MatchEnd, reqVars
  <2>. QED  BY <1>2, <2>1, TablesStay, PlacesToPages
<1>4. CASE MatchGpuChild \/ PromoteFail \/ HiAllocFail
  <2>1. PICK c \in Req : c = cur
    BY <1>4, MatchFacts DEF MatchGpuChild, PromoteFail, HiAllocFail, HiInv, ControlInv
  <2>2. /\ UNCHANGED free /\ pc # "insert" /\ pc' # "insert"
        /\ \A s \in Req \ {c} : table'[s] = table[s] /\ hit'[s] = hit[s]
    BY <1>4, <2>1 DEF MatchGpuChild, PromoteFail, HiAllocFail, HiInv, CoreTypes
  <2>3. /\ hit'[c] = Len(table'[c]) \/ table'[c] = << >>
        /\ hit'[c] \in Nat
    <3>1. CASE MatchGpuChild
      <4>1. pc' = "match" /\ cur' = c
        BY <2>1, <3>1 DEF MatchGpuChild
      <4>2. hit'[c] = at' /\ Len(table'[c]) = at'
        BY <4>1 DEF HoldInv, WalkInv
      <4>3. at' = SplitPoint(Query, at) /\ pc = "match"
        BY <3>1 DEF MatchGpuChild
      <4>4. SplitPoint(Query, at) \in Nat
        <5>1. SplitPoint(Query, at) \in at + 1 .. Len(Query) /\ at \in Nat
          BY <3>1, <4>3, WalkedPages, MatchFacts DEF MatchGpuChild
        <5>. QED  BY <5>1
      <4>. QED  BY <4>2, <4>3, <4>4
    <3>2. CASE PromoteFail \/ HiAllocFail
      BY <2>1, <3>2 DEF PromoteFail, HiAllocFail, HiInv, CoreTypes
    <3>. QED  BY <1>4, <3>1, <3>2
  <2>. QED  BY <1>2, <2>2, <2>3, WalkerOwnsNothing
<1>5. CASE HiAllocDone
  <2>1. AllocDone /\ pc = "allocate"
    BY <1>5 DEF HiAllocDone, AllocDone
  <2>2. CoreInv /\ BorrowInv
    BY <2>1, HiBorrows
  <2>3. PICK c \in Req, t \in Seq(Page), k \in Nat :
          /\ t = Popped(Extra(c))
          /\ Extra(c) \in 0 .. Len(free)
          /\ free' = SubSeq(free, 1, Len(free) - Extra(c))
          /\ OwnPositions(c)' = k + 1 .. k + Len(t)
          /\ \A i \in k + 1 .. k + Len(t) : table'[c][i] = t[i - k]
          /\ \A s \in Req \ {c} : SamePlaces(s)
    BY <2>1, <2>2, TakeEffect
  <2>4. /\ IsInjective(free') /\ IsInjective(t)
        /\ ToSet(free') \cap ToSet(t) = {}
        /\ ToSet(free') \cup ToSet(t) = ToSet(free)
    BY <2>3, FreeListSplit DEF HiInv, CoreTypes, HiOwned, Apart
  <2>5. PICK T : T = InTier("GPU") /\ T = InTier("GPU")' /\ \A p \in T : page'[p] = page[p]
    BY <1>1
  <2>6. Apart(T)
    BY <2>5, HiOwnedIsApart
  <2>7. Apart(T)'
    BY <2>3, <2>4, <2>5, <2>6, TakenApart
  <2>. QED  BY <2>5, <2>7, HiOwnedIsApart
<1>. QED  BY <1>3, <1>4, <1>5

\* A request hands its pages to the tree or gives them back.
LEMMA RequestKeepsOwned ==
    ASSUME HiInv, HoldInv, CachedCountExact, BorrowsWholeEdges, HiOwned, NEW r \in Req,
           \/ HiAdmit(r)
           \/ MatchStart(r)
           \/ HiCommitLeaf(r) \/ HiCommitSplit(r)
           \/ /\ \/ \E t \in Gen[r] : Generate(r, t)
                 \/ Retire(r) \/ Abort(r) \/ CommitRaises(r) \/ AbortUninitialised(r)
                 \/ CommitFullEdge(r) \/ CommitEnd(r)
              /\ UNCHANGED hiVars
    PROVE  HiOwned'
<1>1. TreeStays /\ pc \in {"idle", "insert"}
  <2>1. TreeStays
    BY RequestStepsMoveNothing
  <2>2. pc \in {"idle", "insert"}
    BY DEF HiAdmit, MatchStart, HiCommitLeaf, CommitLeaf, HiCommitSplit, CommitSplit, Inserting,
           Generate, Retire, Abort, FreeRequestKv, CommitRaises, AbortUninitialised,
           CommitFullEdge, CommitEnd
  <2>. QED  BY <2>1, <2>2
<1>2. CoreInv /\ BorrowInv
  BY <1>1, HiBorrows
<1>3. ASSUME UNCHANGED <<free, page>>, \A s \in Req : FewerPlaces(s)
      PROVE  HiOwned'
  BY <1>1, <1>3, GpuStays, QuietOwned
<1>4. ASSUME NEW t \in Seq(Page), UNCHANGED page, free' = free \o t, IsInjective(t),
             ToSet(t) \subseteq OwnPages(r), ToSet(t) \cap OwnPages(r)' = {},
             \A s \in Req : FewerPlaces(s)
      PROVE  HiOwned'
  <2>1. PICK T : T = InTier("GPU") /\ T = InTier("GPU")' /\ \A p \in T : page'[p] = page[p]
    BY <1>1, <1>4, GpuStays
  <2>2. Apart(T) /\ free \in Seq(Page)
    BY <2>1, HiOwnedIsApart DEF HiInv, CoreTypes
  <2>3. Apart(T)'
    BY <1>4, <2>1, <2>2, GivenBackApart
  <2>. QED  BY <2>1, <2>3, HiOwnedIsApart
<1>5. CASE HiAdmit(r) \/ MatchStart(r) \/ (\E t \in Gen[r] : Generate(r, t))
           \/ AbortUninitialised(r) \/ FreeRequestKv(r) \/ CommitRaises(r)
  <2>1. /\ UNCHANGED <<free, page, table, hit>> /\ pc = "idle"
        /\ pc' = "insert" => at' = 0
    BY <1>5, TierAssumption DEF HiAdmit, MatchStart, Generate, AbortUninitialised, FreeRequestKv,
                                CommitRaises, cacheVars, reqVars
  <2>. QED  BY <1>3, <2>1, TablesStay, PlacesToPages
<1>6. CASE HiCommitLeaf(r)
  <2>1. CommitLeaf(r)
    BY <1>6 DEF HiCommitLeaf
  <2>2. PICK T, new, I :
          /\ T = InTier("GPU") /\ I = at + 1 .. Len(Committed(r))
          /\ new = {PrefixOf(Committed(r), i) : i \in at + 1 .. Len(Committed(r))}
    OBVIOUS
  <2>3. /\ UNCHANGED free /\ I \subseteq OwnPositions(r) /\ OwnPositions(r)' = OwnPositions(r) \ I
        /\ \A s \in Req : FewerPlaces(s)
        /\ DOMAIN page' = DOMAIN page \cup new /\ DOMAIN page \cap new = {}
        /\ \A p \in DOMAIN page : page'[p] = page[p]
        /\ \A p \in new : Len(p) \in I /\ page'[p] = table[r][Len(p)]
        /\ \A p, s \in new : Len(p) = Len(s) => p = s
    BY <1>2, <2>1, <2>2, LeafEffect
  <2>4. T \subseteq DOMAIN page /\ T \cup new = InTier("GPU")'
    <3>1. /\ \A p \in DOMAIN page : TierOf(p)' = TierOf(p)
          /\ \A p \in new : TierOf(p)' = "GPU"
      BY <1>6, <2>3, HiCommitLeafEffect
    <3>. QED  BY <2>2, <2>3, <3>1 DEF InTier, TierOf
  <2>5. Apart(T)
    BY <2>2, HiOwnedIsApart
  <2>6. T \cap new = {} /\ \A p \in T : page'[p] = page[p]
    BY <2>3, <2>4
  <2>7. Apart(T \cup new)'
    <3>1. /\ free' = free /\ I \subseteq OwnPositions(r) /\ OwnPositions(r)' = OwnPositions(r) \ I
          /\ \A s \in Req : FewerPlaces(s)
          /\ \A p \in new : Len(p) \in I /\ page'[p] = table[r][Len(p)]
          /\ \A p, s \in new : Len(p) = Len(s) => p = s
      BY <2>3
    <3>. QED  BY <2>5, <2>6, <3>1, LeafApart, Zenon
  <2>. QED  BY <2>4, <2>7, HiOwnedIsApart
<1>7. CASE HiCommitSplit(r)
  <2>1. CommitSplit(r)
    BY <1>7 DEF HiCommitSplit
  <2>2. UNCHANGED <<free, page>> /\ \A s \in Req : FewerPlaces(s)
    BY <1>2, <2>1, SplitEffect
  <2>. QED  BY <1>3, <2>2
<1>8. CASE CommitFullEdge(r)
  <2>1. PICK T : T = InTier("GPU")
    OBVIOUS
  <2>2. Apart(T)
    BY <2>1, HiOwnedIsApart
  <2>. QED  BY <1>2, <1>4, <1>8, <2>2, FullEdgeGiven
<1>9. CASE CommitEnd(r)
  <2>1. PICK t \in Seq(Page) :
          /\ UNCHANGED page /\ free' = free \o t
          /\ ToSet(t) = OwnPages(r)
          /\ (\A i, j \in OwnPositions(r) : table[r][i] = table[r][j] => i = j) => IsInjective(t)
          /\ OwnPositions(r)' = {}
          /\ \A s \in Req : FewerPlaces(s)
    BY <1>2, <1>9, EndEffect
  <2>2. IsInjective(t)
    BY <2>1 DEF HiOwned, Apart
  <2>3. OwnPages(r)' = {}
    BY <2>1 DEF OwnPages
  <2>. QED  BY <1>4, <2>1, <2>2, <2>3
<1>. QED  BY <1>5, <1>6, <1>7, <1>8, <1>9 DEF Retire, Abort

LEMMA HiOwnedInductive ==
    /\ HiInv /\ HoldInv /\ HoldInv' /\ CachedCountExact /\ BorrowsWholeEdges
    /\ HiOwned /\ [HiNext]_hvars
    => HiOwned'
<1>. SUFFICES ASSUME HiInv, HoldInv, HoldInv', CachedCountExact, BorrowsWholeEdges,
                     HiOwned, [HiNext]_hvars
              PROVE  HiOwned'
  OBVIOUS
<1>1. ASSUME NEW r \in Req,
             \/ HiAdmit(r)
             \/ MatchStart(r)
             \/ HiCommitLeaf(r) \/ HiCommitSplit(r)
             \/ /\ \/ \E t \in Gen[r] : Generate(r, t)
                   \/ Retire(r) \/ Abort(r) \/ CommitRaises(r) \/ AbortUninitialised(r)
                   \/ CommitFullEdge(r) \/ CommitEnd(r)
                /\ UNCHANGED hiVars
      PROVE  HiOwned'
  BY <1>1, RequestKeepsOwned
<1>2. CASE MatchCpuChild \/ MatchGpuChild \/ MatchEnd \/ PromoteFail \/ HiAllocDone \/ HiAllocFail
  BY <1>2, WalkKeepsOwned
<1>3. CASE PromoteDone
  BY <1>3, PromotionTakesPages
<1>4. CASE HiEvict
  BY <1>4, EvictTurnKeepsOwned
<1>5. CASE UNCHANGED hvars
  <2>1. UNCHANGED <<free, page, table, hit, pc, cur, at>> /\ TreeStays
    BY <1>5, StillTree DEF hvars, vars, hiVars, Nodes
  <2>2. \A s \in Req : FewerPlaces(s)
    BY <2>1 DEF FewerPlaces, OwnPositions
  <2>. QED  BY <2>1, <2>2, GpuStays, QuietOwned
<1>6. CASE Terminated /\ UNCHANGED hiVars
  BY <1>5, <1>6 DEF Terminated, hvars
<1>. QED  BY <1>1, <1>2, <1>3, <1>4, <1>5, <1>6 DEF HiNext

LEMMA InitHiOwned == HiEngineInit => HiOwned
<1>. SUFFICES ASSUME HiEngineInit PROVE HiOwned
  OBVIOUS
<1>1. SingleOwner /\ InTier("GPU") = DOMAIN page
  <2>1. Init /\ DOMAIN page = {}
    BY DEF HiEngineInit, Init, CacheInit
  <2>. QED  BY <2>1, InitSingleOwner DEF InTier
<1>2. PICK T : T = DOMAIN page /\ T = InTier("GPU")
  BY <1>1
<1>. QED  BY <1>1, <1>2, SingleOwnerIsApart, HiOwnedIsApart

\* As long as no walk loses a page it has collected and no commit walks an edge that
\* was borrowed in part, demotion, promotion, commit and release hand over every page
\* of GPU memory exactly once.
THEOREM HiOnlyPartialBorrowsShare ==
    HiSpec /\ []WalkKeepsPages /\ []BorrowsWholeEdges => []HiSingleOwner
<1>1. HiOwned => HiSingleOwner
  BY DEF HiOwned, HiSingleOwner, Apart, PagesOf
<1>2. HiSpec /\ []WalkKeepsPages => []HoldInv
  BY InitHiInv, HiInvIsInductive, InitHoldInv, HoldInductive, PTL DEF HiSpec
<1>. QED  BY <1>1, <1>2, HiInvariant, HiCachedCountIsExact, InitHiOwned, HiOwnedInductive,
             PTL DEF HiSpec

-----------------------------------------------------------------------------
(* A workload whose walks keep their pages *)

\* Where the same prompts come again (RepeatedPrompts), every node is a prompt and a
\* walk has one child to visit: no promotion comes after a page was collected.
HiRepeatInv == RepeatInv /\ WalkKeepsPages

\* A walk has not begun or has all of its prompt.
LEMMA WalkIsPrompt ==
    ASSUME HiInv, HoldInv, RepeatInv, pc \in {"match", "promote"}
    PROVE  /\ at = 0 \/ at = Len(Query)
           /\ ~ WalkEnded => at = 0
           /\ pc = "promote" => at = 0
<1>1. cur \in Req /\ hit[cur] = at /\ at \in 0 .. Len(Query) /\ Len(Query) \in Nat
  BY MatchFacts DEF HoldInv, WalkInv
<1>2. at = 0 \/ at = Len(Query)
  BY <1>1 DEF RepeatInv, Query
<1>3. pc = "promote" => at < Len(Query)
  BY DEF HiInv, MatchInv
<1>. QED  BY <1>1, <1>2, <1>3 DEF WalkEnded

\* The one child it visits is the prompt, and it takes all of its pages.
LEMMA ChildIsTaken ==
    ASSUME HiInv, HoldInv, RepeatedPrompts, RepeatInv, MatchGpuChild
    PROVE  /\ hit' = [hit EXCEPT ![cur] = Len(Query)]
           /\ at' = Len(Query)
           /\ \A i \in 1 .. Len(Query) :
                 /\ PrefixOf(Query, i) \in InTier("GPU")
                 /\ page[PrefixOf(Query, i)] = table'[cur][i]
<1>. DEFINE q == Query
            k == SplitPoint(q, 0)
            taken == [i \in 1 .. k - 0 |-> page[PrefixOf(q, 0 + i)]]
<1>1. pc = "match" /\ ~ WalkEnded /\ tier[NextChild] = "GPU"
  BY DEF MatchGpuChild
<1>2. /\ at = 0 /\ cur \in Req /\ q \in Seq(Key) /\ Len(q) \in Nat /\ Len(table[cur]) = 0
      /\ table[cur] \in Seq(Page)
  BY <1>1, WalkIsPrompt, MatchFacts DEF HoldInv, WalkInv, HiInv, CoreTypes
<1>3. /\ at' = k /\ hit' = [hit EXCEPT ![cur] = k]
      /\ table' = [table EXCEPT ![cur] = table[cur] \o taken]
  BY <1>2 DEF MatchGpuChild
<1>4. HasChild(q, 0) /\ 0 < Len(q) /\ Len(q) >= 1
  BY <1>1, <1>2 DEF WalkEnded
<1>5. Child(q, 0) = q
  <2>1. CoreInv
    BY <1>1, HiIsCore
  <2>2. q = Keys(Prompt[cur])
    BY DEF Query
  <2>. HIDE DEF q
  <2>. QED  BY <1>2, <1>4, <2>1, <2>2, FirstChildIsPrompt
<1>6. TreeInv(Key) /\ q \in Nodes /\ q \in DOMAIN page
  BY <1>2, <1>4, <1>5, OwnerProperties DEF HiInv, TreeInv, HasChild, Child
<1>7. tier[q] = "GPU"
  BY <1>1, <1>2, <1>5 DEF NextChild
<1>8. /\ k \in 1 .. Len(q) /\ taken \in Seq(Page)
      /\ k < Len(q) => ~ IsPrefix(PrefixOf(q, k + 1), q)
  <2>1. taken \in Seq(Page)
    BY <1>1, <1>2, WalkedPages
  <2>. HIDE DEF q, taken
  <2>2. k \in 0 + 1 .. Len(q) /\ (k < Len(q) => ~ IsPrefix(PrefixOf(q, k + 1), Child(q, 0)))
    BY <1>2, <1>4, <1>6, SplitPointProperties
  <2>. QED  BY <1>5, <2>1, <2>2
<1>. HIDE DEF q, k
<1>9. k = Len(q)
  <2>1. SUFFICES ASSUME k < Len(q) PROVE FALSE
    BY <1>2, <1>8
  <2>2. k + 1 \in 0 .. Len(q)
    BY <1>2, <1>8, <2>1
  <2>. QED  BY <1>2, <1>8, <2>1, <2>2, PrefixOfProperties
<1>10. ASSUME NEW i \in 1 .. Len(q)
       PROVE  PrefixOf(q, i) \in InTier("GPU")
  <2>1. i \in 0 .. Len(q) /\ i # 0
    BY <1>2
  <2>2. PrefixOf(q, i) \in Seq(Key) /\ IsPrefix(PrefixOf(q, i), q) /\ PrefixOf(q, i) # << >>
        /\ 1 \in 0 .. i
    <3>1. Len(PrefixOf(q, i)) = i /\ PrefixOf(q, i) \in Seq(Key) /\ IsPrefix(PrefixOf(q, i), q)
      BY <1>2, <2>1, PrefixOfProperties
    <3>. QED  BY <1>2, <2>1, <3>1, EmptySeq
  <2>3. PrefixOf(q, 1) \in DOMAIN page /\ OwnerNode(PrefixOf(q, 1)) = q
    <3>1. 0 + 1 = 1
      OBVIOUS
    <3>. QED  BY <1>4, <1>5, <3>1 DEF HasChild, Child
  <2>4. IsPrefix(PrefixOf(q, 1), PrefixOf(q, i))
    BY <1>2, <2>1, <2>2, PrefixOfPrefixOf
  <2>5. PrefixOf(q, i) \in DOMAIN page /\ OwnerNode(PrefixOf(q, i)) = q
    BY <1>6, <2>2, <2>3, <2>4, SameOwner
  <2>. QED  BY <1>7, <2>5 DEF InTier
<1>11. ASSUME NEW i \in 1 .. Len(q)
       PROVE  page[PrefixOf(q, i)] = table'[cur][i]
  <2>1. /\ i \in 1 .. k - 0 /\ taken[i] = page[PrefixOf(q, 0 + i)] /\ 0 + i = i
    BY <1>2, <1>9
  <2>2. DOMAIN taken = 1 .. k - 0 /\ DOMAIN taken = 1 .. Len(taken) /\ Len(taken) \in Nat
    BY <1>8, LenProperties
  <2>. HIDE DEF taken
  <2>3. (table[cur] \o taken)[i] = taken[i]
    <3>1. i \in Len(table[cur]) + 1 .. Len(table[cur]) + Len(taken) /\ i - Len(table[cur]) = i
      BY <1>2, <1>8, <1>9, <2>1, <2>2
    <3>. QED  BY <1>2, <1>8, <3>1, ConcatProperties
  <2>4. table'[cur] = table[cur] \o taken
    BY <1>2, <1>3 DEF HiInv, CoreTypes
  <2>. QED  BY <2>1, <2>3, <2>4
<1>. QED  BY <1>3, <1>9, <1>10, <1>11 DEF q

LEMMA HiRepeatInductive ==
    RepeatedPrompts /\ HiInv /\ HiInv' /\ HoldInv /\ HiRepeatInv /\ [HiNext]_hvars => HiRepeatInv'
<1>. SUFFICES ASSUME RepeatedPrompts, HiInv, HiInv', HoldInv, RepeatInv, WalkKeepsPages,
                     [HiNext]_hvars
              PROVE  RepeatInv' /\ WalkKeepsPages'
  BY DEF HiRepeatInv
<1>0. hit \in [Req -> Nat]
  BY DEF HiInv, CoreTypes
<1>1. ASSUME Nodes' \subseteq Nodes, \A r \in Req : hit'[r] = hit[r] \/ hit'[r] = 0,
             pc' \in {"match", "promote"} => at' = 0
      PROVE  RepeatInv' /\ WalkKeepsPages'
  BY <1>1 DEF RepeatInv, WalkKeepsPages
<1>2. ASSUME NEW r \in Req, \/ HiAdmit(r) \/ MatchStart(r)
                            \/ AbortUninitialised(r) \/ FreeRequestKv(r) \/ CommitFullEdge(r)
                            \/ CommitRaises(r)
      PROVE  RepeatInv' /\ WalkKeepsPages'
  <2>1. Nodes' = Nodes /\ hit' = hit
    BY <1>2 DEF HiAdmit, MatchStart, AbortUninitialised, FreeRequestKv, CommitFullEdge,
                CommitRaises, InsertFullEdge, cacheVars, reqVars, Nodes
  <2>2. pc \in {"idle", "insert"} /\ (pc = "idle" => at = 0)
    BY <1>2 DEF HiAdmit, MatchStart, AbortUninitialised, FreeRequestKv, CommitFullEdge, Inserting,
                CommitRaises, HiInv, MatchInv
  <2>3. pc' \in {"match", "promote"} => at' = 0
    BY <1>2, <2>2 DEF HiAdmit, MatchStart, AbortUninitialised, FreeRequestKv, CommitFullEdge,
                      CommitRaises, Inserting
  <2>. QED  BY <1>1, <2>1, <2>3
<1>3. ASSUME NEW r \in Req, NEW t \in Gen[r], Generate(r, t)
      PROVE  RepeatInv' /\ WalkKeepsPages'
  BY <1>1, <1>3 DEF Generate, Nodes
<1>4. ASSUME NEW r \in Req, HiCommitLeaf(r)
      PROVE  RepeatInv' /\ WalkKeepsPages'
  <2>1. Nodes' = Nodes \cup {Committed(r)} /\ UNCHANGED hit /\ pc = "insert" /\ pc' = pc
    BY <1>4 DEF HiCommitLeaf, CommitLeaf, Inserting, InsertLeaf, reqVars, Nodes
  <2>2. Committed(r) = Keys(Prompt[r])
    BY <2>1, HiIsCore, CommittedIsPrompt
  <2>. QED  BY <2>1, <2>2 DEF RepeatInv, WalkKeepsPages
<1>5. ASSUME NEW r \in Req, HiCommitSplit(r)
      PROVE  FALSE
  <2>1. /\ Inserting(r) /\ pc = "insert" /\ HasChild(Committed(r), at)
        /\ ~ IsPrefix(Child(Committed(r), at), Committed(r))
    BY <1>5 DEF HiCommitSplit, CommitSplit, InsertSplit, Inserting
  <2>2. CoreInv
    BY <2>1, HiIsCore
  <2>. QED  BY <2>1, <2>2, ChildIsPrompt
<1>6. ASSUME NEW r \in Req, CommitEnd(r)
      PROVE  RepeatInv' /\ WalkKeepsPages'
  BY <1>1, <1>6 DEF CommitEnd, Unlock, Nodes
<1>7. CASE MatchCpuChild \/ PromoteDone
  <2>1. Nodes' = Nodes /\ hit' = hit
    BY <1>7 DEF MatchCpuChild, PromoteDone, Promote, reqVars, Nodes
  <2>2. at = 0 /\ at' = at
    BY <1>7, WalkIsPrompt DEF MatchCpuChild, PromoteDone
  <2>. QED  BY <1>1, <2>1, <2>2
<1>8. CASE MatchGpuChild
  <2>1. PICK c \in Req : c = cur /\ pc = "match"
    BY <1>8, MatchFacts DEF MatchGpuChild
  <2>2. /\ hit' = [hit EXCEPT ![c] = Len(Keys(Prompt[c]))]
        /\ UNCHANGED <<page, tier, cur>> /\ Nodes' = Nodes /\ Query' = Query
    BY <1>8, <2>1, ChildIsTaken DEF MatchGpuChild, hiVars, Nodes, Query
  <2>3. RepeatInv'
    BY <1>0, <2>2 DEF RepeatInv
  <2>4. \A p : p \in InTier("GPU") => p \in InTier("GPU")'
    BY <2>2, NodesKeepOwners DEF InTier
  <2>5. WalkKeepsPages'
    BY <1>8, <2>2, <2>4, ChildIsTaken DEF WalkKeepsPages
  <2>. QED  BY <2>3, <2>5
<1>9. CASE MatchEnd \/ HiAllocDone
  BY <1>1, <1>9 DEF MatchEnd, HiAllocDone, AllocDone, Nodes
<1>10. CASE PromoteFail \/ HiAllocFail
  <2>1. Nodes' = Nodes /\ hit' = [hit EXCEPT ![cur] = 0] /\ pc' = "idle"
    BY <1>10 DEF PromoteFail, HiAllocFail, Unlock, Nodes
  <2>. QED  BY <1>0, <1>1, <2>1
<1>11. CASE HiEvict
  <2>1. EvictStep(Asked) /\ UNCHANGED <<reqVars, pc, at>> /\ pc \in {"promote", "allocate"}
    BY <1>11 DEF HiEvict
  <2>2. Nodes' \subseteq Nodes
    BY <2>1 DEF EvictStep, EvictStart, EvictDemote, EvictMakeRoom, DropCpuLeaf, DemoteVictim,
                DropVictim, SkipVictim, Demote, DropNode, cacheVars, Nodes
  <2>3. hit' = hit /\ (pc' \in {"match", "promote"} => at' = 0)
    BY <2>1, WalkIsPrompt DEF reqVars
  <2>. QED  BY <1>1, <2>2, <2>3
<1>12. CASE UNCHANGED hvars
  <2>1. UNCHANGED <<page, ref, tier, hit, table, pc, cur, at>> /\ Nodes' = Nodes /\ Query' = Query
    BY <1>12 DEF hvars, vars, hiVars, cacheVars, reqVars, Nodes, Query
  <2>2. \A p : p \in InTier("GPU") => p \in InTier("GPU")'
    BY <2>1, NodesKeepOwners DEF InTier
  <2>. QED  BY <2>1, <2>2 DEF RepeatInv, WalkKeepsPages
<1>. QED  BY <1>2, <1>3, <1>4, <1>5, <1>6, <1>7, <1>8, <1>9, <1>10, <1>11, <1>12
          DEF HiNext, Retire, Abort, Terminated, hvars

\* Where the same prompts come again and no answer fills a page, the two tiers are safe
\* as they are: what is locked is in GPU memory, what is borrowed stays, and no page of
\* GPU memory has two owners, whatever is demoted, dropped, promoted, retracted or aborted.
THEOREM HiRepeatedPromptsKeepPages ==
    ASSUME RepeatedPrompts
    PROVE  HiSpec => [](LockedOnGpu /\ HiBorrowedPagesPinned /\ HiSingleOwner)
<1>1. HiEngineInit => HiRepeatInv
  BY DEF HiEngineInit, Init, CacheInit, HiRepeatInv, RepeatInv, WalkKeepsPages, Nodes
<1>2. HiRepeatInv => WalkKeepsPages
  BY DEF HiRepeatInv
<1>3. HiSpec => [](HiInv /\ HoldInv /\ HiRepeatInv)
  BY <1>1, <1>2, HiRepeatInductive, InitHiInv, HiInvIsInductive, InitHoldInv, HoldInductive,
     PTL DEF HiSpec
<1>4. HiInv /\ HiRepeatInv => BorrowsWholeEdges
  <2>1. HiInv /\ RepeatInv /\ pc # "promote" => BorrowsWholeEdges
    BY HiIsCore, RepeatMeetsConditions
  <2>2. pc = "promote" => BorrowsWholeEdges
    BY DEF BorrowsWholeEdges, Inserting
  <2>. QED  BY <2>1, <2>2 DEF HiRepeatInv
<1>5. HiSpec => []WalkKeepsPages /\ []BorrowsWholeEdges
  BY <1>2, <1>3, <1>4, PTL
<1>. QED  BY <1>5, LockedNodesOnGpu, HiBorrowedPagesStay, HiOnlyPartialBorrowsShare, PTL
=============================================================================
