-------------------------- MODULE RadixCacheProofs --------------------------
(***************************************************************************)
(* Prefixes of sequences and page counts; and the tree of RadixCache.tla   *)
(* keeps its shape: what the operators that read it return, and that       *)
(* inserting a leaf, splitting an edge and evicting a leaf each preserve   *)
(* the invariant TreeInv.                                                  *)
(***************************************************************************)
EXTENDS RadixCache, CollectionLemmas

-----------------------------------------------------------------------------
(* Prefixes, greatest numbers, pages *)

\* A prefix agrees with the longer sequence at each of its positions.
LEMMA PrefixPointwise ==
    ASSUME NEW K, NEW s \in Seq(K), NEW t \in Seq(K)
    PROVE  IsPrefix(s, t) <=> Len(s) <= Len(t) /\ \A i \in 1 .. Len(s) : s[i] = t[i]
<1>1. ASSUME Len(s) <= Len(t), SubSeq(s, 1, Len(s)) = SubSeq(t, 1, Len(s))
      PROVE  \A i \in 1 .. Len(s) : s[i] = t[i]
  BY <1>1
<1>2. ASSUME Len(s) <= Len(t), \A i \in 1 .. Len(s) : s[i] = t[i]
      PROVE  SubSeq(s, 1, Len(s)) = SubSeq(t, 1, Len(s))
  BY <1>2
<1>. QED  BY <1>1, <1>2 DEF IsPrefix

LEMMA PrefixReflexive ==
    ASSUME NEW K, NEW s \in Seq(K)
    PROVE  IsPrefix(s, s)
BY PrefixPointwise

LEMMA PrefixTransitive ==
    ASSUME NEW K, NEW s \in Seq(K), NEW t \in Seq(K), NEW u \in Seq(K),
           IsPrefix(s, t), IsPrefix(t, u)
    PROVE  IsPrefix(s, u)
BY PrefixPointwise, LenProperties

LEMMA PrefixAntisymmetric ==
    ASSUME NEW K, NEW s \in Seq(K), NEW t \in Seq(K), IsPrefix(s, t), IsPrefix(t, s)
    PROVE  s = t
BY PrefixPointwise, SeqEqual, LenProperties

\* Two prefixes of one sequence are ordered by length.
LEMMA PrefixesComparable ==
    ASSUME NEW K, NEW s \in Seq(K), NEW t \in Seq(K), NEW u \in Seq(K),
           IsPrefix(s, u), IsPrefix(t, u), Len(s) <= Len(t)
    PROVE  IsPrefix(s, t)
BY PrefixPointwise, LenProperties

\* The first k elements of a sequence are its prefix of length k.
LEMMA PrefixOfProperties ==
    ASSUME NEW K, NEW q \in Seq(K), NEW k \in 0 .. Len(q)
    PROVE  /\ PrefixOf(q, k) \in Seq(K)
           /\ Len(PrefixOf(q, k)) = k
           /\ \A i \in 1 .. k : PrefixOf(q, k)[i] = q[i]
           /\ IsPrefix(PrefixOf(q, k), q)
<1>1. /\ PrefixOf(q, k) \in Seq(K)
      /\ Len(PrefixOf(q, k)) = k
      /\ \A i \in 1 .. k : PrefixOf(q, k)[i] = q[i]
  BY LenProperties, ElementOfSeq, SubSeqProperties DEF PrefixOf
<1>. QED  BY <1>1, PrefixPointwise

\* Every prefix is one of these.
LEMMA PrefixIsPrefixOf ==
    ASSUME NEW K, NEW q \in Seq(K), NEW p \in Seq(K), IsPrefix(p, q)
    PROVE  Len(p) \in 0 .. Len(q) /\ p = PrefixOf(q, Len(p))
<1>1. Len(p) \in 0 .. Len(q)
  BY PrefixPointwise, LenProperties
<1>2. \A i \in 1 .. Len(p) : p[i] = PrefixOf(q, Len(p))[i]
  BY <1>1, PrefixPointwise, PrefixOfProperties
<1>. QED  BY <1>1, <1>2, PrefixOfProperties, SeqEqual

LEMMA PrefixOfPrefixOf ==
    ASSUME NEW K, NEW q \in Seq(K), NEW k \in 0 .. Len(q), NEW j \in 0 .. k
    PROVE  /\ PrefixOf(PrefixOf(q, k), j) = PrefixOf(q, j)
           /\ IsPrefix(PrefixOf(q, j), PrefixOf(q, k))
<1>1. /\ PrefixOf(q, k) \in Seq(K) /\ Len(PrefixOf(q, k)) = k
      /\ \A i \in 1 .. k : PrefixOf(q, k)[i] = q[i]
  BY PrefixOfProperties
<1>2. /\ PrefixOf(q, j) \in Seq(K) /\ Len(PrefixOf(q, j)) = j
      /\ \A i \in 1 .. j : PrefixOf(q, j)[i] = q[i]
  BY PrefixOfProperties
<1>3. IsPrefix(PrefixOf(q, j), PrefixOf(q, k))
  BY <1>1, <1>2, PrefixPointwise
<1>. QED  BY <1>1, <1>2, <1>3, PrefixIsPrefixOf

LEMMA PrefixOfWhole ==
    ASSUME NEW K, NEW q \in Seq(K)
    PROVE  PrefixOf(q, Len(q)) = q
BY PrefixReflexive, PrefixIsPrefixOf

\* The pages of fewer tokens fit into the pages of more.
LEMMA PagesMonotonic ==
    ASSUME PageSize \in Nat \ {0}, NEW m \in Nat, NEW n \in Nat, m <= n
    PROVE  /\ WholePages(m) \in Nat /\ PagesNeeded(n) \in Nat
           /\ WholePages(m) <= PagesNeeded(n)
           /\ PagesNeeded(m) <= PagesNeeded(n)
           /\ \A i \in 1 .. WholePages(m) : (i - 1) * PageSize \in Nat /\ i * PageSize <= m
BY DEF WholePages, PagesNeeded

-----------------------------------------------------------------------------
(* The tree *)

\* The tree over keys of K: closed under prefixes, its nodes are in it, and above
\* each of its prefixes stands one node that all deeper nodes go through.
TreeInv(K) ==
    /\ \A p \in DOMAIN page : p \in Seq(K) /\ p # << >>
    /\ Nodes \subseteq DOMAIN page
    /\ \A p \in DOMAIN page : \A i \in 1 .. Len(p) : PrefixOf(p, i) \in DOMAIN page
    /\ \A p \in DOMAIN page :
          \E n \in Nodes : /\ IsPrefix(p, n)
                           /\ \A m \in Nodes : IsPrefix(p, m) => IsPrefix(n, m)

\* The owner of a prefix is the node at or above which the prefix branches off
\* nowhere: every node below the prefix is below its owner.
LEMMA OwnerProperties ==
    ASSUME NEW K, TreeInv(K), NEW p \in DOMAIN page
    PROVE  /\ OwnerNode(p) \in Nodes
           /\ IsPrefix(p, OwnerNode(p))
           /\ \A m \in Nodes : IsPrefix(p, m) => IsPrefix(OwnerNode(p), m)
<1>. \A m \in Nodes : m \in Seq(K) /\ Len(m) \in Nat
  BY LenProperties DEF TreeInv
<1>1. PICK n \in Nodes : /\ IsPrefix(p, n)
                         /\ \A m \in Nodes : IsPrefix(p, m) => IsPrefix(n, m)
  BY DEF TreeInv
<1>2. \A m \in Nodes : IsPrefix(p, m) => Len(n) <= Len(m)
  BY <1>1, PrefixPointwise
<1>3. /\ OwnerNode(p) \in Nodes
      /\ IsPrefix(p, OwnerNode(p))
      /\ \A m \in Nodes : IsPrefix(p, m) => Len(OwnerNode(p)) <= Len(m)
  BY <1>1, <1>2 DEF OwnerNode
<1>4. IsPrefix(n, OwnerNode(p)) /\ Len(OwnerNode(p)) <= Len(n)
  BY <1>1, <1>3
<1>5. OwnerNode(p) = n
  BY <1>3, <1>4, PrefixPointwise, SeqEqual
<1>. QED  BY <1>1, <1>3, <1>5

\* A node owns its own prefix, and two nodes that own prefixes of one another are
\* the same.
LEMMA NodeOwnsItself ==
    ASSUME NEW K, TreeInv(K), NEW n \in Nodes
    PROVE  OwnerNode(n) = n
<1>1. n \in DOMAIN page /\ n \in Seq(K)
  BY DEF TreeInv
<1>2. /\ OwnerNode(n) \in Nodes /\ IsPrefix(n, OwnerNode(n)) /\ IsPrefix(OwnerNode(n), n)
  BY <1>1, OwnerProperties, PrefixReflexive
<1>. QED  BY <1>1, <1>2, PrefixAntisymmetric DEF TreeInv

\* Among any nodes at most one has these properties of an owner.
LEMMA OwnerIsUnique ==
    ASSUME NEW K, NEW N \in SUBSET Seq(K), NEW p \in Seq(K), NEW o \in N,
           IsPrefix(p, o), \A m \in N : IsPrefix(p, m) => IsPrefix(o, m)
    PROVE  \A n \in N : (/\ IsPrefix(p, n)
                         /\ \A m \in N : IsPrefix(p, m) => Len(n) <= Len(m)) <=> n = o
<1>. \A m \in N : m \in Seq(K) /\ Len(m) \in Nat
  BY LenProperties
<1>1. IsPrefix(p, o) /\ \A m \in N : IsPrefix(p, m) => Len(o) <= Len(m)
  BY PrefixPointwise
<1>2. ASSUME NEW n \in N, IsPrefix(p, n), \A m \in N : IsPrefix(p, m) => Len(n) <= Len(m)
      PROVE  n = o
  <2>1. IsPrefix(o, n) /\ Len(n) <= Len(o)
    BY <1>2
  <2>. QED  BY <2>1, PrefixPointwise, SeqEqual
<1>. QED  BY <1>1, <1>2

\* The owner of a prefix in the next state.
LEMMA NextOwner ==
    ASSUME NEW K, NEW p \in Seq(K), NEW o \in Nodes', Nodes' \in SUBSET Seq(K),
           IsPrefix(p, o), \A m \in Nodes' : IsPrefix(p, m) => IsPrefix(o, m)
    PROVE  OwnerNode(p)' = o
<1>1. \A n \in Nodes' : (/\ IsPrefix(p, n)
                         /\ \A m \in Nodes' : IsPrefix(p, m) => Len(n) <= Len(m)) <=> n = o
  BY OwnerIsUnique
<1>. QED  BY <1>1 DEF OwnerNode

\* Prefixes of a prefix in the tree are in the tree.
LEMMA ClosedUnderPrefixes ==
    ASSUME NEW K, TreeInv(K), NEW p \in DOMAIN page,
           NEW s \in Seq(K), s # << >>, IsPrefix(s, p)
    PROVE  s \in DOMAIN page
<1>1. p \in Seq(K)
  BY DEF TreeInv
<1>2. Len(s) \in 1 .. Len(p) /\ s = PrefixOf(p, Len(s))
  BY <1>1, PrefixIsPrefixOf, EmptySeq
<1>. QED  BY <1>2 DEF TreeInv

\* match_prefix: the walk ends where the tree has no further page of q.
LEMMA MatchLenProperties ==
    ASSUME NEW K, NEW q \in Seq(K)
    PROVE  /\ MatchLen(q) \in 0 .. Len(q)
           /\ \A i \in 1 .. MatchLen(q) : PrefixOf(q, i) \in DOMAIN page
           /\ MatchLen(q) < Len(q) => PrefixOf(q, MatchLen(q) + 1) \notin DOMAIN page
<1>. Len(q) \in Nat
  BY LenProperties
<1>. DEFINE Ends == {k \in 0 .. Len(q) : k < Len(q) => PrefixOf(q, k + 1) \notin DOMAIN page}
<1>1. Len(q) \in Ends /\ Ends \in SUBSET Nat
  OBVIOUS
<1>2. PICK k \in Ends : \A j \in Ends : k <= j
  BY <1>1, LeastNatural
<1>3. \A i \in 1 .. k : PrefixOf(q, i) \in DOMAIN page
  <2>1. SUFFICES ASSUME NEW i \in 1 .. k
                 PROVE  PrefixOf(q, i) \in DOMAIN page
    OBVIOUS
  <2>2. k \in 0 .. Len(q)
    OBVIOUS
  <2>3. i - 1 \in 0 .. Len(q) /\ i - 1 < Len(q) /\ (i - 1) + 1 = i /\ ~ (k <= i - 1)
    BY <2>2
  <2>4. i - 1 \notin Ends
    BY <1>2, <2>3
  <2>. QED  BY <2>3, <2>4
<1>. QED  BY <1>2, <1>3 DEF MatchLen

\* last_node is the root or a node.
LEMMA LastNodeProperties ==
    ASSUME NEW K, TreeInv(K), NEW q \in Seq(K)
    PROVE  LastNode(q) \in Nodes \cup {Root}
<1>1. MatchLen(q) # 0 => PrefixOf(q, MatchLen(q)) \in DOMAIN page
  BY MatchLenProperties, LenProperties
<1>. QED  BY <1>1, OwnerProperties DEF LastNode

\* Going on below a prefix as far as its owner, the owner stays the same.
LEMMA SameOwner ==
    ASSUME NEW K, TreeInv(K), NEW first \in DOMAIN page, NEW p \in Seq(K),
           IsPrefix(first, p), IsPrefix(p, OwnerNode(first))
    PROVE  p \in DOMAIN page /\ OwnerNode(p) = OwnerNode(first)
<1>. DEFINE c == OwnerNode(first)
            o == OwnerNode(p)
<1>1. /\ first \in Seq(K) /\ first # << >>
      /\ c \in Nodes /\ c \in DOMAIN page /\ c \in Seq(K)
      /\ \A m \in Nodes : IsPrefix(first, m) => IsPrefix(c, m)
  BY OwnerProperties DEF TreeInv
<1>2. p # << >>
  BY <1>1, PrefixPointwise, EmptySeq, SeqEqual
<1>3. p \in DOMAIN page
  BY <1>1, <1>2, ClosedUnderPrefixes
<1>4. o \in Nodes /\ o \in Seq(K) /\ IsPrefix(p, o) /\ IsPrefix(o, c)
  BY <1>1, <1>3, OwnerProperties DEF TreeInv
<1>5. IsPrefix(first, o)
  BY <1>1, <1>4, PrefixTransitive
<1>6. IsPrefix(c, o)
  BY <1>1, <1>4, <1>5
<1>. QED  BY <1>1, <1>3, <1>4, <1>6, PrefixAntisymmetric

\* The prefixes of q longer than a, which a new leaf adds, are Len(q) - a.
LEMMA PrefixesCounted ==
    ASSUME NEW K, NEW q \in Seq(K), NEW a \in 0 .. Len(q)
    PROVE  LET S == {PrefixOf(q, i) : i \in a + 1 .. Len(q)}
           IN  IsFiniteSet(S) /\ Cardinality(S) = Len(q) - a
<1>. DEFINE S == {PrefixOf(q, i) : i \in a + 1 .. Len(q)}
            I == a + 1 .. Len(q)
            f == [i \in I |-> PrefixOf(q, i)]
<1>1. Len(q) \in Nat /\ a \in Nat /\ a + 1 \in Int /\ Len(q) \in Int
  BY LenProperties
<1>2. IsFiniteSet(I) /\ Cardinality(I) = Len(q) - a
  <2>1. /\ IsFiniteSet(I)
        /\ Cardinality(I) = IF a + 1 > Len(q) THEN 0 ELSE Len(q) - (a + 1) + 1
    BY <1>1, FS_Interval, Zenon
  <2>. HIDE DEF I
  <2>. QED  BY <1>1, <2>1
<1>3. f \in Surjection(I, S)
  BY DEF Surjection, Range
<1>4. \A i, j \in I : f[i] = f[j] => i = j
  <2>1. \A i \in I : Len(PrefixOf(q, i)) = i
    BY <1>1, PrefixOfProperties
  <2>. QED  BY <2>1
<1>5. f \in Injection(I, S)
  BY <1>3, <1>4 DEF Injection, IsInjective, Surjection
<1>. HIDE DEF I, S, f
<1>6. IsFiniteSet(S) /\ Cardinality(S) = Cardinality(I)
  BY <1>2, <1>3, <1>5, FS_Surjection
<1>. QED  BY <1>2, <1>6 DEF S

\* The edge of a node holds the last prefixes of the node, from a first one on.
LEMMA EdgeIsInterval ==
    ASSUME NEW K, TreeInv(K), NEW n \in Nodes
    PROVE  /\ IsFiniteSet(Edge(n)) /\ Cardinality(Edge(n)) \in Nat \ {0}
           /\ EdgeStart(n) \in Nat /\ Len(n) = EdgeStart(n) + Cardinality(Edge(n))
           /\ Edge(n) = {PrefixOf(n, i) : i \in EdgeStart(n) + 1 .. Len(n)}
<1>. n \in Seq(K) /\ n \in DOMAIN page /\ Len(n) \in Nat /\ n # << >>
  BY LenProperties DEF TreeInv
<1>1. \A i \in 1 .. Len(n) :
         /\ PrefixOf(n, i) \in DOMAIN page /\ PrefixOf(n, i) \in Seq(K)
         /\ IsPrefix(PrefixOf(n, i), n)
  BY PrefixOfProperties DEF TreeInv
<1>. DEFINE Lens == {i \in 1 .. Len(n) : OwnerNode(PrefixOf(n, i)) = n}
<1>2. Len(n) \in Lens /\ Lens \in SUBSET Nat
  BY PrefixOfWhole, NodeOwnsItself, EmptySeq
<1>3. PICK a \in Lens : \A j \in Lens : a <= j
  BY <1>2, LeastNatural
<1>4. a \in 1 .. Len(n) /\ OwnerNode(PrefixOf(n, a)) = n
  OBVIOUS
<1>5. ASSUME NEW i \in a .. Len(n)
      PROVE  OwnerNode(PrefixOf(n, i)) = n
  <2>1. i \in 1 .. Len(n) /\ a \in 0 .. i
    BY <1>4
  <2>2. IsPrefix(PrefixOf(n, a), PrefixOf(n, i))
    BY <2>1, PrefixOfPrefixOf
  <2>. QED  BY <1>1, <1>4, <2>1, <2>2, SameOwner
<1>. DEFINE ends == {PrefixOf(n, i) : i \in (a - 1) + 1 .. Len(n)}
<1>6. Edge(n) = ends
  <2>1. ASSUME NEW p \in Edge(n)
        PROVE  p \in ends
    <3>1. p \in Seq(K) /\ p # << >> /\ IsPrefix(p, n) /\ OwnerNode(p) = n
      BY DEF Edge, TreeInv
    <3>2. Len(p) \in 1 .. Len(n) /\ p = PrefixOf(n, Len(p))
      BY <3>1, PrefixIsPrefixOf, EmptySeq
    <3>3. a <= Len(p)
      BY <1>3, <3>1, <3>2
    <3>4. Len(p) \in (a - 1) + 1 .. Len(n)
      BY <1>4, <3>2, <3>3
    <3>. QED  BY <3>2, <3>4
  <2>2. ASSUME NEW i \in (a - 1) + 1 .. Len(n)
        PROVE  PrefixOf(n, i) \in Edge(n)
    <3>1. i \in 1 .. Len(n) /\ i \in a .. Len(n)
      BY <1>4
    <3>. QED  BY <1>1, <1>5, <3>1 DEF Edge
  <2>. QED  BY <2>1, <2>2
<1>7. a - 1 \in 0 .. Len(n)
  BY <1>4
<1>8. IsFiniteSet(ends) /\ Cardinality(ends) = Len(n) - (a - 1)
  BY <1>7, PrefixesCounted
<1>. HIDE DEF ends
<1>9. EdgeStart(n) = a - 1
  BY <1>4, <1>6, <1>8 DEF EdgeStart
<1>. QED  BY <1>4, <1>6, <1>8, <1>9 DEF ends

\* The pages of a node are those of the prefixes on its edge, by their length.
LEMMA EdgePlaces ==
    ASSUME NEW K, TreeInv(K), NEW n \in Nodes
    PROVE  /\ \A p \in Edge(n) : /\ Len(p) - EdgeStart(n) \in 1 .. Cardinality(Edge(n))
                                /\ p = PrefixOf(n, Len(p))
           /\ \A i \in 1 .. Cardinality(Edge(n)) :
                 /\ PrefixOf(n, EdgeStart(n) + i) \in Edge(n)
                 /\ Len(PrefixOf(n, EdgeStart(n) + i)) = EdgeStart(n) + i
<1>. n \in Seq(K) /\ Len(n) \in Nat
  BY LenProperties DEF TreeInv
<1>1. /\ Cardinality(Edge(n)) \in Nat
      /\ EdgeStart(n) \in Nat /\ Len(n) = EdgeStart(n) + Cardinality(Edge(n))
      /\ Edge(n) = {PrefixOf(n, i) : i \in EdgeStart(n) + 1 .. Len(n)}
  BY EdgeIsInterval
<1>2. \A i \in EdgeStart(n) + 1 .. Len(n) : Len(PrefixOf(n, i)) = i
  BY <1>1, PrefixOfProperties
<1>3. ASSUME NEW p \in Edge(n)
      PROVE  Len(p) - EdgeStart(n) \in 1 .. Cardinality(Edge(n)) /\ p = PrefixOf(n, Len(p))
  <2>1. PICK i \in EdgeStart(n) + 1 .. Len(n) : p = PrefixOf(n, i)
    BY <1>1
  <2>2. Len(p) = i
    BY <1>2, <2>1
  <2>. QED  BY <1>1, <2>1, <2>2
<1>4. ASSUME NEW i \in 1 .. Cardinality(Edge(n))
      PROVE  /\ PrefixOf(n, EdgeStart(n) + i) \in Edge(n)
             /\ Len(PrefixOf(n, EdgeStart(n) + i)) = EdgeStart(n) + i
  <2>1. EdgeStart(n) + i \in EdgeStart(n) + 1 .. Len(n)
    BY <1>1
  <2>. QED  BY <1>1, <1>2, <2>1
<1>. QED  BY <1>3, <1>4

\* They are all in the tree.
LEMMA EdgeProperties ==
    ASSUME NEW K, TreeInv(K), NEW n \in Nodes
    PROVE  /\ Cardinality(Edge(n)) \in Nat
           /\ EdgeStart(n) \in Nat
           /\ \A i \in 1 .. Cardinality(Edge(n)) : PrefixOf(n, EdgeStart(n) + i) \in DOMAIN page
<1>1. Edge(n) \subseteq DOMAIN page
  BY DEF Edge
<1>. QED  BY <1>1, EdgeIsInterval, EdgePlaces

\* An edge that q follows at least one page has a last page that q follows.
LEMMA SplitPointProperties ==
    ASSUME NEW K, TreeInv(K), NEW q \in Seq(K), NEW at \in Nat, at < Len(q), HasChild(q, at)
    PROVE  /\ SplitPoint(q, at) \in at + 1 .. Len(q)
           /\ IsPrefix(PrefixOf(q, SplitPoint(q, at)), Child(q, at))
           /\ SplitPoint(q, at) < Len(q) =>
                 ~ IsPrefix(PrefixOf(q, SplitPoint(q, at) + 1), Child(q, at))
<1>. Len(q) \in Nat
  BY LenProperties
<1>. DEFINE c == Child(q, at)
<1>. DEFINE Ends == {k \in at + 1 .. Len(q) :
                        k < Len(q) => ~ IsPrefix(PrefixOf(q, k + 1), c)}
<1>1. Len(q) \in Ends /\ Ends \in SUBSET Nat
  OBVIOUS
<1>2. PICK k \in Ends : \A j \in Ends : k <= j
  BY <1>1, LeastNatural
<1>3. k \in at + 1 .. Len(q)
  OBVIOUS
<1>4. IsPrefix(PrefixOf(q, k), c)
  <2>1. CASE k = at + 1
    BY <2>1, OwnerProperties DEF HasChild, Child
  <2>2. CASE k # at + 1
    <3>1. /\ k - 1 \in at + 1 .. Len(q) /\ k - 1 < Len(q)
          /\ (k - 1) + 1 = k /\ ~ (k <= k - 1)
      BY <1>3, <2>2
    <3>2. k - 1 \notin Ends
      BY <1>2, <3>1
    <3>. QED  BY <3>1, <3>2
  <2>. QED  BY <2>1, <2>2
<1>. HIDE DEF c
<1>5. \E k1 \in at + 1 .. Len(q) :
         /\ IsPrefix(PrefixOf(q, k1), c)
         /\ k1 < Len(q) => ~ IsPrefix(PrefixOf(q, k1 + 1), c)
  BY <1>2, <1>3, <1>4
<1>. QED  BY <1>5 DEF SplitPoint, c

\* _split_node keeps the shape of the tree: the prefixes up to the new node are
\* now owned by it, all others as before.
LEMMA SplitKeepsTree ==
    ASSUME NEW K, TreeInv(K), NEW q \in Seq(K), NEW at \in Nat, at < Len(q),
           InsertSplit(q, at)
    PROVE  /\ TreeInv(K)'
           /\ \A p \in DOMAIN page :
                 \/ OwnerNode(p)' = OwnerNode(p)
                 \/ /\ OwnerNode(p) = Child(q, at)
                    /\ OwnerNode(p)' = PrefixOf(q, SplitPoint(q, at))
<1>. DEFINE first == PrefixOf(q, at + 1)
            c     == Child(q, at)
            upper == PrefixOf(q, SplitPoint(q, at))
<1>1. /\ page' = page
      /\ Nodes' = Nodes \cup {upper}
  BY DEF InsertSplit, Nodes
<1>2. /\ HasChild(q, at) /\ Len(q) \in Nat
      /\ SplitPoint(q, at) \in at + 1 .. Len(q)
      /\ IsPrefix(upper, c)
  BY SplitPointProperties, LenProperties DEF InsertSplit
<1>3. /\ first \in DOMAIN page /\ c \in Nodes /\ c \in DOMAIN page /\ c \in Seq(K)
      /\ \A m \in Nodes : IsPrefix(first, m) => IsPrefix(c, m)
  BY <1>2, OwnerProperties DEF HasChild, Child, TreeInv
<1>4. /\ upper \in Seq(K) /\ upper # << >> /\ first \in Seq(K)
      /\ IsPrefix(first, upper)
  BY <1>2, PrefixOfProperties, PrefixOfPrefixOf, EmptySeq
<1>5. upper \in DOMAIN page
  BY <1>2, <1>3, <1>4, ClosedUnderPrefixes
<1>6. ASSUME NEW p \in DOMAIN page
      PROVE  \E n \in Nodes' :
                /\ n = OwnerNode(p) \/ (OwnerNode(p) = c /\ n = upper)
                /\ IsPrefix(p, n)
                /\ \A m \in Nodes' : IsPrefix(p, m) => IsPrefix(n, m)
  <2>. DEFINE o == OwnerNode(p)
  <2>1. /\ p \in Seq(K) /\ o \in Nodes /\ o \in Seq(K) /\ IsPrefix(p, o)
        /\ \A m \in Nodes : m \in Seq(K) /\ (IsPrefix(p, m) => IsPrefix(o, m))
    BY OwnerProperties DEF TreeInv
  <2>. HIDE DEF o, upper, c, first
  <2>2. CASE ~ IsPrefix(p, upper)
    BY <1>1, <2>1, <2>2 DEF o
  <2>3. CASE IsPrefix(p, upper) /\ o = c
    <3>1. \A m \in Nodes : IsPrefix(p, m) => IsPrefix(upper, m)
      BY <1>2, <1>3, <1>4, <2>1, <2>3, PrefixTransitive
    <3>. QED  BY <1>1, <1>4, <2>3, <3>1, PrefixReflexive DEF o
  <2>4. CASE IsPrefix(p, upper) /\ o # c
    <3>1. IsPrefix(p, c)
      BY <1>2, <1>3, <1>4, <2>1, <2>4, PrefixTransitive
    <3>2. IsPrefix(o, c)
      BY <1>3, <2>1, <3>1
    <3>3. ~ IsPrefix(upper, o)
      <4>1. SUFFICES ASSUME IsPrefix(upper, o)
                     PROVE  FALSE
        OBVIOUS
      <4>2. IsPrefix(first, o)
        BY <1>4, <2>1, <4>1, PrefixTransitive
      <4>3. IsPrefix(c, o)
        BY <1>3, <2>1, <4>2
      <4>. QED  BY <1>3, <2>1, <2>4, <3>2, <4>3, PrefixAntisymmetric
    <3>4. IsPrefix(o, upper)
      BY <1>2, <1>3, <1>4, <2>1, <3>2, <3>3, PrefixesComparable, LenProperties
    <3>. QED  BY <1>1, <2>1, <3>4 DEF o
  <2>. QED  BY <2>2, <2>3, <2>4 DEF o
<1>. HIDE DEF upper, c, first
<1>7. TreeInv(K)'
  BY <1>1, <1>5, <1>6 DEF TreeInv
<1>8. \A p \in DOMAIN page : p \in Seq(K) /\ Nodes' \in SUBSET Seq(K)
  BY <1>1, <1>4 DEF TreeInv
<1>9. \A p \in DOMAIN page : \/ OwnerNode(p)' = OwnerNode(p)
                             \/ (OwnerNode(p) = c /\ OwnerNode(p)' = upper)
  <2>1. SUFFICES ASSUME NEW p \in DOMAIN page
                 PROVE  \/ OwnerNode(p)' = OwnerNode(p)
                        \/ (OwnerNode(p) = c /\ OwnerNode(p)' = upper)
    OBVIOUS
  <2>2. PICK n \in Nodes' :
           /\ n = OwnerNode(p) \/ (OwnerNode(p) = c /\ n = upper)
           /\ IsPrefix(p, n)
           /\ \A m \in Nodes' : IsPrefix(p, m) => IsPrefix(n, m)
    BY <1>6
  <2>3. OwnerNode(p)' = n
    BY <1>8, <2>2, NextOwner
  <2>. QED  BY <2>2, <2>3
<1>. QED  BY <1>7, <1>9 DEF upper, c

\* A new leaf keeps the shape of the tree, when the walk stands at the root or
\* at a node.
LEMMA LeafKeepsTree ==
    ASSUME NEW K, TreeInv(K), NEW q \in Seq(K), NEW pages, NEW at \in Nat, at < Len(q),
           at = 0 \/ PrefixOf(q, at) \in Nodes,
           InsertLeaf(q, pages, at)
    PROVE  /\ TreeInv(K)'
           /\ DOMAIN page' = DOMAIN page \cup {PrefixOf(q, i) : i \in at + 1 .. Len(q)}
           /\ \A m \in Nodes : ~ IsPrefix(q, m)
           /\ \A p \in DOMAIN page : OwnerNode(p)' = OwnerNode(p)
           /\ \A p \in {PrefixOf(q, i) : i \in at + 1 .. Len(q)} :
                 p \notin DOMAIN page /\ OwnerNode(p)' = q
<1>. DEFINE new == {PrefixOf(q, i) : i \in at + 1 .. Len(q)}
<1>1. /\ DOMAIN page' = DOMAIN page \cup new
      /\ Nodes' = Nodes \cup {q}
  BY DEF InsertLeaf, Nodes
<1>2. Len(q) \in Nat /\ PrefixOf(q, at + 1) \notin DOMAIN page
  BY LenProperties DEF InsertLeaf, HasChild
<1>3. \A i \in 1 .. Len(q) : /\ PrefixOf(q, i) \in Seq(K) /\ Len(PrefixOf(q, i)) = i
                             /\ PrefixOf(q, i) # << >>
                             /\ IsPrefix(PrefixOf(q, i), q)
  BY <1>2, PrefixOfProperties, EmptySeq
<1>4. \A i \in 1 .. Len(q) : \A j \in 1 .. i : PrefixOf(PrefixOf(q, i), j) = PrefixOf(q, j)
  BY <1>2, PrefixOfPrefixOf
\* What q shares with the tree is at most its first at pages.
<1>5. \A p \in DOMAIN page : IsPrefix(p, q) =>
         /\ at # 0
         /\ Len(p) \in 1 .. at
         /\ p = PrefixOf(q, Len(p))
  <2>1. SUFFICES ASSUME NEW p \in DOMAIN page, IsPrefix(p, q)
                 PROVE  Len(p) \in 1 .. at /\ p = PrefixOf(q, Len(p))
    OBVIOUS
  <2>2. /\ p \in Seq(K) /\ p # << >>
        /\ Len(p) \in 0 .. Len(q) /\ p = PrefixOf(q, Len(p))
    BY <2>1, PrefixIsPrefixOf DEF TreeInv
  <2>3. Len(p) # 0
    BY <2>2, EmptySeq
  <2>4. ASSUME Len(p) > at
        PROVE  FALSE
    <3>1. at + 1 \in 1 .. Len(p) /\ Len(p) \in 1 .. Len(q)
      BY <2>2, <2>4
    <3>2. PrefixOf(p, at + 1) \in DOMAIN page
      BY <3>1 DEF TreeInv
    <3>3. PrefixOf(p, at + 1) = PrefixOf(q, at + 1)
      BY <1>4, <2>2, <3>1
    <3>. QED  BY <1>2, <3>2, <3>3
  <2>. QED  BY <2>2, <2>3, <2>4
<1>6. new \cap DOMAIN page = {}
  BY <1>2, <1>3, <1>5
<1>7. q \in new
  BY <1>2, PrefixOfWhole
<1>. HIDE DEF new
<1>8. \A m \in Nodes : ~ IsPrefix(q, m)
  <2>1. Nodes \subseteq DOMAIN page
    BY DEF TreeInv
  <2>2. q # << >> /\ q \notin DOMAIN page
    BY <1>2, <1>6, <1>7, EmptySeq
  <2>. QED  BY <2>1, <2>2, ClosedUnderPrefixes
<1>9. \A p \in DOMAIN page' : \A i \in 1 .. Len(p) : PrefixOf(p, i) \in DOMAIN page'
  <2>1. SUFFICES ASSUME NEW p \in new, NEW j \in 1 .. Len(p)
                 PROVE  PrefixOf(p, j) \in DOMAIN page \cup new
    BY <1>1 DEF TreeInv
  <2>2. PICK i \in at + 1 .. Len(q) : p = PrefixOf(q, i)
    BY DEF new
  <2>3. j \in 1 .. i /\ PrefixOf(p, j) = PrefixOf(q, j)
    BY <1>3, <1>4, <2>2
  <2>4. CASE j > at
    BY <2>3, <2>4 DEF new
  <2>5. CASE j <= at
    <3>1. at \in 1 .. Len(q) /\ j \in 1 .. at /\ PrefixOf(q, at) \in DOMAIN page
      BY <2>3, <2>5 DEF TreeInv
    <3>2. PrefixOf(PrefixOf(q, at), j) \in DOMAIN page
      BY <1>3, <3>1 DEF TreeInv
    <3>. QED  BY <1>4, <2>3, <3>1, <3>2
  <2>. QED  BY <2>3, <2>4, <2>5
<1>10. ASSUME NEW p \in new
       PROVE  /\ p \in Seq(K) /\ p # << >> /\ IsPrefix(p, q)
              /\ \A m \in Nodes' : IsPrefix(p, m) => IsPrefix(q, m)
  <2>1. PICK i \in at + 1 .. Len(q) : p = PrefixOf(q, i)
    BY DEF new
  <2>2. p \in Seq(K) /\ p # << >> /\ IsPrefix(p, q) /\ IsPrefix(q, q)
    BY <1>3, <2>1, PrefixReflexive
  <2>3. \A m \in Nodes : ~ IsPrefix(p, m)
    BY <1>6, <2>2, ClosedUnderPrefixes DEF TreeInv
  <2>. QED  BY <1>1, <2>2, <2>3
<1>11. ASSUME NEW p \in DOMAIN page
       PROVE  /\ p \in Seq(K) /\ p # << >> /\ OwnerNode(p) \in Nodes
              /\ IsPrefix(p, OwnerNode(p))
              /\ \A m \in Nodes' : IsPrefix(p, m) => IsPrefix(OwnerNode(p), m)
  <2>. DEFINE o == OwnerNode(p)
  <2>1. /\ p \in Seq(K) /\ p # << >> /\ o \in Nodes /\ o \in Seq(K) /\ IsPrefix(p, o)
        /\ \A m \in Nodes : IsPrefix(p, m) => IsPrefix(o, m)
    BY OwnerProperties DEF TreeInv
  <2>. HIDE DEF o
  <2>2. ASSUME IsPrefix(p, q)
        PROVE  IsPrefix(o, q)
    <3>1. at # 0 /\ Len(p) \in 1 .. at /\ p = PrefixOf(q, Len(p))
      BY <1>5, <2>2
    <3>2. /\ at \in 1 .. Len(q) /\ PrefixOf(q, at) \in Nodes
          /\ IsPrefix(p, PrefixOf(q, at))
      BY <1>2, <3>1, PrefixOfPrefixOf
    <3>3. IsPrefix(o, PrefixOf(q, at))
      BY <2>1, <3>2
    <3>. QED  BY <1>3, <2>1, <3>2, <3>3, PrefixTransitive
  <2>. QED  BY <1>1, <2>1, <2>2 DEF o
<1>12. /\ \A p \in DOMAIN page' : p \in Seq(K) /\ p # << >>
       /\ Nodes' \subseteq DOMAIN page' /\ Nodes' \in SUBSET Seq(K) /\ q \in Nodes'
  BY <1>1, <1>7, <1>10, <1>11 DEF TreeInv
<1>13. TreeInv(K)'
  BY <1>1, <1>9, <1>10, <1>11, <1>12 DEF TreeInv
<1>14. \A p \in DOMAIN page : OwnerNode(p)' = OwnerNode(p)
  BY <1>1, <1>11, <1>12, NextOwner
<1>15. \A p \in new : OwnerNode(p)' = q
  BY <1>10, <1>12, NextOwner
<1>. QED  BY <1>1, <1>6, <1>8, <1>13, <1>14, <1>15 DEF new

\* A leaf that is taken out with the pages of its edge leaves a tree whose other
\* prefixes have the owners they had.
LEMMA RemovalKeepsTree ==
    ASSUME NEW K, TreeInv(K), NEW n \in Nodes, IsLeaf(n),
           DOMAIN page' = DOMAIN page \ Edge(n), Nodes' = Nodes \ {n}
    PROVE  /\ TreeInv(K)'
           /\ \A p \in DOMAIN page' : OwnerNode(p)' = OwnerNode(p)
<1>1. /\ DOMAIN page' = DOMAIN page \ Edge(n)
      /\ Nodes' = Nodes \ {n}
      /\ IsLeaf(n)
  OBVIOUS
<1>2. \A p \in DOMAIN page : p \in Edge(n) <=> OwnerNode(p) = n
  BY OwnerProperties DEF Edge
<1>3. Nodes' \subseteq DOMAIN page'
  BY <1>1, <1>2, NodeOwnsItself DEF TreeInv
<1>4. ASSUME NEW p \in DOMAIN page', NEW i \in 1 .. Len(p)
      PROVE  PrefixOf(p, i) \in DOMAIN page'
  <2>1. p \in DOMAIN page /\ p \in Seq(K) /\ Len(p) \in Nat /\ OwnerNode(p) # n
    BY <1>1, <1>2, LenProperties DEF TreeInv
  <2>2. /\ PrefixOf(p, i) \in DOMAIN page /\ PrefixOf(p, i) \in Seq(K)
        /\ IsPrefix(PrefixOf(p, i), p)
    BY <2>1, PrefixOfProperties DEF TreeInv
  <2>3. /\ OwnerNode(p) \in Nodes /\ OwnerNode(p) \in Seq(K)
        /\ IsPrefix(PrefixOf(p, i), OwnerNode(p))
    BY <2>1, <2>2, OwnerProperties, PrefixTransitive DEF TreeInv
  <2>4. OwnerNode(PrefixOf(p, i)) # n
    BY <1>1, <2>1, <2>2, <2>3, OwnerProperties DEF IsLeaf
  <2>. QED  BY <1>1, <1>2, <2>2, <2>4
<1>5. ASSUME NEW p \in DOMAIN page'
      PROVE  \E o \in Nodes' : /\ IsPrefix(p, o)
                               /\ \A m \in Nodes' : IsPrefix(p, m) => IsPrefix(o, m)
  <2>1. p \in DOMAIN page /\ OwnerNode(p) # n
    BY <1>1, <1>2
  <2>. QED  BY <1>1, <2>1, OwnerProperties
<1>6. ASSUME NEW p \in DOMAIN page'
      PROVE  OwnerNode(p)' = OwnerNode(p)
  <2>1. /\ p \in DOMAIN page /\ p \in Seq(K) /\ OwnerNode(p) \in Nodes'
        /\ IsPrefix(p, OwnerNode(p))
        /\ \A m \in Nodes' : IsPrefix(p, m) => IsPrefix(OwnerNode(p), m)
    BY <1>1, <1>2, OwnerProperties DEF TreeInv
  <2>2. Nodes' \in SUBSET Seq(K)
    BY <1>1 DEF TreeInv
  <2>. QED  BY <2>1, <2>2, NextOwner
<1>. QED  BY <1>1, <1>3, <1>4, <1>5, <1>6 DEF TreeInv

\* Evicting a leaf keeps the shape of the tree.
LEMMA EvictKeepsTree ==
    ASSUME NEW K, TreeInv(K), NEW n \in Nodes, EvictLeaf(n)
    PROVE  TreeInv(K)'
<1>1. /\ DOMAIN page' = DOMAIN page \ Edge(n)
      /\ Nodes' = Nodes \ {n}
      /\ IsLeaf(n)
  BY DEF EvictLeaf, Nodes, EvictableLeaves
<1>. QED  BY <1>1, RemovalKeepsTree

\* The pages of an edge are those of its prefixes; if these are different, so are
\* the pages.
LEMMA EdgePagesAre ==
    ASSUME NEW K, TreeInv(K), NEW n \in Nodes
    PROVE  /\ DOMAIN EdgePages(n) = 1 .. Cardinality(Edge(n))
           /\ ToSet(EdgePages(n)) = {page[p] : p \in Edge(n)}
           /\ (\A p, q \in Edge(n) : page[p] = page[q] => p = q) => IsInjective(EdgePages(n))
<1>. DEFINE e == EdgePages(n)
            s == EdgeStart(n)
            k == Cardinality(Edge(n))
<1>1. /\ DOMAIN e = 1 .. k
      /\ \A i \in 1 .. k : e[i] = page[PrefixOf(n, s + i)]
  BY DEF EdgePages
<1>2. /\ \A i \in 1 .. k : PrefixOf(n, s + i) \in Edge(n) /\ Len(PrefixOf(n, s + i)) = s + i
      /\ \A p \in Edge(n) : Len(p) - s \in 1 .. k /\ p = PrefixOf(n, Len(p))
  BY EdgePlaces
<1>3. s \in Nat /\ k \in Nat /\ \A p \in Edge(n) : Len(p) \in Nat
  <2>1. s \in Nat /\ k \in Nat
    BY EdgeIsInterval
  <2>. QED  BY <2>1, LenProperties DEF TreeInv, Edge
<1>. HIDE DEF e, s, k
<1>4. \A p \in Edge(n) : s + (Len(p) - s) = Len(p)
  BY <1>3
<1>5. ToSet(e) = {page[p] : p \in Edge(n)}
  <2>1. ASSUME NEW p \in Edge(n)
        PROVE  page[p] = e[Len(p) - s] /\ Len(p) - s \in DOMAIN e
    BY <1>1, <1>2, <1>4
  <2>. QED  BY <1>1, <1>2, <2>1 DEF ToSet
<1>6. ASSUME \A p, q \in Edge(n) : page[p] = page[q] => p = q
      PROVE  IsInjective(e)
  <2>1. ASSUME NEW i \in 1 .. k, NEW j \in 1 .. k, e[i] = e[j] PROVE i = j
    <3>1. PrefixOf(n, s + i) = PrefixOf(n, s + j)
      BY <1>1, <1>2, <1>6, <2>1
    <3>2. s + i = s + j
      BY <1>2, <3>1
    <3>. QED  BY <1>3, <3>2
  <2>. QED  BY <1>1, <2>1 DEF IsInjective
<1>. QED  BY <1>1, <1>5, <1>6 DEF e, k
=============================================================================
