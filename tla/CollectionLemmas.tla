-------------------------- MODULE CollectionLemmas --------------------------
(***************************************************************************)
(* Least numbers; sums over finite sets: that MapThenSumSet, a fold that   *)
(* takes its elements in whatever order CHOOSE gives, adds each of them    *)
(* once, by induction from a least counterexample; and what joining,       *)
(* cutting and removing do to the elements of a list.                      *)
(***************************************************************************)
EXTENDS Integers, SequencesExt, FiniteSetsExt, FiniteSetTheorems, SequenceTheorems,
        WellFoundedInduction, TLAPS

\* Sets of naturals have a least element.
LEMMA LeastNatural ==
    ASSUME NEW S \in SUBSET Nat, S # {}
    PROVE  \E m \in S : \A n \in S : m <= n
<1>1. PICK m \in S : \A n \in S : ~ (<<n, m>> \in OpToRel(<, Nat))
  BY NatLessThanWellFounded, WFMin, Zenon
<1>2. \A n \in S : ~ (n < m)
  BY <1>1 DEF OpToRel
<1>. QED  BY <1>2

\* The order of the naturals, where a goal is too large for it to be seen.
LEMMA AtMost ==
    ASSUME NEW a \in Nat, NEW b \in Nat, NEW c \in Nat, a <= b, b <= c
    PROVE  a <= c
OBVIOUS

\* The subsets of a finite set: what one element less makes of their size.
LEMMA OneLess ==
    ASSUME NEW U, IsFiniteSet(U), NEW T \in SUBSET U
    PROVE  /\ IsFiniteSet(T) /\ Cardinality(T) \in Nat
           /\ Cardinality(T) <= Cardinality(U) /\ Cardinality(U) \in Nat
           /\ Cardinality(T) = 0 <=> T = {}
           /\ \A x \in T : Cardinality(T \ {x}) = Cardinality(T) - 1
<1>1. IsFiniteSet(T) /\ Cardinality(T) <= Cardinality(U)
  BY FS_Subset
<1>2. Cardinality(T) \in Nat /\ Cardinality(U) \in Nat
  BY <1>1, FS_CardinalityType
<1>3. Cardinality(T) = 0 <=> T = {}
  BY <1>1, FS_EmptySet
<1>4. ASSUME NEW x \in T PROVE Cardinality(T \ {x}) = Cardinality(T) - 1
  BY <1>1, FS_RemoveElement
<1>. QED  BY <1>1, <1>2, <1>3, <1>4

\* The numbers to add.
NatOn(g, U) == \A x \in U : g[x] \in Nat

\* H is what one gets by taking some element off each subset of U, and by taking any.
TakenOff(H, g, U) ==
    /\ H[{}] = 0
    /\ \A T \in SUBSET U : T # {} => \E x \in T : H[T] = g[x] + H[T \ {x}]

Sums(H, g, U) ==
    /\ H[{}] = 0
    /\ \A T \in SUBSET U : H[T] \in Nat /\ \A x \in T : H[T] = g[x] + H[T \ {x}]

\* A sum taken off element by element does not depend on the order.
LEMMA AnyOrder ==
    ASSUME NEW U, IsFiniteSet(U), NEW g, NatOn(g, U), NEW H, TakenOff(H, g, U)
    PROVE  Sums(H, g, U)
<1>. USE DEF NatOn, TakenOff
<1>. DEFINE P(T) == H[T] \in Nat /\ \A x \in T : H[T] = g[x] + H[T \ {x}]
            Bad == {n \in Nat : \E T \in SUBSET U : Cardinality(T) = n /\ ~ P(T)}
<1>1. SUFFICES Bad = {}
  <2>1. \A T \in SUBSET U : Cardinality(T) \in Nat
    BY OneLess
  <2>2. \A T \in SUBSET U : P(T)
    BY <1>1, <2>1
  <2>. QED  BY <2>2 DEF Sums
<1>2. SUFFICES ASSUME Bad # {} PROVE FALSE
  OBVIOUS
<1>3. PICK m \in Bad : \A n \in Bad : m <= n
  <2>1. Bad \in SUBSET Nat
    OBVIOUS
  <2>. HIDE DEF Bad
  <2>. QED  BY <1>2, <2>1, LeastNatural
<1>4. PICK T \in SUBSET U : Cardinality(T) = m /\ ~ P(T)
  OBVIOUS
<1>5. \A V \in SUBSET U : Cardinality(V) < m => P(V)
  <2>1. \A V \in SUBSET U : Cardinality(V) \in Nat
    BY OneLess
  <2>2. ASSUME NEW V \in SUBSET U, Cardinality(V) < m, ~ P(V) PROVE FALSE
    <3>1. Cardinality(V) \in Bad
      BY <2>1, <2>2
    <3>2. m <= Cardinality(V) /\ m \in Nat /\ Cardinality(V) \in Nat
      BY <1>3, <2>1, <3>1
    <3>. QED  BY <2>2, <3>2
  <2>. HIDE DEF P
  <2>. QED  BY <2>2
<1>6. T # {}
  BY <1>4
<1>7. PICK y \in T : H[T] = g[y] + H[T \ {y}]
  BY <1>6
<1>8. \A x \in T : T \ {x} \in SUBSET U /\ Cardinality(T \ {x}) < m
  <2>1. /\ Cardinality(T) \in Nat
        /\ \A x \in T : Cardinality(T \ {x}) = Cardinality(T) - 1
    BY OneLess
  <2>. QED  BY <1>4, <2>1
<1>9. ASSUME NEW x \in T, x # y PROVE H[T] = g[x] + H[T \ {x}]
  <2>1. P(T \ {x}) /\ P(T \ {y})
    BY <1>5, <1>8
  <2>2. /\ H[T \ {y}] = g[x] + H[(T \ {y}) \ {x}]
        /\ H[T \ {x}] = g[y] + H[(T \ {x}) \ {y}]
    BY <1>9, <2>1
  <2>3. (T \ {y}) \ {x} = (T \ {x}) \ {y}
    OBVIOUS
  <2>4. H[(T \ {x}) \ {y}] \in Nat
    <3>1. (T \ {x}) \ {y} \in SUBSET U /\ Cardinality((T \ {x}) \ {y}) < m
      <4>1. y \in T \ {x} /\ T \ {x} \in SUBSET U
        BY <1>9
      <4>2. /\ Cardinality(T \ {x}) \in Nat /\ Cardinality(T \ {x}) < m
            /\ Cardinality((T \ {x}) \ {y}) = Cardinality(T \ {x}) - 1
        BY <1>8, <4>1, OneLess
      <4>3. m \in Nat
        BY <1>3
      <4>. QED  BY <4>1, <4>2, <4>3
    <3>. QED  BY <1>5, <3>1
  <2>5. g[x] \in Nat /\ g[y] \in Nat
    OBVIOUS
  <2>. DEFINE z == H[(T \ {x}) \ {y}]
  <2>6. /\ H[T] = g[y] + H[T \ {y}] /\ H[T \ {y}] = g[x] + z
        /\ H[T \ {x}] = g[y] + z /\ z \in Nat
    BY <1>7, <2>2, <2>3, <2>4
  <2>. HIDE DEF z
  <2>. QED  BY <2>5, <2>6
<1>10. H[T] \in Nat
  <2>1. H[T \ {y}] \in Nat /\ g[y] \in Nat
    BY <1>5, <1>8
  <2>. QED  BY <1>7, <2>1
<1>. QED  BY <1>4, <1>7, <1>9, <1>10

\* The element that CHOOSE gives, and a turn of the fold.
Chosen(T) == CHOOSE x \in T : TRUE
Turn(g, H, T) == IF T = {} THEN 0 ELSE g[Chosen(T)] + H[T \ {Chosen(T)}]
IsFold(H, g, U) == H = [T \in SUBSET U |-> Turn(g, H, T)]

\* There is a function that the fold's recursion defines.
LEMMA FoldExists ==
    ASSUME NEW U, IsFiniteSet(U), NEW g, NatOn(g, U)
    PROVE  \E H : IsFold(H, g, U)
<1>. USE DEF NatOn
<1>. DEFINE Upto(n, H) == /\ H \in [SUBSET U -> Nat]
                          /\ \A T \in SUBSET U : Cardinality(T) <= n => H[T] = Turn(g, H, T)
            Bad == {n \in Nat : ~ \E H : Upto(n, H)}
<1>1. /\ Cardinality(U) \in Nat
      /\ \A T \in SUBSET U : /\ Cardinality(T) \in Nat /\ Cardinality(T) <= Cardinality(U)
                             /\ Cardinality(T) = 0 <=> T = {}
      /\ \A T \in SUBSET U : \A x \in T : Cardinality(T \ {x}) = Cardinality(T) - 1
  <2>1. U \in SUBSET U
    OBVIOUS
  <2>. QED  BY <2>1, OneLess
<1>2. \A T \in SUBSET U : T # {} => Chosen(T) \in T
  BY DEF Chosen
<1>3. SUFFICES Bad = {}
  <2>1. PICK H : Upto(Cardinality(U), H)
    BY <1>1, <1>3
  <2>2. \A T \in SUBSET U : H[T] = Turn(g, H, T)
    BY <1>1, <2>1
  <2>3. H = [T \in SUBSET U |-> H[T]]
    BY <2>1
  <2>4. H = [T \in SUBSET U |-> Turn(g, H, T)]
    BY <2>2, <2>3
  <2>. QED  BY <2>4 DEF IsFold
<1>4. SUFFICES ASSUME Bad # {} PROVE FALSE
  OBVIOUS
<1>5. PICK m \in Bad : \A n \in Bad : m <= n
  <2>1. Bad \in SUBSET Nat
    OBVIOUS
  <2>. HIDE DEF Bad
  <2>. QED  BY <1>4, <2>1, LeastNatural
<1>6. m \in Nat /\ ~ \E H : Upto(m, H)
  BY <1>5
<1>7. CASE m = 0
  <2>. DEFINE Z == [T \in SUBSET U |-> 0]
  <2>1. Upto(0, Z)
    BY <1>1 DEF Turn
  <2>. QED  BY <1>6, <1>7, <2>1
<1>8. CASE m # 0
  <2>1. m - 1 \in Nat /\ m - 1 \notin Bad
    <3>1. m - 1 \in Nat
      BY <1>6, <1>8
    <3>2. m - 1 \in Bad => m <= m - 1
      BY <1>5
    <3>. HIDE DEF Bad
    <3>. QED  BY <1>6, <3>1, <3>2
  <2>2. PICK H : Upto(m - 1, H)
    BY <2>1
  <2>. DEFINE G == [T \in SUBSET U |-> IF Cardinality(T) <= m THEN Turn(g, H, T) ELSE 0]
  <2>3. \A T \in SUBSET U : Turn(g, H, T) \in Nat
    <3>1. ASSUME NEW T \in SUBSET U, T # {}
          PROVE  g[Chosen(T)] \in Nat /\ H[T \ {Chosen(T)}] \in Nat
      <4>1. Chosen(T) \in U /\ T \ {Chosen(T)} \in SUBSET U
        BY <1>2, <3>1
      <4>. QED  BY <2>2, <4>1
    <3>2. ASSUME NEW T \in SUBSET U PROVE Turn(g, H, T) \in Nat
      <4>1. CASE T = {}
        BY <4>1 DEF Turn
      <4>2. CASE T # {}
        BY <3>1, <4>2 DEF Turn
      <4>. QED  BY <4>1, <4>2
    <3>. QED  BY <3>2
  <2>4. \A T \in SUBSET U : Cardinality(T) <= m - 1 => G[T] = H[T]
    <3>1. ASSUME NEW T \in SUBSET U, Cardinality(T) <= m - 1 PROVE G[T] = H[T]
      <4>1. Cardinality(T) <= m /\ H[T] = Turn(g, H, T)
        BY <1>1, <1>6, <2>2, <3>1
      <4>. QED  BY <4>1
    <3>. QED  BY <3>1
  <2>5. ASSUME NEW T \in SUBSET U, Cardinality(T) <= m PROVE G[T] = Turn(g, G, T)
    <3>1. G[T] = Turn(g, H, T)
      BY <2>5
    <3>2. CASE T = {}
      BY <3>1, <3>2 DEF Turn
    <3>3. CASE T # {}
      <4>1. T \ {Chosen(T)} \in SUBSET U /\ Cardinality(T \ {Chosen(T)}) <= m - 1
        <5>1. /\ Chosen(T) \in T /\ Cardinality(T) \in Nat
              /\ Cardinality(T \ {Chosen(T)}) = Cardinality(T) - 1
          BY <1>1, <1>2, <3>3
        <5>. QED  BY <1>6, <2>5, <5>1
      <4>2. G[T \ {Chosen(T)}] = H[T \ {Chosen(T)}]
        BY <2>4, <4>1
      <4>. HIDE DEF G
      <4>. QED  BY <3>1, <3>3, <4>2 DEF Turn
    <3>. QED  BY <3>2, <3>3
  <2>6. Upto(m, G)
    <3>1. G \in [SUBSET U -> Nat]
      BY <2>3
    <3>. HIDE DEF G
    <3>. QED  BY <2>5, <3>1
  <2>. QED  BY <1>6, <2>6
<1>. QED  BY <1>7, <1>8

\* A fold that takes its elements as CHOOSE gives them is such a sum.
LEMMA FoldIsSum ==
    ASSUME NEW U, IsFiniteSet(U), NEW g, NatOn(g, U), NEW H, IsFold(H, g, U)
    PROVE  Sums(H, g, U)
<1>1. \A T \in SUBSET U : H[T] = Turn(g, H, T)
  <2>. DEFINE F == [T \in SUBSET U |-> Turn(g, H, T)]
  <2>1. \A T \in SUBSET U : F[T] = Turn(g, H, T)
    OBVIOUS
  <2>2. H = F
    BY DEF IsFold
  <2>. HIDE DEF F
  <2>. QED  BY <2>1, <2>2
<1>2. H[{}] = 0
  <2>1. {} \in SUBSET U
    OBVIOUS
  <2>. QED  BY <1>1, <2>1 DEF Turn
<1>3. ASSUME NEW T \in SUBSET U, T # {} PROVE \E x \in T : H[T] = g[x] + H[T \ {x}]
  <2>1. Chosen(T) \in T
    BY <1>3 DEF Chosen
  <2>2. H[T] = g[Chosen(T)] + H[T \ {Chosen(T)}]
    BY <1>1, <1>3 DEF Turn
  <2>. QED  BY <2>1, <2>2
<1>4. TakenOff(H, g, U)
  BY <1>2, <1>3 DEF TakenOff
<1>. QED  BY <1>4, AnyOrder

\* Two sums of the same numbers are equal.
LEMMA SameSums ==
    ASSUME NEW U, IsFiniteSet(U), NEW g, NEW h, \A x \in U : g[x] = h[x],
           NEW G, NEW H, Sums(G, g, U), Sums(H, h, U)
    PROVE  \A T \in SUBSET U : G[T] = H[T]
<1>. DEFINE Bad == {n \in Nat : \E T \in SUBSET U : Cardinality(T) = n /\ G[T] # H[T]}
<1>1. SUFFICES Bad = {}
  <2>1. \A T \in SUBSET U : Cardinality(T) \in Nat
    BY OneLess
  <2>. QED  BY <1>1, <2>1
<1>2. SUFFICES ASSUME Bad # {} PROVE FALSE
  OBVIOUS
<1>3. PICK m \in Bad : \A n \in Bad : m <= n
  <2>1. Bad \in SUBSET Nat
    OBVIOUS
  <2>. HIDE DEF Bad
  <2>. QED  BY <1>2, <2>1, LeastNatural
<1>4. PICK T \in SUBSET U : Cardinality(T) = m /\ G[T] # H[T]
  OBVIOUS
<1>5. T # {}
  BY <1>4 DEF Sums
<1>6. PICK x \in T : TRUE
  BY <1>5
<1>7. T \ {x} \in SUBSET U /\ G[T \ {x}] # H[T \ {x}]
  <2>1. /\ G[T] = g[x] + G[T \ {x}] /\ H[T] = h[x] + H[T \ {x}]
        /\ g[x] = h[x]
    BY DEF Sums
  <2>. QED  BY <1>4, <2>1
<1>8. Cardinality(T \ {x}) \in Nat /\ Cardinality(T \ {x}) < m
  <2>1. Cardinality(T) \in Nat /\ Cardinality(T \ {x}) = Cardinality(T) - 1
        /\ Cardinality(T \ {x}) \in Nat
    BY <1>7, OneLess
  <2>. QED  BY <1>4, <2>1
<1>9. Cardinality(T \ {x}) \in Bad
  BY <1>7, <1>8
<1>10. m <= Cardinality(T \ {x}) /\ m \in Nat
  BY <1>3, <1>9
<1>. HIDE DEF Bad
<1>. QED  BY <1>8, <1>10

-----------------------------------------------------------------------------
(* The sum of a function over a finite set *)

SumOf(g, S) == MapThenSumSet(LAMBDA x : g[x], S)

\* The fold's recursion, as its definition writes it.
Fold(g, S) == CHOOSE H : IsFold(H, g, S)

\* The library's definition is that choice.
LEMMA SumIsFold ==
    ASSUME NEW g, NEW S
    PROVE  SumOf(g, S) = Fold(g, S)[S]
BY DEF SumOf, MapThenSumSet, MapThenFoldSet, Fold, IsFold, Turn, Chosen

\* One function gives the sums over all subsets.
LEMMA SumFunctionOf ==
    ASSUME NEW U, IsFiniteSet(U), NEW g, NatOn(g, U)
    PROVE  \E H : Sums(H, g, U) /\ \A T \in SUBSET U : SumOf(g, T) = H[T]
<1>1. ASSUME NEW V \in SUBSET U
      PROVE  Sums(Fold(g, V), g, V) /\ SumOf(g, V) = Fold(g, V)[V]
  <2>1. IsFiniteSet(V) /\ NatOn(g, V)
    BY OneLess DEF NatOn
  <2>2. \E H : IsFold(H, g, V)
    BY <2>1, FoldExists
  <2>3. IsFold(Fold(g, V), g, V)
    BY <2>2 DEF Fold
  <2>. QED  BY <2>1, <2>3, FoldIsSum, SumIsFold
<1>. DEFINE H == Fold(g, U)
<1>2. Sums(H, g, U)
  <2>1. U \in SUBSET U
    OBVIOUS
  <2>. QED  BY <1>1, <2>1
<1>. HIDE DEF H
<1>3. ASSUME NEW T \in SUBSET U PROVE SumOf(g, T) = H[T]
  <2>. DEFINE K == Fold(g, T)
  <2>1. IsFiniteSet(T) /\ Sums(H, g, T)
    BY <1>2, OneLess DEF Sums
  <2>2. Sums(K, g, T) /\ SumOf(g, T) = K[T] /\ T \in SUBSET T
    BY <1>1
  <2>. HIDE DEF K
  <2>3. K[T] = H[T]
    BY <2>1, <2>2, SameSums
  <2>. QED  BY <2>2, <2>3
<1>. QED  BY <1>2, <1>3

\* Whatever the fold's recursion is called, its last value is the sum.
LEMMA FoldGivesSum ==
    ASSUME NEW U, IsFiniteSet(U), NEW g, NatOn(g, U), NEW H, IsFold(H, g, U)
    PROVE  H[U] = SumOf(g, U)
<1>1. PICK G : Sums(G, g, U) /\ \A T \in SUBSET U : SumOf(g, T) = G[T]
  BY SumFunctionOf
<1>2. \A T \in SUBSET U : G[T] = H[T]
  BY <1>1, FoldIsSum, SameSums
<1>. QED  BY <1>1, <1>2

\* The sum over nothing, over one element more or less, and over a part.
SumRules(g, U) ==
    /\ SumOf(g, {}) = 0
    /\ \A T \in SUBSET U : /\ SumOf(g, T) \in Nat
                           /\ SumOf(g, T) <= SumOf(g, U)
                           /\ \A x \in T : SumOf(g, T) = g[x] + SumOf(g, T \ {x})
                           /\ \A x \in U \ T : SumOf(g, T \cup {x}) = g[x] + SumOf(g, T)

\* They hold of every sum of naturals over a finite set.
LEMMA SumFacts ==
    ASSUME NEW U, IsFiniteSet(U), NEW g, NatOn(g, U)
    PROVE  SumRules(g, U)
<1>1. PICK H : Sums(H, g, U) /\ \A T \in SUBSET U : SumOf(g, T) = H[T]
  BY SumFunctionOf
<1>2. SumOf(g, {}) = 0
  <2>1. {} \in SUBSET U
    OBVIOUS
  <2>. QED  BY <1>1, <2>1 DEF Sums
<1>3. \A T \in SUBSET U : /\ SumOf(g, T) \in Nat
                          /\ \A x \in T : SumOf(g, T) = g[x] + SumOf(g, T \ {x})
  BY <1>1 DEF Sums
<1>4. ASSUME NEW T \in SUBSET U, NEW x \in U \ T
      PROVE  SumOf(g, T \cup {x}) = g[x] + SumOf(g, T)
  <2>1. T \cup {x} \in SUBSET U /\ x \in T \cup {x} /\ (T \cup {x}) \ {x} = T
    OBVIOUS
  <2>. QED  BY <1>3, <2>1
<1>5. \A T \in SUBSET U : SumOf(g, T) <= SumOf(g, U)
  <2>. DEFINE Bad == {n \in Nat : \E T \in SUBSET U : /\ Cardinality(U \ T) = n
                                                      /\ ~ (SumOf(g, T) <= SumOf(g, U))}
  <2>1. SUFFICES Bad = {}
    <3>1. \A T \in SUBSET U : U \ T \in SUBSET U
      OBVIOUS
    <3>2. \A T \in SUBSET U : Cardinality(U \ T) \in Nat
      BY <3>1, OneLess
    <3>. QED  BY <2>1, <3>2
  <2>2. SUFFICES ASSUME Bad # {} PROVE FALSE
    OBVIOUS
  <2>3. PICK m \in Bad : \A n \in Bad : m <= n
    <3>1. Bad \in SUBSET Nat
      OBVIOUS
    <3>. HIDE DEF Bad
    <3>. QED  BY <2>2, <3>1, LeastNatural
  <2>4. PICK T \in SUBSET U : Cardinality(U \ T) = m /\ ~ (SumOf(g, T) <= SumOf(g, U))
    OBVIOUS
  <2>5. T # U
    <3>1. U \in SUBSET U
      OBVIOUS
    <3>2. SumOf(g, U) \in Nat
      BY <1>3, <3>1
    <3>. QED  BY <2>4, <3>2
  <2>6. PICK x \in U \ T : TRUE
    BY <2>5
  <2>. DEFINE V == T \cup {x}
  <2>7. /\ V \in SUBSET U /\ U \ V = (U \ T) \ {x}
        /\ U \ T \in SUBSET U /\ U \ V \in SUBSET U
    OBVIOUS
  <2>8. Cardinality(U \ V) \in Nat /\ Cardinality(U \ V) < m
    <3>1. /\ Cardinality(U \ T) \in Nat /\ Cardinality((U \ T) \ {x}) = Cardinality(U \ T) - 1
          /\ Cardinality(U \ V) \in Nat
      <4>. HIDE DEF V
      <4>. QED  BY <2>7, OneLess
    <3>2. Cardinality(U \ V) = Cardinality((U \ T) \ {x})
      BY <2>7
    <3>. HIDE DEF V
    <3>. QED  BY <2>4, <3>1, <3>2
  <2>9. ~ (SumOf(g, V) <= SumOf(g, U))
    <3>1. SumOf(g, V) = g[x] + SumOf(g, T) /\ g[x] \in Nat /\ SumOf(g, T) \in Nat
      BY <1>3, <1>4 DEF NatOn
    <3>2. SumOf(g, U) \in Nat
      BY <1>3
    <3>. QED  BY <2>4, <3>1, <3>2
  <2>. HIDE DEF V
  <2>10. Cardinality(U \ V) \in Bad
    BY <2>7, <2>8, <2>9
  <2>11. m <= Cardinality(U \ V) /\ m \in Nat
    BY <2>3, <2>10
  <2>. HIDE DEF Bad
  <2>. QED  BY <2>8, <2>11
<1>. QED  BY <1>2, <1>3, <1>4, <1>5 DEF SumRules

\* Equal numbers have equal sums.
LEMMA SumSame ==
    ASSUME NEW U, IsFiniteSet(U), NEW g, NEW h, NatOn(g, U), \A x \in U : g[x] = h[x]
    PROVE  SumOf(g, U) = SumOf(h, U)
<1>1. PICK G : Sums(G, g, U) /\ \A T \in SUBSET U : SumOf(g, T) = G[T]
  BY SumFunctionOf
<1>2. PICK H : Sums(H, h, U) /\ \A T \in SUBSET U : SumOf(h, T) = H[T]
  <2>1. NatOn(h, U)
    BY DEF NatOn
  <2>. QED  BY <2>1, SumFunctionOf
<1>3. \A T \in SUBSET U : G[T] = H[T]
  BY <1>1, <1>2, SameSums
<1>. QED  BY <1>1, <1>2, <1>3

\* f takes the elements of I one to one to those of S, and k has the numbers of g.
Reindexes(f, I, S, k, g) ==
    /\ \A i \in I : \A j \in I : f[i] = f[j] => i = j
    /\ S = {f[i] : i \in I}
    /\ \A i \in I : k[i] = g[f[i]] /\ k[i] \in Nat

\* A sum may go through the places of a list instead of its elements.
LEMMA SumReindexed ==
    ASSUME NEW I, IsFiniteSet(I), NEW f, NEW S, NEW k, NEW g, Reindexes(f, I, S, k, g)
    PROVE  IsFiniteSet(S) /\ SumOf(k, I) = SumOf(g, S)
<1>. USE DEF Reindexes
<1>. DEFINE Im(J) == {f[i] : i \in J}
            Bad == {n \in Nat : \E J \in SUBSET I : /\ Cardinality(J) = n
                                                    /\ SumOf(k, J) # SumOf(g, Im(J))}
<1>0. IsFiniteSet(S)
  <2>. DEFINE m == [i \in I |-> f[i]]
  <2>1. m \in Surjection(I, S)
    BY DEF Surjection, Range
  <2>. HIDE DEF m
  <2>. QED  BY <2>1, FS_Surjection
<1>1. SUFFICES Bad = {}
  <2>1. I \in SUBSET I /\ Cardinality(I) \in Nat /\ Im(I) = S
    BY OneLess
  <2>. QED  BY <1>0, <1>1, <2>1
<1>2. SUFFICES ASSUME Bad # {} PROVE FALSE
  OBVIOUS
<1>3. PICK m \in Bad : \A n \in Bad : m <= n
  <2>1. Bad \in SUBSET Nat
    OBVIOUS
  <2>. HIDE DEF Bad
  <2>. QED  BY <1>2, <2>1, LeastNatural
<1>4. PICK J \in SUBSET I : Cardinality(J) = m /\ SumOf(k, J) # SumOf(g, Im(J))
  OBVIOUS
<1>5. NatOn(k, I) /\ NatOn(g, S)
  BY DEF NatOn
<1>6. SumRules(k, I) /\ SumRules(g, S)
  BY <1>0, <1>5, SumFacts
<1>7. J # {}
  <2>1. SumOf(k, {}) = 0 /\ SumOf(g, {}) = 0
    BY <1>6 DEF SumRules
  <2>2. Im({}) = {}
    OBVIOUS
  <2>. HIDE DEF Im
  <2>. QED  BY <1>4, <2>1, <2>2
<1>8. PICK i \in J : TRUE
  BY <1>7
<1>9. SumOf(k, J) = k[i] + SumOf(k, J \ {i})
  BY <1>6 DEF SumRules
<1>10. SumOf(g, Im(J)) = g[f[i]] + SumOf(g, Im(J \ {i}))
  <2>1. Im(J) \in SUBSET S /\ f[i] \in Im(J) /\ Im(J) \ {f[i]} = Im(J \ {i})
    OBVIOUS
  <2>. HIDE DEF Im
  <2>2. \A T \in SUBSET S : \A x \in T : SumOf(g, T) = g[x] + SumOf(g, T \ {x})
    BY <1>6 DEF SumRules
  <2>3. SumOf(g, Im(J)) = g[f[i]] + SumOf(g, Im(J) \ {f[i]})
    BY <2>1, <2>2
  <2>. QED  BY <2>1, <2>3
<1>11. J \ {i} \in SUBSET I /\ SumOf(k, J \ {i}) # SumOf(g, Im(J \ {i}))
  <2>1. k[i] = g[f[i]]
    OBVIOUS
  <2>. HIDE DEF Im
  <2>. QED  BY <1>4, <1>9, <1>10, <2>1
<1>12. Cardinality(J \ {i}) \in Nat /\ Cardinality(J \ {i}) < m
  <2>1. /\ Cardinality(J) \in Nat /\ Cardinality(J \ {i}) = Cardinality(J) - 1
        /\ Cardinality(J \ {i}) \in Nat
    BY <1>11, OneLess
  <2>. QED  BY <1>4, <2>1
<1>13. Cardinality(J \ {i}) \in Bad
  BY <1>11, <1>12
<1>14. m <= Cardinality(J \ {i}) /\ m \in Nat
  BY <1>3, <1>13
<1>. HIDE DEF Bad
<1>. QED  BY <1>12, <1>14

-----------------------------------------------------------------------------
(* Lists without repetitions *)

\* A part of a list.
LEMMA PartOfList ==
    ASSUME NEW S, NEW s \in Seq(S), NEW m \in Nat \ {0}, NEW n \in Int, n <= Len(s)
    PROVE  /\ SubSeq(s, m, n) \in Seq(S)
           /\ ToSet(SubSeq(s, m, n)) = {s[i] : i \in m .. n}
           /\ IsInjective(s) => IsInjective(SubSeq(s, m, n))
<1>. DEFINE p == SubSeq(s, m, n)
<1>1. /\ Len(s) \in Nat /\ DOMAIN s = 1 .. Len(s)
      /\ \A i \in m .. n : i \in 1 .. Len(s) /\ s[i] \in S
  BY LenProperties, ElementOfSeq
<1>2. /\ p \in Seq(S)
      /\ Len(p) = IF m <= n THEN n - m + 1 ELSE 0
      /\ \A i \in 1 .. n - m + 1 : p[i] = s[m + i - 1]
  BY <1>1, SubSeqProperties
<1>. HIDE DEF p
<1>3. /\ DOMAIN p = 1 .. n - m + 1
      /\ \A i \in 1 .. n - m + 1 : p[i] = s[m + i - 1] /\ m + i - 1 \in m .. n
      /\ \A i \in m .. n : i - m + 1 \in 1 .. n - m + 1 /\ p[i - m + 1] = s[i]
  <2>1. DOMAIN p = 1 .. n - m + 1
    BY <1>2, LenProperties
  <2>2. \A i \in 1 .. n - m + 1 : m + i - 1 \in m .. n
    OBVIOUS
  <2>3. \A i \in m .. n : i - m + 1 \in 1 .. n - m + 1 /\ m + (i - m + 1) - 1 = i
    OBVIOUS
  <2>. QED  BY <1>2, <2>1, <2>2, <2>3
<1>4. ToSet(p) = {s[i] : i \in m .. n}
  <2>1. ASSUME NEW x \in ToSet(p) PROVE x \in {s[i] : i \in m .. n}
    BY <1>3 DEF ToSet
  <2>2. ASSUME NEW i \in m .. n PROVE s[i] \in ToSet(p)
    BY <1>3 DEF ToSet
  <2>. QED  BY <2>1, <2>2
<1>5. ASSUME IsInjective(s), NEW i \in 1 .. n - m + 1, NEW j \in 1 .. n - m + 1, p[i] = p[j]
      PROVE  i = j
  <2>1. m + i - 1 \in DOMAIN s /\ m + j - 1 \in DOMAIN s /\ s[m + i - 1] = s[m + j - 1]
    BY <1>1, <1>3, <1>5
  <2>2. m + i - 1 = m + j - 1
    BY <1>5, <2>1 DEF IsInjective
  <2>. QED  BY <2>2
<1>6. IsInjective(s) => IsInjective(p)
  BY <1>3, <1>5 DEF IsInjective
<1>. QED  BY <1>2, <1>4, <1>6 DEF p

\* Two lists one after the other.
LEMMA Joined ==
    ASSUME NEW S, NEW s \in Seq(S), NEW t \in Seq(S)
    PROVE  /\ s \o t \in Seq(S) /\ ToSet(s \o t) = ToSet(s) \cup ToSet(t)
           /\ IsInjective(s) /\ IsInjective(t) /\ ToSet(s) \cap ToSet(t) = {} => IsInjective(s \o t)
<1>. DEFINE st == s \o t
<1>1. /\ Len(s) \in Nat /\ Len(t) \in Nat /\ DOMAIN s = 1 .. Len(s) /\ DOMAIN t = 1 .. Len(t)
      /\ st \in Seq(S) /\ DOMAIN st = 1 .. Len(s) + Len(t)
      /\ \A i \in 1 .. Len(s) : st[i] = s[i]
      /\ \A i \in Len(s) + 1 .. Len(s) + Len(t) : st[i] = t[i - Len(s)]
  BY LenProperties, ConcatProperties
<1>. HIDE DEF st
<1>2. /\ \A i \in 1 .. Len(s) : i \in DOMAIN st /\ st[i] \in ToSet(s)
      /\ \A i \in Len(s) + 1 .. Len(s) + Len(t) :
            i - Len(s) \in DOMAIN t /\ st[i] = t[i - Len(s)] /\ st[i] \in ToSet(t)
      /\ \A i \in 1 .. Len(t) : Len(s) + i \in DOMAIN st /\ st[Len(s) + i] = t[i]
  <2>1. \A i \in Len(s) + 1 .. Len(s) + Len(t) : i - Len(s) \in 1 .. Len(t)
    BY <1>1
  <2>2. \A i \in 1 .. Len(t) : /\ Len(s) + i \in Len(s) + 1 .. Len(s) + Len(t)
                               /\ (Len(s) + i) - Len(s) = i
    BY <1>1
  <2>3. \A i \in 1 .. Len(s) : i \in 1 .. Len(s) + Len(t)
    BY <1>1
  <2>4. \A i \in Len(s) + 1 .. Len(s) + Len(t) : i \in 1 .. Len(s) + Len(t)
    BY <1>1
  <2>. QED  BY <1>1, <2>1, <2>2, <2>3, <2>4 DEF ToSet
<1>3. \A i \in DOMAIN st : i \in 1 .. Len(s) \/ i \in Len(s) + 1 .. Len(s) + Len(t)
  BY <1>1
<1>4. ToSet(st) = ToSet(s) \cup ToSet(t)
  <2>1. \A i \in DOMAIN st : st[i] \in ToSet(s) \cup ToSet(t)
    BY <1>2, <1>3
  <2>2. \A i \in DOMAIN s : s[i] \in ToSet(st)
    BY <1>1, <1>2 DEF ToSet
  <2>3. \A i \in DOMAIN t : t[i] \in ToSet(st)
    BY <1>1, <1>2 DEF ToSet
  <2>. QED  BY <2>1, <2>2, <2>3 DEF ToSet
<1>5. ASSUME IsInjective(s), IsInjective(t), ToSet(s) \cap ToSet(t) = {},
             NEW i \in DOMAIN st, NEW j \in DOMAIN st, st[i] = st[j]
      PROVE  i = j
  <2>1. CASE i \in 1 .. Len(s) /\ j \in 1 .. Len(s)
    BY <1>1, <1>5, <2>1 DEF IsInjective
  <2>2. CASE i \in Len(s) + 1 .. Len(s) + Len(t) /\ j \in Len(s) + 1 .. Len(s) + Len(t)
    <3>1. i - Len(s) = j - Len(s)
      BY <1>2, <1>5, <2>2 DEF IsInjective
    <3>. QED  BY <1>1, <2>2, <3>1
  <2>3. CASE i \in 1 .. Len(s) /\ j \in Len(s) + 1 .. Len(s) + Len(t)
    BY <1>2, <1>5, <2>3
  <2>4. CASE i \in Len(s) + 1 .. Len(s) + Len(t) /\ j \in 1 .. Len(s)
    BY <1>2, <1>5, <2>4
  <2>. QED  BY <1>3, <2>1, <2>2, <2>3, <2>4
<1>. QED  BY <1>1, <1>4, <1>5 DEF IsInjective, st

\* The list of one request, and the empty one.
LEMMA ShortLists ==
    ASSUME NEW S
    PROVE
    /\ << >> \in Seq(S) /\ ToSet(<< >>) = {} /\ IsInjective(<< >>)
    /\ \A r \in S : <<r>> \in Seq(S) /\ ToSet(<<r>>) = {r} /\ IsInjective(<<r>>)
<1>1. DOMAIN << >> = {} /\ << >> \in Seq(S)
  OBVIOUS
<1>2. ASSUME NEW r \in S
      PROVE  <<r>> \in Seq(S) /\ ToSet(<<r>>) = {r} /\ IsInjective(<<r>>)
  <2>1. <<r>> \in Seq(S) /\ DOMAIN <<r>> = {1} /\ <<r>>[1] = r
    OBVIOUS
  <2>. QED  BY <2>1 DEF ToSet, IsInjective
<1>. QED  BY <1>1, <1>2 DEF ToSet, IsInjective

\* A list with one more request.
LEMMA Appended ==
    ASSUME NEW S, NEW s \in Seq(S), NEW r \in S
    PROVE  /\ Append(s, r) \in Seq(S) /\ ToSet(Append(s, r)) = ToSet(s) \cup {r}
           /\ IsInjective(s) /\ r \notin ToSet(s) => IsInjective(Append(s, r))
<1>1. Append(s, r) = s \o <<r>>
  BY AppendIsConcat
<1>. DEFINE t == <<r>>
<1>2. t \in Seq(S) /\ ToSet(t) = {r} /\ IsInjective(t)
  BY ShortLists
<1>. HIDE DEF t
<1>3. /\ s \o t \in Seq(S) /\ ToSet(s \o t) = ToSet(s) \cup {r}
      /\ IsInjective(s) /\ r \notin ToSet(s) => IsInjective(s \o t)
  BY <1>2, Joined
<1>. QED  BY <1>1, <1>3 DEF t

\* The first request of a list and the others.
LEMMA HeadAndTail ==
    ASSUME NEW S, NEW s \in Seq(S), s # << >>
    PROVE  /\ Head(s) \in S /\ Tail(s) \in Seq(S)
           /\ ToSet(s) = {Head(s)} \cup ToSet(Tail(s))
           /\ IsInjective(s) => IsInjective(Tail(s)) /\ Head(s) \notin ToSet(Tail(s))
<1>1. /\ Head(s) \in S /\ Tail(s) \in Seq(S) /\ Tail(s) = SubSeq(s, 2, Len(s))
      /\ Len(s) \in Nat \ {0} /\ DOMAIN s = 1 .. Len(s) /\ Head(s) = s[1]
  BY HeadTailProperties, TailIsSubSeq, LenProperties, EmptySeq
<1>. DEFINE n == Len(s)
            h == Head(s)
            t == Tail(s)
<1>2. /\ ToSet(t) = {s[i] : i \in 2 .. n}
      /\ IsInjective(s) => IsInjective(t)
  <2>1. n \in Int /\ n <= Len(s) /\ 2 \in Nat \ {0}
    BY <1>1
  <2>2. /\ ToSet(SubSeq(s, 2, n)) = {s[i] : i \in 2 .. n}
        /\ IsInjective(s) => IsInjective(SubSeq(s, 2, n))
    <3>. HIDE DEF n
    <3>. QED  BY <2>1, PartOfList
  <2>. QED  BY <1>1, <2>2
<1>. HIDE DEF h, t
<1>3. \A i \in 1 .. n : i = 1 \/ i \in 2 .. n
  BY <1>1
<1>4. ToSet(s) = {h} \cup ToSet(t)
  <2>1. \A i \in DOMAIN s : s[i] \in {h} \cup ToSet(t)
    BY <1>1, <1>2, <1>3 DEF h
  <2>2. h \in ToSet(s) /\ \A i \in 2 .. n : s[i] \in ToSet(s)
    BY <1>1 DEF ToSet, h
  <2>. QED  BY <1>2, <2>1, <2>2 DEF ToSet
<1>5. IsInjective(s) => h \notin ToSet(t)
  BY <1>1, <1>2 DEF IsInjective, h
<1>. QED  BY <1>1, <1>2, <1>4, <1>5 DEF h, t

\* The first k requests of a list and the others.
LEMMA Divided ==
    ASSUME NEW S, NEW s \in Seq(S), NEW k \in 0 .. Len(s)
    PROVE  LET a == SubSeq(s, 1, k)
               b == SubSeq(s, k + 1, Len(s))
           IN  /\ a \in Seq(S) /\ b \in Seq(S) /\ ToSet(s) = ToSet(a) \cup ToSet(b)
               /\ IsInjective(s) => /\ IsInjective(a) /\ IsInjective(b)
                                    /\ ToSet(a) \cap ToSet(b) = {}
<1>. DEFINE a == SubSeq(s, 1, k)
            b == SubSeq(s, k + 1, Len(s))
<1>1. Len(s) \in Nat /\ DOMAIN s = 1 .. Len(s)
  BY LenProperties
<1>2. /\ a \in Seq(S) /\ ToSet(a) = {s[i] : i \in 1 .. k}
      /\ b \in Seq(S) /\ ToSet(b) = {s[i] : i \in k + 1 .. Len(s)}
      /\ IsInjective(s) => IsInjective(a) /\ IsInjective(b)
  BY <1>1, PartOfList
<1>. HIDE DEF a, b
<1>3. \A i \in 1 .. Len(s) : i \in 1 .. k \/ i \in k + 1 .. Len(s)
  BY <1>1
<1>4. /\ \A i \in 1 .. k : i \in 1 .. Len(s)
      /\ \A i \in k + 1 .. Len(s) : i \in 1 .. Len(s)
      /\ \A i \in 1 .. k : \A j \in k + 1 .. Len(s) : i # j
  BY <1>1
<1>5. ToSet(s) = ToSet(a) \cup ToSet(b)
  BY <1>1, <1>2, <1>3, <1>4 DEF ToSet
<1>6. IsInjective(s) => ToSet(a) \cap ToSet(b) = {}
  BY <1>1, <1>2, <1>4 DEF IsInjective
<1>. QED  BY <1>2, <1>5, <1>6 DEF a, b

\* list.remove.
LEMMA Removed ==
    ASSUME NEW S, NEW s \in Seq(S), IsInjective(s), NEW r \in S
    PROVE  /\ RemoveFirst(s, r) \in Seq(S) /\ IsInjective(RemoveFirst(s, r))
           /\ ToSet(RemoveFirst(s, r)) = ToSet(s) \ {r}
<1>1. Len(s) \in Nat /\ DOMAIN s = 1 .. Len(s)
  BY LenProperties
<1>2. CASE ~ \E i \in 1 .. Len(s) : s[i] = r
  BY <1>1, <1>2 DEF RemoveFirst, ToSet
<1>3. CASE \E i \in 1 .. Len(s) : s[i] = r
  <2>1. PICK i \in 1 .. Len(s) : s[i] = r
    BY <1>3
  <2>2. {j \in 1 .. Len(s) : s[j] = r} = {i}
    BY <1>1, <2>1 DEF IsInjective
  <2>3. Min({i}) = i
    BY DEF Min
  <2>4. SelectInSeq(s, LAMBDA v : v = r) = i
    BY <2>2, <2>3 DEF SelectInSeq
  <2>. DEFINE a == SubSeq(s, 1, i - 1)
              b == SubSeq(s, i + 1, Len(s))
  <2>5. RemoveFirst(s, r) = a \o b
    BY <1>3, <2>4 DEF RemoveFirst, RemoveAt
  <2>6. /\ a \in Seq(S) /\ ToSet(a) = {s[j] : j \in 1 .. i - 1} /\ IsInjective(a)
        /\ b \in Seq(S) /\ ToSet(b) = {s[j] : j \in i + 1 .. Len(s)} /\ IsInjective(b)
    <3>1. i - 1 \in Int /\ i - 1 <= Len(s) /\ i + 1 \in Nat \ {0} /\ Len(s) \in Int /\ 1 \in Nat \ {0}
      BY <1>1
    <3>2. a \in Seq(S) /\ ToSet(a) = {s[j] : j \in 1 .. i - 1} /\ IsInjective(a)
      BY <3>1, PartOfList
    <3>3. b \in Seq(S) /\ ToSet(b) = {s[j] : j \in i + 1 .. Len(s)} /\ IsInjective(b)
      BY <3>1, PartOfList
    <3>. QED  BY <3>2, <3>3
  <2>. HIDE DEF a, b
  <2>7. /\ \A j \in 1 .. Len(s) : j \in 1 .. i - 1 \/ j = i \/ j \in i + 1 .. Len(s)
        /\ \A j \in 1 .. i - 1 : j \in 1 .. Len(s) /\ j # i
        /\ \A j \in i + 1 .. Len(s) : j \in 1 .. Len(s) /\ j # i
        /\ \A j \in 1 .. i - 1 : \A k \in i + 1 .. Len(s) : j # k
    BY <1>1
  <2>8. ToSet(a) \cap ToSet(b) = {}
    BY <1>1, <2>6, <2>7 DEF IsInjective
  <2>9. ToSet(a) \cup ToSet(b) = ToSet(s) \ {r}
    <3>1. \A j \in 1 .. Len(s) : s[j] = r => j = i
      BY <1>1, <2>1 DEF IsInjective
    <3>2. \A j \in 1 .. Len(s) : s[j] # r => s[j] \in ToSet(a) \cup ToSet(b)
      BY <2>1, <2>6, <2>7
    <3>3. ToSet(a) \cup ToSet(b) \subseteq ToSet(s) \ {r}
      BY <1>1, <2>6, <2>7, <3>1 DEF ToSet
    <3>4. ToSet(s) \ {r} \subseteq ToSet(a) \cup ToSet(b)
      BY <1>1, <3>2 DEF ToSet
    <3>. QED  BY <3>3, <3>4
  <2>10. /\ a \o b \in Seq(S) /\ ToSet(a \o b) = ToSet(s) \ {r}
         /\ IsInjective(a \o b)
    <3>1. a \in Seq(S) /\ b \in Seq(S) /\ IsInjective(a) /\ IsInjective(b)
      BY <2>6
    <3>. HIDE DEF a, b
    <3>2. a \o b \in Seq(S) /\ ToSet(a \o b) = ToSet(a) \cup ToSet(b)
      BY <3>1, Joined
    <3>3. IsInjective(a \o b)
      BY <2>8, <3>1, Joined
    <3>. QED  BY <2>9, <3>2, <3>3
  <2>. QED  BY <2>5, <2>10
<1>. QED  BY <1>2, <1>3

=============================================================================
