---------------------------- MODULE FigureTheorems ----------------------------
(***************************************************************************)
(* What the figures of the audit, the answers and the digest are made of.  *)
(* Sums over finite sets (SumFunction, SumFunctionOnSet of Functions): the *)
(* value does not depend on the order in which the fold picks the elements,*)
(* and splits over disjoint sets and over groups.  The order of a finite   *)
(* set by a value, and what the k-th value says about counts: the median.  *)
(*                                                                         *)
(* Induction is on sets of sets: a family that is not all of SUBSET S has  *)
(* a minimal set outside it.                                               *)
(***************************************************************************)
EXTENDS Functions, FiniteSetTheorems, TLAPS

\* Induction on the natural numbers, said of a set.
LEMMA NatSet ==
    ASSUME NEW N, 0 \in N, \A n \in N : n \in Nat => n + 1 \in N
    PROVE  Nat \subseteq N
  <1> DEFINE T == Nat \ N
  <1> SUFFICES ASSUME T # {} PROVE FALSE
    OBVIOUS
  <1>0. T \subseteq Nat
    OBVIOUS
  <1> HIDE DEF T
  <1>1. PICK n \in T : \A m \in T : <<m, n>> \notin OpToRel(<, Nat)
    BY <1>0, WFMin, NatLessThanWellFounded
  <1>2. \A m \in T : ~(m < n)
    BY <1>0, <1>1 DEF OpToRel
  <1> QED BY <1>2, n \in Nat, n # 0, (n - 1) + 1 = n DEF T

\* A family of subsets of a finite set has a minimal member.
LEMMA MinimalSubset ==
    ASSUME NEW S, IsFiniteSet(S), NEW F, F \subseteq SUBSET S, F # {}
    PROVE  \E U \in F : \A V \in F : V \subseteq U => V = U
  <1>1. F \subseteq FiniteSubsetsOf(S)
    BY FS_FiniteSubsetsOfFinite
  <1>2. PICK U \in F : \A V \in F : <<V, U>> \notin StrictSubsetOrdering(S)
    BY <1>1, WFMin, FS_StrictSubsetOrderingWellFounded
  <1> QED BY <1>2 DEF StrictSubsetOrdering

\* A family that has {} and grows by single elements has the whole set.
LEMMA SubsetInduction ==
    ASSUME NEW S, IsFiniteSet(S), NEW F, {} \in F,
           \A T \in F, x \in S : T \subseteq S /\ x \notin T => T \cup {x} \in F
    PROVE  S \in F
  <1> DEFINE G == (SUBSET S) \ F
  <1> SUFFICES ASSUME S \notin F PROVE FALSE
    OBVIOUS
  <1>0. G # {} /\ G \subseteq SUBSET S
    OBVIOUS
  <1> HIDE DEF G
  <1>1. PICK U \in G : \A V \in G : V \subseteq U => V = U
    BY <1>0, MinimalSubset
  <1> USE DEF G
  <1>2. PICK x \in U : TRUE
    BY <1>1
  <1>3. U \ {x} \in F
    BY <1>1, <1>2
  <1>4. (U \ {x}) \cup {x} \in F
    BY <1>1, <1>2, <1>3
  <1> QED BY <1>1, <1>2, <1>4, (U \ {x}) \cup {x} = U

-----------------------------------------------------------------------------
(***************************************************************************)
(* The recursion of the fold has a solution.                               *)
(***************************************************************************)
Pick(s) == CHOOSE x \in s : TRUE

\* What g is at s, when it is right at smaller sets.
Folded(f, g, s) == IF s = {} THEN 0 ELSE f[Pick(s)] + g[s \ {Pick(s)}]

Solves(f, S, g) == g = [s \in SUBSET S |-> Folded(f, g, s)]

\* The library's Pick takes a member of the set.
LEMMA PickIn == ASSUME NEW s, s # {} PROVE Pick(s) \in s
  BY DEF Pick

\* The library's sum as the value of a chosen solution.
LEMMA FoldIsChosen ==
    ASSUME NEW f, NEW S
    PROVE  SumFunctionOnSet(f, S) = (CHOOSE g : Solves(f, S, g))[S]
  BY DEF SumFunctionOnSet, FoldFunctionOnSet, MapThenFoldSet, Solves, Folded,
         Pick

\* Right for all sets in a family that is closed under subsets.
LEMMA SolutionExists ==
    ASSUME NEW f, NEW S, IsFiniteSet(S)
    PROVE  \E g : Solves(f, S, g)
  <1> DEFINE Good(n, g) == \A s \in SUBSET S :
                 Cardinality(s) <= n => g[s] = Folded(f, g, s)
             N == {n \in Nat : \E g : Good(n, g)}
  <1>0. \A s \in SUBSET S : IsFiniteSet(s) /\ Cardinality(s) \in Nat
    BY FS_Subset, FS_CardinalityType
  <1>1. 0 \in N
    <2> DEFINE g == [s \in SUBSET S |-> 0]
    <2>1. \A s \in SUBSET S : Cardinality(s) <= 0 => s = {}
      BY <1>0, FS_EmptySet
    <2>2. Good(0, g)
      BY <2>1 DEF Folded
    <2> HIDE DEF g
    <2> QED BY <2>2
  <1>2. ASSUME NEW n \in N PROVE n + 1 \in N
    <2>1. PICK g : Good(n, g)
      OBVIOUS
    <2> DEFINE h == [s \in SUBSET S |-> Folded(f, g, s)]
    <2>2. ASSUME NEW s \in SUBSET S, Cardinality(s) <= n + 1
          PROVE  h[s] = Folded(f, h, s)
      <3>1. CASE s = {}
        BY <3>1 DEF Folded
      <3>2. CASE s # {}
        <4> DEFINE t == s \ {Pick(s)}
        <4>1. t \in SUBSET S /\ Cardinality(t) <= n
          BY <1>0, <2>2, <3>2, PickIn, FS_RemoveElement
        <4>2. h[t] = Folded(f, g, t) /\ g[t] = Folded(f, g, t)
          BY <2>1, <4>1
        <4> QED BY <3>2, <4>2 DEF Folded
      <3> QED BY <3>1, <3>2
    <2>3. Good(n + 1, h)
      BY <2>2
    <2> HIDE DEF h
    <2> QED BY <2>3
  <1>3. Cardinality(S) \in N
    <2> HIDE DEF N
    <2>1. Nat \subseteq N
      BY <1>1, <1>2, NatSet
    <2> QED BY <1>0, <2>1
  <1>4. PICK g : Good(Cardinality(S), g)
    BY <1>3
  <1> DEFINE h == [s \in SUBSET S |-> g[s]]
  <1>5. ASSUME NEW s \in SUBSET S
        PROVE  h[s] = Folded(f, h, s)
    <2>1. g[s] = Folded(f, g, s)
      BY <1>4, <1>5, FS_Subset
    <2>2. s # {} => s \ {Pick(s)} \in SUBSET S
      OBVIOUS
    <2> QED BY <2>1, <2>2 DEF Folded
  <1>6. Solves(f, S, h)
    BY <1>5 DEF Solves
  <1> QED BY <1>6

\* Two solutions agree where both are defined.
LEMMA SolutionUnique ==
    ASSUME NEW f, NEW S, NEW T, NEW g, NEW h, Solves(f, S, g), Solves(f, T, h),
           NEW U, U \subseteq S, U \subseteq T, IsFiniteSet(U)
    PROVE  g[U] = h[U]
  <1> DEFINE F == {V \in SUBSET U : g[V] # h[V]}
  <1>1. ASSUME F # {} PROVE FALSE
    <2>0. F \subseteq SUBSET U
      OBVIOUS
    <2> HIDE DEF F
    <2>1. PICK V \in F : \A W \in F : W \subseteq V => W = V
      BY <1>1, <2>0, MinimalSubset
    <2> USE DEF F
    <2>2. V \in SUBSET S /\ V \in SUBSET T /\ g[V] # h[V]
      BY <2>1
    <2>3. g[V] = Folded(f, g, V) /\ h[V] = Folded(f, h, V)
      BY <2>2 DEF Solves
    <2>4. V # {}
      BY <2>2, <2>3 DEF Folded
    <2> DEFINE W == V \ {Pick(V)}
    <2>5. W \in SUBSET U /\ W \subseteq V /\ W # V
      BY <2>1, <2>4, PickIn
    <2>6. g[W] = h[W]
      BY <2>1, <2>5
    <2> QED BY <2>2, <2>3, <2>4, <2>6 DEF Folded
  <1> QED BY <1>1

\* So the sum is its own recursion.
LEMMA SumPicked ==
    ASSUME NEW f, NEW S, IsFiniteSet(S)
    PROVE  SumFunctionOnSet(f, S) =
              IF S = {} THEN 0
              ELSE f[Pick(S)] + SumFunctionOnSet(f, S \ {Pick(S)})
  <1>1. PICK g : g = CHOOSE x : Solves(f, S, x)
    OBVIOUS
  <1>2. Solves(f, S, g) /\ SumFunctionOnSet(f, S) = g[S]
    BY <1>1, SolutionExists, FoldIsChosen
  <1>3. g[S] = Folded(f, g, S)
    BY <1>2 DEF Solves
  <1>4. CASE S = {}
    BY <1>2, <1>3, <1>4 DEF Folded
  <1>5. CASE S # {}
    <2> DEFINE T == S \ {Pick(S)}
    <2>1. IsFiniteSet(T) /\ T \subseteq S
      BY FS_RemoveElement
    <2> HIDE DEF T
    <2>2. PICK h : h = CHOOSE x : Solves(f, T, x)
      OBVIOUS
    <2>3. Solves(f, T, h) /\ SumFunctionOnSet(f, T) = h[T]
      BY <2>1, <2>2, SolutionExists, FoldIsChosen
    <2>4. g[T] = h[T]
      BY <1>2, <2>1, <2>3, SolutionUnique
    <2> QED BY <1>2, <1>3, <1>5, <2>3, <2>4 DEF Folded, T
  <1> QED BY <1>4, <1>5

-----------------------------------------------------------------------------
(***************************************************************************)
(* What a sum is, whatever is picked first.                                *)
(***************************************************************************)
LEMMA SumOfNone ==
    ASSUME NEW f
    PROVE  SumFunctionOnSet(f, {}) = 0
  BY SumPicked, FS_EmptySet

\* Of numbers that are closed under addition.
LEMMA SumIn ==
    ASSUME NEW f, NEW S, IsFiniteSet(S), NEW D, 0 \in D,
           \A m, n \in D : m + n \in D,
           \A x \in S : f[x] \in D
    PROVE  SumFunctionOnSet(f, S) \in D
  <1> DEFINE F == {T \in SUBSET S : SumFunctionOnSet(f, T) \notin D}
  <1>1. ASSUME F # {} PROVE FALSE
    <2>0. F \subseteq SUBSET S
      OBVIOUS
    <2> HIDE DEF F
    <2>1. PICK U \in F : \A V \in F : V \subseteq U => V = U
      BY <1>1, <2>0, MinimalSubset
    <2> USE DEF F
    <2>2. U \subseteq S /\ IsFiniteSet(U)
      BY <2>1, FS_Subset
    <2>3. U # {}
      BY <2>1, SumOfNone
    <2> DEFINE V == U \ {Pick(U)}
    <2>4. V \subseteq U /\ V # U /\ f[Pick(U)] \in D
      BY <2>2, <2>3, PickIn
    <2>5. SumFunctionOnSet(f, V) \in D
      BY <2>1, <2>2, <2>4
    <2>6. SumFunctionOnSet(f, U) = f[Pick(U)] + SumFunctionOnSet(f, V)
      BY <2>2, <2>3, SumPicked
    <2> QED BY <2>1, <2>4, <2>5, <2>6
  <1> QED BY <1>1

\* A finite sum of integers is an integer.
LEMMA SumInt ==
    ASSUME NEW f, NEW S, IsFiniteSet(S), \A x \in S : f[x] \in Int
    PROVE  SumFunctionOnSet(f, S) \in Int
  BY SumIn

\* A finite sum of natural numbers is a natural number.
LEMMA SumNat ==
    ASSUME NEW f, NEW S, IsFiniteSet(S), \A x \in S : f[x] \in Nat
    PROVE  SumFunctionOnSet(f, S) \in Nat
  <1>1. 0 \in Nat /\ \A m, n \in Nat : m + n \in Nat
    OBVIOUS
  <1> QED BY <1>1, SumIn, Zenon

\* Any element may be taken out first.
LEMMA SumWithout ==
    ASSUME NEW f, NEW S, IsFiniteSet(S), \A x \in S : f[x] \in Int, NEW x \in S
    PROVE  SumFunctionOnSet(f, S) = f[x] + SumFunctionOnSet(f, S \ {x})
  <1> DEFINE Right(T) == \A y \in T :
                 SumFunctionOnSet(f, T) = f[y] + SumFunctionOnSet(f, T \ {y})
             F == {T \in SUBSET S : ~Right(T)}
  <1>1. ASSUME F # {} PROVE FALSE
    <2>0. F \subseteq SUBSET S
      OBVIOUS
    <2> HIDE DEF F
    <2>1. PICK U \in F : \A V \in F : V \subseteq U => V = U
      BY <1>1, <2>0, MinimalSubset
    <2> USE DEF F
    <2>2. PICK y \in U :
             SumFunctionOnSet(f, U) # f[y] + SumFunctionOnSet(f, U \ {y})
      BY <2>1
    <2>3. \A T \in SUBSET S : IsFiniteSet(T) /\ SumFunctionOnSet(f, T) \in Int
      BY FS_Subset, SumInt
    <2> DEFINE z == Pick(U)
    <2>4. /\ U \subseteq S /\ y \in S /\ z \in U /\ z \in S
          /\ SumFunctionOnSet(f, U) = f[z] + SumFunctionOnSet(f, U \ {z})
      BY <2>1, <2>2, <2>3, SumPicked, PickIn
    <2>5. y # z
      BY <2>2, <2>4
    <2> HIDE DEF z
    <2>6. /\ Right(U \ {z}) /\ y \in U \ {z}
          /\ Right(U \ {y}) /\ z \in U \ {y}
      BY <2>1, <2>2, <2>4, <2>5
    <2>7. (U \ {z}) \ {y} = (U \ {y}) \ {z} /\ (U \ {z}) \ {y} \in SUBSET S
      BY <2>4
    <2> HIDE DEF F
    <2>8. /\ SumFunctionOnSet(f, U \ {z})
                = f[y] + SumFunctionOnSet(f, (U \ {z}) \ {y})
          /\ SumFunctionOnSet(f, U \ {y})
                = f[z] + SumFunctionOnSet(f, (U \ {y}) \ {z})
      BY <2>6
    <2> DEFINE W == (U \ {z}) \ {y}
    <2>9. (U \ {y}) \ {z} = W
      OBVIOUS
    <2>10. SumFunctionOnSet(f, W) \in Int
      BY <2>3, <2>7
    <2> HIDE DEF W
    <2>11. /\ SumFunctionOnSet(f, U \ {z}) = f[y] + SumFunctionOnSet(f, W)
           /\ SumFunctionOnSet(f, U \ {y}) = f[z] + SumFunctionOnSet(f, W)
      BY <2>8, <2>9, Zenon DEF W
    <2> QED BY <2>2, <2>4, <2>10, <2>11
  <1>2. S \notin F
    BY <1>1
  <1> QED BY <1>2

\* One member more adds its own value.
LEMMA SumWith ==
    ASSUME NEW f, NEW S, IsFiniteSet(S), NEW x, x \notin S,
           \A y \in S \cup {x} : f[y] \in Int
    PROVE  SumFunctionOnSet(f, S \cup {x}) = f[x] + SumFunctionOnSet(f, S)
  <1> DEFINE T == S \cup {x}
  <1>1. IsFiniteSet(T) /\ x \in T /\ T \ {x} = S
    BY FS_AddElement
  <1>2. \A y \in T : f[y] \in Int
    OBVIOUS
  <1> HIDE DEF T
  <1>3. SumFunctionOnSet(f, T) = f[x] + SumFunctionOnSet(f, T \ {x})
    BY <1>1, <1>2, SumWithout
  <1> QED BY <1>1, <1>3, Zenon DEF T

\* Only the values at the elements matter.
LEMMA SumSame ==
    ASSUME NEW f, NEW g, NEW S, IsFiniteSet(S),
           \A x \in S : f[x] \in Int /\ g[x] = f[x]
    PROVE  SumFunctionOnSet(f, S) = SumFunctionOnSet(g, S)
  <1> DEFINE F == {T \in SUBSET S :
                      SumFunctionOnSet(f, T) = SumFunctionOnSet(g, T)}
  <1>1. {} \in F
    BY SumOfNone
  <1>2. ASSUME NEW T \in F, NEW x \in S, T \subseteq S, x \notin T
        PROVE  T \cup {x} \in F
    <2>1. IsFiniteSet(T) /\ \A y \in T \cup {x} : f[y] \in Int /\ g[y] \in Int
      BY <1>2, FS_Subset
    <2>2. /\ SumFunctionOnSet(f, T \cup {x}) = f[x] + SumFunctionOnSet(f, T)
          /\ SumFunctionOnSet(g, T \cup {x}) = g[x] + SumFunctionOnSet(g, T)
      BY <1>2, <2>1, SumWith
    <2> QED BY <1>2, <2>2
  <1> HIDE DEF F
  <1>3. S \in F
    BY <1>1, <1>2, SubsetInduction
  <1> QED BY <1>3 DEF F

\* A sum splits over disjoint sets.
LEMMA SumSplit ==
    ASSUME NEW f, NEW S, NEW T, IsFiniteSet(S), IsFiniteSet(T),
           S \cap T = {}, \A x \in S \cup T : f[x] \in Int
    PROVE  SumFunctionOnSet(f, S \cup T)
              = SumFunctionOnSet(f, S) + SumFunctionOnSet(f, T)
  <1> DEFINE F == {U \in SUBSET T :
                      SumFunctionOnSet(f, S \cup U)
                         = SumFunctionOnSet(f, S) + SumFunctionOnSet(f, U)}
  <1>0. SumFunctionOnSet(f, S) \in Int
    BY SumInt
  <1>1. {} \in F
    BY <1>0, SumOfNone, S \cup {} = S
  <1>2. ASSUME NEW U \in F, NEW x \in T, U \subseteq T, x \notin U
        PROVE  U \cup {x} \in F
    <2>1. /\ IsFiniteSet(U) /\ IsFiniteSet(S \cup U) /\ x \notin S \cup U
          /\ \A y \in (S \cup U) \cup {x} : f[y] \in Int
      BY <1>2, FS_Subset, FS_Union
    <2>2. SumFunctionOnSet(f, (S \cup U) \cup {x})
             = f[x] + SumFunctionOnSet(f, S \cup U)
      BY <2>1, SumWith
    <2>3. SumFunctionOnSet(f, U \cup {x}) = f[x] + SumFunctionOnSet(f, U)
      BY <1>2, <2>1, SumWith
    <2>4. SumFunctionOnSet(f, U) \in Int /\ f[x] \in Int
      BY <2>1, SumInt
    <2>5. (S \cup U) \cup {x} = S \cup (U \cup {x})
      OBVIOUS
    <2>6. SumFunctionOnSet(f, S \cup (U \cup {x}))
             = f[x] + SumFunctionOnSet(f, S \cup U)
      BY <2>2, <2>5, Zenon
    <2>7. SumFunctionOnSet(f, S \cup (U \cup {x}))
             = SumFunctionOnSet(f, S) + SumFunctionOnSet(f, U \cup {x})
      BY <1>0, <1>2, <2>3, <2>4, <2>6
    <2> QED BY <1>2, <2>7, Zenon
  <1> HIDE DEF F
  <1>3. T \in F
    BY <1>1, <1>2, SubsetInduction
  <1> QED BY <1>3 DEF F

\* No part of a sum of amounts is more than the whole.
LEMMA SumPart ==
    ASSUME NEW f, NEW S, IsFiniteSet(S), \A x \in S : f[x] \in Nat,
           NEW T \in SUBSET S
    PROVE  SumFunctionOnSet(f, T) <= SumFunctionOnSet(f, S)
  <1>1. /\ IsFiniteSet(T) /\ IsFiniteSet(S \ T) /\ T \cup (S \ T) = S
        /\ T \cap (S \ T) = {}
    BY FS_Subset
  <1>2. SumFunctionOnSet(f, T) \in Nat /\ SumFunctionOnSet(f, S \ T) \in Nat
    BY <1>1, SumNat
  <1>3. SumFunctionOnSet(f, T \cup (S \ T))
           = SumFunctionOnSet(f, T) + SumFunctionOnSet(f, S \ T)
    BY <1>1, SumSplit
  <1>4. SumFunctionOnSet(f, S)
           = SumFunctionOnSet(f, T) + SumFunctionOnSet(f, S \ T)
    BY <1>1, <1>3, Zenon
  <1> QED BY <1>2, <1>4

\* The sum over one member is its value.
LEMMA SumOfOne ==
    ASSUME NEW f, NEW x, f[x] \in Int
    PROVE  SumFunctionOnSet(f, {x}) = f[x]
  <1>1. SumFunctionOnSet(f, {x}) = f[x] + SumFunctionOnSet(f, {x} \ {x})
    BY FS_Singleton, SumWithout
  <1> QED BY <1>1, SumOfNone, {x} \ {x} = {}

\* The sums of the groups of a set make up its sum.
LEMMA SumOfGroups ==
    ASSUME NEW f, NEW S, IsFiniteSet(S), \A x \in S : f[x] \in Int,
           NEW key, NEW C, IsFiniteSet(C), \A x \in S : key[x] \in C,
           NEW sum, \A c \in C : sum[c] =
                       SumFunctionOnSet(f, {x \in S : key[x] = c})
    PROVE  SumFunctionOnSet(sum, C) = SumFunctionOnSet(f, S)
  <1> DEFINE Of(D) == {x \in S : key[x] \in D}
             F == {D \in SUBSET C :
                      SumFunctionOnSet(sum, D) = SumFunctionOnSet(f, Of(D))}
  <1>1. {} \in F
    BY SumOfNone, Of({}) = {}
  <1>2. ASSUME NEW D \in F, NEW c \in C, D \subseteq C, c \notin D
        PROVE  D \cup {c} \in F
    <2> DEFINE G == {x \in S : key[x] = c}
    <2>1. /\ IsFiniteSet(D) /\ IsFiniteSet(Of(D)) /\ IsFiniteSet(G)
          /\ Of(D) \cap G = {} /\ Of(D \cup {c}) = Of(D) \cup G
      BY <1>2, FS_Subset
    <2>2. \A d \in C : sum[d] \in Int
      <3> TAKE d \in C
      <3>1. IsFiniteSet({x \in S : key[x] = d})
        BY FS_Subset
      <3> QED BY <3>1, SumInt
    <2>3. SumFunctionOnSet(sum, D \cup {c}) = sum[c] + SumFunctionOnSet(sum, D)
      BY <1>2, <2>1, <2>2, SumWith
    <2>4. SumFunctionOnSet(f, Of(D) \cup G)
             = SumFunctionOnSet(f, Of(D)) + SumFunctionOnSet(f, G)
      BY <2>1, SumSplit
    <2>5. /\ SumFunctionOnSet(f, Of(D)) \in Int
          /\ SumFunctionOnSet(f, G) \in Int
      BY <2>1, SumInt
    <2>6. sum[c] = SumFunctionOnSet(f, G)
      OBVIOUS
    <2>7. SumFunctionOnSet(f, Of(D \cup {c})) = SumFunctionOnSet(f, Of(D) \cup G)
      BY <2>1, Zenon
    <2>8. SumFunctionOnSet(sum, D) = SumFunctionOnSet(f, Of(D))
      BY <1>2
    <2>9. SumFunctionOnSet(sum, D \cup {c}) = SumFunctionOnSet(f, Of(D \cup {c}))
      BY <2>3, <2>4, <2>5, <2>6, <2>7, <2>8
    <2> QED BY <1>2, <2>9, Zenon
  <1>3. C \in F
    <2> HIDE DEF F
    <2> QED BY <1>1, <1>2, SubsetInduction
  <1> QED BY <1>3, Of(C) = S

\* Some element is the largest.
LEMMA LargestExists ==
    ASSUME NEW f, NEW S, IsFiniteSet(S), \A x \in S : f[x] \in Int, S # {}
    PROVE  \E x \in S : \A y \in S : f[y] <= f[x]
  <1> DEFINE Has(T) == \E x \in T : \A y \in T : f[y] <= f[x]
             F == {T \in SUBSET S : T = {} \/ Has(T)}
  <1>1. {} \in F
    OBVIOUS
  <1>2. ASSUME NEW T \in F, NEW x \in S, T \subseteq S, x \notin T
        PROVE  T \cup {x} \in F
    <2>1. CASE T = {}
      BY <2>1
    <2>2. CASE T # {}
      <3>1. PICK z \in T : \A y \in T : f[y] <= f[z]
        BY <2>2
      <3>2. CASE f[x] <= f[z]
        BY <3>1, <3>2
      <3>3. CASE f[z] <= f[x]
        <4>1. \A y \in T \cup {x} : f[y] <= f[x]
          BY <1>2, <3>1, <3>3
        <4> QED BY <4>1
      <3>4. f[x] \in Int /\ f[z] \in Int
        BY <1>2
      <3> QED BY <3>2, <3>3, <3>4
    <2> QED BY <2>1, <2>2
  <1> HIDE DEF F
  <1>3. S \in F
    BY <1>1, <1>2, SubsetInduction
  <1> QED BY <1>3 DEF F

-----------------------------------------------------------------------------
(***************************************************************************)
(* A finite set in the order of the values of f, as a function from 1 .. n.*)
(***************************************************************************)
Sorts(o, f, S) ==
    /\ o \in [1 .. Cardinality(S) -> S]
    /\ \A i, j \in 1 .. Cardinality(S) : i # j => o[i] # o[j]
    /\ \A i, j \in 1 .. Cardinality(S) : i <= j => f[o[i]] <= f[o[j]]

\* The largest element goes last.
LEMMA SortedExists ==
    ASSUME NEW f, NEW S, IsFiniteSet(S), \A x \in S : f[x] \in Int
    PROVE  \E o : Sorts(o, f, S)
  <1> DEFINE F == {T \in SUBSET S : ~ \E o : Sorts(o, f, T)}
  <1> SUFFICES ASSUME F # {} PROVE FALSE
    OBVIOUS
  <1>1. PICK U \in F : \A V \in F : V \subseteq U => V = U
    <2> HIDE DEF F
    <2>1. F \subseteq SUBSET S
      BY DEF F
    <2> QED BY <2>1, MinimalSubset
  <1>2. IsFiniteSet(U) /\ U \subseteq S /\ Cardinality(U) \in Nat
    BY FS_Subset, FS_CardinalityType
  <1> DEFINE n == Cardinality(U)
  <1>3. CASE U = {}
    <2>1. n = 0
      BY <1>3, FS_EmptySet
    <2>2. Sorts([i \in 1 .. n |-> i], f, U)
      BY <2>1 DEF Sorts
    <2> QED BY <2>2
  <1>4. CASE U # {}
    <2>1. PICK x \in U : \A y \in U : f[y] <= f[x]
      BY <1>2, <1>4, LargestExists
    <2> DEFINE T == U \ {x}
    <2>2. IsFiniteSet(T) /\ Cardinality(T) = n - 1 /\ n - 1 \in Nat
      <3>1. IsFiniteSet(T) /\ Cardinality(T) = n - 1
        BY <1>2, FS_RemoveElement
      <3>2. Cardinality(T) \in Nat
        BY <3>1, FS_CardinalityType
      <3> QED BY <3>1, <3>2
    <2>3. PICK o : Sorts(o, f, T)
      <3>1. T \subseteq S /\ T \subseteq U /\ T # U
        BY <1>2
      <3> QED BY <1>1, <3>1
    <2> DEFINE p == [i \in 1 .. n |-> IF i = n THEN x ELSE o[i]]
    <2>8. /\ o \in [1 .. n - 1 -> T]
          /\ \A i, j \in 1 .. n - 1 : i # j => o[i] # o[j]
          /\ \A i, j \in 1 .. n - 1 : i <= j => f[o[i]] <= f[o[j]]
      BY <2>2, <2>3 DEF Sorts
    <2>9. n \in Nat /\ n # 0
      BY <1>2, <1>4, FS_EmptySet
    <2> HIDE DEF n
    <2>6. /\ n \in 1 .. n /\ 1 .. n - 1 \subseteq 1 .. n /\ n \notin 1 .. n - 1
          /\ \A i \in 1 .. n : i = n \/ i \in 1 .. n - 1
      BY <2>9
    <2>5. p[n] = x
      BY <2>6
    <2>4. \A i \in 1 .. n - 1 : p[i] = o[i] /\ o[i] \in T /\ p[i] # x
      BY <2>6, <2>8
    <2>7. p \in [1 .. n -> U]
      BY <2>4, <2>6
    <2> HIDE DEF p
    <2>10. ASSUME NEW i \in 1 .. n, NEW j \in 1 .. n
          PROVE  /\ i # j => p[i] # p[j]
                 /\ i <= j => f[p[i]] <= f[p[j]]
      <3>1. CASE i \in 1 .. n - 1 /\ j \in 1 .. n - 1
        BY <2>4, <2>8, <3>1
      <3>2. CASE j = n
        <4>1. p[i] \in U
          BY <2>7
        <4> QED BY <2>1, <2>4, <2>5, <2>6, <3>2, <4>1
      <3>3. CASE i = n /\ j \in 1 .. n - 1
        BY <2>2, <2>4, <2>5, <3>3
      <3> QED BY <2>6, <3>1, <3>2, <3>3
    <2>11. Sorts(p, f, U)
      BY <2>7, <2>10 DEF Sorts, n
    <2> QED BY <2>11
  <1> QED BY <1>3, <1>4

\* A sorted sequence of a set leaves no member out.
LEMMA SortedIsOnto ==
    ASSUME NEW f, NEW S, IsFiniteSet(S), NEW o, Sorts(o, f, S)
    PROVE  \A x \in S : \E i \in 1 .. Cardinality(S) : o[i] = x
  <1> DEFINE n == Cardinality(S)
  <1>1. n \in Nat
    BY FS_CardinalityType
  <1>2. o \in Injection(1 .. n, S)
    BY DEF Sorts, Injection, IsInjective
  <1>3. Cardinality(1 .. n) = n
    BY <1>1, FS_Interval
  <1>4. o \in Surjection(1 .. n, S)
    BY <1>2, <1>3, FS_Injection
  <1> QED BY <1>4 DEF Surjection

Part(o, I) == {o[i] : i \in I}

\* As many indices, as many elements.
LEMMA PartIsAsLarge ==
    ASSUME NEW f, NEW S, IsFiniteSet(S), NEW o, Sorts(o, f, S),
           NEW I, I \subseteq DOMAIN o
    PROVE  Cardinality(Part(o, I)) = Cardinality(I)
  <1> DEFINE n == Cardinality(S)
             T == Part(o, I)
             g == [i \in I |-> o[i]]
  <1>1. n \in Nat /\ IsFiniteSet(1 .. n)
    BY FS_CardinalityType, FS_Interval
  <1>2. IsFiniteSet(I)
    BY <1>1, FS_Subset DEF Sorts
  <1>3. g \in Surjection(I, T)
    BY DEF Surjection, Part
  <1>4. g \in Injection(I, T)
    BY DEF Sorts, Injection, IsInjective, Part
  <1> HIDE DEF g
  <1> QED BY <1>2, <1>3, <1>4, FS_Surjection

UpTo(f, S, v) == {x \in S : f[x] <= v}
From(f, S, v) == {x \in S : f[x] >= v}

\* The k-th value by counting: how many are at most, less than, at least and
\* more than it.
LEMMA Ranks ==
    ASSUME NEW f, NEW S, IsFiniteSet(S), \A x \in S : f[x] \in Int,
           NEW o, Sorts(o, f, S), NEW k \in DOMAIN o
    PROVE  /\ Cardinality(UpTo(f, S, f[o[k]])) >= k
           /\ Cardinality(From(f, S, f[o[k]]))
                 >= Cardinality(S) - k + 1
           /\ \A w \in Int : w < f[o[k]] =>
                 Cardinality(UpTo(f, S, w)) <= k - 1
           /\ \A w \in Int : w > f[o[k]] =>
                 Cardinality(From(f, S, w)) <= Cardinality(S) - k
  <1> DEFINE n == Cardinality(S)
  <1>1. n \in Nat /\ k \in 1 .. n /\ k \in Nat /\ f[o[k]] \in Int
    BY FS_CardinalityType DEF Sorts
  <1>2. ASSUME NEW I, I \subseteq 1 .. n
        PROVE  Part(o, I) \subseteq S /\ Cardinality(Part(o, I)) = Cardinality(I)
    <2>1. I \subseteq DOMAIN o
      BY <1>2 DEF Sorts
    <2>2. Part(o, I) \subseteq S
      BY <1>2 DEF Sorts, Part
    <2>3. Cardinality(Part(o, I)) = Cardinality(I)
      BY <2>1, PartIsAsLarge
    <2> QED BY <2>2, <2>3
  <1>3. /\ Cardinality(1 .. k) = k /\ Cardinality(k .. n) = n - k + 1
        /\ Cardinality(1 .. k - 1) = k - 1
        /\ Cardinality(k + 1 .. n) = n - k
    <2> HIDE DEF n
    <2>1. k \in Int /\ n \in Int /\ k - 1 \in Int /\ k + 1 \in Int /\ 1 \in Int
      BY <1>1
    <2>2. /\ Cardinality(1 .. k) = IF 1 > k THEN 0 ELSE k - 1 + 1
          /\ Cardinality(k .. n) = IF k > n THEN 0 ELSE n - k + 1
      BY <2>1, FS_Interval
    <2>3. Cardinality(1 .. k - 1) = IF 1 > k - 1 THEN 0 ELSE (k - 1) - 1 + 1
      BY <2>1, FS_Interval
    <2>4. Cardinality(k + 1 .. n)
             = IF k + 1 > n THEN 0 ELSE n - (k + 1) + 1
      BY <2>1, FS_Interval
    <2> QED BY <1>1, <2>2, <2>3, <2>4
  <1>4. \A x \in S : \E i \in 1 .. n : o[i] = x
    BY SortedIsOnto
  <1>5. \A i, j \in 1 .. n : i <= j => f[o[i]] <= f[o[j]]
    BY DEF Sorts
  <1>6. \A i \in 1 .. n : o[i] \in S /\ f[o[i]] \in Int
    BY DEF Sorts
  <1>7. ASSUME NEW A \in SUBSET S, NEW B \in SUBSET S, A \subseteq B
        PROVE  /\ Cardinality(A) <= Cardinality(B)
               /\ Cardinality(A) \in Nat /\ Cardinality(B) \in Nat
    <2>1. IsFiniteSet(A) /\ IsFiniteSet(B)
      BY FS_Subset
    <2> QED BY <1>7, <2>1, FS_Subset, FS_CardinalityType
  <1>8. Cardinality(UpTo(f, S, f[o[k]])) >= k
    <2> DEFINE B == UpTo(f, S, f[o[k]])
    <2>1. 1 .. k \subseteq 1 .. n
      BY <1>1
    <2>2. Part(o, 1 .. k) \subseteq B
      BY <1>1, <1>5, <1>6 DEF Part, UpTo, From
    <2>3. Cardinality(Part(o, 1 .. k)) = k
      BY <1>2, <1>3, <2>1
    <2> HIDE DEF B
    <2>4. B \in SUBSET S /\ Part(o, 1 .. k) \in SUBSET S
      BY <2>2 DEF B, UpTo, From
    <2>5. k <= Cardinality(B) /\ Cardinality(B) \in Nat
      BY <1>7, <2>2, <2>3, <2>4
    <2> QED BY <1>1, <2>5 DEF B
  <1>9. Cardinality(From(f, S, f[o[k]])) >= n - k + 1
    <2> DEFINE B == From(f, S, f[o[k]])
    <2>1. k .. n \subseteq 1 .. n
      BY <1>1
    <2>2. Part(o, k .. n) \subseteq B
      BY <1>1, <1>5, <1>6 DEF Part, UpTo, From
    <2>3. Cardinality(Part(o, k .. n)) = n - k + 1
      BY <1>2, <1>3, <2>1
    <2> HIDE DEF B
    <2>4. B \in SUBSET S /\ Part(o, k .. n) \in SUBSET S
      BY <2>2 DEF B, UpTo, From
    <2>5. n - k + 1 <= Cardinality(B) /\ Cardinality(B) \in Nat
      BY <1>7, <2>2, <2>3, <2>4
    <2> QED BY <1>1, <2>5 DEF B
  <1>10. ASSUME NEW w \in Int, w < f[o[k]]
         PROVE  Cardinality(UpTo(f, S, w)) <= k - 1
    <2> DEFINE B == UpTo(f, S, w)
    <2>1. 1 .. k - 1 \subseteq 1 .. n
      BY <1>1
    <2>2. ASSUME NEW x \in B PROVE x \in Part(o, 1 .. k - 1)
      <3>1. PICK i \in 1 .. n : o[i] = x
        BY <1>4 DEF UpTo, From
      <3>2. ~(k <= i)
        BY <1>1, <1>5, <1>6, <1>10, <3>1 DEF UpTo
      <3>3. i \in 1 .. k - 1
        BY <1>1, <3>2
      <3> QED BY <3>1, <3>3 DEF Part
    <2>3. Cardinality(Part(o, 1 .. k - 1)) = k - 1 /\ Part(o, 1 .. k - 1) \subseteq S
      BY <1>2, <1>3, <2>1
    <2> HIDE DEF B
    <2>4. B \in SUBSET S /\ B \subseteq Part(o, 1 .. k - 1)
      BY <2>2 DEF B, UpTo, From
    <2>5. Cardinality(B) <= k - 1
      BY <1>7, <2>3, <2>4
    <2> QED BY <2>5 DEF B
  <1>11. ASSUME NEW w \in Int, w > f[o[k]]
         PROVE  Cardinality(From(f, S, w)) <= n - k
    <2> DEFINE B == From(f, S, w)
    <2>1. k + 1 .. n \subseteq 1 .. n
      BY <1>1
    <2>2. ASSUME NEW x \in B PROVE x \in Part(o, k + 1 .. n)
      <3>1. PICK i \in 1 .. n : o[i] = x
        BY <1>4 DEF UpTo, From
      <3>2. ~(i <= k)
        BY <1>1, <1>5, <1>6, <1>11, <3>1 DEF From
      <3>3. i \in k + 1 .. n
        BY <1>1, <3>2
      <3> QED BY <3>1, <3>3 DEF Part
    <2>3. Cardinality(Part(o, k + 1 .. n)) = n - k /\ Part(o, k + 1 .. n) \subseteq S
      BY <1>2, <1>3, <2>1
    <2> HIDE DEF B
    <2>4. B \in SUBSET S /\ B \subseteq Part(o, k + 1 .. n)
      BY <2>2 DEF B, UpTo, From
    <2>5. Cardinality(B) <= n - k
      BY <1>7, <2>3, <2>4
    <2> QED BY <2>5 DEF B
  <1> QED BY <1>8, <1>9, <1>10, <1>11
=============================================================================
