------------------------------- MODULE SetLemmas -------------------------------
(***************************************************************************)
(* Sums over finite sets and their maxima.  The models write               *)
(* SumFunctionOnSet(f, S) for the sum of f[x] over all x in S; the         *)
(* community module defines it by picking elements one after the other.    *)
(* Here is what the proofs use: the order does not matter, so that a sum   *)
(* is taken apart at any element, and a maximum exists.                    *)
(*                                                                         *)
(* Each proof by induction on the set picks a smallest counterexample      *)
(* (SmallestSet).                                                          *)
(***************************************************************************)
EXTENDS Integers, FiniteSets, FiniteSetsExt, FiniteSetTheorems,
        WellFoundedInduction, TLAPS

\* The element that the library's fold takes first.
Pick(T) == CHOOSE x \in T : TRUE

\* g is the table of the sums of f over the subsets of S.
IsSum(g, f, S) ==
  g = [T \in SUBSET S |-> IF T = {} THEN 0 ELSE f[Pick(T)] + g[T \ {Pick(T)}]]

\* A set of subsets of a finite set has a smallest member.
LEMMA SmallestSet ==
  ASSUME NEW S, IsFiniteSet(S), NEW B, B \subseteq SUBSET S, B # {}
  PROVE  \E T \in B : \A U \in B : U \subseteq T => U = T
<1>1. IsWellFoundedOn(StrictSubsetOrdering(S), SUBSET S)
  BY FS_StrictSubsetOrderingWellFounded, FS_FiniteSubsetsOfFinite
<1>2. PICK T \in B : \A U \in B : <<U, T>> \notin StrictSubsetOrdering(S)
  BY <1>1, WFMin, Zenon
<1> QED BY <1>2 DEF StrictSubsetOrdering

LEMMA SumDef ==
  ASSUME NEW f, NEW S
  PROVE  SumFunctionOnSet(f, S) = (CHOOSE g : IsSum(g, f, S))[S]
BY DEF SumFunctionOnSet, FoldFunctionOnSet, MapThenFoldSet, IsSum, Pick

\* Two tables agree where both are defined.
LEMMA SumUnique ==
  ASSUME NEW f, NEW S, NEW U, IsFiniteSet(S),
         NEW g, IsSum(g, f, S), NEW h, IsSum(h, f, U)
  PROVE  \A T \in SUBSET (S \cap U) : g[T] = h[T]
<1> DEFINE B == {T \in SUBSET (S \cap U) : g[T] # h[T]}
<1> SUFFICES ASSUME B # {} PROVE FALSE
  OBVIOUS
<1>1. IsFiniteSet(S \cap U) /\ B \subseteq SUBSET (S \cap U)
  BY FS_Subset
<1> HIDE DEF B
<1>2. PICK T \in B : \A V \in B : V \subseteq T => V = T
  BY <1>1, SmallestSet
<1> USE DEF B
<1>3. T \in SUBSET S /\ T \in SUBSET U
  OBVIOUS
<1>4. /\ g[T] = IF T = {} THEN 0 ELSE f[Pick(T)] + g[T \ {Pick(T)}]
      /\ h[T] = IF T = {} THEN 0 ELSE f[Pick(T)] + h[T \ {Pick(T)}]
  BY <1>3 DEF IsSum
<1>5. T # {}
  BY <1>4
<1>6. Pick(T) \in T
  BY <1>5 DEF Pick
<1>7. T \ {Pick(T)} \notin B
  BY <1>2, <1>6
<1> QED BY <1>4, <1>7

\* Every finite set has a table.
LEMMA SumExists ==
  ASSUME NEW f, NEW S, IsFiniteSet(S)
  PROVE  \E g : IsSum(g, f, S)
<1> DEFINE K(T) == CHOOSE g : IsSum(g, f, T)
           B == {T \in SUBSET S : ~ \E g : IsSum(g, f, T)}
<1> SUFFICES ASSUME B # {} PROVE FALSE
  OBVIOUS
<1>0. B \subseteq SUBSET S
  OBVIOUS
<1> HIDE DEF B
<1>1. PICK T \in B : \A V \in B : V \subseteq T => V = T
  BY <1>0, SmallestSet
<1> USE DEF B
<1>2. ASSUME NEW V \in SUBSET T, V # T
      PROVE  IsSum(K(V), f, V) /\ IsFiniteSet(V)
  BY <1>1, <1>2, FS_Subset
<1> HIDE DEF K
<1> DEFINE G == [V \in SUBSET T |-> IF V = {} THEN 0
                 ELSE f[Pick(V)] + K(V \ {Pick(V)})[V \ {Pick(V)}]]
<1>3. ASSUME NEW V \in SUBSET T, V # T
      PROVE  G[V] = K(V)[V]
  <2>1. K(V)[V] = IF V = {} THEN 0 ELSE f[Pick(V)] + K(V)[V \ {Pick(V)}]
    BY <1>2, <1>3 DEF IsSum
  <2>2. CASE V = {}
    BY <2>1, <2>2
  <2>3. CASE V # {}
    <3> DEFINE W == V \ {Pick(V)}
    <3>1. W \in SUBSET T /\ W # T /\ W \in SUBSET (V \cap W)
      BY <1>3
    <3>2. IsSum(K(W), f, W) /\ IsSum(K(V), f, V) /\ IsFiniteSet(V)
      BY <3>1, <1>2, <1>3
    <3>3. \A X \in SUBSET (V \cap W) : K(V)[X] = K(W)[X]
      <4> HIDE DEF W
      <4> QED BY <3>2, SumUnique
    <3> QED BY <2>1, <2>3, <3>1, <3>3
  <2> QED BY <2>2, <2>3
<1>4. IsSum(G, f, T)
  <2> SUFFICES ASSUME NEW V \in SUBSET T
               PROVE  G[V] = IF V = {} THEN 0 ELSE f[Pick(V)] + G[V \ {Pick(V)}]
    BY DEF IsSum
  <2>1. CASE V = {}
    BY <2>1
  <2>2. CASE V # {}
    <3>1. Pick(V) \in V
      BY <2>2 DEF Pick
    <3>2. G[V \ {Pick(V)}] = K(V \ {Pick(V)})[V \ {Pick(V)}]
      BY <3>1, <1>3
    <3> HIDE DEF G
    <3>3. G[V] = f[Pick(V)] + K(V \ {Pick(V)})[V \ {Pick(V)}]
      BY <2>2 DEF G
    <3> QED BY <2>2, <3>2, <3>3
  <2> QED BY <2>1, <2>2
<1> QED BY <1>1, <1>4

LEMMA SumUnfold ==
  ASSUME NEW f, NEW S, IsFiniteSet(S)
  PROVE  SumFunctionOnSet(f, S) =
           IF S = {} THEN 0
           ELSE f[Pick(S)] + SumFunctionOnSet(f, S \ {Pick(S)})
<1> DEFINE K(T) == CHOOSE g : IsSum(g, f, T)
           W == S \ {Pick(S)}
<1>1. IsFiniteSet(W)
  BY FS_Subset
<1>2. IsSum(K(S), f, S) /\ IsSum(K(W), f, W)
  BY <1>1, SumExists
<1>3. SumFunctionOnSet(f, S) = K(S)[S] /\ SumFunctionOnSet(f, W) = K(W)[W]
  BY SumDef
<1> HIDE DEF K
<1>4. K(S)[S] = IF S = {} THEN 0 ELSE f[Pick(S)] + K(S)[W]
  BY <1>2 DEF IsSum
<1>5. \A X \in SUBSET (S \cap W) : K(S)[X] = K(W)[X]
  <2> HIDE DEF W
  <2> QED BY <1>2, SumUnique
<1>6. K(S)[W] = K(W)[W]
  BY <1>5
<1> QED BY <1>3, <1>4, <1>6

-----------------------------------------------------------------------------
(* What the models need. *)

LEMMA SumEmpty ==
  ASSUME NEW f
  PROVE  SumFunctionOnSet(f, {}) = 0
BY SumUnfold, FS_EmptySet

\* A sum of integers is an integer, a sum of naturals a natural.
LEMMA SumType ==
  ASSUME NEW f, NEW S, IsFiniteSet(S), NEW R \in {Int, Nat},
         \A x \in S : f[x] \in R
  PROVE  SumFunctionOnSet(f, S) \in R
<1> DEFINE B == {T \in SUBSET S : SumFunctionOnSet(f, T) \notin R}
<1> SUFFICES ASSUME B # {} PROVE FALSE
  OBVIOUS
<1>0. B \subseteq SUBSET S
  OBVIOUS
<1> HIDE DEF B
<1>1. PICK T \in B : \A V \in B : V \subseteq T => V = T
  BY <1>0, SmallestSet
<1> USE DEF B
<1>2. IsFiniteSet(T)
  BY FS_Subset
<1>3. T # {}
  BY SumEmpty
<1>4. Pick(T) \in T
  BY <1>3 DEF Pick
<1>5. SumFunctionOnSet(f, T \ {Pick(T)}) \in R /\ f[Pick(T)] \in R
  BY <1>1, <1>4
<1>6. SumFunctionOnSet(f, T) = f[Pick(T)] + SumFunctionOnSet(f, T \ {Pick(T)})
  BY <1>2, <1>3, SumUnfold
<1> QED BY <1>5, <1>6

\* The sum is taken apart at any element.
LEMMA SumRemove ==
  ASSUME NEW f, NEW S, IsFiniteSet(S), \A x \in S : f[x] \in Int, NEW y \in S
  PROVE  SumFunctionOnSet(f, S) = f[y] + SumFunctionOnSet(f, S \ {y})
<1> DEFINE Sum(T) == SumFunctionOnSet(f, T)
           Splits(T) == \A x \in T : Sum(T) = f[x] + Sum(T \ {x})
           B == {T \in SUBSET S : ~Splits(T)}
<1> SUFFICES ASSUME B # {} PROVE FALSE
  OBVIOUS
<1>0. B \subseteq SUBSET S
  OBVIOUS
<1>1. \A T \in SUBSET S : Sum(T) \in Int
  BY SumType, FS_Subset
<1> HIDE DEF B, Splits
<1>2. PICK T \in B : \A V \in B : V \subseteq T => V = T
  BY <1>0, SmallestSet
<1>3. \A V \in SUBSET T : V # T => Splits(V)
  BY <1>0, <1>2 DEF B
<1>4. T \in SUBSET S /\ IsFiniteSet(T) /\ ~Splits(T)
  BY <1>0, FS_Subset DEF B
<1>5. PICK x \in T : Sum(T) # f[x] + Sum(T \ {x})
  BY <1>4 DEF Splits
<1> DEFINE p == Pick(T)
           W == T \ {p, x}
<1>6. p \in T
  BY DEF Pick
<1>7. Sum(T) = f[p] + Sum(T \ {p})
  BY <1>4, SumUnfold
<1> HIDE DEF p, Sum
<1>8. x # p
  BY <1>5, <1>7
<1>9. /\ (T \ {p}) \ {x} = W
      /\ (T \ {x}) \ {p} = W
      /\ T \ {p} # T /\ x \in T \ {p}
      /\ T \ {x} # T /\ p \in T \ {x}
      /\ W \in SUBSET S
  BY <1>4, <1>6, <1>8
<1>10. Splits(T \ {p}) /\ Splits(T \ {x})
  BY <1>3, <1>9
<1>11. Sum(T \ {p}) = f[x] + Sum(W) /\ Sum(T \ {x}) = f[p] + Sum(W)
  BY <1>9, <1>10 DEF Splits
<1>12. f[x] \in Int /\ f[p] \in Int /\ Sum(W) \in Int
  BY <1>1, <1>4, <1>6, <1>9
<1>13. f[p] + (f[x] + Sum(W)) = f[x] + (f[p] + Sum(W))
  BY <1>12
<1> QED BY <1>5, <1>7, <1>11, <1>13

LEMMA SumAdd ==
  ASSUME NEW f, NEW S, IsFiniteSet(S), \A x \in S : f[x] \in Int,
         NEW y, y \notin S, f[y] \in Int
  PROVE  SumFunctionOnSet(f, S \cup {y}) = SumFunctionOnSet(f, S) + f[y]
<1>1. IsFiniteSet(S \cup {y})
  BY FS_AddElement
<1>2. SumFunctionOnSet(f, S \cup {y}) = f[y] + SumFunctionOnSet(f, (S \cup {y}) \ {y})
  BY <1>1, SumRemove
<1>3. (S \cup {y}) \ {y} = S
  OBVIOUS
<1>4. SumFunctionOnSet(f, S) \in Int
  BY SumType
<1>5. SumFunctionOnSet(f, S \cup {y}) = f[y] + SumFunctionOnSet(f, S)
  BY <1>2, <1>3
<1> QED BY <1>4, <1>5

\* Only the values on the set matter.
LEMMA SumSame ==
  ASSUME NEW f, NEW g, NEW S, IsFiniteSet(S), \A x \in S : f[x] = g[x]
  PROVE  SumFunctionOnSet(f, S) = SumFunctionOnSet(g, S)
<1> DEFINE B == {T \in SUBSET S : SumFunctionOnSet(f, T) # SumFunctionOnSet(g, T)}
<1> SUFFICES ASSUME B # {} PROVE FALSE
  OBVIOUS
<1>0. B \subseteq SUBSET S
  OBVIOUS
<1> HIDE DEF B
<1>1. PICK T \in B : \A V \in B : V \subseteq T => V = T
  BY <1>0, SmallestSet
<1> USE DEF B
<1>2. IsFiniteSet(T)
  BY FS_Subset
<1>3. T # {}
  BY SumEmpty
<1>4. Pick(T) \in T
  BY <1>3 DEF Pick
<1>5. SumFunctionOnSet(f, T \ {Pick(T)}) = SumFunctionOnSet(g, T \ {Pick(T)})
  BY <1>1, <1>4
<1>6. /\ SumFunctionOnSet(f, T) = f[Pick(T)] + SumFunctionOnSet(f, T \ {Pick(T)})
      /\ SumFunctionOnSet(g, T) = g[Pick(T)] + SumFunctionOnSet(g, T \ {Pick(T)})
  BY <1>2, <1>3, SumUnfold
<1> QED BY <1>4, <1>5, <1>6

\* Changing one value changes the sum by the difference.
LEMMA SumUpdate ==
  ASSUME NEW f, NEW g, NEW S, IsFiniteSet(S), NEW y \in S,
         \A x \in S : f[x] \in Int /\ g[x] \in Int,
         \A x \in S \ {y} : f[x] = g[x]
  PROVE  SumFunctionOnSet(g, S) = SumFunctionOnSet(f, S) + g[y] - f[y]
<1>1. IsFiniteSet(S \ {y})
  BY FS_Subset
<1>2. SumFunctionOnSet(f, S \ {y}) = SumFunctionOnSet(g, S \ {y})
  BY <1>1, SumSame
<1>3. SumFunctionOnSet(f, S \ {y}) \in Int
  BY <1>1, SumType
<1>4. /\ SumFunctionOnSet(f, S) = f[y] + SumFunctionOnSet(f, S \ {y})
      /\ SumFunctionOnSet(g, S) = g[y] + SumFunctionOnSet(g, S \ {y})
  BY SumRemove
<1> QED BY <1>2, <1>3, <1>4

\* The sum over a part and the sum over the rest.
LEMMA SumDifference ==
  ASSUME NEW f, NEW S, IsFiniteSet(S), \A x \in S : f[x] \in Int, NEW T \in SUBSET S
  PROVE  SumFunctionOnSet(f, S \ T) = SumFunctionOnSet(f, S) - SumFunctionOnSet(f, T)
<1> DEFINE Sum(U) == SumFunctionOnSet(f, U)
           B == {U \in SUBSET T : Sum(S \ U) # Sum(S) - Sum(U)}
<1> SUFFICES ASSUME B # {} PROVE FALSE
  OBVIOUS
<1>0. IsFiniteSet(T) /\ B \subseteq SUBSET T
  BY FS_Subset
<1>1. \A U \in SUBSET S : Sum(U) \in Int /\ IsFiniteSet(U)
  BY SumType, FS_Subset
<1> HIDE DEF B
<1>2. PICK U \in B : \A V \in B : V \subseteq U => V = U
  BY <1>0, SmallestSet
<1>3. U \in SUBSET T /\ Sum(S \ U) # Sum(S) - Sum(U)
  BY <1>0 DEF B
<1>4. U # {}
  <2>1. S \ {} = S /\ S \in SUBSET S
    OBVIOUS
  <2>2. Sum({}) = 0 /\ Sum(S) \in Int
    BY <1>1, <2>1, SumEmpty
  <2> HIDE DEF Sum
  <2> QED BY <1>3, <2>1, <2>2
<1>5. PICK x : x \in U
  BY <1>4
<1> DEFINE V == U \ {x}
<1>6. V \in SUBSET T /\ V # U /\ S \ U = (S \ V) \ {x} /\ x \in S \ V
      /\ S \ V \in SUBSET S /\ S \ U \in SUBSET S /\ U \in SUBSET S /\ V \in SUBSET S
      /\ S \in SUBSET S
  BY <1>3, <1>5
<1>7. Sum(S \ V) = Sum(S) - Sum(V)
  BY <1>2, <1>6 DEF B
<1>8. Sum(U) = f[x] + Sum(V)
  BY <1>1, <1>5, <1>6, SumRemove
<1>9. Sum(S \ V) = f[x] + Sum((S \ V) \ {x})
  BY <1>1, <1>6, SumRemove
<1> HIDE DEF Sum, V
<1>10. Sum(S \ V) = f[x] + Sum(S \ U)
  BY <1>6, <1>9
<1>11. f[x] \in Int /\ Sum(S) \in Int /\ Sum(U) \in Int /\ Sum(V) \in Int /\ Sum(S \ U) \in Int
  BY <1>1, <1>6
<1> QED BY <1>3, <1>7, <1>8, <1>10, <1>11

\* Zeros sum up to zero.
LEMMA SumZero ==
  ASSUME NEW S, IsFiniteSet(S)
  PROVE  SumFunctionOnSet([x \in S |-> 0], S) = 0
<1> DEFINE z == [x \in S |-> 0]
           B == {T \in SUBSET S : SumFunctionOnSet(z, T) # 0}
<1> SUFFICES ASSUME B # {} PROVE FALSE
  OBVIOUS
<1>0. B \subseteq SUBSET S
  OBVIOUS
<1> HIDE DEF B
<1>1. PICK T \in B : \A V \in B : V \subseteq T => V = T
  BY <1>0, SmallestSet
<1>2. T \in SUBSET S /\ SumFunctionOnSet(z, T) # 0
  BY <1>1 DEF B
<1>3. IsFiniteSet(T) /\ T # {}
  BY <1>2, SumEmpty, FS_Subset
<1>4. Pick(T) \in T
  BY <1>3 DEF Pick
<1>5. SumFunctionOnSet(z, T \ {Pick(T)}) = 0 /\ z[Pick(T)] = 0
  BY <1>1, <1>2, <1>4 DEF B
<1>6. SumFunctionOnSet(z, T) = z[Pick(T)] + SumFunctionOnSet(z, T \ {Pick(T)})
  BY <1>3, SumUnfold
<1> QED BY <1>2, <1>5, <1>6

\* A sum of values that are at most m.
LEMMA SumBounded ==
  ASSUME NEW f, NEW S, IsFiniteSet(S), NEW m \in Int,
         \A x \in S : f[x] \in Int /\ f[x] <= m
  PROVE  SumFunctionOnSet(f, S) <= Cardinality(S) * m
<1> DEFINE Sum(T) == SumFunctionOnSet(f, T)
           B == {T \in SUBSET S : ~ Sum(T) <= Cardinality(T) * m}
<1> SUFFICES ASSUME B # {} PROVE FALSE
  OBVIOUS
<1>0. B \subseteq SUBSET S
  OBVIOUS
<1>1. \A T \in SUBSET S : Sum(T) \in Int /\ IsFiniteSet(T) /\ Cardinality(T) \in Nat
  BY SumType, FS_Subset, FS_CardinalityType
<1> HIDE DEF B
<1>2. PICK T \in B : \A V \in B : V \subseteq T => V = T
  BY <1>0, SmallestSet
<1>3. T \in SUBSET S /\ ~ Sum(T) <= Cardinality(T) * m
  BY <1>2 DEF B
<1>4. T # {}
  <2>1. Sum({}) = 0 /\ Cardinality({}) = 0
    BY SumEmpty, FS_EmptySet
  <2> HIDE DEF Sum
  <2> QED BY <1>3, <2>1
<1>5. PICK x : x \in T
  BY <1>4
<1> DEFINE V == T \ {x}
<1>6. V \in SUBSET S /\ V # T /\ V \subseteq T /\ x \in S
  BY <1>3, <1>5
<1>7. Sum(V) <= Cardinality(V) * m
  BY <1>2, <1>6 DEF B
<1>8. Sum(T) = f[x] + Sum(V)
  BY <1>1, <1>3, <1>5, SumRemove
<1>9. Cardinality(V) = Cardinality(T) - 1
  BY <1>1, <1>3, <1>5, FS_RemoveElement
<1> HIDE DEF Sum, V
<1>10. /\ f[x] \in Int /\ f[x] <= m /\ Sum(V) \in Int /\ Sum(T) \in Int
       /\ Cardinality(T) \in Int
  BY <1>1, <1>3, <1>6
<1>11. Sum(V) <= (Cardinality(T) - 1) * m
  BY <1>7, <1>9
<1>12. (Cardinality(T) - 1) * m = Cardinality(T) * m - m /\ Cardinality(T) * m \in Int
  BY <1>10
<1> QED BY <1>3, <1>8, <1>10, <1>11, <1>12

-----------------------------------------------------------------------------
(* Maxima. *)

\* A function to integers is largest somewhere.
LEMMA LargestValue ==
  ASSUME NEW S, IsFiniteSet(S), S # {}, NEW f, \A x \in S : f[x] \in Int
  PROVE  \E x \in S : \A y \in S : f[y] <= f[x]
<1> DEFINE HasMax(T) == \E x \in T : \A y \in T : f[y] <= f[x]
           B == {T \in SUBSET S : T # {} /\ ~HasMax(T)}
<1> SUFFICES ASSUME B # {} PROVE FALSE
  OBVIOUS
<1> HIDE DEF HasMax
<1>0. IsFiniteSet(S) /\ B \subseteq SUBSET S /\ B # {}
  OBVIOUS
<1> HIDE DEF B
<1>1. PICK T \in B : \A V \in B : V \subseteq T => V = T
  BY ONLY <1>0, SmallestSet
<1>2. T \in SUBSET S /\ T # {} /\ ~HasMax(T)
  BY DEF B
<1>3. PICK x : x \in T
  BY <1>2
<1>4. f[x] \in Int /\ \A y \in T : f[y] \in Int
  BY <1>2, <1>3
<1>5. T \ {x} # {}
  <2> SUFFICES ASSUME T = {x} PROVE FALSE
    BY <1>3
  <2> QED BY <1>2, <1>4 DEF HasMax
<1>6. HasMax(T \ {x})
  BY <1>1, <1>2, <1>3, <1>5 DEF B
<1>7. PICK z \in T \ {x} : \A y \in T \ {x} : f[y] <= f[z]
  BY <1>6 DEF HasMax
<1>8. f[z] \in Int /\ z \in T
  BY <1>4
<1>9. CASE f[x] <= f[z]
  <2>1. \A y \in T : f[y] <= f[z]
    BY <1>7, <1>9
  <2> QED BY <1>2, <1>8, <2>1 DEF HasMax
<1>10. CASE f[z] <= f[x]
  <2>1. \A y \in T : f[y] <= f[x]
    BY <1>4, <1>7, <1>8, <1>10
  <2> QED BY <1>2, <1>3, <2>1 DEF HasMax
<1> QED BY <1>4, <1>8, <1>9, <1>10

\* And smallest somewhere.
LEMMA SmallestValue ==
  ASSUME NEW S, IsFiniteSet(S), S # {}, NEW f, \A x \in S : f[x] \in Int
  PROVE  \E x \in S : \A y \in S : f[x] <= f[y]
<1> DEFINE g == [x \in S |-> -f[x]]
<1>1. \A x \in S : g[x] \in Int /\ g[x] = -f[x]
  OBVIOUS
<1> HIDE DEF g
<1>2. PICK x \in S : \A y \in S : g[y] <= g[x]
  BY <1>1, LargestValue
<1>3. \A y \in S : f[x] <= f[y]
  BY <1>1, <1>2
<1> QED BY <1>3

\* A finite set of integers has a largest element.
LEMMA MaxProperties ==
  ASSUME NEW S, IsFiniteSet(S), S \subseteq Int, S # {}
  PROVE  Max(S) \in S /\ \A y \in S : y <= Max(S)
<1> DEFINE f == [x \in S |-> x]
<1>0. \A x \in S : f[x] = x /\ f[x] \in Int
  OBVIOUS
<1> HIDE DEF f
<1>1. PICK m \in S : \A y \in S : y <= m
  <2>1. \E m \in S : \A y \in S : f[y] <= f[m]
    BY <1>0, LargestValue
  <2> QED BY <1>0, <2>1
<1>2. \A y \in S : m >= y
  BY <1>1
<1>3. Max(S) \in S /\ \A y \in S : Max(S) >= y
  BY <1>2 DEF Max
<1> QED BY <1>3
=============================================================================
