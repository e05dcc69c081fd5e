-------------------------------- MODULE Sums --------------------------------
(***************************************************************************)
(* Facts about SumFunctionOnSet of the community module Functions, which   *)
(* the properties about supplies, balances and reserves are stated with:   *)
(* what the sum over a finite set is, and how it changes with one value    *)
(* and with one element.  The recursion of the fold is taken apart by      *)
(* looking at a smallest set on which a claim would fail.                  *)
(***************************************************************************)
EXTENDS Integers, Functions, FiniteSetTheorems, WellFoundedInduction, TLAPS

\* The element of a non-empty set that the fold takes first.
Pick(T) == CHOOSE x \in T : TRUE

\* g maps each subset of S to the sum of f on it.
IsSum(g, f, S) ==
    g = [T \in SUBSET S |-> IF T = {} THEN 0 ELSE f[Pick(T)] + g[T \ {Pick(T)}]]

\* A non-empty set of subsets of a finite set has a smallest member.
LEMMA SmallestSubset ==
  ASSUME NEW S, IsFiniteSet(S), NEW B \in SUBSET (SUBSET S), B # {}
  PROVE  \E T \in B : \A U \in B : U \subseteq T => U = T
  <1>1. IsWellFoundedOn(StrictSubsetOrdering(S), SUBSET S)
    BY FS_StrictSubsetOrderingWellFounded, FS_FiniteSubsetsOfFinite
  <1>2. PICK T \in B : \A U \in B : <<U, T>> \notin StrictSubsetOrdering(S)
    BY <1>1, WFMin
  <1>3. ASSUME NEW U \in B, U \subseteq T, U # T PROVE FALSE
    BY <1>2, <1>3 DEF StrictSubsetOrdering
  <1>. QED
    BY <1>3

LEMMA PickIn == ASSUME NEW T, T # {} PROVE Pick(T) \in T
  BY DEF Pick

\* The sums of a function are unique, also seen from a larger set.
LEMMA SumUnique ==
  ASSUME NEW S, IsFiniteSet(S), NEW R, S \subseteq R, NEW f, NEW g, NEW h,
         IsSum(g, f, R), IsSum(h, f, S)
  PROVE  \A T \in SUBSET S : g[T] = h[T]
  <1> DEFINE B == {T \in SUBSET S : g[T] # h[T]}
  <1> SUFFICES ASSUME B # {} PROVE FALSE
    OBVIOUS
  <1>1. PICK T \in B : \A U \in B : U \subseteq T => U = T
    <2>1. B \in SUBSET (SUBSET S)
      OBVIOUS
    <2> HIDE DEF B
    <2>. QED
      BY <2>1, SmallestSubset
  <1>2. T \in SUBSET S /\ T \in SUBSET R /\ g[T] # h[T]
    OBVIOUS
  <1>3. /\ g[T] = IF T = {} THEN 0 ELSE f[Pick(T)] + g[T \ {Pick(T)}]
        /\ h[T] = IF T = {} THEN 0 ELSE f[Pick(T)] + h[T \ {Pick(T)}]
    BY <1>2 DEF IsSum
  <1>4. T # {}
    BY <1>2, <1>3
  <1>5. T \ {Pick(T)} \in SUBSET S /\ T \ {Pick(T)} # T /\ T \ {Pick(T)} \subseteq T
    BY <1>2, <1>4, PickIn
  <1>6. g[T \ {Pick(T)}] = h[T \ {Pick(T)}]
    BY <1>1, <1>5
  <1>. QED
    BY <1>2, <1>3, <1>4, <1>6

\* Every function has a sum on each finite set.
LEMMA SumExists ==
  ASSUME NEW S, IsFiniteSet(S), NEW f
  PROVE  \E g : IsSum(g, f, S)
  <1> DEFINE B == {T \in SUBSET S : ~ \E g : IsSum(g, f, T)}
  <1> SUFFICES ASSUME B # {} PROVE FALSE
    OBVIOUS
  <1>1. PICK T \in B : \A U \in B : U \subseteq T => U = T
    <2>1. B \in SUBSET (SUBSET S)
      OBVIOUS
    <2> HIDE DEF B
    <2>. QED
      BY <2>1, SmallestSubset
  <1>2. T \in SUBSET S /\ ~ \E g : IsSum(g, f, T)
    OBVIOUS
  <1> DEFINE G(U) == CHOOSE g : IsSum(g, f, U)
             rest(U) == U \ {Pick(U)}
             sum(U) == IF U = {} THEN 0 ELSE f[Pick(U)] + G(rest(U))[rest(U)]
             g == [U \in SUBSET T |-> sum(U)]
  <1>3. ASSUME NEW U \in SUBSET T, U # T PROVE IsSum(G(U), f, U) /\ IsFiniteSet(U)
    <2>1. U \in SUBSET S /\ U \notin B
      BY <1>1, <1>2, <1>3
    <2>2. \E h : IsSum(h, f, U)
      BY <2>1
    <2>. QED
      BY <2>1, <2>2, FS_Subset
  <1>4. ASSUME NEW U \in SUBSET T, U # {}
        PROVE  rest(U) \in SUBSET T /\ rest(U) # T /\ rest(U) # U
    BY <1>4, PickIn
  <1>5. ASSUME NEW U \in SUBSET T, U # T PROVE sum(U) = G(U)[U]
    <2>0. PICK h : h = G(U) /\ IsSum(h, f, U)
      BY <1>3, <1>5
    <2>1. CASE U = {}
      <3>1. U \in SUBSET U
        OBVIOUS
      <3>2. h[U] = 0
        BY <2>0, <2>1, <3>1 DEF IsSum
      <3>. QED
        BY <2>0, <2>1, <3>2
    <2>2. CASE U # {}
      <3> DEFINE V == rest(U)
      <3>1. V \in SUBSET T /\ V # T /\ V \subseteq U
        BY <1>4, <2>2
      <3>2. IsSum(G(V), f, V) /\ IsFiniteSet(V)
        BY <1>3, <3>1
      <3>3. h[V] = G(V)[V]
        <4>1. PICK k : k = G(V)
          OBVIOUS
        <4> HIDE DEF G, V
        <4>2. \A W \in SUBSET V : h[W] = k[W]
          BY <2>0, <3>1, <3>2, <4>1, SumUnique
        <4>. QED
          BY <4>1, <4>2
      <3>4. h[U] = f[Pick(U)] + h[V]
        <4>1. U \in SUBSET U
          OBVIOUS
        <4>. QED
          BY <2>0, <2>2, <4>1 DEF IsSum
      <3>. QED
        BY <2>0, <2>2, <3>3, <3>4
    <2>. QED
      BY <2>1, <2>2
  <1>6. \A U \in SUBSET T : g[U] = IF U = {} THEN 0 ELSE f[Pick(U)] + g[U \ {Pick(U)}]
    <2> SUFFICES ASSUME NEW U \in SUBSET T
                 PROVE  g[U] = IF U = {} THEN 0 ELSE f[Pick(U)] + g[rest(U)]
      OBVIOUS
    <2>1. \A V \in SUBSET T : g[V] = sum(V)
      <3> HIDE DEF sum
      <3>. QED
        OBVIOUS
    <2>2. sum(U) = IF U = {} THEN 0 ELSE f[Pick(U)] + G(rest(U))[rest(U)]
      OBVIOUS
    <2>3. U # {} => g[rest(U)] = G(rest(U))[rest(U)]
      <3> SUFFICES ASSUME U # {} PROVE g[rest(U)] = G(rest(U))[rest(U)]
        OBVIOUS
      <3>1. rest(U) \in SUBSET T /\ rest(U) # T
        BY <1>4
      <3>2. g[rest(U)] = sum(rest(U)) /\ sum(rest(U)) = G(rest(U))[rest(U)]
        <4> HIDE DEF sum, rest, g, G
        <4>. QED
          BY <1>5, <2>1, <3>1
      <3> HIDE DEF sum, rest, g, G
      <3>. QED
        BY <3>2
    <2> HIDE DEF sum, rest, g, G
    <2>. QED
      BY <2>1, <2>2, <2>3
  <1>7. IsSum(g, f, T)
    <2>1. g = [U \in SUBSET T |-> g[U]]
      OBVIOUS
    <2> HIDE DEF g
    <2>. QED
      BY <1>6, <2>1 DEF IsSum
  <1>. QED
    BY <1>2, <1>7

-----------------------------------------------------------------------------

\* The fold is a sum in this sense.
LEMMA FoldIsSum ==
  ASSUME NEW S, IsFiniteSet(S), NEW f, NEW g, IsSum(g, f, S)
  PROVE  SumFunctionOnSet(f, S) = g[S]
  <1>1. SumFunctionOnSet(f, S) = (CHOOSE h : IsSum(h, f, S))[S]
    BY Zenon DEF SumFunctionOnSet, FoldFunctionOnSet, MapThenFoldSet, IsSum, Pick
  <1>2. PICK h : h = (CHOOSE k : IsSum(k, f, S)) /\ IsSum(h, f, S)
    OBVIOUS
  <1>3. \A T \in SUBSET S : h[T] = g[T]
    BY <1>2, SumUnique
  <1>. QED
    BY <1>1, <1>2, <1>3

LEMMA SumEmpty == ASSUME NEW f PROVE SumFunctionOnSet(f, {}) = 0
  <1>1. IsFiniteSet({})
    BY FS_EmptySet
  <1>2. PICK g : IsSum(g, f, {})
    BY <1>1, SumExists
  <1>3. g[{}] = 0
    BY <1>2 DEF IsSum
  <1>. QED
    BY <1>1, <1>2, <1>3, FoldIsSum

\* The recursion of the fold.
LEMMA SumPick ==
  ASSUME NEW S, IsFiniteSet(S), S # {}, NEW f
  PROVE  SumFunctionOnSet(f, S) = f[Pick(S)] + SumFunctionOnSet(f, S \ {Pick(S)})
  <1>1. PICK R : R = S \ {Pick(S)}
    OBVIOUS
  <1>2. IsFiniteSet(R) /\ R \subseteq S
    BY <1>1, FS_Subset
  <1>3. PICK g : IsSum(g, f, S)
    BY SumExists
  <1>4. PICK h : IsSum(h, f, R)
    BY <1>2, SumExists
  <1>5. g[R] = h[R]
    BY <1>2, <1>3, <1>4, SumUnique
  <1>6. g[S] = f[Pick(S)] + g[R]
    <2>1. S \in SUBSET S
      OBVIOUS
    <2>. QED
      BY <1>1, <1>3, <2>1 DEF IsSum
  <1>7. SumFunctionOnSet(f, S) = g[S] /\ SumFunctionOnSet(f, R) = h[R]
    BY <1>2, <1>3, <1>4, FoldIsSum
  <1>. QED
    BY <1>1, <1>5, <1>6, <1>7

(***************************************************************************)
(* A sum of integers is an integer, of natural numbers a natural number.   *)
(***************************************************************************)
LEMMA SumType ==
  ASSUME NEW S, IsFiniteSet(S), NEW f, NEW N \in {Nat, Int}, \A x \in S : f[x] \in N
  PROVE  SumFunctionOnSet(f, S) \in N
  <1> DEFINE B == {T \in SUBSET S : SumFunctionOnSet(f, T) \notin N}
  <1> SUFFICES ASSUME B # {} PROVE FALSE
    OBVIOUS
  <1>1. PICK T \in B : \A U \in B : U \subseteq T => U = T
    <2>1. B \in SUBSET (SUBSET S)
      OBVIOUS
    <2> HIDE DEF B
    <2>. QED
      BY <2>1, SmallestSubset
  <1>2. T \in SUBSET S /\ SumFunctionOnSet(f, T) \notin N /\ IsFiniteSet(T)
    BY FS_Subset
  <1>3. T # {}
    BY <1>2, SumEmpty
  <1>4. PICK R, x : x = Pick(T) /\ R = T \ {x}
    OBVIOUS
  <1>5. x \in T /\ R \in SUBSET S /\ R # T /\ R \subseteq T
    BY <1>2, <1>3, <1>4, PickIn
  <1>6. SumFunctionOnSet(f, R) \in N /\ f[x] \in N
    BY <1>1, <1>2, <1>5
  <1>7. SumFunctionOnSet(f, T) = f[x] + SumFunctionOnSet(f, R)
    BY <1>2, <1>3, <1>4, SumPick
  <1>8. \A a, b \in N : a + b \in N
    <2>1. CASE N = Nat
      BY <2>1
    <2>2. CASE N = Int
      BY <2>2
    <2>. QED
      BY <2>1, <2>2
  <1>. QED
    BY <1>2, <1>6, <1>7, <1>8

\* The sum depends on the values on the set alone.
LEMMA SumAgree ==
  ASSUME NEW S, IsFiniteSet(S), NEW f, NEW g, \A x \in S : f[x] = g[x]
  PROVE  SumFunctionOnSet(f, S) = SumFunctionOnSet(g, S)
  <1> DEFINE B == {T \in SUBSET S : SumFunctionOnSet(f, T) # SumFunctionOnSet(g, T)}
  <1> SUFFICES ASSUME B # {} PROVE FALSE
    OBVIOUS
  <1>1. PICK T \in B : \A U \in B : U \subseteq T => U = T
    <2>1. B \in SUBSET (SUBSET S)
      OBVIOUS
    <2> HIDE DEF B
    <2>. QED
      BY <2>1, SmallestSubset
  <1>2. T \in SUBSET S /\ SumFunctionOnSet(f, T) # SumFunctionOnSet(g, T) /\ IsFiniteSet(T)
    BY FS_Subset
  <1>3. T # {}
    BY <1>2, SumEmpty
  <1>4. PICK R, x : x = Pick(T) /\ R = T \ {x}
    OBVIOUS
  <1>5. x \in T /\ R \in SUBSET S /\ R # T /\ R \subseteq T
    BY <1>2, <1>3, <1>4, PickIn
  <1>6. SumFunctionOnSet(f, R) = SumFunctionOnSet(g, R) /\ f[x] = g[x]
    BY <1>1, <1>2, <1>5
  <1>7. /\ SumFunctionOnSet(f, T) = f[x] + SumFunctionOnSet(f, R)
        /\ SumFunctionOnSet(g, T) = g[x] + SumFunctionOnSet(g, R)
    BY <1>2, <1>3, <1>4, SumPick
  <1>. QED
    BY <1>2, <1>6, <1>7

\* Zeros add up to zero.
LEMMA SumZero ==
  ASSUME NEW S, IsFiniteSet(S), NEW f, \A x \in S : f[x] = 0
  PROVE  SumFunctionOnSet(f, S) = 0
  <1> DEFINE B == {T \in SUBSET S : SumFunctionOnSet(f, T) # 0}
  <1> SUFFICES ASSUME B # {} PROVE FALSE
    OBVIOUS
  <1>1. PICK T \in B : \A U \in B : U \subseteq T => U = T
    <2>1. B \in SUBSET (SUBSET S)
      OBVIOUS
    <2> HIDE DEF B
    <2>. QED
      BY <2>1, SmallestSubset
  <1>2. T \in SUBSET S /\ SumFunctionOnSet(f, T) # 0 /\ IsFiniteSet(T)
    BY FS_Subset
  <1>3. T # {}
    BY <1>2, SumEmpty
  <1>4. PICK R, x : x = Pick(T) /\ R = T \ {x}
    OBVIOUS
  <1>5. x \in T /\ R \in SUBSET S /\ R # T /\ R \subseteq T
    BY <1>2, <1>3, <1>4, PickIn
  <1>6. SumFunctionOnSet(f, R) = 0 /\ f[x] = 0
    BY <1>1, <1>2, <1>5
  <1>7. SumFunctionOnSet(f, T) = f[x] + SumFunctionOnSet(f, R)
    BY <1>2, <1>3, <1>4, SumPick
  <1>. QED
    BY <1>2, <1>6, <1>7

(***************************************************************************)
(* Any element may be taken out first: the order of the fold is immaterial.*)
(***************************************************************************)
LEMMA SumRemove ==
  ASSUME NEW S, IsFiniteSet(S), NEW f, \A y \in S : f[y] \in Int, NEW x \in S
  PROVE  SumFunctionOnSet(f, S) = f[x] + SumFunctionOnSet(f, S \ {x})
  <1> DEFINE Sum(T) == SumFunctionOnSet(f, T)
             B == {T \in SUBSET S : \E z \in T : Sum(T) # f[z] + Sum(T \ {z})}
  <1> SUFFICES ASSUME B # {} PROVE FALSE
    OBVIOUS
  <1>1. PICK T \in B : \A U \in B : U \subseteq T => U = T
    <2>1. B \in SUBSET (SUBSET S)
      OBVIOUS
    <2> HIDE DEF B
    <2>. QED
      BY <2>1, SmallestSubset
  <1>2. PICK z \in T : Sum(T) # f[z] + Sum(T \ {z})
    OBVIOUS
  <1>3. T \in SUBSET S /\ IsFiniteSet(T) /\ T # {}
    BY FS_Subset
  <1>4. PICK y : y = Pick(T)
    OBVIOUS
  <1>5. y \in T /\ Sum(T) = f[y] + Sum(T \ {y})
    BY <1>3, <1>4, PickIn, SumPick
  <1>6. y # z
    BY <1>2, <1>5
  <1>7. /\ z \in T \ {y} /\ T \ {y} \in SUBSET S /\ T \ {y} # T
        /\ y \in T \ {z} /\ T \ {z} \in SUBSET S /\ T \ {z} # T
    BY <1>2, <1>3, <1>5, <1>6
  <1>8. Sum(T \ {y}) = f[z] + Sum((T \ {y}) \ {z})
    BY <1>1, <1>7
  <1>9. Sum(T \ {z}) = f[y] + Sum((T \ {z}) \ {y})
    BY <1>1, <1>7
  <1>10. PICK R : R = (T \ {y}) \ {z} /\ R = (T \ {z}) \ {y}
    OBVIOUS
  <1>11. Sum(R) \in Int /\ f[y] \in Int /\ f[z] \in Int
    <2>1. R \in SUBSET S /\ IsFiniteSet(R)
      BY <1>3, <1>10, FS_Subset
    <2>2. Int \in {Nat, Int} /\ \A w \in R : f[w] \in Int
      BY <2>1
    <2>. QED
      BY <1>2, <1>3, <1>5, <2>1, <2>2, SumType
  <1>12. PICK s : s = Sum(R)
    OBVIOUS
  <1>13. Sum(T) = f[y] + (f[z] + s) /\ f[z] + Sum(T \ {z}) = f[z] + (f[y] + s)
    BY <1>5, <1>8, <1>9, <1>10, <1>12
  <1> HIDE DEF Sum
  <1>. QED
    BY <1>2, <1>11, <1>12, <1>13

\* An element more adds its value.
LEMMA SumAdd ==
  ASSUME NEW S, IsFiniteSet(S), NEW f, NEW x, x \notin S, \A y \in S \cup {x} : f[y] \in Int
  PROVE  SumFunctionOnSet(f, S \cup {x}) = SumFunctionOnSet(f, S) + f[x]
  <1>1. PICK T : T = S \cup {x}
    OBVIOUS
  <1>2. IsFiniteSet(T) /\ x \in T /\ T \ {x} = S /\ \A y \in T : f[y] \in Int
    BY <1>1, FS_AddElement
  <1>3. SumFunctionOnSet(f, T) = f[x] + SumFunctionOnSet(f, S)
    BY <1>2, SumRemove
  <1>4. SumFunctionOnSet(f, S) \in Int /\ f[x] \in Int
    <2>1. Int \in {Nat, Int} /\ \A y \in S : f[y] \in Int
      OBVIOUS
    <2>. QED
      BY <1>2, <2>1, SumType
  <1>. QED
    BY <1>1, <1>3, <1>4

(***************************************************************************)
(* One value changed changes the sum by the difference.                    *)
(***************************************************************************)
LEMMA SumChange ==
  ASSUME NEW S, IsFiniteSet(S), NEW x \in S, NEW f, NEW g,
         \A y \in S : f[y] \in Int /\ g[y] \in Int,
         \A y \in S : y # x => g[y] = f[y]
  PROVE  SumFunctionOnSet(g, S) = SumFunctionOnSet(f, S) + (g[x] - f[x])
  <1>1. PICK R : R = S \ {x}
    OBVIOUS
  <1>2. IsFiniteSet(R) /\ \A y \in R : f[y] = g[y] /\ f[y] \in Int
    BY <1>1, FS_Subset
  <1>3. SumFunctionOnSet(f, R) = SumFunctionOnSet(g, R) /\ SumFunctionOnSet(f, R) \in Int
    <2>1. Int \in {Nat, Int}
      OBVIOUS
    <2>. QED
      BY <1>2, <2>1, SumAgree, SumType
  <1>4. /\ SumFunctionOnSet(f, S) = f[x] + SumFunctionOnSet(f, R)
        /\ SumFunctionOnSet(g, S) = g[x] + SumFunctionOnSet(g, R)
    BY <1>1, SumRemove
  <1>. QED
    BY <1>3, <1>4
=============================================================================
