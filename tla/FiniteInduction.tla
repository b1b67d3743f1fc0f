--------------------------- MODULE FiniteInduction ---------------------------
(***************************************************************************)
(* Facts about finite sets that the proofs of the other modules need, for  *)
(* every set and function: induction over a finite set, the sum of a       *)
(* function over a finite set (SumFunctionOnSet of the community modules), *)
(* greatest and least elements, and functions defined by recursion.        *)
(* Nothing here is about the program.                                      *)
(*                                                                         *)
(* The induction theorems of the library take an operator as a parameter,  *)
(* which the provers cannot instantiate.  MinimalSet says the same with a  *)
(* set of sets instead: among the finite sets that are bad, one has only   *)
(* good subsets.                                                           *)
(***************************************************************************)
EXTENDS Integers, FiniteSets, Functions, FiniteSetTheorems,
        WellFoundedInduction, TLAPS

-----------------------------------------------------------------------------
(***************************************************************************)
(* Induction over a finite set                                             *)
(***************************************************************************)
\* Of the bad subsets of a finite set there is one with no bad subset.
LEMMA MinimalSet ==
  ASSUME NEW S, IsFiniteSet(S), NEW Bad \in SUBSET (SUBSET S), Bad # {}
  PROVE  \E T \in Bad : \A U \in SUBSET T : U # T => U \notin Bad
  <1>1. FiniteSubsetsOf(S) = SUBSET S
    BY FS_FiniteSubsetsOfFinite
  <1>2. IsWellFoundedOn(StrictSubsetOrdering(S), SUBSET S)
    BY <1>1, FS_StrictSubsetOrderingWellFounded
  <1>3. PICK T \in Bad : \A U \in Bad : ~ (<<U, T>> \in StrictSubsetOrdering(S))
    BY <1>2, WFMin
  <1>4. ASSUME NEW U \in SUBSET T, U # T PROVE U \notin Bad
    BY <1>3, <1>4 DEF StrictSubsetOrdering
  <1> QED BY <1>4

\* What holds for the empty set, and stays so when an element is added, holds
\* for every finite set.
LEMMA SetInduction ==
  ASSUME NEW S, IsFiniteSet(S), NEW Good \in SUBSET (SUBSET S),
         {} \in Good,
         \A T \in Good : \A x \in S \ T : T \cup {x} \in Good
  PROVE  S \in Good
  <1> DEFINE Bad == (SUBSET S) \ Good
  <1> SUFFICES ASSUME Bad # {} PROVE FALSE
    OBVIOUS
  <1>0. Bad \in SUBSET (SUBSET S)
    OBVIOUS
  <1> HIDE DEF Bad
  <1>1. PICK T \in Bad : \A U \in SUBSET T : U # T => U \notin Bad
    BY <1>0, MinimalSet
  <1> USE DEF Bad
  <1>2. PICK x \in T : TRUE
    BY <1>1
  <1>3. T \ {x} \in Good
    BY <1>1, <1>2
  <1>4. T = (T \ {x}) \cup {x} /\ x \in S \ (T \ {x})
    BY <1>2
  <1> QED BY <1>1, <1>3, <1>4

\* What a function makes of a finite set is finite.
THEOREM ImageFinite ==
  ASSUME NEW S, IsFiniteSet(S), NEW f
  PROVE  IsFiniteSet({f[x] : x \in S})
  <1> DEFINE Image(T) == {f[x] : x \in T}
             Good == {T \in SUBSET S : IsFiniteSet(Image(T))}
  <1>1. {} \in Good
    <2>1. Image({}) = {}
      OBVIOUS
    <2> QED BY <2>1, FS_EmptySet
  <1>2. ASSUME NEW T \in Good, NEW x \in S \ T PROVE T \cup {x} \in Good
    <2>1. Image(T \cup {x}) = Image(T) \cup {f[x]}
      OBVIOUS
    <2>2. IsFiniteSet(Image(T)) /\ T \cup {x} \in SUBSET S
      OBVIOUS
    <2> HIDE DEF Image
    <2>3. IsFiniteSet(Image(T) \cup {f[x]})
      BY <2>2, FS_AddElement
    <2>4. IsFiniteSet(Image(T \cup {x}))
      BY <2>1, <2>3, Zenon
    <2> QED BY <2>2, <2>4
  <1>3. Good \in SUBSET (SUBSET S)
    OBVIOUS
  <1> HIDE DEF Good
  <1>4. S \in Good
    BY <1>1, <1>2, <1>3, SetInduction
  <1> QED BY <1>4 DEF Good

-----------------------------------------------------------------------------
(***************************************************************************)
(* Sums                                                                    *)
(***************************************************************************)
\* The element the folds of the community modules begin with.
Pick(s) == CHOOSE x \in s : TRUE

\* g is the function by which the folds compute the sum of f over S.
IsSum(g, f, S) ==
  g = [s \in SUBSET S |-> IF s = {} THEN 0 ELSE f[Pick(s)] + g[s \ {Pick(s)}]]

\* The sum is the value of that function.
LEMMA SumFolds ==
  ASSUME NEW f, NEW S
  PROVE  SumFunctionOnSet(f, S) = (CHOOSE g : IsSum(g, f, S))[S]
  BY DEF SumFunctionOnSet, FoldFunctionOnSet, MapThenFoldSet, IsSum, Pick

\* A nonempty set has an element to begin with.
LEMMA PickIn == ASSUME NEW s, s # {} PROVE Pick(s) \in s
  BY DEF Pick

\* Two such functions agree on the sets that both are defined on.
LEMMA SumUnique ==
  ASSUME NEW f, NEW S, NEW U, IsFiniteSet(S),
         NEW g, IsSum(g, f, S), NEW h, IsSum(h, f, U)
  PROVE  \A s \in SUBSET S : s \in SUBSET U => g[s] = h[s]
  <1> DEFINE Bad == {s \in SUBSET S : s \in SUBSET U /\ g[s] # h[s]}
  <1> SUFFICES ASSUME Bad # {} PROVE FALSE
    OBVIOUS
  <1>0. Bad \in SUBSET (SUBSET S)
    OBVIOUS
  <1> HIDE DEF Bad
  <1>1. PICK T \in Bad : \A V \in SUBSET T : V # T => V \notin Bad
    BY <1>0, MinimalSet
  <1> USE DEF Bad
  <1>2. T # {}
    BY DEF IsSum
  <1>3. Pick(T) \in T
    BY <1>2, PickIn
  <1>4. T \ {Pick(T)} \notin Bad
    BY <1>1, <1>3
  <1>5. g[T \ {Pick(T)}] = h[T \ {Pick(T)}]
    BY <1>4
  <1>6. g[T] = f[Pick(T)] + g[T \ {Pick(T)}]
    BY <1>2 DEF IsSum
  <1>7. h[T] = f[Pick(T)] + h[T \ {Pick(T)}]
    BY <1>2 DEF IsSum
  <1> QED BY <1>5, <1>6, <1>7

\* There is one for each finite set.
LEMMA SumExists ==
  ASSUME NEW f, NEW S, IsFiniteSet(S)
  PROVE  \E g : IsSum(g, f, S)
  <1> DEFINE Bad == {T \in SUBSET S : ~ \E g : IsSum(g, f, T)}
  <1> SUFFICES ASSUME Bad # {} PROVE FALSE
    OBVIOUS
  <1>0. Bad \in SUBSET (SUBSET S)
    OBVIOUS
  <1> HIDE DEF Bad
  <1>1. PICK T \in Bad : \A V \in SUBSET T : V # T => V \notin Bad
    BY <1>0, MinimalSet
  <1> USE DEF Bad
  <1> DEFINE sum(V) == CHOOSE g : IsSum(g, f, V)
             value(V) == IF V = {} THEN 0 ELSE f[Pick(V)] + sum(V \ {Pick(V)})[V \ {Pick(V)}]
             h == [V \in SUBSET T |-> value(V)]
  <1>2. ASSUME NEW V \in SUBSET T, V # T PROVE IsSum(sum(V), f, V)
    <2>1. \E g : IsSum(g, f, V)
      BY <1>1, <1>2
    <2> QED BY <2>1
  <1> HIDE DEF sum
  <1>3. ASSUME NEW V \in SUBSET T, V # {} PROVE h[V \ {Pick(V)}] = sum(V \ {Pick(V)})[V \ {Pick(V)}]
    <2> DEFINE W == V \ {Pick(V)}
    <2>1. W \in SUBSET T /\ W # T
      BY <1>3, PickIn
    <2>2. IsSum(sum(W), f, W)
      BY <1>2, <2>1
    <2>3. CASE W = {}
      BY <2>1, <2>2, <2>3 DEF IsSum
    <2>4. CASE W # {}
      <3> DEFINE X == W \ {Pick(W)}
      <3>1. X \in SUBSET W /\ X \in SUBSET T /\ X # T
        BY <2>1, <2>4, PickIn
      <3>2. IsSum(sum(X), f, X)
        BY <1>2, <3>1
      <3>3. IsFiniteSet(X)
        BY <3>1, FS_Subset
      <3>4. sum(X)[X] = sum(W)[X]
        <4> HIDE DEF X, W
        <4> QED BY <2>2, <3>1, <3>2, <3>3, SumUnique
      <3>5. sum(W)[W] = f[Pick(W)] + sum(W)[X]
        <4> HIDE DEF W
        <4> QED BY <2>2, <2>4 DEF IsSum
      <3>6. h[W] = f[Pick(W)] + sum(X)[X]
        <4> HIDE DEF W
        <4> QED BY <2>1, <2>4
      <3> QED BY <3>4, <3>5, <3>6
    <2> QED BY <2>3, <2>4
  <1>4. IsSum(h, f, T)
    BY <1>3 DEF IsSum
  <1> QED BY <1>1, <1>4

\* So the sums over all subsets are the values of one such function.
LEMMA SumIsSum ==
  ASSUME NEW f, NEW S, IsFiniteSet(S)
  PROVE  \E g : IsSum(g, f, S) /\ \A T \in SUBSET S : SumFunctionOnSet(f, T) = g[T]
  <1>1. PICK g : IsSum(g, f, S)
    BY SumExists
  <1>2. ASSUME NEW T \in SUBSET S PROVE SumFunctionOnSet(f, T) = g[T]
    <2>1. IsFiniteSet(T)
      BY FS_Subset
    <2> DEFINE h == CHOOSE k : IsSum(k, f, T)
    <2>2. IsSum(h, f, T)
      BY <2>1, SumExists
    <2>3. SumFunctionOnSet(f, T) = h[T]
      BY SumFolds
    <2> HIDE DEF h
    <2>4. T \in SUBSET T /\ T \in SUBSET S
      OBVIOUS
    <2>5. h[T] = g[T]
      BY <1>1, <2>1, <2>2, <2>4, SumUnique
    <2> QED BY <2>3, <2>5
  <1> QED BY <1>1, <1>2

\* The sum over nothing is zero.
THEOREM SumEmpty == ASSUME NEW f PROVE SumFunctionOnSet(f, {}) = 0
  <1>1. IsFiniteSet({})
    BY FS_EmptySet
  <1>2. PICK g : IsSum(g, f, {}) /\ \A T \in SUBSET {} : SumFunctionOnSet(f, T) = g[T]
    BY <1>1, SumIsSum
  <1> QED BY <1>2 DEF IsSum

\* A sum of integers is an integer.
THEOREM SumInt ==
  ASSUME NEW S, IsFiniteSet(S), NEW f, \A x \in S : f[x] \in Int
  PROVE  SumFunctionOnSet(f, S) \in Int
  <1>1. PICK g : IsSum(g, f, S) /\ \A T \in SUBSET S : SumFunctionOnSet(f, T) = g[T]
    BY SumIsSum
  <1> DEFINE Bad == {T \in SUBSET S : g[T] \notin Int}
  <1> SUFFICES ASSUME Bad # {} PROVE FALSE
    BY <1>1
  <1>2. Bad \in SUBSET (SUBSET S)
    OBVIOUS
  <1> HIDE DEF Bad
  <1>3. PICK T \in Bad : \A V \in SUBSET T : V # T => V \notin Bad
    BY <1>2, MinimalSet
  <1> USE DEF Bad
  <1>4. T # {}
    BY <1>1 DEF IsSum
  <1>5. Pick(T) \in T /\ T \ {Pick(T)} \notin Bad
    BY <1>3, <1>4, PickIn
  <1>6. g[T \ {Pick(T)}] \in Int /\ f[Pick(T)] \in Int
    BY <1>5
  <1>7. g[T] = f[Pick(T)] + g[T \ {Pick(T)}]
    BY <1>1, <1>4 DEF IsSum
  <1> QED BY <1>6, <1>7

\* An element more.  (By induction: the sum does not depend on the order.)
THEOREM SumAdd ==
  ASSUME NEW S, IsFiniteSet(S), NEW f, \A y \in S : f[y] \in Int, NEW x \in S
  PROVE  SumFunctionOnSet(f, S) = f[x] + SumFunctionOnSet(f, S \ {x})
  <1>1. PICK g : IsSum(g, f, S) /\ \A T \in SUBSET S : SumFunctionOnSet(f, T) = g[T]
    BY SumIsSum
  <1>2. \A T \in SUBSET S : g[T] \in Int
    <2> TAKE T \in SUBSET S
    <2>1. IsFiniteSet(T)
      BY FS_Subset
    <2> QED BY <1>1, <2>1, SumInt
  <1> DEFINE Bad == {T \in SUBSET S : \E y \in T : g[T] # f[y] + g[T \ {y}]}
  <1> SUFFICES ASSUME Bad # {} PROVE FALSE
    <2>1. S \in SUBSET S /\ S \ {x} \in SUBSET S
      OBVIOUS
    <2>2. Bad = {} => g[S] = f[x] + g[S \ {x}]
      OBVIOUS
    <2> HIDE DEF Bad
    <2> QED BY <1>1, <2>1, <2>2
  <1>3. Bad \in SUBSET (SUBSET S)
    OBVIOUS
  <1> HIDE DEF Bad
  <1>4. PICK T \in Bad : \A V \in SUBSET T : V # T => V \notin Bad
    BY <1>3, MinimalSet
  <1> USE DEF Bad
  <1>5. PICK y \in T : g[T] # f[y] + g[T \ {y}]
    OBVIOUS
  <1> DEFINE z == Pick(T)
  <1>6. z \in T
    BY <1>5, PickIn
  <1>7. g[T] = f[z] + g[T \ {z}]
    BY <1>1, <1>5 DEF IsSum
  <1>8. y # z
    BY <1>5, <1>7
  <1> HIDE DEF z
  <1>9. T \ {z} \notin Bad /\ T \ {y} \notin Bad
    BY <1>4, <1>6
  <1>10. g[T \ {z}] = f[y] + g[(T \ {z}) \ {y}]
    BY <1>5, <1>8, <1>9
  <1>11. g[T \ {y}] = f[z] + g[(T \ {y}) \ {z}]
    BY <1>6, <1>8, <1>9
  <1>12. (T \ {z}) \ {y} = (T \ {y}) \ {z}
    OBVIOUS
  <1>13. f[y] \in Int /\ f[z] \in Int /\ g[(T \ {z}) \ {y}] \in Int
    BY <1>2, <1>6
  <1> DEFINE rest == g[(T \ {z}) \ {y}]
  <1>14. g[T] = f[z] + (f[y] + rest) /\ g[T \ {y}] = f[z] + rest
    BY <1>7, <1>10, <1>11, <1>12
  <1>15. f[y] \in Int /\ f[z] \in Int /\ rest \in Int
    BY <1>13
  <1> HIDE DEF rest, Bad
  <1>16. f[z] + (f[y] + rest) = f[y] + (f[z] + rest)
    BY <1>15
  <1> QED BY <1>5, <1>14, <1>16

\* Functions that agree have the same sum.
THEOREM SumSame ==
  ASSUME NEW S, IsFiniteSet(S), NEW f, NEW h, \A x \in S : f[x] = h[x]
  PROVE  SumFunctionOnSet(f, S) = SumFunctionOnSet(h, S)
  <1>1. PICK g : IsSum(g, f, S) /\ \A T \in SUBSET S : SumFunctionOnSet(f, T) = g[T]
    BY SumIsSum
  <1>2. PICK k : IsSum(k, h, S) /\ \A T \in SUBSET S : SumFunctionOnSet(h, T) = k[T]
    BY SumIsSum
  <1> DEFINE Bad == {T \in SUBSET S : g[T] # k[T]}
  <1> SUFFICES ASSUME Bad # {} PROVE FALSE
    BY <1>1, <1>2
  <1>3. Bad \in SUBSET (SUBSET S)
    OBVIOUS
  <1> HIDE DEF Bad
  <1>4. PICK T \in Bad : \A V \in SUBSET T : V # T => V \notin Bad
    BY <1>3, MinimalSet
  <1> USE DEF Bad
  <1>5. T # {}
    BY <1>1, <1>2 DEF IsSum
  <1>6. Pick(T) \in T /\ T \ {Pick(T)} \notin Bad
    BY <1>4, <1>5, PickIn
  <1>7. g[T \ {Pick(T)}] = k[T \ {Pick(T)}] /\ f[Pick(T)] = h[Pick(T)]
    BY <1>6
  <1>8. g[T] = f[Pick(T)] + g[T \ {Pick(T)}]
    BY <1>1, <1>5 DEF IsSum
  <1>9. k[T] = h[Pick(T)] + k[T \ {Pick(T)}]
    BY <1>2, <1>5 DEF IsSum
  <1> QED BY <1>7, <1>8, <1>9

\* A sum of natural numbers is a natural number.
THEOREM SumNat ==
  ASSUME NEW S, IsFiniteSet(S), NEW f, \A x \in S : f[x] \in Nat
  PROVE  SumFunctionOnSet(f, S) \in Nat
  <1> DEFINE Good == {T \in SUBSET S : SumFunctionOnSet(f, T) \in Nat}
  <1>1. {} \in Good
    BY SumEmpty
  <1>2. ASSUME NEW T \in Good, NEW x \in S \ T PROVE T \cup {x} \in Good
    <2>1. IsFiniteSet(T \cup {x}) /\ T \cup {x} \in SUBSET S
      BY FS_Subset
    <2>2. SumFunctionOnSet(f, T \cup {x}) = f[x] + SumFunctionOnSet(f, (T \cup {x}) \ {x})
      <3> DEFINE U == T \cup {x}
      <3>1. IsFiniteSet(U) /\ x \in U /\ \A y \in U : f[y] \in Int
        BY <2>1
      <3> HIDE DEF U
      <3>2. SumFunctionOnSet(f, U) = f[x] + SumFunctionOnSet(f, U \ {x})
        BY <3>1, SumAdd
      <3> QED BY <3>2 DEF U
    <2>3. (T \cup {x}) \ {x} = T
      BY <1>2
    <2>4. SumFunctionOnSet(f, T) \in Nat /\ f[x] \in Nat
      BY <1>2
    <2>5. SumFunctionOnSet(f, T \cup {x}) = f[x] + SumFunctionOnSet(f, T)
      BY <2>2, <2>3
    <2>6. SumFunctionOnSet(f, T \cup {x}) \in Nat
      BY <2>4, <2>5
    <2> QED BY <2>1, <2>6
  <1>3. S \in Good
    <2>1. Good \in SUBSET (SUBSET S)
      OBVIOUS
    <2> HIDE DEF Good
    <2> QED BY <1>1, <1>2, <2>1, SetInduction
  <1> QED BY <1>3

\* Functions that agree but at x have sums that differ by what they differ
\* by at x.
THEOREM SumChange ==
  ASSUME NEW S, IsFiniteSet(S), NEW x \in S,
         NEW f, \A y \in S : f[y] \in Int,
         NEW h, \A y \in S : h[y] \in Int,
         \A y \in S \ {x} : f[y] = h[y]
  PROVE  SumFunctionOnSet(h, S) = SumFunctionOnSet(f, S) + (h[x] - f[x])
  <1> DEFINE R == S \ {x}
  <1>1. IsFiniteSet(R)
    BY FS_Subset
  <1>2. SumFunctionOnSet(f, R) = SumFunctionOnSet(h, R)
    <2>1. \A y \in R : f[y] = h[y]
      OBVIOUS
    <2> HIDE DEF R
    <2> QED BY <1>1, <2>1, SumSame
  <1>3. SumFunctionOnSet(f, R) \in Int
    <2>1. \A y \in R : f[y] \in Int
      OBVIOUS
    <2> HIDE DEF R
    <2> QED BY <1>1, <2>1, SumInt
  <1>4. SumFunctionOnSet(f, S) = f[x] + SumFunctionOnSet(f, R)
    BY SumAdd
  <1>5. SumFunctionOnSet(h, S) = h[x] + SumFunctionOnSet(h, R)
    BY SumAdd
  <1>6. f[x] \in Int /\ h[x] \in Int
    OBVIOUS
  <1> DEFINE a == SumFunctionOnSet(f, R)
  <1> HIDE DEF R
  <1>7. SumFunctionOnSet(f, S) = f[x] + a /\ SumFunctionOnSet(h, S) = h[x] + a /\ a \in Int
    BY <1>2, <1>3, <1>4, <1>5
  <1> HIDE DEF a
  <1> QED BY <1>6, <1>7

\* The sum of what is zero everywhere is zero.
THEOREM SumZero ==
  ASSUME NEW S, IsFiniteSet(S), NEW f, \A x \in S : f[x] = 0
  PROVE  SumFunctionOnSet(f, S) = 0
  <1> DEFINE Bad == {T \in SUBSET S : SumFunctionOnSet(f, T) # 0}
  <1> SUFFICES ASSUME Bad # {} PROVE FALSE
    OBVIOUS
  <1>1. Bad \in SUBSET (SUBSET S)
    OBVIOUS
  <1> HIDE DEF Bad
  <1>2. PICK T \in Bad : \A V \in SUBSET T : V # T => V \notin Bad
    BY <1>1, MinimalSet
  <1> USE DEF Bad
  <1>3. PICK x \in T : TRUE
    BY SumEmpty
  <1>4. SumFunctionOnSet(f, T \ {x}) = 0 /\ f[x] = 0
    BY <1>2, <1>3
  <1>5. IsFiniteSet(T) /\ \A y \in T : f[y] \in Int
    BY FS_Subset
  <1>6. SumFunctionOnSet(f, T) = f[x] + SumFunctionOnSet(f, T \ {x})
    <2> HIDE DEF Bad
    <2> QED BY <1>3, <1>5, SumAdd
  <1> QED BY <1>4, <1>6

\* The sum of a pointwise sum is the sum of the sums.
THEOREM SumPlus ==
  ASSUME NEW S, IsFiniteSet(S), NEW f, NEW g, NEW h,
         \A x \in S : f[x] \in Int /\ g[x] \in Int /\ h[x] = f[x] + g[x]
  PROVE  SumFunctionOnSet(h, S) = SumFunctionOnSet(f, S) + SumFunctionOnSet(g, S)
  <1> DEFINE F(T) == SumFunctionOnSet(f, T)
             G(T) == SumFunctionOnSet(g, T)
             H(T) == SumFunctionOnSet(h, T)
             Good == {T \in SUBSET S : H(T) = F(T) + G(T)}
  <1>1. {} \in Good
    BY SumEmpty
  <1>2. ASSUME NEW T \in Good, NEW x \in S \ T PROVE T \cup {x} \in Good
    <2> DEFINE U == T \cup {x}
    <2>1. /\ IsFiniteSet(T) /\ IsFiniteSet(U) /\ U \in SUBSET S /\ x \in U
          /\ U \ {x} = T /\ H(T) = F(T) + G(T)
      BY FS_Subset
    <2>2. F(T) \in Int /\ G(T) \in Int
      <3>1. \A y \in T : f[y] \in Int /\ g[y] \in Int
        OBVIOUS
      <3> QED BY <2>1, <3>1, SumInt
    <2>3. \A y \in U : f[y] \in Int /\ g[y] \in Int /\ h[y] \in Int
      <3>1. \A y \in S : f[y] + g[y] \in Int
        OBVIOUS
      <3> QED BY <3>1
    <2>4. f[x] \in Int /\ g[x] \in Int /\ h[x] = f[x] + g[x]
      OBVIOUS
    <2> HIDE DEF U, Good, F, G, H
    <2>5. F(U) = f[x] + F(T)
      BY <2>1, <2>3, SumAdd DEF F
    <2>6. G(U) = g[x] + G(T)
      BY <2>1, <2>3, SumAdd DEF G
    <2>7. H(U) = h[x] + H(T)
      BY <2>1, <2>3, SumAdd DEF H
    <2>8. H(U) = F(U) + G(U)
      BY <2>1, <2>2, <2>4, <2>5, <2>6, <2>7
    <2> QED BY <2>1, <2>8 DEF Good, U
  <1>3. S \in Good
    <2>1. Good \in SUBSET (SUBSET S)
      OBVIOUS
    <2> HIDE DEF Good
    <2> QED BY <1>1, <1>2, <2>1, SetInduction
  <1> QED BY <1>3

\* A pointwise greater function has a greater sum.
THEOREM SumMonotone ==
  ASSUME NEW S, IsFiniteSet(S), NEW f, NEW g,
         \A x \in S : f[x] \in Int /\ g[x] \in Int /\ f[x] <= g[x]
  PROVE  SumFunctionOnSet(f, S) <= SumFunctionOnSet(g, S)
  <1> DEFINE d == [x \in S |-> g[x] - f[x]]
  <1>1. \A x \in S : d[x] \in Nat
    OBVIOUS
  <1>2. \A x \in S : f[x] \in Int /\ d[x] \in Int /\ g[x] = f[x] + d[x]
    OBVIOUS
  <1> HIDE DEF d
  <1>3. SumFunctionOnSet(g, S) = SumFunctionOnSet(f, S) + SumFunctionOnSet(d, S)
    BY <1>2, SumPlus
  <1>4. SumFunctionOnSet(d, S) \in Nat
    BY <1>1, SumNat
  <1>5. SumFunctionOnSet(f, S) \in Int
    BY SumInt
  <1> QED BY <1>3, <1>4, <1>5

\* What is zero outside a subset sums up to its sum over the subset.
THEOREM SumSupport ==
  ASSUME NEW S, IsFiniteSet(S), NEW T \in SUBSET S, NEW f,
         \A x \in S : f[x] \in Int, \A x \in S \ T : f[x] = 0
  PROVE  SumFunctionOnSet(f, S) = SumFunctionOnSet(f, T)
  <1> DEFINE R == S \ T
             Good == {U \in SUBSET R : SumFunctionOnSet(f, T \cup U) = SumFunctionOnSet(f, T)}
  <1>1. {} \in Good
    <2>1. T \cup {} = T
      OBVIOUS
    <2> QED BY <2>1
  <1>2. ASSUME NEW U \in Good, NEW x \in R \ U PROVE U \cup {x} \in Good
    <2> DEFINE V == T \cup (U \cup {x})
    <2>1. /\ V \in SUBSET S /\ x \in V /\ V \ {x} = T \cup U /\ f[x] = 0
          /\ U \cup {x} \in SUBSET R
          /\ SumFunctionOnSet(f, T \cup U) = SumFunctionOnSet(f, T)
      OBVIOUS
    <2>2. IsFiniteSet(V) /\ IsFiniteSet(T)
      BY <2>1, FS_Subset
    <2>3. \A y \in V : f[y] \in Int
      BY <2>1
    <2>4. SumFunctionOnSet(f, T) \in Int
      BY <2>2, SumInt
    <2> HIDE DEF V, Good, R
    <2>5. SumFunctionOnSet(f, V) = f[x] + SumFunctionOnSet(f, V \ {x})
      BY <2>1, <2>2, <2>3, SumAdd
    <2>6. SumFunctionOnSet(f, V) = SumFunctionOnSet(f, T)
      <3>1. SumFunctionOnSet(f, V \ {x}) = SumFunctionOnSet(f, T)
        BY <2>1, Zenon
      <3> QED BY <2>1, <2>4, <2>5, <3>1
    <2> QED BY <2>1, <2>6 DEF Good, V
  <1>3. IsFiniteSet(R)
    BY FS_Subset
  <1>4. R \in Good
    <2>1. Good \in SUBSET (SUBSET R)
      OBVIOUS
    <2> HIDE DEF Good, R
    <2> QED BY <1>1, <1>2, <1>3, <2>1, SetInduction
  <1>5. T \cup R = S
    OBVIOUS
  <1> QED BY <1>4, <1>5

-----------------------------------------------------------------------------
(***************************************************************************)
(* Greatest and least elements                                             *)
(***************************************************************************)
\* A finite nonempty set of integers has a greatest element, which CHOOSE
\* finds.
THEOREM GreatestElement ==
  ASSUME NEW S \in SUBSET Int, IsFiniteSet(S), S # {}
  PROVE  \E m \in S : \A n \in S : m >= n
  <1> DEFINE Bad == {T \in SUBSET S : T # {} /\ ~ \E m \in T : \A n \in T : m >= n}
  <1> SUFFICES ASSUME Bad # {} PROVE FALSE
    OBVIOUS
  <1>1. Bad \in SUBSET (SUBSET S)
    OBVIOUS
  <1> HIDE DEF Bad
  <1>2. PICK T \in Bad : \A V \in SUBSET T : V # T => V \notin Bad
    BY <1>1, MinimalSet
  <1> USE DEF Bad
  <1>3. PICK x \in T : TRUE
    OBVIOUS
  <1>4. T \ {x} # {}
    OBVIOUS
  <1>5. PICK m \in T \ {x} : \A n \in T \ {x} : m >= n
    BY <1>2, <1>3, <1>4
  <1>6. x \in Int /\ m \in Int
    OBVIOUS
  <1>7. CASE m >= x
    BY <1>5, <1>7
  <1>8. CASE x >= m
    <2>1. \A n \in T : x >= n
      BY <1>5, <1>6, <1>8
    <2> QED BY <1>3, <2>1
  <1> QED BY <1>6, <1>7, <1>8

\* A nonempty set of natural numbers has a least element.
THEOREM LeastElement ==
  ASSUME NEW S \in SUBSET Nat, S # {}
  PROVE  \E m \in S : \A n \in S : m <= n
  <1>1. PICK x \in S : TRUE
    OBVIOUS
  <1> DEFINE T == {0 - n : n \in {k \in S : k <= x}}
  <1>2. IsFiniteSet(T)
    <2>1. IsFiniteSet(0..x)
      BY <1>1, FS_Interval
    <2>2. {k \in S : k <= x} \subseteq 0..x
      <3>1. ASSUME NEW k \in S, k <= x PROVE k \in 0..x
        <4>1. k \in Nat /\ x \in Nat
          BY <1>1
        <4> QED BY <3>1, <4>1
      <3> QED BY <3>1
    <2>3. IsFiniteSet({k \in S : k <= x})
      BY <2>1, <2>2, FS_Subset
    <2> DEFINE R == {k \in S : k <= x}
               neg == [k \in R |-> 0 - k]
    <2>4. neg \in Surjection(R, T)
      BY DEF Surjection
    <2> HIDE DEF R, neg, T
    <2> QED BY <2>3, <2>4, FS_Surjection DEF R
  <1>3. T \in SUBSET Int /\ T # {}
    <2>1. x \in Nat /\ x <= x
      BY <1>1
    <2>2. 0 - x \in T
      BY <2>1
    <2>3. \A k \in S : 0 - k \in Int
      OBVIOUS
    <2> QED BY <2>2, <2>3
  <1>4. PICK m \in T : \A n \in T : m >= n
    <2> HIDE DEF T
    <2> QED BY <1>2, <1>3, GreatestElement
  <1>5. PICK k \in S : k <= x /\ m = 0 - k
    OBVIOUS
  <1>6. \A n \in S : k <= n
    <2> TAKE n \in S
    <2>1. CASE n <= x
      <3>1. 0 - n \in T
        BY <2>1
      <3>2. m >= 0 - n
        BY <1>4, <3>1
      <3>3. n \in Nat /\ k \in Nat
        OBVIOUS
      <3> QED BY <1>5, <3>2, <3>3
    <2>2. CASE ~(n <= x)
      BY <1>1, <1>5, <2>2
    <2> QED BY <2>1, <2>2
  <1> QED BY <1>6

-----------------------------------------------------------------------------
(***************************************************************************)
(* Functions on 0..N defined by recursion                                  *)
(***************************************************************************)
\* f begins with first, and step leads from each f[n - 1] to f[n].
Recursive(N, first, step, f) ==
  f = [n \in 0..N |-> IF n = 0 THEN first ELSE step[<<n, f[n - 1]>>]]

\* Given where it starts and how it goes on from each n - 1 to n, there is
\* such a function.
THEOREM RecursionExists ==
  ASSUME NEW N \in Nat, NEW D, NEW first \in D,
         NEW step \in [(1..N) \X D -> D]
  PROVE  \E f \in [0..N -> D] : Recursive(N, first, step, f)
  <1> USE DEF Recursive
  <1> DEFINE Upto(k, f) == Recursive(k, first, step, f)
             Bad == {k \in 0..N : ~ \E f \in [0..k -> D] : Upto(k, f)}
  <1> SUFFICES ASSUME Bad # {} PROVE FALSE
    OBVIOUS
  <1>1. PICK k \in Bad : \A n \in Bad : k <= n
    <2>1. Bad \in SUBSET Nat
      OBVIOUS
    <2> HIDE DEF Bad
    <2> QED BY <2>1, LeastElement
  <1>2. k \in 0..N /\ ~ \E f \in [0..k -> D] : Upto(k, f)
    OBVIOUS
  <1>3. CASE k = 0
    <2> DEFINE f == [n \in 0..0 |-> first]
    <2>1. f \in [0..k -> D]
      BY <1>3
    <2>2. Upto(k, f)
      BY <1>3
    <2> QED BY <1>2, <2>1, <2>2
  <1>4. CASE k # 0
    <2>1. k - 1 \in 0..N /\ k - 1 \notin Bad /\ k \in 1..N
      BY <1>1, <1>2, <1>4
    <2>2. PICK g \in [0..(k - 1) -> D] : Upto(k - 1, g)
      BY <2>1
    <2> DEFINE f == [n \in 0..k |-> IF n = k THEN step[<<k, g[k - 1]>>] ELSE g[n]]
    <2>3. g[k - 1] \in D /\ step[<<k, g[k - 1]>>] \in D
      <3>1. k - 1 \in 0..(k - 1)
        BY <2>1
      <3>2. g[k - 1] \in D
        BY <3>1
      <3>3. <<k, g[k - 1]>> \in (1..N) \X D
        BY <2>1, <3>2
      <3> QED BY <3>2, <3>3
    <2>4. f \in [0..k -> D]
      <3>1. \A n \in 0..k : n # k => n \in 0..(k - 1)
        BY <1>2
      <3> QED BY <2>3, <3>1
    <2>5. Upto(k, f)
      <3>1. ASSUME NEW n \in 0..k
            PROVE  f[n] = IF n = 0 THEN first ELSE step[<<n, f[n - 1]>>]
        <4>1. CASE n = k
          <5>1. n - 1 \in 0..k /\ n - 1 # k /\ n # 0
            BY <1>2, <1>4, <4>1
          <5> QED BY <4>1, <5>1
        <4>2. CASE n # k
          <5>1. n \in 0..(k - 1)
            BY <1>2, <4>2
          <5>2. g[n] = IF n = 0 THEN first ELSE step[<<n, g[n - 1]>>]
            BY <2>2, <5>1
          <5>3. n # 0 => n - 1 \in 0..k /\ n - 1 # k
            BY <1>2, <5>1
          <5> QED BY <4>2, <5>2, <5>3
        <4> QED BY <4>1, <4>2
      <3>2. f = [n \in 0..k |-> f[n]]
        OBVIOUS
      <3> HIDE DEF f
      <3> QED BY <3>1, <3>2
    <2> QED BY <1>2, <2>4, <2>5
  <1> QED BY <1>3, <1>4
=============================================================================
