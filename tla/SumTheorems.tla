----------------------------- MODULE SumTheorems -----------------------------
(***************************************************************************)
(* Facts about SumFunctionOnSet(fun, S), the sum of fun[i] for i in the    *)
(* finite set S: the models add up counters of CPUs and of functions with  *)
(* it.  The sum is a recursive function over the subsets of S.  That this  *)
(* function exists, and what it computes, is shown by looking at a minimal *)
(* subset for which the claim fails: the strict subset order on the        *)
(* subsets of a finite set is well-founded.                                *)
(***************************************************************************)
EXTENDS Integers, Functions, FiniteSetTheorems, TLAPS

Pick(s) == CHOOSE x \in s : TRUE

\* g is the recursive function whose value at S is the sum.
Sums(fun, S, g) ==
    g = [s \in SUBSET S |->
           IF s = {} THEN 0 ELSE fun[Pick(s)] + g[s \ {Pick(s)}]]

\* The sum is the value at S of a function as above, if there is one.
LEMMA SumUnfold ==
  ASSUME NEW fun, NEW S
  PROVE  SumFunctionOnSet(fun, S) = (CHOOSE g : Sums(fun, S, g))[S]
  BY DEF SumFunctionOnSet, FoldFunctionOnSet, MapThenFoldSet, Sums, Pick

\* A set of numbers has a least one.
LEMMA LeastNumber ==
  ASSUME NEW S, S \subseteq Nat, S # {}
  PROVE  \E x \in S : \A y \in S : x <= y
<1> DEFINE R == OpToRel(<, Nat)
<1>1. \A x, y \in Nat : <<y, x>> \notin R => x <= y
  BY DEF OpToRel
<1>2. IsWellFoundedOn(R, Nat)
  BY NatLessThanWellFounded
<1> HIDE DEF R
<1>3. \E x \in S : \A y \in S : ~ (<<y, x>> \in R)
  BY <1>2, WFMin
<1>4. QED
  BY <1>1, <1>3

\* A nonempty set of subsets of a finite set has a minimal element.
LEMMA MinimalSubset ==
  ASSUME NEW S, IsFiniteSet(S), NEW T, T \subseteq SUBSET S, T # {}
  PROVE  \E x \in T : \A y \in T : y \subseteq x => y = x
<1>1. IsWellFoundedOn(StrictSubsetOrdering(S), SUBSET S)
  BY FS_StrictSubsetOrderingWellFounded, FS_FiniteSubsetsOfFinite
<1>2. PICK x \in T : \A y \in T : ~ (<<y, x>> \in StrictSubsetOrdering(S))
  BY <1>1, WFMin
<1>3. QED
  BY <1>2 DEF StrictSubsetOrdering

\* Two such functions agree where both are defined.
LEMMA SumsAgree ==
  ASSUME NEW fun, NEW S, IsFiniteSet(S), NEW U \in SUBSET S, NEW V \in SUBSET S,
         NEW g, NEW h, Sums(fun, U, g), Sums(fun, V, h)
  PROVE  \A s \in SUBSET (U \cap V) : g[s] = h[s]
<1> DEFINE T == {s \in SUBSET (U \cap V) : g[s] # h[s]}
<1>1. SUFFICES ASSUME T # {}
               PROVE  FALSE
  OBVIOUS
<1>0. T \subseteq SUBSET S
  OBVIOUS
<1>2. PICK s \in T : \A y \in T : y \subseteq s => y = s
  <2> HIDE DEF T
  <2>1. QED
    BY <1>0, <1>1, MinimalSubset
<1>3. CASE s = {}
  BY <1>3, <1>2 DEF Sums
<1>4. CASE s # {}
  <2> DEFINE t == s \ {Pick(s)}
  <2>1. Pick(s) \in s
    BY <1>4 DEF Pick
  <2>2. t \in SUBSET (U \cap V) /\ t \subseteq s /\ t # s
    BY <2>1
  <2>3. g[t] = h[t]
    BY <1>2, <2>2
  <2>4. g[s] = fun[Pick(s)] + g[t] /\ h[s] = fun[Pick(s)] + h[t]
    BY <1>4, <1>2 DEF Sums
  <2>5. QED
    BY <2>3, <2>4, <1>2
<1>5. QED
  BY <1>3, <1>4

\* There is one on every finite set.
LEMMA SumsExist ==
  ASSUME NEW fun, NEW S, IsFiniteSet(S)
  PROVE  \E g : Sums(fun, S, g)
<1> DEFINE T == {U \in SUBSET S : ~ \E g : Sums(fun, U, g)}
<1>1. SUFFICES ASSUME T # {}
               PROVE  FALSE
  OBVIOUS
<1>0. T \subseteq SUBSET S
  OBVIOUS
<1>2. PICK U \in T : \A y \in T : y \subseteq U => y = U
  <2> HIDE DEF T
  <2>1. QED
    BY <1>0, <1>1, MinimalSubset
<1> DEFINE G(V) == CHOOSE g : Sums(fun, V, g)
           h == [s \in SUBSET U |->
                   IF s = {} THEN 0
                   ELSE fun[Pick(s)] + G(s \ {Pick(s)})[s \ {Pick(s)}]]
<1>3. ASSUME NEW V \in SUBSET U, V # U
      PROVE  Sums(fun, V, G(V))
  BY <1>2, <1>3
<1>4. ASSUME NEW t \in SUBSET U, t # U
      PROVE  h[t] = G(t)[t]
  <2>1. Sums(fun, t, G(t))
    BY <1>3, <1>4
  <2>2. CASE t = {}
    BY <2>1, <2>2 DEF Sums
  <2>3. CASE t # {}
    <3> DEFINE u == t \ {Pick(t)}
    <3>1. Pick(t) \in t
      BY <2>3 DEF Pick
    <3>2. u \in SUBSET U /\ u # U /\ u \in SUBSET t /\ u \in SUBSET S /\ t \in SUBSET S
      BY <3>1, <1>2
    <3>3. Sums(fun, u, G(u))
      BY <1>3, <3>2
    <3> HIDE DEF G
    <3>4. G(t)[u] = G(u)[u]
      <4>1. u \in SUBSET (t \cap u)
        BY <3>2
      <4>2. QED
        BY <2>1, <3>3, <3>2, <4>1, SumsAgree
    <3>5. G(t)[t] = fun[Pick(t)] + G(t)[u]
      BY <2>1, <2>3 DEF Sums
    <3>6. h[t] = fun[Pick(t)] + G(u)[u]
      BY <2>3
    <3>7. QED
      BY <3>4, <3>5, <3>6
  <2>4. QED
    BY <2>2, <2>3
<1>5. ASSUME NEW s \in SUBSET U, s # {}
      PROVE  h[s] = fun[Pick(s)] + h[s \ {Pick(s)}]
  <2>1. Pick(s) \in s
    BY <1>5 DEF Pick
  <2>2. s \ {Pick(s)} \in SUBSET U /\ s \ {Pick(s)} # U
    BY <2>1
  <2>3. h[s \ {Pick(s)}] = G(s \ {Pick(s)})[s \ {Pick(s)}]
    BY <1>4, <2>2
  <2>4. h[s] = fun[Pick(s)] + G(s \ {Pick(s)})[s \ {Pick(s)}]
    BY <1>5
  <2>5. QED
    BY <2>3, <2>4
<1>6. h[{}] = 0
  OBVIOUS
<1>7. Sums(fun, U, h)
  <2>1. h = [s \in SUBSET U |-> h[s]]
    OBVIOUS
  <2> HIDE DEF h
  <2>2. [s \in SUBSET U |-> h[s]]
          = [s \in SUBSET U |-> IF s = {} THEN 0 ELSE fun[Pick(s)] + h[s \ {Pick(s)}]]
    BY <1>5, <1>6
  <2>3. QED
    BY <2>1, <2>2 DEF Sums
<1>8. QED
  BY <1>7, <1>2

SUM(fun, S) == SumFunctionOnSet(fun, S)

\* The sum, one element at a time, in the order in which Pick takes them.
LEMMA SumStep ==
  ASSUME NEW fun, NEW S, IsFiniteSet(S)
  PROVE  SUM(fun, S) = IF S = {} THEN 0
                       ELSE fun[Pick(S)] + SUM(fun, S \ {Pick(S)})
<1> DEFINE G(V) == CHOOSE g : Sums(fun, V, g)
           t == S \ {Pick(S)}
<1>1. IsFiniteSet(t)
  BY FS_RemoveElement
<1>2. Sums(fun, S, G(S)) /\ Sums(fun, t, G(t))
  BY <1>1, SumsExist
<1>3. SUM(fun, S) = G(S)[S] /\ SUM(fun, t) = G(t)[t]
  BY SumUnfold DEF SUM
<1> HIDE DEF G
<1>4. CASE S = {}
  BY <1>2, <1>3, <1>4 DEF Sums
<1>5. CASE S # {}
  <2>1. G(S)[t] = G(t)[t]
    <3>1. t \in SUBSET S /\ S \in SUBSET S /\ t \in SUBSET (S \cap t)
      OBVIOUS
    <3> HIDE DEF t
    <3>2. QED
      BY <1>2, <3>1, SumsAgree
  <2>2. G(S)[S] = fun[Pick(S)] + G(S)[t]
    BY <1>2, <1>5 DEF Sums
  <2>3. QED
    BY <1>3, <1>5, <2>1, <2>2
<1>6. QED
  BY <1>4, <1>5

\* The empty sum.
LEMMA SumOfNothing ==
  ASSUME NEW fun
  PROVE  SUM(fun, {}) = 0
<1>1. IsFiniteSet({})
  BY FS_EmptySet
<1>2. QED
  BY <1>1, SumStep

\* A sum of integers is an integer.
LEMMA SumIsInt ==
  ASSUME NEW fun, NEW S, IsFiniteSet(S), \A i \in S : fun[i] \in Int
  PROVE  SUM(fun, S) \in Int
<1> DEFINE P(U) == SUM(fun, U) \in Int
           T == {U \in SUBSET S : ~P(U)}
<1>1. SUFFICES ASSUME T # {}
               PROVE  FALSE
  OBVIOUS
<1>2. T \subseteq SUBSET S
  OBVIOUS
<1>3. PICK U \in T : \A y \in T : y \subseteq U => y = U
  <2> HIDE DEF T
  <2>1. QED
    BY <1>1, <1>2, MinimalSubset
<1>4. IsFiniteSet(U)
  BY <1>3, FS_Subset
<1>5. ASSUME NEW V \in SUBSET U, V # U
      PROVE  P(V) /\ IsFiniteSet(V)
  BY <1>3, <1>4, <1>5, FS_Subset
<1>6. CASE U = {}
  BY <1>3, <1>6, SumOfNothing
<1>7. CASE U # {}
  <2> DEFINE p == Pick(U)
             V == U \ {p}
  <2>1. p \in U /\ p \in S
    BY <1>7, <1>3 DEF Pick
  <2>2. V \in SUBSET U /\ V # U
    BY <2>1
  <2>3. P(V) /\ IsFiniteSet(V)
    BY <1>5, <2>2
  <2>4. SUM(fun, U) = fun[p] + SUM(fun, V)
    BY <1>4, <1>7, SumStep
  <2>5. QED
    BY <1>3, <2>1, <2>3, <2>4
<1>8. QED
  BY <1>6, <1>7

\* Functions that agree on a set have the same sum over it.
LEMMA SumAgrees ==
  ASSUME NEW f, NEW g, NEW S, IsFiniteSet(S), \A i \in S : f[i] = g[i]
  PROVE  SUM(f, S) = SUM(g, S)
<1> DEFINE P(U) == SUM(f, U) = SUM(g, U)
           T == {U \in SUBSET S : ~P(U)}
<1>1. SUFFICES ASSUME T # {}
               PROVE  FALSE
  OBVIOUS
<1>2. T \subseteq SUBSET S
  OBVIOUS
<1>3. PICK U \in T : \A y \in T : y \subseteq U => y = U
  <2> HIDE DEF T
  <2>1. QED
    BY <1>1, <1>2, MinimalSubset
<1>4. IsFiniteSet(U)
  BY <1>3, FS_Subset
<1>5. ASSUME NEW V \in SUBSET U, V # U
      PROVE  P(V) /\ IsFiniteSet(V)
  BY <1>3, <1>4, <1>5, FS_Subset
<1>6. CASE U = {}
  BY <1>3, <1>6, SumOfNothing
<1>7. CASE U # {}
  <2> DEFINE p == Pick(U)
             V == U \ {p}
  <2>1. p \in U /\ p \in S
    BY <1>7, <1>3 DEF Pick
  <2>2. V \in SUBSET U /\ V # U
    BY <2>1
  <2>3. P(V) /\ IsFiniteSet(V)
    BY <1>5, <2>2
  <2>4. SUM(f, U) = f[p] + SUM(f, V) /\ SUM(g, U) = g[p] + SUM(g, V)
    BY <1>4, <1>7, SumStep
  <2>5. QED
    BY <1>3, <2>1, <2>3, <2>4
<1>8. QED
  BY <1>6, <1>7

\* A sum of zeros is zero.
LEMMA SumOfZeros ==
  ASSUME NEW fun, NEW S, IsFiniteSet(S), \A i \in S : fun[i] = 0
  PROVE  SUM(fun, S) = 0
<1> DEFINE P(U) == SUM(fun, U) = 0
           T == {U \in SUBSET S : ~P(U)}
<1>1. SUFFICES ASSUME T # {}
               PROVE  FALSE
  OBVIOUS
<1>2. T \subseteq SUBSET S
  OBVIOUS
<1>3. PICK U \in T : \A y \in T : y \subseteq U => y = U
  <2> HIDE DEF T
  <2>1. QED
    BY <1>1, <1>2, MinimalSubset
<1>4. IsFiniteSet(U)
  BY <1>3, FS_Subset
<1>5. ASSUME NEW V \in SUBSET U, V # U
      PROVE  P(V)
  BY <1>3, <1>5
<1>6. CASE U = {}
  BY <1>3, <1>6, SumOfNothing
<1>7. CASE U # {}
  <2> DEFINE p == Pick(U)
             V == U \ {p}
  <2>1. p \in U /\ p \in S
    BY <1>7, <1>3 DEF Pick
  <2>2. V \in SUBSET U /\ V # U
    BY <2>1
  <2>3. SUM(fun, V) = 0
    BY <1>5, <2>2
  <2>4. SUM(fun, U) = fun[p] + SUM(fun, V)
    BY <1>4, <1>7, SumStep
  <2>5. QED
    BY <1>3, <2>1, <2>3, <2>4
<1>8. QED
  BY <1>6, <1>7

\* The sum is monotonic in its terms.
LEMMA SumOrdered ==
  ASSUME NEW f, NEW g, NEW S, IsFiniteSet(S),
         \A i \in S : f[i] \in Int /\ g[i] \in Int /\ f[i] <= g[i]
  PROVE  SUM(f, S) <= SUM(g, S)
<1> DEFINE P(U) == SUM(f, U) <= SUM(g, U)
           T == {U \in SUBSET S : ~P(U)}
<1>1. SUFFICES ASSUME T # {}
               PROVE  FALSE
  OBVIOUS
<1>2. T \subseteq SUBSET S
  OBVIOUS
<1>3. PICK U \in T : \A y \in T : y \subseteq U => y = U
  <2> HIDE DEF T
  <2>1. QED
    BY <1>1, <1>2, MinimalSubset
<1>4. IsFiniteSet(U)
  BY <1>3, FS_Subset
<1>5. ASSUME NEW V \in SUBSET U, V # U
      PROVE  P(V) /\ IsFiniteSet(V)
  BY <1>3, <1>4, <1>5, FS_Subset
<1>6. CASE U = {}
  BY <1>3, <1>6, SumOfNothing
<1>7. CASE U # {}
  <2> DEFINE p == Pick(U)
             V == U \ {p}
  <2>1. p \in U /\ p \in S
    BY <1>7, <1>3 DEF Pick
  <2>2. V \in SUBSET U /\ V # U
    BY <2>1
  <2>3. P(V) /\ IsFiniteSet(V)
    BY <1>5, <2>2
  <2>4. SUM(f, U) = f[p] + SUM(f, V) /\ SUM(g, U) = g[p] + SUM(g, V)
    BY <1>4, <1>7, SumStep
  <2>5. SUM(f, V) \in Int /\ SUM(g, V) \in Int
    <3>1. \A i \in V : f[i] \in Int /\ g[i] \in Int
      BY <1>3
    <3> HIDE DEF V
    <3>2. QED
      BY <2>3, <3>1, SumIsInt
  <2>6. QED
    BY <1>3, <2>1, <2>3, <2>4, <2>5
<1>8. QED
  BY <1>6, <1>7

\* A sum of terms that are at most 1 is at most the size of the set.
LEMMA SumAtMostOneEach ==
  ASSUME NEW fun, NEW S, IsFiniteSet(S), \A i \in S : fun[i] \in Int /\ fun[i] <= 1
  PROVE  SUM(fun, S) <= Cardinality(S)
<1> DEFINE P(U) == SUM(fun, U) <= Cardinality(U)
           T == {U \in SUBSET S : ~P(U)}
<1>1. SUFFICES ASSUME T # {}
               PROVE  FALSE
  OBVIOUS
<1>2. T \subseteq SUBSET S
  OBVIOUS
<1>3. PICK U \in T : \A y \in T : y \subseteq U => y = U
  <2> HIDE DEF T
  <2>1. QED
    BY <1>1, <1>2, MinimalSubset
<1>4. IsFiniteSet(U)
  BY <1>3, FS_Subset
<1>5. ASSUME NEW V \in SUBSET U, V # U
      PROVE  P(V) /\ IsFiniteSet(V)
  BY <1>3, <1>4, <1>5, FS_Subset
<1>6. CASE U = {}
  <2>1. Cardinality(U) = 0
    BY <1>6, FS_EmptySet
  <2>2. QED
    BY <1>3, <1>6, <2>1, SumOfNothing
<1>7. CASE U # {}
  <2> DEFINE p == Pick(U)
             V == U \ {p}
  <2>1. p \in U /\ p \in S
    BY <1>7, <1>3 DEF Pick
  <2>2. V \in SUBSET U /\ V # U
    BY <2>1
  <2>3. P(V) /\ IsFiniteSet(V)
    BY <1>5, <2>2
  <2>4. SUM(fun, U) = fun[p] + SUM(fun, V)
    BY <1>4, <1>7, SumStep
  <2>5. SUM(fun, V) \in Int
    <3>1. \A i \in V : fun[i] \in Int
      BY <1>3
    <3> HIDE DEF V
    <3>2. QED
      BY <2>3, <3>1, SumIsInt
  <2>6. Cardinality(V) = Cardinality(U) - 1
    BY <1>4, <2>1, FS_RemoveElement
  <2>7. Cardinality(U) \in Nat
    BY <1>4, FS_CardinalityType
  <2>8. QED
    BY <1>3, <2>1, <2>3, <2>4, <2>5, <2>6, <2>7
<1>8. QED
  BY <1>6, <1>7

\* Any element can be taken out first.
LEMMA SumAnyOrder ==
  ASSUME NEW fun, NEW S, IsFiniteSet(S), \A i \in S : fun[i] \in Int
  PROVE  \A x \in S : SUM(fun, S) = fun[x] + SUM(fun, S \ {x})
<1> DEFINE P(U) == \A x \in U : SUM(fun, U) = fun[x] + SUM(fun, U \ {x})
           T == {U \in SUBSET S : ~P(U)}
<1>1. SUFFICES ASSUME T # {}
               PROVE  FALSE
  OBVIOUS
<1>2. T \subseteq SUBSET S
  OBVIOUS
<1>3. PICK U \in T : \A y \in T : y \subseteq U => y = U
  <2> HIDE DEF T
  <2>1. QED
    BY <1>1, <1>2, MinimalSubset
<1>4. IsFiniteSet(U)
  BY <1>3, FS_Subset
<1>5. ASSUME NEW V \in SUBSET U, V # U
      PROVE  P(V) /\ IsFiniteSet(V)
  BY <1>3, <1>4, <1>5, FS_Subset
<1>6. CASE U = {}
  BY <1>3, <1>6
<1>7. CASE U # {}
  <2> DEFINE p == Pick(U)
             V == U \ {p}
  <2>1. p \in U /\ p \in S
    BY <1>7, <1>3 DEF Pick
  <2>2. V \in SUBSET U /\ V # U
    BY <2>1
  <2>3. P(V) /\ IsFiniteSet(V)
    BY <1>5, <2>2
  <2>4. SUM(fun, U) = fun[p] + SUM(fun, V)
    BY <1>4, <1>7, SumStep
  <2>5. ASSUME NEW x \in U, x # p
        PROVE  SUM(fun, U) = fun[x] + SUM(fun, U \ {x})
    <3> DEFINE X == U \ {x}
    <3>1. X \in SUBSET U /\ X # U /\ p \in X /\ x \in V
      BY <2>1, <2>5
    <3>2. P(X) /\ IsFiniteSet(X)
      BY <1>5, <3>1
    <3>3. SUM(fun, X) = fun[p] + SUM(fun, X \ {p})
      BY <3>1, <3>2
    <3>4. SUM(fun, V) = fun[x] + SUM(fun, V \ {x})
      BY <2>3, <3>1
    <3>5. X \ {p} = V \ {x}
      OBVIOUS
    <3>6. fun[x] \in Int /\ fun[p] \in Int
      BY <1>3, <2>1
    <3>7. SUM(fun, V \ {x}) \in Int
      <4>1. V \ {x} \in SUBSET S
        BY <1>3
      <4>2. IsFiniteSet(V \ {x})
        BY <4>1, FS_Subset
      <4>3. \A i \in V \ {x} : fun[i] \in Int
        BY <4>1
      <4>4. QED
        BY <4>2, <4>3, SumIsInt
    <3> DEFINE a == SUM(fun, V \ {x})
               b == SUM(fun, V)
               c == SUM(fun, X)
    <3>8. c = fun[p] + a /\ b = fun[x] + a /\ SUM(fun, U) = fun[p] + b /\ a \in Int
      BY <2>4, <3>3, <3>4, <3>5, <3>7
    <3> HIDE DEF a, b, c
    <3>9. SUM(fun, U) = fun[x] + c
      BY <3>6, <3>8
    <3>10. QED
      BY <3>9 DEF c
  <2>6. QED
    BY <1>3, <2>4, <2>5
<1>8. QED
  BY <1>6, <1>7

\* Adding d to one term adds d to the sum.
LEMMA SumOneChanged ==
  ASSUME NEW f, NEW g, NEW S, IsFiniteSet(S), NEW x \in S, NEW d \in Int,
         \A i \in S : f[i] \in Int, g[x] = f[x] + d,
         \A i \in S : i # x => g[i] = f[i]
  PROVE  SUM(g, S) = SUM(f, S) + d
<1>1. \A i \in S : g[i] \in Int
  OBVIOUS
<1>2. SUM(f, S) = f[x] + SUM(f, S \ {x}) /\ SUM(g, S) = g[x] + SUM(g, S \ {x})
  BY <1>1, SumAnyOrder
<1>3. IsFiniteSet(S \ {x})
  BY FS_RemoveElement
<1>4. SUM(f, S \ {x}) = SUM(g, S \ {x}) /\ SUM(f, S \ {x}) \in Int
  <2> DEFINE X == S \ {x}
  <2>1. \A i \in X : f[i] = g[i] /\ f[i] \in Int
    OBVIOUS
  <2>2. IsFiniteSet(X)
    BY <1>3
  <2> HIDE DEF X
  <2>3. SUM(f, X) = SUM(g, X) /\ SUM(f, X) \in Int
    BY <2>1, <2>2, SumAgrees, SumIsInt
  <2>4. QED
    BY <2>3 DEF X
<1>5. QED
  BY <1>2, <1>4

\* In particular, counting one up.
LEMMA SumOneMore ==
  ASSUME NEW f, NEW g, NEW S, IsFiniteSet(S), NEW x \in S,
         \A i \in S : f[i] \in Int /\ g[i] = IF i = x THEN f[i] + 1 ELSE f[i]
  PROVE  SUM(g, S) = SUM(f, S) + 1
<1>1. \A i \in S : f[i] \in Int
  OBVIOUS
<1>2. g[x] = f[x] + 1
  OBVIOUS
<1>3. \A i \in S : i # x => g[i] = f[i]
  OBVIOUS
<1>4. QED
  BY <1>1, <1>2, <1>3, SumOneChanged
==============================================================================
