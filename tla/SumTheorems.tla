---------------------------- MODULE SumTheorems ----------------------------
(***************************************************************************)
(* What SumFunction of the community modules returns on a finite set, with *)
(* proofs: the subscription counter, the handlers of a connection and the  *)
(* copies of a message are sums over goroutines or connections.            *)
(*                                                                         *)
(* The fold that defines SumFunction is a recursive function, that is, a   *)
(* CHOOSE.  A sum of naturals f[x] is also a cardinality, that of the set  *)
(* with f[x] units for each x.  Cardinalities satisfy the equation of the  *)
(* fold, so that a function does; and two that do are equal, because there *)
(* is no smallest set on which they differ.                                *)
(***************************************************************************)
EXTENDS Integers, Functions, FiniteSetTheorems, TLAPS

\* f[x] units for each x in T.
Units(f, T) == {p \in T \X Nat : p[2] \in 1 .. f[p[1]]}

\* The element that a fold over T takes first.
First(T) == CHOOSE x \in T : TRUE

\* g satisfies the equation of the fold that sums f.
SumsUp(g, f, S) ==
    g = [T \in SUBSET S |-> IF T = {} THEN 0
                                      ELSE f[First(T)] + g[T \ {First(T)}]]

-----------------------------------------------------------------------------
\* Among subsets of a finite set there is a smallest.
LEMMA SmallestSubset ==
    ASSUME NEW S, IsFiniteSet(S), NEW B, B \subseteq SUBSET S, B # {}
    PROVE  \E T \in B : \A U \in B : ~(U \subseteq T /\ U # T)
<1>1. B \subseteq FiniteSubsetsOf(S)
  BY FS_Subset DEF FiniteSubsetsOf
<1>2. PICK T \in B : \A U \in B : <<U, T>> \notin StrictSubsetOrdering(S)
  BY <1>1, FS_StrictSubsetOrderingWellFounded, WFMin
<1>3. ASSUME NEW U \in B, U \subseteq T, U # T
      PROVE  FALSE
  BY <1>2, <1>3 DEF StrictSubsetOrdering
<1> QED
  BY <1>3

\* There are n numbers from 1 to n.
LEMMA CountUpTo ==
    ASSUME NEW n \in Nat
    PROVE  IsFiniteSet(1 .. n) /\ Cardinality(1 .. n) = n
<1>1. /\ IsFiniteSet(1 .. n)
      /\ Cardinality(1 .. n) = IF 1 > n THEN 0 ELSE n - 1 + 1
  BY FS_Interval
<1> QED
  BY <1>1

\* The units of one more element.
LEMMA UnitsAdd ==
    ASSUME NEW f, NEW T, NEW x, x \notin T, f[x] \in Nat,
           IsFiniteSet(Units(f, T))
    PROVE  /\ IsFiniteSet(Units(f, T \cup {x}))
           /\ Cardinality(Units(f, T \cup {x})) = f[x] + Cardinality(Units(f, T))
<1> DEFINE New == {x} \X (1 .. f[x])
<1>1. Units(f, T \cup {x}) = Units(f, T) \cup New
  BY DEF Units
<1>2. Units(f, T) \cap New = {}
  BY DEF Units
<1>3. IsFiniteSet(New) /\ Cardinality(New) = f[x]
  <2>1. IsFiniteSet({x}) /\ Cardinality({x}) = 1
    BY FS_Singleton
  <2>2. IsFiniteSet(1 .. f[x]) /\ Cardinality(1 .. f[x]) = f[x]
    BY CountUpTo
  <2>3. IsFiniteSet(New) /\ Cardinality(New) = 1 * f[x]
    BY <2>1, <2>2, FS_Product
  <2> QED
    BY <2>3
<1>4. Cardinality({}) = 0 /\ Cardinality(Units(f, T)) \in Nat
  BY FS_EmptySet, FS_CardinalityType
<1> HIDE DEF New
<1>5. /\ IsFiniteSet(Units(f, T) \cup New)
      /\ Cardinality(Units(f, T) \cup New)
            = Cardinality(Units(f, T)) + Cardinality(New)
                 - Cardinality(Units(f, T) \cap New)
  BY <1>3, FS_Union
<1>6. Cardinality(Units(f, T) \cap New) = 0
  BY <1>2, <1>4
<1>7. Cardinality(Units(f, T) \cup New) = f[x] + Cardinality(Units(f, T))
  <2>1. \A m, n, k : m \in Nat /\ n \in Nat /\ k = m + n - 0 => k = n + m
    OBVIOUS
  <2> QED
    BY <1>3, <1>4, <1>5, <1>6, <2>1
<1> QED
  BY <1>1, <1>5, <1>7

\* The units of a finite set are finite.
LEMMA UnitsFinite ==
    ASSUME NEW S, IsFiniteSet(S), NEW f, \A x \in S : f[x] \in Nat,
           NEW T \in SUBSET S
    PROVE  IsFiniteSet(Units(f, T))
<1> DEFINE B == {U \in SUBSET S : ~IsFiniteSet(Units(f, U))}
<1>1. ASSUME B # {} PROVE FALSE
  <2>1. PICK U \in B : \A V \in B : ~(V \subseteq U /\ V # U)
    <3>1. B \subseteq SUBSET S
      OBVIOUS
    <3> HIDE DEF B
    <3> QED
      BY <1>1, <3>1, SmallestSubset
  <2>2. CASE U = {}
    <3>1. Units(f, {}) = {}
      BY DEF Units
    <3> QED
      BY <2>1, <2>2, <3>1, FS_EmptySet
  <2>3. CASE U # {}
    <3>1. PICK x \in U : TRUE
      BY <2>3
    <3>2. IsFiniteSet(Units(f, U \ {x}))
      BY <2>1, <3>1
    <3>3. (U \ {x}) \cup {x} = U /\ x \notin U \ {x} /\ f[x] \in Nat
      BY <2>1, <3>1
    <3>4. IsFiniteSet(Units(f, (U \ {x}) \cup {x}))
      BY <3>2, <3>3, UnitsAdd
    <3> QED
      BY <2>1, <3>3, <3>4
  <2> QED
    BY <2>2, <2>3
<1> QED
  BY <1>1

\* The recursion is met by the function that counts the units.
LEMMA CountSumsUp ==
    ASSUME NEW S, IsFiniteSet(S), NEW f, \A x \in S : f[x] \in Nat
    PROVE  SumsUp([T \in SUBSET S |-> Cardinality(Units(f, T))], f, S)
<1> DEFINE g == [T \in SUBSET S |-> Cardinality(Units(f, T))]
<1>1. ASSUME NEW T \in SUBSET S
      PROVE  g[T] = IF T = {} THEN 0 ELSE f[First(T)] + g[T \ {First(T)}]
  <2>1. CASE T = {}
    <3>1. Units(f, {}) = {}
      BY DEF Units
    <3> QED
      BY <2>1, <3>1, FS_EmptySet
  <2>2. CASE T # {}
    <3>1. First(T) \in T
      BY <2>2 DEF First
    <3>2. /\ T \ {First(T)} \in SUBSET S
          /\ (T \ {First(T)}) \cup {First(T)} = T
          /\ f[First(T)] \in Nat
      BY <3>1
    <3>3. IsFiniteSet(Units(f, T \ {First(T)}))
      BY <3>2, UnitsFinite
    <3>4. Cardinality(Units(f, (T \ {First(T)}) \cup {First(T)}))
             = f[First(T)] + Cardinality(Units(f, T \ {First(T)}))
      BY <3>2, <3>3, UnitsAdd
    <3> QED
      BY <2>2, <3>2, <3>4
  <2> QED
    BY <2>1, <2>2
<1> HIDE DEF g
<1>2. g = [T \in SUBSET S |-> g[T]]
  BY DEF g
<1>3. [T \in SUBSET S |-> g[T]]
         = [T \in SUBSET S |-> IF T = {} THEN 0
                               ELSE f[First(T)] + g[T \ {First(T)}]]
  BY <1>1
<1>4. SumsUp(g, f, S)
  BY <1>2, <1>3 DEF SumsUp
<1> QED
  BY <1>4 DEF g

\* The recursion has one solution.
LEMMA SumsUpUnique ==
    ASSUME NEW S, IsFiniteSet(S), NEW f, NEW g, NEW h,
           SumsUp(g, f, S), SumsUp(h, f, S)
    PROVE  g[S] = h[S]
<1> DEFINE B == {T \in SUBSET S : g[T] # h[T]}
<1>1. ASSUME B # {} PROVE FALSE
  <2>1. PICK T \in B : \A U \in B : ~(U \subseteq T /\ U # T)
    <3>1. B \subseteq SUBSET S
      OBVIOUS
    <3> HIDE DEF B
    <3> QED
      BY <1>1, <3>1, SmallestSubset
  <2>2. CASE T = {}
    BY <2>1, <2>2 DEF SumsUp
  <2>3. CASE T # {}
    <3>1. First(T) \in T
      BY <2>3 DEF First
    <3>2. g[T \ {First(T)}] = h[T \ {First(T)}]
      BY <2>1, <3>1
    <3>3. /\ g[T] = f[First(T)] + g[T \ {First(T)}]
          /\ h[T] = f[First(T)] + h[T \ {First(T)}]
      BY <2>1, <2>3 DEF SumsUp
    <3> QED
      BY <2>1, <3>2, <3>3
  <2> QED
    BY <2>2, <2>3
<1> QED
  BY <1>1

\* A sum of naturals is the number of their units.
THEOREM SumIsCount ==
    ASSUME NEW S, IsFiniteSet(S), NEW f \in [S -> Nat]
    PROVE  SumFunction(f) = Cardinality(Units(f, S))
<1> DEFINE g == CHOOSE g : SumsUp(g, f, S)
<1>1. SumFunction(f) = g[S]
  BY DEF SumFunction, SumFunctionOnSet, FoldFunctionOnSet, MapThenFoldSet,
         SumsUp, First
<1>2. SumsUp([T \in SUBSET S |-> Cardinality(Units(f, T))], f, S)
  BY CountSumsUp
<1>3. SumsUp(g, f, S)
  BY <1>2
<1>4. g[S] = [T \in SUBSET S |-> Cardinality(Units(f, T))][S]
  <2> HIDE DEF g
  <2> QED
    BY <1>2, <1>3, SumsUpUnique
<1> QED
  BY <1>1, <1>4

-----------------------------------------------------------------------------
\* A sum of naturals is a natural.
THEOREM SumType ==
    ASSUME NEW S, IsFiniteSet(S), NEW f \in [S -> Nat]
    PROVE  SumFunction(f) \in Nat
BY SumIsCount, UnitsFinite, FS_CardinalityType

\* A sum of nothing but zeros is zero.
THEOREM SumZero ==
    ASSUME NEW S, IsFiniteSet(S), NEW f \in [S -> Nat], \A x \in S : f[x] = 0
    PROVE  SumFunction(f) = 0
<1>1. Units(f, S) = {}
  BY DEF Units
<1> QED
  BY <1>1, SumIsCount, FS_EmptySet

\* A sum changes by what one summand changes.
THEOREM SumExcept ==
    ASSUME NEW S, IsFiniteSet(S), NEW f \in [S -> Nat], NEW g \in [S -> Nat],
           NEW x \in S, \A y \in S \ {x} : g[y] = f[y]
    PROVE  SumFunction(g) = SumFunction(f) - f[x] + g[x]
<1> DEFINE T == S \ {x}
<1>1. Units(g, T) = Units(f, T)
  BY DEF Units
<1>2. S = T \cup {x} /\ x \notin T /\ T \in SUBSET S
  OBVIOUS
<1>3. IsFiniteSet(Units(f, T)) /\ Cardinality(Units(f, T)) \in Nat
  BY UnitsFinite, FS_CardinalityType
<1> HIDE DEF T
<1>4. Cardinality(Units(f, T \cup {x})) = f[x] + Cardinality(Units(f, T))
  BY <1>2, <1>3, UnitsAdd
<1>5. Cardinality(Units(g, T \cup {x})) = g[x] + Cardinality(Units(f, T))
  BY <1>1, <1>2, <1>3, UnitsAdd
<1> QED
  BY <1>2, <1>3, <1>4, <1>5, SumIsCount

\* A sum grows by the number of the summands that grow by one.
THEOREM SumCount ==
    ASSUME NEW S, IsFiniteSet(S), NEW A \in SUBSET S,
           NEW f \in [S -> Nat], NEW g \in [S -> Nat],
           \A x \in S : g[x] = IF x \in A THEN f[x] + 1 ELSE f[x]
    PROVE  SumFunction(g) = SumFunction(f) + Cardinality(A)
<1> DEFINE Top == {<<x, f[x] + 1>> : x \in A}
           b == [x \in A |-> <<x, f[x] + 1>>]
<1>1. IsFiniteSet(A) /\ Cardinality(A) \in Nat
  BY FS_Subset, FS_CardinalityType
<1>2. IsFiniteSet(Top) /\ Cardinality(Top) = Cardinality(A)
  <2>1. b \in Bijection(A, Top)
    BY DEF Bijection, Injection, Surjection, IsInjective
  <2> QED
    BY <1>1, <2>1, FS_Bijection DEF ExistsBijection
<1>3. Units(g, S) = Units(f, S) \cup Top
  <2>1. ASSUME NEW p \in S \X Nat
        PROVE  p[2] \in 1 .. g[p[1]] <=>
                  \/ p[2] \in 1 .. f[p[1]]
                  \/ p[1] \in A /\ p[2] = f[p[1]] + 1
    <3>1. \A n \in Nat, m \in Nat :
             m \in 1 .. n + 1 <=> m \in 1 .. n \/ m = n + 1
      OBVIOUS
    <3>2. p[1] \in S /\ p[2] \in Nat /\ f[p[1]] \in Nat
      OBVIOUS
    <3>3. CASE p[1] \in A
      <4>1. g[p[1]] = f[p[1]] + 1
        BY <3>2, <3>3
      <4> QED
        BY <3>1, <3>2, <3>3, <4>1
    <3>4. CASE p[1] \notin A
      <4>1. g[p[1]] = f[p[1]]
        BY <3>2, <3>4
      <4> QED
        BY <3>4, <4>1
    <3> QED
      BY <3>3, <3>4, Zenon
  <2>2. \A p \in S \X Nat :
           p \in Top <=> p[1] \in A /\ p[2] = f[p[1]] + 1
    OBVIOUS
  <2>3. Top \subseteq S \X Nat
    OBVIOUS
  <2> HIDE DEF Top
  <2> QED
    BY <2>1, <2>2, <2>3 DEF Units
<1>4. Units(f, S) \cap Top = {}
  BY DEF Units
<1>5. IsFiniteSet(Units(f, S)) /\ Cardinality(Units(f, S)) \in Nat
  BY UnitsFinite, FS_CardinalityType
<1> HIDE DEF Top
<1>6. Cardinality(Units(g, S)) =
         Cardinality(Units(f, S)) + Cardinality(Top) - Cardinality({})
  BY <1>2, <1>3, <1>4, <1>5, FS_Union
<1>7. Cardinality({}) = 0
  BY FS_EmptySet
<1>8. Cardinality(Units(g, S)) = Cardinality(Units(f, S)) + Cardinality(A)
  BY <1>1, <1>2, <1>5, <1>6, <1>7
<1> QED
  BY <1>8, SumIsCount

\* Summands that are zero can be left out of a sum.
THEOREM SumRestrict ==
    ASSUME NEW S, IsFiniteSet(S), NEW T \in SUBSET S,
           NEW f \in [S -> Nat], NEW g \in [T -> Nat],
           \A x \in T : g[x] = f[x], \A x \in S \ T : f[x] = 0
    PROVE  SumFunction(g) = SumFunction(f)
<1>1. IsFiniteSet(T)
  BY FS_Subset
<1>2. Units(g, T) = Units(f, S)
  BY DEF Units
<1> QED
  BY <1>1, <1>2, SumIsCount

\* A sum over fewer or smaller summands is not larger.
THEOREM SumMonotone ==
    ASSUME NEW S, IsFiniteSet(S), NEW T \in SUBSET S,
           NEW f \in [T -> Nat], NEW g \in [S -> Nat],
           \A x \in T : f[x] <= g[x]
    PROVE  SumFunction(f) <= SumFunction(g)
<1>1. IsFiniteSet(T)
  BY FS_Subset
<1>2. Units(f, T) \subseteq Units(g, S)
  BY DEF Units
<1>3. Cardinality(Units(f, T)) <= Cardinality(Units(g, S))
  BY <1>2, UnitsFinite, FS_Subset
<1> QED
  BY <1>1, <1>3, SumIsCount

\* A sum is bounded by the number of its summands times a bound on each.
THEOREM SumBound ==
    ASSUME NEW S, IsFiniteSet(S), NEW n \in Nat, NEW f \in [S -> 0 .. n]
    PROVE  SumFunction(f) <= Cardinality(S) * n
<1>1. IsFiniteSet(1 .. n) /\ Cardinality(1 .. n) = n
  BY CountUpTo
<1>2. Units(f, S) \subseteq S \X (1 .. n)
  BY DEF Units
<1>3. /\ IsFiniteSet(S \X (1 .. n))
      /\ Cardinality(S \X (1 .. n)) = Cardinality(S) * n
  BY <1>1, FS_Product
<1>4. Cardinality(Units(f, S)) <= Cardinality(S) * n
  BY <1>2, <1>3, FS_Subset
<1>5. f \in [S -> Nat]
  OBVIOUS
<1> QED
  BY <1>4, <1>5, SumIsCount
=============================================================================
