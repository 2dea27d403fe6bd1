------------------------------- MODULE SumProofs -------------------------------
(***************************************************************************)
(* Sums over finite sets, as the community modules define them: the        *)
(* models count packed elements and reduce data with SumFunction.  It adds *)
(* the values of a function in an order that CHOOSE picks, by recursion on *)
(* subsets; here it is shown to be independent of that order.              *)
(*                                                                         *)
(* Induction is by a smallest counterexample: the library's WFMin says     *)
(* that a set of numbers has a least element.                              *)
(***************************************************************************)
EXTENDS Integers, FiniteSetsExt, FiniteSetTheorems, WellFoundedInduction, TLAPS

LEMMA Least ==
  ASSUME NEW T \in SUBSET Nat, T # {}
  PROVE  \E n \in T : \A m \in T : n <= m
<1>1. PICK n \in T : \A m \in T : <<m, n>> \notin OpToRel(<, Nat)
  BY WFMin, NatLessThanWellFounded, Zenon
<1>2. \A m \in T : m \in Nat /\ n \in Nat
  OBVIOUS
<1>3. \A m \in T : ~(m < n)
  BY <1>1, <1>2, Zenon DEF OpToRel
<1>4. \A m \in T : n <= m
  BY <1>3, <1>2, SMT
<1> QED BY <1>4

\* Induction over the finite subsets of a set.
LEMMA SubsetInduction ==
  ASSUME NEW U, NEW good \in SUBSET SUBSET U, {} \in good,
         \A S \in SUBSET U : IsFiniteSet(S) /\ S # {} /\ (\A x \in S : S \ {x} \in good) => S \in good
  PROVE  \A S \in SUBSET U : IsFiniteSet(S) => S \in good
<1> SUFFICES ASSUME NEW S0 \in SUBSET U, IsFiniteSet(S0), S0 \notin good PROVE FALSE
  OBVIOUS
<1> DEFINE bad == {S \in SUBSET U : IsFiniteSet(S) /\ S \notin good}
           sizes == {n \in Nat : \E S \in bad : Cardinality(S) = n}
<1>1. \A S \in bad : Cardinality(S) \in Nat
  BY FS_CardinalityType
<1>2. Cardinality(S0) \in sizes
  BY <1>1
<1>3. sizes \in SUBSET Nat /\ sizes # {}
  BY <1>2
<1>4. PICK n \in sizes : \A m \in sizes : n <= m
  <2> HIDE DEF sizes
  <2> QED BY <1>3, Least
<1>5. PICK S \in bad : Cardinality(S) = n
  BY <1>4
<1>6. S \in SUBSET U /\ IsFiniteSet(S) /\ S # {} /\ S \notin good
  BY <1>5
<1>7. ASSUME NEW x \in S PROVE S \ {x} \in good
  <2>1. IsFiniteSet(S \ {x}) /\ Cardinality(S \ {x}) = n - 1
    BY <1>6, <1>5, FS_RemoveElement
  <2>2. n \in Nat /\ n - 1 < n
    BY <1>4
  <2>3. Cardinality(S \ {x}) \in Nat
    BY <2>1, FS_CardinalityType
  <2>4. n - 1 \notin sizes
    BY <1>4, <2>2, <2>1, <2>3
  <2>5. S \ {x} \notin bad
    BY <2>4, <2>1, <2>3
  <2> QED BY <2>5, <2>1, <1>6
<1> QED BY <1>6, <1>7

\* The function by which the community modules define a sum.
AnyOf(S) == CHOOSE x \in S : TRUE
SumsOver(g, f, U) ==
  g = [S \in SUBSET U |-> IF S = {} THEN 0 ELSE f[AnyOf(S)] + g[S \ {AnyOf(S)}]]

LEMMA SumsAgree ==
  ASSUME NEW f, NEW g, NEW h, NEW U, NEW V, SumsOver(g, f, U), SumsOver(h, f, V)
  PROVE  \A S \in SUBSET U : IsFiniteSet(S) /\ S \subseteq V => g[S] = h[S]
<1> DEFINE good == {S \in SUBSET U : S \subseteq V => g[S] = h[S]}
<1>1. {} \in good
  BY Zenon DEF SumsOver
<1>2. ASSUME NEW S \in SUBSET U, S # {}, \A x \in S : S \ {x} \in good
      PROVE  S \in good
  <2>1. AnyOf(S) \in S
    BY <1>2 DEF AnyOf
  <2>2. SUFFICES ASSUME S \subseteq V PROVE g[S] = h[S]
    OBVIOUS
  <2>3. g[S \ {AnyOf(S)}] = h[S \ {AnyOf(S)}]
    BY <1>2, <2>1, <2>2
  <2>4. g[S] = f[AnyOf(S)] + g[S \ {AnyOf(S)}]
    BY <1>2, Zenon DEF SumsOver
  <2>5. h[S] = f[AnyOf(S)] + h[S \ {AnyOf(S)}]
    BY <1>2, <2>2, Zenon DEF SumsOver
  <2> QED BY <2>3, <2>4, <2>5, Zenon
<1>3. \A S \in SUBSET U : IsFiniteSet(S) => S \in good
  <2> HIDE DEF good
  <2>1. good \in SUBSET SUBSET U
    BY DEF good
  <2> QED BY <1>1, <1>2, <2>1, SubsetInduction
<1> QED BY <1>3

LEMMA SumsPart ==
  ASSUME NEW f, NEW g, NEW U, SumsOver(g, f, U), NEW S \in SUBSET U
  PROVE  \E h : SumsOver(h, f, S) /\ h[S] = g[S]
<1> DEFINE h == [T \in SUBSET S |-> g[T]]
<1>1. ASSUME NEW T \in SUBSET S
      PROVE  h[T] = IF T = {} THEN 0 ELSE f[AnyOf(T)] + h[T \ {AnyOf(T)}]
  <2>1. T \in SUBSET U /\ T \ {AnyOf(T)} \in SUBSET S
    OBVIOUS
  <2>2. g[T] = IF T = {} THEN 0 ELSE f[AnyOf(T)] + g[T \ {AnyOf(T)}]
    BY <2>1, Zenon DEF SumsOver
  <2> QED BY <2>1, <2>2, Zenon
<1>2. SumsOver(h, f, S)
  BY <1>1, Zenon DEF SumsOver
<1>3. h[S] = g[S]
  OBVIOUS
<1> QED BY <1>2, <1>3, Zenon

LEMMA SumsExist ==
  ASSUME NEW f, NEW U, IsFiniteSet(U)
  PROVE  \E g : SumsOver(g, f, U)
<1> DEFINE good == {S \in SUBSET U : \E g : SumsOver(g, f, S)}
<1>1. {} \in good
  <2> DEFINE g == [S \in SUBSET {} |-> 0]
  <2>1. SumsOver(g, f, {})
    <3>1. \A S \in SUBSET {} : S = {}
      OBVIOUS
    <3>2. g = [S \in SUBSET {} |-> IF S = {} THEN 0 ELSE f[AnyOf(S)] + g[S \ {AnyOf(S)}]]
      BY <3>1, Zenon
    <3> QED BY <3>2, Zenon DEF SumsOver
  <2> QED BY <2>1, Zenon
<1>2. ASSUME NEW S \in SUBSET U, IsFiniteSet(S), S # {}, \A x \in S : S \ {x} \in good
      PROVE  S \in good
  <2>1. \A T \in SUBSET S : T # S => \E x \in S : T \subseteq S \ {x}
    OBVIOUS
  <2>2. \A T \in SUBSET S : T # S => \E g : SumsOver(g, f, T)
    BY <2>1, <1>2, SumsPart
  <2> DEFINE val(T) == (CHOOSE g : SumsOver(g, f, T))[T]
             below == [T \in SUBSET S |-> IF T = S THEN 0 ELSE val(T)]
             next(T) == IF T = {} THEN 0 ELSE f[AnyOf(T)] + below[T \ {AnyOf(T)}]
             g == [T \in SUBSET S |-> next(T)]
  <2>3. ASSUME NEW T \in SUBSET S, T # S
        PROVE  next(T) = below[T]
    <3>1. PICK h : SumsOver(h, f, T) /\ val(T) = h[T]
      <4>1. PICK h : h = CHOOSE e : SumsOver(e, f, T)
        OBVIOUS
      <4>2. SumsOver(h, f, T)
        BY <2>2, <2>3, <4>1, Zenon
      <4> QED BY <4>1, <4>2, Zenon
    <3>2. below[T] = h[T]
      BY <3>1, <2>3, Zenon
    <3>3. h[T] = IF T = {} THEN 0 ELSE f[AnyOf(T)] + h[T \ {AnyOf(T)}]
      BY <3>1, Zenon DEF SumsOver
    <3>4. CASE T = {}
      BY <3>2, <3>3, <3>4, Zenon
    <3>5. CASE T # {}
      <4> DEFINE R == T \ {AnyOf(T)}
      <4>1. R \in SUBSET S /\ R # S /\ R \in SUBSET T
        BY <3>5, <2>3 DEF AnyOf
      <4>2. PICK e : SumsOver(e, f, R) /\ val(R) = e[R]
        <5>1. PICK e : e = CHOOSE d : SumsOver(d, f, R)
          OBVIOUS
        <5>2. SumsOver(e, f, R)
          BY <2>2, <4>1, <5>1, Zenon
        <5> QED BY <5>1, <5>2, Zenon
      <4>3. IsFiniteSet(R)
        BY <1>2, <4>1, FS_Subset
      <4>4. h[R] = e[R]
        <5> HIDE DEF R
        <5> QED BY <4>1, <4>2, <4>3, <3>1, SumsAgree
      <4>5. below[R] = h[R]
        BY <4>1, <4>2, <4>4, Zenon
      <4> QED BY <4>5, <3>2, <3>3, <3>5, Zenon
    <3> QED BY <3>4, <3>5
  <2>4. ASSUME NEW T \in SUBSET S
        PROVE  g[T] = IF T = {} THEN 0 ELSE f[AnyOf(T)] + g[T \ {AnyOf(T)}]
    <3>1. CASE T = {}
      BY <3>1, Zenon
    <3>2. CASE T # {}
      <4> DEFINE R == T \ {AnyOf(T)}
      <4>1. R \in SUBSET S /\ R # S
        BY <3>2 DEF AnyOf
      <4>2. g[R] = next(R)
        BY <4>1, Zenon
      <4>3. g[R] = below[R]
        <5> HIDE DEF R, next, below, g
        <5> QED BY <4>1, <4>2, <2>3, Zenon
      <4>4. g[T] = f[AnyOf(T)] + below[R]
        BY <3>2, Zenon
      <4> HIDE DEF g, below, next
      <4> QED BY <4>3, <4>4, <3>2, Zenon
    <3> QED BY <3>1, <3>2
  <2>5. DOMAIN g = SUBSET S /\ g = [T \in SUBSET S |-> g[T]]
    OBVIOUS
  <2>6. SumsOver(g, f, S)
    <3> HIDE DEF g
    <3> QED BY <2>4, <2>5, Zenon DEF SumsOver
  <2> QED BY <2>6, Zenon
<1>3. \A S \in SUBSET U : IsFiniteSet(S) => S \in good
  <2> HIDE DEF good
  <2>1. good \in SUBSET SUBSET U
    BY DEF good
  <2> QED BY <1>1, <1>2, <2>1, SubsetInduction
<1> QED BY <1>3

LEMMA SumIs ==
  ASSUME NEW f, NEW U, IsFiniteSet(U)
  PROVE  \E g : SumsOver(g, f, U) /\ SumFunctionOnSet(f, U) = g[U]
<1> DEFINE body(h) == [S \in SUBSET U |->
                         IF S = {} THEN 0
                         ELSE f[CHOOSE x \in S : TRUE] + h[S \ {CHOOSE x \in S : TRUE}]]
<1>a. \A h : SumsOver(h, f, U) <=> h = body(h)
  BY Zenon DEF SumsOver, AnyOf
<1>b. \E h : h = body(h)
  <2>1. PICK e : SumsOver(e, f, U)
    BY SumsExist
  <2> HIDE DEF body
  <2> QED BY <2>1, <1>a, Zenon
<1>1. PICK g : g = CHOOSE h : h = body(h)
  OBVIOUS
<1>2. SumsOver(g, f, U)
  <2> HIDE DEF body
  <2> QED BY <1>1, <1>a, <1>b, Zenon
<1>3. SumFunctionOnSet(f, U) = g[U]
  BY <1>1, Zenon DEF SumFunctionOnSet, FoldFunctionOnSet, MapThenFoldSet
<1> QED BY <1>2, <1>3

\* Sums of integers do not depend on the order of their summands.
LEMMA SumEmpty ==
  ASSUME NEW f
  PROVE  SumFunctionOnSet(f, {}) = 0
<1>1. PICK g : SumsOver(g, f, {}) /\ SumFunctionOnSet(f, {}) = g[{}]
  BY SumIs, FS_EmptySet
<1> QED BY <1>1, Zenon DEF SumsOver

LEMMA SumTake ==
  ASSUME NEW f, NEW U, IsFiniteSet(U), U # {}
  PROVE  SumFunctionOnSet(f, U) = f[AnyOf(U)] + SumFunctionOnSet(f, U \ {AnyOf(U)})
<1> DEFINE V == U \ {AnyOf(U)}
<1>1. IsFiniteSet(V)
  BY FS_RemoveElement, FS_Subset
<1>2. PICK g : SumsOver(g, f, U) /\ SumFunctionOnSet(f, U) = g[U]
  BY SumIs
<1>3. PICK h : SumsOver(h, f, V) /\ SumFunctionOnSet(f, V) = h[V]
  BY <1>1, SumIs
<1>4. V \in SUBSET U /\ V \in SUBSET V
  OBVIOUS
<1>5. g[V] = h[V]
  <2> HIDE DEF V
  <2> QED BY <1>1, <1>2, <1>3, <1>4, SumsAgree
<1>6. g[U] = f[AnyOf(U)] + g[V]
  <2>1. U \in SUBSET U
    OBVIOUS
  <2> QED BY <1>2, <2>1, Zenon DEF SumsOver
<1> QED BY <1>2, <1>3, <1>5, <1>6, Zenon

LEMMA SumInt ==
  ASSUME NEW U, IsFiniteSet(U), NEW f, \A x \in U : f[x] \in Int
  PROVE  SumFunctionOnSet(f, U) \in Int
<1> DEFINE good == {S \in SUBSET U : SumFunctionOnSet(f, S) \in Int}
<1>1. {} \in good
  BY SumEmpty
<1>2. ASSUME NEW S \in SUBSET U, IsFiniteSet(S), S # {}, \A x \in S : S \ {x} \in good
      PROVE  S \in good
  <2>1. AnyOf(S) \in S
    BY <1>2 DEF AnyOf
  <2>2. SumFunctionOnSet(f, S) = f[AnyOf(S)] + SumFunctionOnSet(f, S \ {AnyOf(S)})
    BY <1>2, SumTake, Zenon
  <2>3. f[AnyOf(S)] \in Int /\ SumFunctionOnSet(f, S \ {AnyOf(S)}) \in Int
    BY <2>1, <1>2
  <2>4. SumFunctionOnSet(f, S) \in Int
    BY <2>2, <2>3
  <2> QED BY <2>4
<1>3. \A S \in SUBSET U : IsFiniteSet(S) => S \in good
  <2> HIDE DEF good
  <2>1. good \in SUBSET SUBSET U
    BY DEF good
  <2> QED BY <1>1, <1>2, <2>1, SubsetInduction
<1> QED BY <1>3

LEMMA SumOut ==
  ASSUME NEW U, IsFiniteSet(U), NEW f, \A x \in U : f[x] \in Int
  PROVE  /\ SumFunctionOnSet(f, U) \in Int
         /\ \A x \in U : SumFunctionOnSet(f, U) = f[x] + SumFunctionOnSet(f, U \ {x})
<1> DEFINE sum(S) == SumFunctionOnSet(f, S)
           splits(S) == sum(S) \in Int /\ \A x \in S : sum(S) = f[x] + sum(S \ {x})
           good == {S \in SUBSET U : splits(S)}
<1> HIDE DEF sum
<1>0. \A S \in SUBSET U : sum(S) \in Int
  BY SumInt, FS_Subset DEF sum
<1>1. {} \in good
  BY <1>0, SumEmpty DEF sum
<1>2. ASSUME NEW S \in SUBSET U, IsFiniteSet(S), S # {}, \A x \in S : S \ {x} \in good
      PROVE  S \in good
  <2>1. PICK a : a = AnyOf(S)
    OBVIOUS
  <2>2. a \in S
    BY <1>2, <2>1 DEF AnyOf
  <2>3. sum(S) = f[a] + sum(S \ {a})
    BY <1>2, <2>1, SumTake DEF sum
  <2>4. sum(S) \in Int
    BY <2>2, <2>3, <1>2
  <2>5. ASSUME NEW x \in S PROVE sum(S) = f[x] + sum(S \ {x})
    <3>1. CASE x = a
      BY <2>3, <3>1
    <3>2. CASE x # a
      <4>1. sum(S \ {a}) = f[x] + sum((S \ {a}) \ {x})
        BY <2>2, <3>2, <1>2
      <4>2. sum(S \ {x}) = f[a] + sum((S \ {x}) \ {a}) /\ S \ {x} \in good
        BY <2>2, <3>2, <1>2
      <4>3. (S \ {a}) \ {x} = (S \ {x}) \ {a}
        OBVIOUS
      <4>4. (S \ {x}) \ {a} \in SUBSET U
        OBVIOUS
      <4>5. sum((S \ {x}) \ {a}) \in Int
        BY <4>4, <1>0
      <4>6. f[a] \in Int /\ f[x] \in Int
        BY <2>2
      <4>7. PICK i, j, k : i = f[a] /\ j = f[x] /\ k = sum((S \ {x}) \ {a})
        OBVIOUS
      <4>8. sum(S) = i + (j + k) /\ sum(S \ {x}) = i + k
        BY <4>1, <4>2, <4>3, <4>7, <2>3, Zenon
      <4>9. i + (j + k) = j + (i + k)
        BY <4>5, <4>6, <4>7
      <4> QED BY <4>7, <4>8, <4>9, Zenon
    <3> QED BY <3>1, <3>2
  <2> QED BY <2>4, <2>5
<1>3. \A S \in SUBSET U : IsFiniteSet(S) => S \in good
  <2> HIDE DEF good
  <2>1. good \in SUBSET SUBSET U
    BY DEF good
  <2> QED BY <1>1, <1>2, <2>1, SubsetInduction
<1> QED BY <1>3 DEF sum

\* Summands in other places: equal functions, or one followed by a bijection.
LEMMA SumMoved ==
  ASSUME NEW U, IsFiniteSet(U), NEW f, NEW g, NEW to, NEW V,
         \A x \in U : f[x] \in Int /\ to[x] \in V /\ g[to[x]] = f[x],
         \A x, y \in U : to[x] = to[y] => x = y,
         \A z \in V : \E x \in U : to[x] = z
  PROVE  SumFunctionOnSet(f, U) = SumFunctionOnSet(g, V)
<1> DEFINE image(S) == {to[x] : x \in S}
           good == {S \in SUBSET U : SumFunctionOnSet(f, S) = SumFunctionOnSet(g, image(S))}
<1>1. {} \in good
  <2>1. image({}) = {}
    OBVIOUS
  <2>2. SumFunctionOnSet(f, {}) = SumFunctionOnSet(g, image({}))
    BY <2>1, SumEmpty, Zenon
  <2> QED BY <2>2
<1>2. ASSUME NEW S \in SUBSET U, IsFiniteSet(S), S # {}, \A x \in S : S \ {x} \in good
      PROVE  S \in good
  <2>1. PICK x \in S : TRUE
    BY <1>2
  <2>2. \A y \in S : f[y] \in Int
    OBVIOUS
  <2>3. SumFunctionOnSet(f, S) = f[x] + SumFunctionOnSet(f, S \ {x})
    BY <1>2, <2>1, <2>2, SumOut
  <2>4. \A z \in image(S) : g[z] \in Int
    OBVIOUS
  <2>5. IsFiniteSet(image(S))
    <3>1. PICK h : h = [y \in S |-> to[y]]
      OBVIOUS
    <3>2. h \in [S -> image(S)] /\ \A z \in image(S) : \E y \in S : h[y] = z
      BY <3>1
    <3>3. h \in Surjection(S, image(S))
      BY <3>2 DEF Surjection
    <3> QED BY <3>3, <1>2, FS_Surjection
  <2>6. image(S \ {x}) = image(S) \ {to[x]}
    OBVIOUS
  <2>7. to[x] \in image(S)
    OBVIOUS
  <2>8. SumFunctionOnSet(g, image(S)) = g[to[x]] + SumFunctionOnSet(g, image(S) \ {to[x]})
    <3> HIDE DEF image
    <3> QED BY <2>4, <2>5, <2>7, SumOut
  <2>9. SumFunctionOnSet(f, S \ {x}) = SumFunctionOnSet(g, image(S \ {x}))
    BY <1>2, <2>1
  <2>10. g[to[x]] = f[x]
    OBVIOUS
  <2>11. SumFunctionOnSet(f, S) = SumFunctionOnSet(g, image(S))
    <3> HIDE DEF image
    <3> QED BY <2>3, <2>6, <2>8, <2>9, <2>10, Zenon
  <2> QED BY <2>11
<1>3. \A S \in SUBSET U : IsFiniteSet(S) => S \in good
  <2> HIDE DEF good
  <2>1. good \in SUBSET SUBSET U
    BY DEF good
  <2> QED BY <1>1, <1>2, <2>1, SubsetInduction
<1>4. image(U) = V
  OBVIOUS
<1>5. U \in good
  <2> HIDE DEF good
  <2> QED BY <1>3
<1> QED BY <1>4, <1>5, Zenon

LEMMA SumEqual ==
  ASSUME NEW U, IsFiniteSet(U), NEW f, NEW g, \A x \in U : f[x] \in Int /\ g[x] = f[x]
  PROVE  SumFunctionOnSet(f, U) = SumFunctionOnSet(g, U)
<1> DEFINE to == [x \in U |-> x]
<1>1. \A x \in U : f[x] \in Int /\ to[x] \in U /\ g[to[x]] = f[x]
  OBVIOUS
<1>2. \A x, y \in U : to[x] = to[y] => x = y
  OBVIOUS
<1>3. \A z \in U : \E x \in U : to[x] = z
  OBVIOUS
<1> HIDE DEF to
<1> QED BY <1>1, <1>2, <1>3, SumMoved
================================================================================
