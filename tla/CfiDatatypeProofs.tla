------------------------- MODULE CfiDatatypeProofs -------------------------
(***************************************************************************)
(* Proofs about CfiDatatype: whatever the rank, extents, strides and count *)
(* of a descriptor, the loops fill the array of displacements exactly, and *)
(* a datatype that is returned selects the first count elements in array   *)
(* element order, or those a user-defined type falls on.                   *)
(***************************************************************************)
EXTENDS CfiDatatype, FiniteSetTheorems, TLAPS

-----------------------------------------------------------------------------
(* Induction over dimensions, and the products of extents. *)

LEMMA UpTo15 ==
  ASSUME NEW S, 0 \in S, \A d \in 0..14 : d \in S => d + 1 \in S
  PROVE  \A d \in 0..15 : d \in S
<1>1. 1 \in S /\ 2 \in S /\ 3 \in S /\ 4 \in S /\ 5 \in S
  OBVIOUS
<1>2. 6 \in S /\ 7 \in S /\ 8 \in S /\ 9 \in S /\ 10 \in S
  BY <1>1
<1>3. 11 \in S /\ 12 \in S /\ 13 \in S /\ 14 \in S /\ 15 \in S
  BY <1>2
<1> QED
  BY <1>1, <1>2, <1>3

\* What the assumption says of the call.
LEMMA CallFacts ==
  ASSUME call \in Calls
  PROVE  /\ Rank \in 1..15 /\ Dims = 0..Rank-1
         /\ elem_len \in Nat \ {0} /\ type_size \in Nat
         /\ call.count \in Int /\ call.type.builtin \in BOOLEAN
         /\ \A d \in 0..14 : Extent(d) \in Int /\ Sm(d) \in Int
         /\ \A d \in 0..14 : d < Rank - 1 => Extent(d) >= 0
         /\ \A d \in 0..14 : d >= Rank => Extent(d) = 1
<1>1. /\ IsDescriptor(call.desc) /\ call.count \in Int /\ IsDatatype(call.type)
      /\ IntMax \in Nat
  BY CfiAssumption
<1>2. Rank \in 1..15 /\ elem_len \in Nat \ {0} /\ type_size \in Nat /\ Dims = 0..Rank-1
  BY <1>1 DEF IsDescriptor, Rank, elem_len, type_size, Dims
<1>3. call.type.builtin \in BOOLEAN
  BY <1>1 DEF IsDatatype
<1>4. \A d \in Dims : call.desc.dim[d].extent \in Nat \cup {-1} /\ call.desc.dim[d].sm \in Int
  BY <1>1, <1>2 DEF IsDescriptor, Rank
<1>5. \A d \in 0..Rank-2 : call.desc.dim[d].extent >= 0
  BY <1>1 DEF IsDescriptor, Rank
<1>6. ASSUME NEW d \in 0..14
      PROVE  /\ Extent(d) \in Int /\ Sm(d) \in Int
             /\ d < Rank - 1 => Extent(d) >= 0
             /\ d >= Rank => Extent(d) = 1
  <2>1. CASE d < Rank
    <3>1. d \in Dims /\ (d < Rank - 1 => d \in 0..Rank-2)
      BY <1>2, <2>1
    <3>2. Extent(d) = call.desc.dim[d].extent /\ Sm(d) = call.desc.dim[d].sm
      BY <1>2, <2>1 DEF Extent, Sm
    <3> QED
      BY <1>2, <1>4, <1>5, <2>1, <3>1, <3>2
  <2>2. CASE d >= Rank
    BY <1>2, <2>2 DEF Extent, Sm
  <2> QED
    BY <1>2, <2>1, <2>2
<1> QED
  BY <1>1, <1>2, <1>3, <1>6

LEMMA ExtentInt ==
  ASSUME call \in Calls, NEW d \in 0..14
  PROVE  Extent(d) \in Int
BY CallFacts

\* No extent is below -1.
LEMMA ExtentBelow ==
  ASSUME call \in Calls, NEW d \in Dims
  PROVE  Extent(d) >= -1
<1>1. IsDescriptor(call.desc) /\ Rank \in 1..15 /\ Dims = 0..Rank-1
  BY CfiAssumption, CallFacts
<1>2. call.desc.dim[d].extent \in Nat \cup {-1}
  BY <1>1 DEF IsDescriptor, Rank
<1>3. Extent(d) = call.desc.dim[d].extent
  BY <1>1 DEF Extent
<1> QED
  BY <1>2, <1>3

\* A C integer is itself as a C integer.
LEMMA AsIntSame ==
  ASSUME NEW x \in Int, x >= -1, x <= IntMax
  PROVE  AsInt(x) = x
<1> DEFINE m == IntMax + 1
<1>1. m \in Nat /\ m > 0 /\ x + m \in Nat /\ x + m < 2 * m /\ 2 * m \in Nat /\ 2 * m > 0
  BY CfiAssumption
<1>2. x + m = x + IntMax + 1
  BY CfiAssumption
<1>3. AsInt(x) = ((x + m) % (2 * m)) - m
  BY <1>2 DEF AsInt
<1> HIDE DEF m
<1>4. ASSUME NEW k \in Nat, NEW e \in Nat, e > 0, k < e
      PROVE  k % e = k
  BY <1>4
<1>5. (x + m) % (2 * m) = x + m
  BY <1>1, <1>4
<1> QED
  BY <1>1, <1>3, <1>5

\* The loops see the extents of an array whose extents are C integers.
LEMMA LoopExtentFits ==
  ASSUME call \in Calls, Fits, NEW d \in Dims
  PROVE  LoopExtent(d) = Extent(d)
<1>1. d \in 0..14
  <2>1. Rank \in 1..15 /\ Dims = 0..Rank-1
    BY CallFacts
  <2> QED
    BY <2>1
<1>2. Extent(d) \in Int /\ Extent(d) >= -1 /\ Extent(d) <= IntMax
  BY <1>1, ExtentInt, ExtentBelow DEF Fits
<1> QED
  BY <1>2, AsIntSame DEF LoopExtent

LEMMA SumInt ==
  ASSUME NEW x \in Int, NEW y \in Int, NEW w \in Int
  PROVE  x * y + w \in Int
OBVIOUS

\* A sequence of sums and products: both recursive functions are of this form.
LEMMA Iteration ==
  ASSUME NEW a \in [0..14 -> Int], NEW b \in [0..14 -> Int], NEW z \in Int, NEW r \in 0..15
  PROVE  \E f \in [0..r -> Int] : f[0] = z /\ \A d \in 0..r-1 : f[d+1] = f[d] * a[d] + b[d]
<1> DEFINE Good(n, f) == f[0] = z /\ \A d \in 0..n-1 : f[d+1] = f[d] * a[d] + b[d]
           S == {n \in 0..15 : \E f \in [0..n -> Int] : Good(n, f)}
<1>1. 0 \in S
  <2> DEFINE g == [n \in 0..0 |-> z]
  <2>1. g \in [0..0 -> Int] /\ Good(0, g)
    OBVIOUS
  <2> HIDE DEF g, Good
  <2> QED
    BY <2>1
<1>2. ASSUME NEW n \in 0..14, n \in S
      PROVE  n + 1 \in S
  <2> HIDE DEF S
  <2>0. n \in 0..14 /\ n + 1 \in 0..15 /\ n \in 0..n /\ 0 \in 0..n+1 /\ 0 # n + 1
    BY <1>2
  <2>1. PICK f \in [0..n -> Int] : Good(n, f)
    BY <1>2 DEF S
  <2> DEFINE g == [d \in 0..n+1 |-> IF d = n + 1 THEN f[n] * a[n] + b[n] ELSE f[d]]
  <2>2. f[n] * a[n] + b[n] \in Int
    <3>1. f[n] \in Int /\ a[n] \in Int /\ b[n] \in Int
      BY <2>0
    <3> QED
      BY <3>1, SumInt, Zenon
  <2>3. g \in [0..n+1 -> Int]
    BY <2>2
  <2>4. g[0] = z
    BY <2>0, <2>1
  <2>5. ASSUME NEW d \in 0..n
        PROVE  g[d+1] = g[d] * a[d] + b[d]
    <3>1. g[d] = f[d]
      OBVIOUS
    <3>2. CASE d = n
      BY <3>1, <3>2
    <3>3. CASE d # n
      <4>1. d \in 0..n-1 /\ d + 1 # n + 1 /\ d + 1 \in 0..n+1
        BY <3>3
      <4>2. g[d+1] = f[d+1]
        BY <4>1
      <4> QED
        BY <2>1, <3>1, <4>1, <4>2
    <3> QED
      BY <3>2, <3>3
  <2>6. Good(n + 1, g)
    <3>1. (n + 1) - 1 = n
      OBVIOUS
    <3> HIDE DEF g
    <3> QED
      BY <2>4, <2>5, <3>1
  <2> HIDE DEF g, Good
  <2> QED
    BY <2>0, <2>3, <2>6 DEF S
<1> HIDE DEF S
<1>3. r \in S
  BY <1>1, <1>2, UpTo15, SMTT(30)
<1> QED
  BY <1>3 DEF S

LEMMA ProductRecursion ==
  ASSUME call \in Calls
  PROVE  Product = [n \in 0..15 |-> IF n = 0 THEN 1 ELSE Product[n-1] * Extent(n-1)]
<1> DEFINE a == [d \in 0..14 |-> Extent(d)]
           b == [d \in 0..14 |-> 0]
<1>1. a \in [0..14 -> Int] /\ b \in [0..14 -> Int]
  BY ExtentInt
<1>2. PICK f \in [0..15 -> Int] : f[0] = 1 /\ \A d \in 0..15-1 : f[d+1] = f[d] * a[d] + b[d]
  <2> HIDE DEF a, b
  <2>1. \A z \in Int, r \in 0..15 : \E f \in [0..r -> Int] :
          f[0] = z /\ \A d \in 0..r-1 : f[d+1] = f[d] * a[d] + b[d]
    BY <1>1, Iteration
  <2>2. 1 \in Int /\ 15 \in 0..15
    OBVIOUS
  <2> QED
    BY <2>1, <2>2, Zenon
<1>3. ASSUME NEW n \in 0..15
      PROVE  f[n] = IF n = 0 THEN 1 ELSE f[n-1] * Extent(n-1)
  <2>1. CASE n = 0
    BY <1>2, <2>1
  <2>2. CASE n # 0
    <3>1. n - 1 \in 0..14 /\ (n - 1) + 1 = n
      BY <2>2
    <3>2. f[n] = f[n-1] * a[n-1] + b[n-1] /\ f[n-1] \in Int /\ a[n-1] = Extent(n-1) /\ b[n-1] = 0
      BY <1>2, <3>1
    <3>3. Extent(n-1) \in Int
      BY <3>1, ExtentInt
    <3> HIDE DEF a, b
    <3> QED
      BY <2>2, <3>2, <3>3
  <2> QED
    BY <2>1, <2>2
<1>4. f = [n \in 0..15 |-> IF n = 0 THEN 1 ELSE f[n-1] * Extent(n-1)]
  BY <1>3
<1> HIDE DEF a, b
<1> QED
  BY <1>4 DEF Product

LEMMA ProductFacts ==
  ASSUME call \in Calls
  PROVE  /\ Product[0] = 1
         /\ \A n \in 0..15 : Product[n] \in Int
         /\ \A d \in 0..14 : Product[d+1] = Product[d] * Extent(d)
<1>1. Product[0] = 1
  BY ProductRecursion
<1>2. ASSUME NEW d \in 0..14
      PROVE  Product[d+1] = Product[d] * Extent(d)
  <2>1. d + 1 \in 0..15 /\ d + 1 # 0 /\ (d + 1) - 1 = d
    OBVIOUS
  <2> QED
    BY <2>1, ProductRecursion
<1> DEFINE S == {n \in 0..15 : Product[n] \in Int}
<1>3. \A n \in 0..15 : n \in S
  <2>1. 0 \in S
    BY <1>1
  <2>2. ASSUME NEW d \in 0..14, d \in S
        PROVE  d + 1 \in S
    BY <2>2, <1>2, ExtentInt
  <2> HIDE DEF S
  <2> QED
    BY <2>1, <2>2, UpTo15, SMTT(30)
<1> QED
  BY <1>1, <1>2, <1>3
-----------------------------------------------------------------------------
(* Displacements. *)

LEMMA DisplacementRecursion ==
  ASSUME call \in Calls, NEW i \in [Dims -> Int]
  PROVE  \E g \in [0..Rank -> Int] :
           /\ Displacement(i) = g[Rank]
           /\ g[0] = 0
           /\ \A d \in 0..Rank-1 : g[d+1] = g[d] + Sm(d) * i[d]
<1>1. Rank \in 1..15 /\ Dims = 0..Rank-1
  BY CallFacts
<1>2. ASSUME NEW d \in 0..Rank-1
      PROVE  Sm(d) * i[d] \in Int
  <2>1. Sm(d) \in Int /\ i[d] \in Int
    <3>1. d \in 0..14 /\ d \in Dims
      BY <1>1
    <3> QED
      BY <3>1, CallFacts
  <2> QED
    BY <2>1
<1> DEFINE a == [d \in 0..14 |-> 1]
           b == [d \in 0..14 |-> IF d < Rank THEN Sm(d) * i[d] ELSE 0]
<1>3. a \in [0..14 -> Int] /\ b \in [0..14 -> Int]
  <2>1. ASSUME NEW d \in 0..14
        PROVE  (IF d < Rank THEN Sm(d) * i[d] ELSE 0) \in Int
    BY <1>1, <1>2
  <2> QED
    BY <2>1
<1>4. PICK f \in [0..Rank -> Int] :
        f[0] = 0 /\ \A d \in 0..Rank-1 : f[d+1] = f[d] * a[d] + b[d]
  <2> HIDE DEF a, b
  <2>1. Rank \in 0..15 /\ 0 \in Int
    BY <1>1
  <2>2. \A z \in Int, r \in 0..15 : \E f \in [0..r -> Int] :
          f[0] = z /\ \A d \in 0..r-1 : f[d+1] = f[d] * a[d] + b[d]
    BY <1>3, Iteration
  <2> QED
    BY <2>1, <2>2, Zenon
<1>5. ASSUME NEW d \in 0..Rank-1
      PROVE  f[d+1] = f[d] + Sm(d) * i[d]
  <2>1. d \in 0..14 /\ d < Rank /\ f[d] \in Int
    BY <1>1
  <2>2. a[d] = 1 /\ b[d] = Sm(d) * i[d]
    BY <2>1
  <2>3. f[d+1] = f[d] * 1 + Sm(d) * i[d]
    BY <1>4, <2>2
  <2> QED
    BY <1>2, <2>1, <2>3
<1>6. f = [n \in 0..Rank |-> IF n = 0 THEN 0 ELSE f[n-1] + Sm(n-1) * i[n-1]]
  <2>1. ASSUME NEW n \in 0..Rank
        PROVE  f[n] = IF n = 0 THEN 0 ELSE f[n-1] + Sm(n-1) * i[n-1]
    <3>1. CASE n = 0
      BY <1>4, <3>1
    <3>2. CASE n # 0
      <4>1. n - 1 \in 0..Rank-1 /\ (n - 1) + 1 = n
        BY <1>1, <3>2
      <4> QED
        BY <1>5, <3>2, <4>1
    <3> QED
      BY <3>1, <3>2
  <2> QED
    BY <2>1
<1> DEFINE sum == CHOOSE g : g = [n \in 0..Rank |-> IF n = 0 THEN 0
                                                  ELSE g[n-1] + Sm(n-1) * i[n-1]]
<1>7. sum = [n \in 0..Rank |-> IF n = 0 THEN 0 ELSE sum[n-1] + Sm(n-1) * i[n-1]]
  <2> HIDE DEF a, b
  <2> QED
    BY <1>6
<1>8. Displacement(i) = sum[Rank]
  BY DEF Displacement
<1> HIDE DEF sum
<1>9. sum[0] = 0
  BY <1>1, <1>7
<1>10. ASSUME NEW d \in 0..Rank-1
       PROVE  sum[d+1] = sum[d] + Sm(d) * i[d]
  <2>1. d + 1 \in 0..Rank /\ d + 1 # 0 /\ (d + 1) - 1 = d
    BY <1>1
  <2> QED
    BY <1>7, <2>1
<1>11. \A n \in 0..15 : n <= Rank => sum[n] \in Int
  <2> DEFINE S == {n \in 0..15 : n <= Rank => sum[n] \in Int}
  <2>1. 0 \in S
    BY <1>9
  <2>2. ASSUME NEW d \in 0..14, d \in S
        PROVE  d + 1 \in S
    <3>1. CASE d < Rank
      <4>1. d \in 0..Rank-1 /\ d + 1 \in 0..15
        BY <1>1, <3>1
      <4>2. sum[d] \in Int /\ Sm(d) * i[d] \in Int
        BY <1>1, <1>2, <2>2, <4>1
      <4>3. sum[d+1] \in Int
        BY <1>10, <4>1, <4>2
      <4> QED
        BY <4>1, <4>3
    <3>2. CASE d >= Rank
      BY <1>1, <3>2
    <3> QED
      BY <1>1, <3>1, <3>2
  <2> HIDE DEF S
  <2>3. \A n \in 0..15 : n \in S
    BY <2>1, <2>2, UpTo15, SMTT(30)
  <2> QED
    BY <2>3 DEF S
<1>12. sum \in [0..Rank -> Int]
  <2>1. ASSUME NEW n \in 0..Rank
        PROVE  sum[n] \in Int
    <3>1. n \in 0..15 /\ n <= Rank
      BY <1>1
    <3> QED
      BY <1>11, <3>1
  <2> QED
    BY <1>7, <2>1
<1> QED
  BY <1>8, <1>9, <1>10, <1>12

LEMMA DisplacementInt ==
  ASSUME call \in Calls, NEW i \in [Dims -> Int]
  PROVE  Displacement(i) \in Int
<1>1. Rank \in 0..Rank
  <2>1. Rank \in 1..15
    BY CallFacts
  <2> QED
    BY <2>1
<1>2. PICK g \in [0..Rank -> Int] : Displacement(i) = g[Rank]
  BY DisplacementRecursion
<1> QED
  BY <1>1, <1>2

\* In the first two dimensions.
LEMMA DisplacementPlane ==
  ASSUME call \in Calls, NEW i0 \in Int, NEW i1 \in Int, Rank = 1 => i1 = 0
  PROVE  Displacement(Subscript2(i0, i1)) = Sm(0) * i0 + (IF Rank = 1 THEN 0 ELSE Sm(1) * i1)
<1>1. Rank \in 1..15 /\ Dims = 0..Rank-1 /\ Sm(0) \in Int /\ Sm(1) \in Int
  BY CallFacts
<1> DEFINE i == Subscript2(i0, i1)
<1>2. i \in [Dims -> Int]
  BY DEF Subscript2
<1>3. /\ i[0] = i0
      /\ Rank > 1 => i[1] = i1
      /\ \A d \in 2..Rank-1 : i[d] = 0
  BY <1>1 DEF Subscript2
<1> HIDE DEF i
<1>4. PICK g \in [0..Rank -> Int] :
           /\ Displacement(i) = g[Rank]
           /\ g[0] = 0
           /\ \A d \in 0..Rank-1 : g[d+1] = g[d] + Sm(d) * i[d]
  BY <1>2, DisplacementRecursion
<1>5. g[1] = Sm(0) * i0
  <2>1. g[0+1] = g[0] + Sm(0) * i[0]
    BY <1>1, <1>4
  <2> QED
    BY <1>1, <1>3, <1>4, <2>1
<1>6. CASE Rank = 1
  BY <1>1, <1>4, <1>5, <1>6 DEF i
<1>7. CASE Rank > 1
  <2> DEFINE v == Sm(0) * i0 + Sm(1) * i1
             S == {n \in 0..15 : 2 <= n /\ n <= Rank => g[n] = v}
  <2>1. g[1+1] = g[1] + Sm(1) * i[1]
    BY <1>1, <1>4, <1>7
  <2>2. g[2] = v
    BY <1>3, <1>5, <1>7, <2>1
  <2>3. 0 \in S
    OBVIOUS
  <2>4. ASSUME NEW d \in 0..14, d \in S
        PROVE  d + 1 \in S
    <3>1. CASE 2 <= d /\ d < Rank
      <4>1. d \in 0..Rank-1 /\ d \in 2..Rank-1 /\ d + 1 \in 0..15 /\ d <= Rank
        BY <1>1, <3>1
      <4>2. g[d+1] = g[d] + Sm(d) * i[d] /\ i[d] = 0
        BY <1>3, <1>4, <4>1
      <4>6. g[d] \in Int
        BY <1>1, <4>1
      <4>3. Sm(d) \in Int
        BY CallFacts
      <4>4. g[d+1] = g[d]
        BY <4>2, <4>3, <4>6
      <4>5. g[d] = v
        BY <2>4, <3>1, <4>1
      <4> HIDE DEF v
      <4> QED
        BY <4>1, <4>4, <4>5
    <3>2. CASE d + 1 = 2
      BY <2>2, <3>2
    <3>3. CASE d + 1 < 2 \/ d >= Rank
      BY <1>1, <3>3
    <3> QED
      BY <1>1, <3>1, <3>2, <3>3
  <2> HIDE DEF S
  <2>5. Rank \in S
    BY <1>1, <2>3, <2>4, UpTo15, SMTT(30)
  <2> QED
    BY <1>1, <1>4, <1>7, <2>5 DEF S, i
<1> QED
  BY <1>1, <1>6, <1>7
-----------------------------------------------------------------------------
(* The nested loops enumerate in array element order, one number after the   *)
(* other.  Numbers(g, i) says that g[d] is the number of the subscript i     *)
(* among those that differ from it in the first d dimensions only.           *)

Depth == IF call.type.builtin /\ InPlane THEN 2 ELSE Rank

Numbers(g, i) ==
  /\ g \in [0..Depth -> Int]
  /\ g[0] = 0
  /\ \A d \in 0..Depth-1 : g[d+1] = g[d] + i[d] * Product[d]

LEMMA DepthFacts ==
  ASSUME call \in Calls
  PROVE  Depth \in 1..Rank /\ Depth \in 1..15 /\ LoopDims = 0..Depth-1
<1>1. Rank \in 1..15 /\ Dims = 0..Rank-1
  BY CallFacts
<1>2. InPlane => Rank # 1
  BY DEF InPlane, InRow
<1>3. CASE call.type.builtin /\ InPlane
  BY <1>1, <1>2, <1>3 DEF Depth, LoopDims
<1>4. CASE ~(call.type.builtin /\ InPlane)
  BY <1>1, <1>4 DEF Depth, LoopDims
<1> QED
  BY <1>3, <1>4

LEMMA RangeOfSum ==
  ASSUME NEW g \in Int, NEW p \in Int, NEW i \in Int, NEW e \in Int,
         0 <= g, g < p, 0 <= i, i < e
  PROVE  0 <= g + i * p /\ g + i * p < p * e
<1>1. i * p >= 0
  OBVIOUS
<1>2. (e - 1 - i) * p >= 0
  OBVIOUS
<1>3. (e - 1 - i) * p = p * e - p - i * p
  OBVIOUS
<1> QED
  BY <1>1, <1>2, <1>3

LEMMA NumberBelow ==
  ASSUME call \in Calls, NEW g, NEW i, Numbers(g, i), IsSubscript(i)
  PROVE  \A x \in 0..Depth : 0 <= g[x] /\ g[x] < Product[x]
<1> DEFINE S == {x \in 0..15 : x <= Depth => 0 <= g[x] /\ g[x] < Product[x]}
<1>1. Depth \in 1..Rank /\ Depth \in 1..15 /\ Rank \in 1..15 /\ Dims = 0..Rank-1
  BY DepthFacts, CallFacts
<1>2. 0 \in S
  BY ProductFacts DEF Numbers
<1>3. ASSUME NEW d \in 0..14, d \in S
      PROVE  d + 1 \in S
  <2>1. CASE d < Depth
    <3>1. d \in 0..Depth-1 /\ d \in 0..Depth /\ d \in Dims /\ d \in 0..15 /\ d + 1 \in 0..15
      BY <1>1, <2>1
    <3>2. g[d] \in Int /\ 0 <= g[d] /\ g[d] < Product[d]
      BY <1>1, <1>3, <3>1 DEF Numbers
    <3>3. i[d] \in Int /\ 0 <= i[d] /\ i[d] < Extent(d)
      BY <3>1 DEF IsSubscript
    <3>4. Product[d] \in Int /\ Extent(d) \in Int /\ Product[d+1] = Product[d] * Extent(d)
      BY <3>1, ProductFacts, ExtentInt
    <3>5. g[d+1] = g[d] + i[d] * Product[d]
      BY <3>1 DEF Numbers
    <3>6. 0 <= g[d+1] /\ g[d+1] < Product[d+1]
      BY <3>2, <3>3, <3>4, <3>5, RangeOfSum
    <3> QED
      BY <3>1, <3>6
  <2>2. CASE d >= Depth
    BY <1>1, <2>2
  <2> QED
    BY <1>1, <2>1, <2>2
<1> HIDE DEF S
<1>4. \A x \in 0..15 : x \in S
  BY <1>2, <1>3, UpTo15, SMTT(30)
<1>5. \A x \in 0..Depth : x \in 0..15 /\ x <= Depth
  BY <1>1
<1> QED
  BY <1>4, <1>5 DEF S

LEMMA FullSum ==
  ASSUME NEW p \in Int, NEW e \in Int
  PROVE  (p - 1) + (e - 1) * p = p * e - 1
OBVIOUS

LEMMA NumberOfLast ==
  ASSUME call \in Calls, NEW g, NEW i, Numbers(g, i), NEW n \in 0..Depth,
         \A y \in 0..n-1 : i[y] = Extent(y) - 1
  PROVE  \A x \in 0..n : g[x] = Product[x] - 1
<1> DEFINE S == {x \in 0..15 : x <= n => g[x] = Product[x] - 1}
<1>1. Depth \in 1..15
  BY DepthFacts
<1>2. 0 \in S
  <2>1. g[0] = 0 /\ Product[0] = 1
    BY ProductFacts DEF Numbers
  <2> QED
    BY <2>1
<1>3. ASSUME NEW d \in 0..14, d \in S
      PROVE  d + 1 \in S
  <2>1. CASE d < n
    <3>1. d \in 0..Depth-1 /\ d \in 0..n-1 /\ d \in 0..15 /\ d + 1 \in 0..15
      BY <1>1, <2>1
    <3>2. g[d] = Product[d] - 1
      BY <1>1, <1>3, <2>1
    <3>3. i[d] = Extent(d) - 1
      BY <3>1
    <3>4. Product[d] \in Int /\ Extent(d) \in Int /\ Product[d+1] = Product[d] * Extent(d)
      BY <3>1, ProductFacts, ExtentInt
    <3>5. g[d+1] = g[d] + i[d] * Product[d]
      BY <3>1 DEF Numbers
    <3>6. g[d+1] = Product[d+1] - 1
      BY <3>2, <3>3, <3>4, <3>5, FullSum
    <3> QED
      BY <3>1, <3>6
  <2>2. CASE d >= n
    BY <1>1, <2>2
  <2> QED
    BY <1>1, <2>1, <2>2
<1> HIDE DEF S
<1>4. \A x \in 0..15 : x \in S
  BY <1>2, <1>3, UpTo15, SMTT(30)
<1>5. \A x \in 0..n : x \in 0..15 /\ x <= n
  BY <1>1
<1> QED
  BY <1>4, <1>5 DEF S
-----------------------------------------------------------------------------
(* The innermost loop that is not at its end goes on.                       *)

\* Where the loops are: at a subscript of the array, in the looped dimensions.
InLoops(i) ==
  /\ i \in [Dims -> Nat]
  /\ \A d \in Dims : i[d] < Extent(d)
  /\ \A d \in Dims : d >= Depth => i[d] = 0

\* a follows b when dimension d goes on and those inside it restart.
GoesOn(d, i, j) ==
  /\ d \in 0..Depth-1
  /\ i[d] < Extent(d) - 1
  /\ \A y \in 0..d-1 : i[y] = Extent(y) - 1
  /\ j = [e \in Dims |-> IF e < d THEN 0 ELSE IF e = d THEN i[e] + 1 ELSE i[e]]

LEMMA AdvanceGoesOn ==
  ASSUME call \in Calls, Fits, NEW i, InLoops(i), ~Last(i)
  PROVE  \E d : GoesOn(d, i, Advance(i))
<1>1. Depth \in 1..Rank /\ Depth \in 1..15 /\ LoopDims = 0..Depth-1
      /\ Rank \in 1..15 /\ Dims = 0..Rank-1
  BY DepthFacts, CallFacts
<1>0. /\ \A x \in LoopDims : LoopExtent(x) = Extent(x)
      /\ \A x \in LoopDims : \A y \in 0..x-1 : LoopExtent(y) = Extent(y)
  <2>1. LoopDims \subseteq Dims /\ \A x \in LoopDims : 0..x-1 \subseteq Dims
    BY <1>1
  <2> QED
    BY <2>1, LoopExtentFits
<1> DEFINE Goes(x) == i[x] < Extent(x) - 1 /\ \A y \in 0..x-1 : i[y] = Extent(y) - 1
           S == {x \in 0..15 : \A y \in 0..x-1 : y \in LoopDims => i[y] = Extent(y) - 1}
<1>2. \E x \in LoopDims : Goes(x)
  <2>1. SUFFICES ASSUME \A x \in LoopDims : ~Goes(x)
                 PROVE  FALSE
    OBVIOUS
  <2>2. 0 \in S
    OBVIOUS
  <2>3. ASSUME NEW x \in 0..14, x \in S
        PROVE  x + 1 \in S
    <3>1. x \in LoopDims => i[x] = Extent(x) - 1
      <4>1. SUFFICES ASSUME x \in LoopDims
                     PROVE  i[x] = Extent(x) - 1
        OBVIOUS
      <4>2. \A y \in 0..x-1 : i[y] = Extent(y) - 1
        BY <1>1, <2>3, <4>1
      <4>3. ~(i[x] < Extent(x) - 1)
        BY <2>1, <4>1, <4>2
      <4>4. x \in Dims
        BY <1>1, <4>1
      <4>5. i[x] \in Nat /\ i[x] < Extent(x) /\ Extent(x) \in Int
        BY <4>4, <2>3, ExtentInt DEF InLoops
      <4> QED
        BY <4>3, <4>5
    <3>2. \A y \in 0..(x+1)-1 : y \in 0..x-1 \/ y = x
      BY <2>3
    <3> QED
      BY <2>3, <3>1, <3>2
  <2> HIDE DEF S
  <2>4. 15 \in S
    BY <2>2, <2>3, UpTo15, SMTT(30)
  <2>5. \A y \in LoopDims : i[y] = Extent(y) - 1
    BY <1>1, <2>4 DEF S
  <2> QED
    BY <2>5, <1>0 DEF Last
<1> DEFINE d == CHOOSE x \in LoopDims : Goes(x)
<1>3. d \in LoopDims /\ Goes(d)
  BY <1>2
<1>4. Advance(i) = [e \in Dims |-> IF e < d THEN 0 ELSE IF e = d THEN i[e] + 1 ELSE i[e]]
  <2> DEFINE Narrow(x) == /\ i[x] < LoopExtent(x) - 1
                          /\ \A y \in 0..x-1 : i[y] = LoopExtent(y) - 1
  <2>1. \A x \in LoopDims : Narrow(x) <=> Goes(x)
    BY <1>0
  <2>2. (CHOOSE x \in LoopDims : Narrow(x)) = d
    BY <2>1
  <2> QED
    BY <2>2 DEF Advance
<1> HIDE DEF d
<1>5. GoesOn(d, i, Advance(i))
  BY <1>1, <1>3, <1>4 DEF GoesOn
<1> QED
  BY <1>5

LEMMA GoesOnStays ==
  ASSUME call \in Calls, NEW i, NEW j, NEW d, InLoops(i), GoesOn(d, i, j),
         \A e \in Dims : Extent(e) > 0
  PROVE  InLoops(j)
<1>1. Depth \in 1..Rank /\ Depth \in 1..15 /\ Rank \in 1..15 /\ Dims = 0..Rank-1
  BY DepthFacts, CallFacts
<1>2. ASSUME NEW e \in Dims
      PROVE  j[e] \in Nat /\ j[e] < Extent(e) /\ (e >= Depth => j[e] = 0)
  <2>1. e \in 0..14 /\ Extent(e) \in Int /\ Extent(e) > 0 /\ d \in 0..Depth-1
    <3>1. e \in 0..14
      BY <1>1
    <3> QED
      BY <3>1, ExtentInt DEF GoesOn
  <2>2. i[e] \in Nat /\ i[e] < Extent(e) /\ (e >= Depth => i[e] = 0)
    BY DEF InLoops
  <2>3. j[e] = IF e < d THEN 0 ELSE IF e = d THEN i[e] + 1 ELSE i[e]
    BY DEF GoesOn
  <2>4. e = d => i[e] < Extent(e) - 1
    BY DEF GoesOn
  <2> QED
    BY <1>1, <2>1, <2>2, <2>3, <2>4
<1>3. j = [e \in Dims |-> j[e]]
  BY DEF GoesOn
<1> QED
  BY <1>2, <1>3 DEF InLoops

LEMMA NextMultiple ==
  ASSUME NEW p \in Int, NEW i \in Int
  PROVE  ((p - 1) + i * p) + 1 = 0 + (i + 1) * p
OBVIOUS

LEMMA ZeroTimes ==
  ASSUME NEW p \in Int
  PROVE  0 + 0 * p = 0
OBVIOUS

LEMMA GoesOnNumber ==
  ASSUME call \in Calls, NEW i, NEW j, NEW d, NEW g,
         InLoops(i), GoesOn(d, i, j), Numbers(g, i)
  PROVE  \E h : Numbers(h, j) /\ h[Depth] = g[Depth] + 1
<1>1. Depth \in 1..Rank /\ Depth \in 1..15 /\ Rank \in 1..15 /\ Dims = 0..Rank-1
  BY DepthFacts, CallFacts
<1>2. d \in 0..Depth-1 /\ d \in 0..Depth
  BY <1>1 DEF GoesOn
<1> DEFINE h == [x \in 0..Depth |-> IF x <= d THEN 0 ELSE g[x] + 1]
<1>3. h \in [0..Depth -> Int] /\ h[0] = 0 /\ h[Depth] = g[Depth] + 1
  BY <1>1, <1>2 DEF Numbers
<1>4. ASSUME NEW x \in 0..Depth-1
      PROVE  h[x+1] = h[x] + j[x] * Product[x]
  <2>1. x \in Dims /\ x \in 0..14 /\ x \in 0..15 /\ x \in 0..Depth /\ x + 1 \in 0..Depth
    BY <1>1
  <2>2. Product[x] \in Int /\ i[x] \in Int /\ g[x] \in Int
    <3>1. Product[x] \in Int
      BY <2>1, ProductFacts
    <3>2. i[x] \in Nat
      BY <2>1 DEF InLoops
    <3>3. g[x] \in Int
      BY <2>1 DEF Numbers
    <3> QED
      BY <3>1, <3>2, <3>3
  <2>3. g[x+1] = g[x] + i[x] * Product[x]
    BY DEF Numbers
  <2>4. j[x] = IF x < d THEN 0 ELSE IF x = d THEN i[x] + 1 ELSE i[x]
    BY <2>1 DEF GoesOn
  <2>5. h[x] = (IF x <= d THEN 0 ELSE g[x] + 1) /\ h[x+1] = (IF x + 1 <= d THEN 0 ELSE g[x+1] + 1)
    BY <2>1
  <2> HIDE DEF h
  <2>6. CASE x < d
    <3>1. h[x] = 0 /\ h[x+1] = 0 /\ j[x] = 0
      BY <1>2, <2>1, <2>4, <2>5, <2>6
    <3> QED
      BY <2>2, <3>1, ZeroTimes
  <2>7. CASE x = d
    <3>1. g[x] = Product[x] - 1
      <4>1. \A y \in 0..d-1 : i[y] = Extent(y) - 1
        BY DEF GoesOn
      <4>2. d \in 0..d
        BY <1>2
      <4> QED
        BY <1>2, <2>7, <4>1, <4>2, NumberOfLast
    <3>2. h[x] = 0 /\ h[x+1] = g[x+1] + 1 /\ j[x] = i[x] + 1
      BY <1>2, <2>1, <2>4, <2>5, <2>7
    <3> QED
      BY <2>2, <2>3, <3>1, <3>2, NextMultiple
  <2>8. CASE x > d
    <3>1. h[x] = g[x] + 1 /\ h[x+1] = g[x+1] + 1 /\ j[x] = i[x]
      BY <1>2, <2>1, <2>4, <2>5, <2>8
    <3>2. i[x] * Product[x] \in Int
      BY <2>2
    <3> QED
      BY <2>2, <2>3, <3>1, <3>2
  <2> QED
    BY <1>2, <2>1, <2>6, <2>7, <2>8
<1> HIDE DEF h
<1> QED
  BY <1>3, <1>4 DEF Numbers

LEMMA GoesOnSuccessor ==
  ASSUME call \in Calls, NEW i, NEW j, NEW d, InLoops(i), GoesOn(d, i, j)
  PROVE  Successor(i, j)
<1>1. Depth \in 1..Rank /\ Depth \in 1..15 /\ Rank \in 1..15 /\ Dims = 0..Rank-1
  BY DepthFacts, CallFacts
<1>2. d \in 0..Depth-1 /\ d \in Dims
  BY <1>1 DEF GoesOn
<1>3. /\ \A e \in Dims : i[e] \in Nat
      /\ \A e \in Dims : e < d => i[e] = Extent(e) - 1 /\ j[e] = 0
      /\ j[d] = i[d] + 1
      /\ \A e \in Dims : e > d => j[e] = i[e]
  BY <1>1, <1>2 DEF GoesOn, InLoops
<1>4. Precedes(i, j)
  <2>1. i[d] < j[d]
    BY <1>2, <1>3
  <2>2. \A e \in d+1..Rank-1 : i[e] = j[e]
    BY <1>1, <1>2, <1>3
  <2> QED
    BY <1>2, <2>1, <2>2 DEF Precedes
<1>5. ASSUME NEW u \in Subscripts, Precedes(i, u), Precedes(u, j)
      PROVE  FALSE
  <2>1. \A e \in Dims : u[e] \in Nat /\ u[e] < Extent(e)
    BY DEF Subscripts, IsSubscript
  <2>2. PICK a \in Dims : i[a] < u[a] /\ \A e \in a+1..Rank-1 : i[e] = u[e]
    BY <1>5 DEF Precedes
  <2>3. PICK b \in Dims : u[b] < j[b] /\ \A e \in b+1..Rank-1 : u[e] = j[e]
    BY <1>5 DEF Precedes
  <2>4. a >= d
    <3>1. SUFFICES ASSUME a < d PROVE FALSE
      BY <1>1, <1>2
    <3>2. i[a] = Extent(a) - 1 /\ a \in 0..14
      BY <1>1, <1>3, <3>1
    <3>3. Extent(a) \in Int /\ u[a] \in Nat /\ u[a] < Extent(a)
      BY <2>1, <3>2, ExtentInt
    <3> QED
      BY <2>2, <3>2, <3>3
  <2>5. b >= d
    <3>1. SUFFICES ASSUME b < d PROVE FALSE
      BY <1>1, <1>2
    <3>2. j[b] = 0 /\ u[b] \in Nat
      BY <1>3, <2>1, <3>1
    <3> QED
      BY <2>3, <3>2
  <2>6. CASE a < b
    <3>1. u[b] = i[b] /\ b > d /\ u[b] \in Nat
      BY <1>1, <1>2, <2>1, <2>2, <2>4, <2>6
    <3>2. j[b] = i[b]
      BY <1>3, <3>1
    <3> QED
      BY <2>3, <3>1, <3>2
  <2>7. CASE a = b
    <3>1. i[a] \in Nat /\ u[a] \in Nat /\ (j[a] = i[a] + 1 \/ j[a] = i[a])
      BY <1>1, <1>2, <1>3, <2>1, <2>4
    <3> QED
      BY <2>2, <2>3, <2>7, <3>1
  <2>8. CASE a > b
    <3>1. u[a] = j[a] /\ a > d /\ i[a] \in Nat
      BY <1>1, <1>2, <1>3, <2>3, <2>5, <2>8
    <3>2. j[a] = i[a]
      BY <1>3, <3>1
    <3> QED
      BY <2>2, <3>1, <3>2
  <2> QED
    BY <1>1, <2>6, <2>7, <2>8
<1> QED
  BY <1>4, <1>5 DEF Successor
-----------------------------------------------------------------------------
(* Extents of arrays that have elements, and enumerations.                   *)

LEMMA PositiveFactor ==
  ASSUME NEW p \in Int, NEW e \in Int, p >= 0, p * e > 0
  PROVE  p > 0 /\ e > 0
OBVIOUS

LEMMA ProductNonnegative ==
  ASSUME call \in Calls
  PROVE  \A x \in 0..Rank-1 : Product[x] >= 0
<1> DEFINE S == {x \in 0..15 : x < Rank => Product[x] >= 0}
<1>1. Rank \in 1..15
  BY CallFacts
<1>2. 0 \in S
  <2>1. Product[0] = 1
    BY ProductFacts
  <2> QED
    BY <2>1
<1>3. ASSUME NEW d \in 0..14, d \in S
      PROVE  d + 1 \in S
  <2>1. SUFFICES ASSUME d + 1 < Rank
                 PROVE  Product[d+1] >= 0
    OBVIOUS
  <2>2. d < Rank - 1 /\ d \in 0..15
    BY <1>1, <1>3, <2>1
  <2>3. Extent(d) \in Int /\ Extent(d) >= 0
    BY <2>2, CallFacts
  <2>4. Product[d] \in Int /\ Product[d+1] = Product[d] * Extent(d)
    BY <2>2, ProductFacts
  <2>5. Product[d] >= 0
    BY <1>1, <1>3, <2>2
  <2> HIDE DEF S
  <2> QED
    BY <2>3, <2>4, <2>5
<1> HIDE DEF S
<1>4. \A x \in 0..15 : x \in S
  BY <1>2, <1>3, UpTo15, SMTT(30)
<1> QED
  BY <1>1, <1>4 DEF S

LEMMA PositiveExtents ==
  ASSUME call \in Calls, total_elems > 0
  PROVE  \A e \in Dims : Extent(e) > 0
<1> DEFINE S == {k \in 0..15 : k <= Rank => Product[Rank-k] > 0}
<1>1. Rank \in 1..15 /\ Dims = 0..Rank-1
  BY CallFacts
<1>2. ASSUME NEW e \in 0..Rank-1, Product[e+1] > 0
      PROVE  Product[e] > 0 /\ Extent(e) > 0
  <2>1. e \in 0..14 /\ e \in 0..15
    BY <1>1
  <2>2. Product[e] \in Int /\ Extent(e) \in Int /\ Product[e+1] = Product[e] * Extent(e)
    BY <2>1, ProductFacts, ExtentInt
  <2>3. Product[e] >= 0
    BY ProductNonnegative
  <2>4. Product[e] * Extent(e) > 0
    BY <1>2, <2>2
  <2> QED
    BY <2>2, <2>3, <2>4, PositiveFactor
<1>3. 0 \in S
  <2>1. Rank - 0 = Rank
    BY <1>1
  <2> QED
    BY <2>1 DEF total_elems
<1>4. ASSUME NEW k \in 0..14, k \in S
      PROVE  k + 1 \in S
  <2>1. SUFFICES ASSUME k + 1 <= Rank
                 PROVE  Product[Rank-(k+1)] > 0
    OBVIOUS
  <2>2. Rank - (k + 1) \in 0..Rank-1 /\ (Rank - (k + 1)) + 1 = Rank - k /\ k <= Rank
    BY <1>1, <1>4, <2>1
  <2>3. Product[Rank-k] > 0
    BY <1>4, <2>2
  <2> HIDE DEF S
  <2> QED
    BY <1>2, <2>2, <2>3
<1> HIDE DEF S
<1>5. \A k \in 0..15 : k \in S
  BY <1>3, <1>4, UpTo15, SMTT(30)
<1>6. ASSUME NEW e \in Dims
      PROVE  Extent(e) > 0
  <2>1. e \in 0..Rank-1 /\ Rank - (e + 1) \in 0..15 /\ Rank - (e + 1) <= Rank
        /\ Rank - (Rank - (e + 1)) = e + 1
    BY <1>1
  <2>2. Product[e+1] > 0
    BY <1>5, <2>1 DEF S
  <2> QED
    BY <1>2, <2>1, <2>2
<1> QED
  BY <1>6

\* A list of elements that ends before i, extended by i.
LEMMA ExtendOrder ==
  ASSUME NEW v, NEW n \in Nat, NEW i, InElementOrder(v, n), IsSubscript(i),
         n = 0 => i = Zero,
         n > 0 => Successor(v[n-1], i)
  PROVE  InElementOrder([k \in 0..n |-> IF k = n THEN i ELSE v[k]], n + 1)
<1> DEFINE w == [k \in 0..n |-> IF k = n THEN i ELSE v[k]]
<1>1. DOMAIN w = 0..(n+1)-1
  OBVIOUS
<1>2. w[0] = Zero
  BY DEF InElementOrder
<1>3. ASSUME NEW k \in 0..(n+1)-1
      PROVE  IsSubscript(w[k])
  <2>1. CASE k = n
    BY <2>1
  <2>2. CASE k # n
    <3>1. k \in 0..n-1 /\ w[k] = v[k]
      BY <1>3, <2>2
    <3> HIDE DEF w
    <3> QED
      BY <3>1 DEF InElementOrder
  <2> QED
    BY <2>1, <2>2
<1>4. ASSUME NEW k \in 0..(n+1)-2
      PROVE  Successor(w[k], w[k+1])
  <2>1. k \in 0..n-1 /\ w[k] = v[k] /\ n > 0
    BY <1>4
  <2>2. CASE k = n - 1
    <3>1. w[k+1] = i
      BY <2>2
    <3> HIDE DEF w
    <3> QED
      BY <2>1, <2>2, <3>1
  <2>3. CASE k # n - 1
    <3>1. k \in 0..n-2 /\ w[k+1] = v[k+1]
      BY <2>1, <2>3
    <3> HIDE DEF w
    <3> QED
      BY <2>1, <3>1 DEF InElementOrder
  <2> QED
    BY <2>2, <2>3
<1> HIDE DEF w
<1>5. InElementOrder(w, n + 1)
  BY <1>1, <1>2, <1>3, <1>4 DEF InElementOrder
<1> QED
  BY <1>5 DEF w
-----------------------------------------------------------------------------
(* Division, and the vectors.                                                *)

LEMMA DivMod ==
  ASSUME NEW k \in Int, NEW e \in Int, k >= 0, e > 0
  PROVE  /\ k \div e \in Nat /\ (k % e) \in Nat /\ (k % e) < e
         /\ k = e * (k \div e) + (k % e)
<1>1. k = e * (k \div e) + (k % e)
  BY SMTT(60)
<1>2. (k % e) \in Int /\ 0 <= (k % e) /\ (k % e) < e
  OBVIOUS
<1>3. k \div e \in Int /\ k \div e >= 0
  OBVIOUS
<1> QED
  BY <1>1, <1>2, <1>3

LEMMA DivModUnique ==
  ASSUME NEW k \in Nat, NEW e \in Nat, e > 0, NEW q \in Nat, NEW r \in Nat,
         r < e, k = e * q + r
  PROVE  k \div e = q /\ (k % e) = r
OBVIOUS

LEMMA DivModNext ==
  ASSUME NEW k \in Nat, NEW e \in Nat, e > 0
  PROVE  /\ (k % e) < e - 1 => (k+1) \div e = k \div e /\ ((k+1) % e) = (k % e) + 1
         /\ (k % e) >= e - 1 => (k+1) \div e = k \div e + 1 /\ ((k+1) % e) = 0 /\ (k % e) = e - 1
<1>1. k \div e \in Nat /\ (k % e) \in Nat /\ (k % e) < e /\ k = e * (k \div e) + (k % e)
  BY DivMod
<1>2. CASE (k % e) < e - 1
  <2>1. k + 1 = e * (k \div e) + ((k % e) + 1)
    BY <1>1
  <2> QED
    BY <1>1, <1>2, <2>1, DivModUnique
<1>3. CASE (k % e) >= e - 1
  <2>1. (k % e) = e - 1
    BY <1>1, <1>3
  <2>2. k + 1 = e * (k \div e + 1) + 0
    BY <1>1, <2>1
  <2> QED
    BY <1>1, <1>3, <2>1, <2>2, DivModUnique
<1> QED
  BY <1>1, <1>2, <1>3

LEMMA DivLess ==
  ASSUME NEW k \in Nat, NEW e \in Nat, e > 0, NEW f \in Nat, k < e * f
  PROVE  k \div e < f
OBVIOUS

\* Elements of the first row or the first rows: v goes on in dimension 0, or
\* restarts it and goes on in dimension 1.
LEMMA PlaneOrder ==
  ASSUME call \in Calls, NEW n \in Nat, NEW v, DOMAIN v = 0..n-1,
         \A e \in Dims : Extent(e) > 0,
         n > 0 => v[0] = Zero,
         \A k \in 0..n-1 : InLoops(v[k]),
         \A k \in 0..n-2 : \E d : GoesOn(d, v[k], v[k+1])
  PROVE  InElementOrder(v, n)
<1>1. \A k \in 0..n-1 : IsSubscript(v[k])
  BY DEF InLoops, IsSubscript
<1>2. ASSUME NEW k \in 0..n-2
      PROVE  Successor(v[k], v[k+1])
  <2>1. k \in 0..n-1
    BY <1>2
  <2>2. InLoops(v[k])
    BY <2>1
  <2> QED
    BY <2>2, GoesOnSuccessor
<1> QED
  BY <1>1, <1>2 DEF InElementOrder

LEMMA SubscriptInLoops ==
  ASSUME call \in Calls, \A e \in Dims : Extent(e) > 0,
         NEW i0 \in Nat, NEW i1 \in Nat, i0 < Extent(0),
         Depth >= 2 => i1 < Extent(1), Depth = 1 => i1 = 0
  PROVE  InLoops(Subscript2(i0, i1))
<1>1. Rank \in 1..15 /\ Dims = 0..Rank-1 /\ Depth \in 1..Rank
  BY CallFacts, DepthFacts
<1>2. Subscript2(i0, i1) \in [Dims -> Nat]
  BY DEF Subscript2
<1>3. ASSUME NEW d \in Dims
      PROVE  Subscript2(i0, i1)[d] < Extent(d) /\ (d >= Depth => Subscript2(i0, i1)[d] = 0)
  <2>1. Subscript2(i0, i1)[d] = IF d = 0 THEN i0 ELSE IF d = 1 THEN i1 ELSE 0
    BY DEF Subscript2
  <2>2. d \in 0..14 /\ Extent(d) > 0
    BY <1>1
  <2>3. CASE d = 0
    BY <1>1, <2>1, <2>3
  <2>4. CASE d = 1
    BY <1>1, <2>1, <2>2, <2>4
  <2>5. CASE d > 1
    BY <1>1, <2>1, <2>2, <2>5
  <2> QED
    BY <2>2, <2>3, <2>4, <2>5
<1> QED
  BY <1>2, <1>3 DEF InLoops

LEMMA SubscriptGoesOn ==
  ASSUME call \in Calls, NEW i0 \in Nat, NEW i1 \in Nat
  PROVE  /\ i0 < Extent(0) - 1 => GoesOn(0, Subscript2(i0, i1), Subscript2(i0 + 1, i1))
         /\ i0 = Extent(0) - 1 /\ i1 < Extent(1) - 1 /\ Depth >= 2
              => GoesOn(1, Subscript2(i0, i1), Subscript2(0, i1 + 1))
<1>1. Rank \in 1..15 /\ Dims = 0..Rank-1 /\ Depth \in 1..Rank
  BY CallFacts, DepthFacts
<1> DEFINE i == Subscript2(i0, i1)
<1>2. i[0] = i0 /\ (Rank > 1 => i[1] = i1)
  BY <1>1 DEF Subscript2
<1>3. \A d \in Dims : i[d] = IF d = 0 THEN i0 ELSE IF d = 1 THEN i1 ELSE 0
  BY DEF Subscript2
<1>4. ASSUME i0 < Extent(0) - 1
      PROVE  GoesOn(0, i, Subscript2(i0 + 1, i1))
  <2>1. 0 \in 0..Depth-1 /\ 0..0-1 = {}
    BY <1>1
  <2>2. Subscript2(i0 + 1, i1)
          = [e \in Dims |-> IF e < 0 THEN 0 ELSE IF e = 0 THEN i[e] + 1 ELSE i[e]]
    <3> HIDE DEF i
    <3> QED
      BY <1>1, <1>2, <1>3 DEF Subscript2
  <2> HIDE DEF i
  <2> QED
    BY <1>2, <1>4, <2>1, <2>2 DEF GoesOn
<1>5. ASSUME i0 = Extent(0) - 1, i1 < Extent(1) - 1, Depth >= 2
      PROVE  GoesOn(1, i, Subscript2(0, i1 + 1))
  <2>1. 1 \in 0..Depth-1 /\ 0..1-1 = {0} /\ Rank > 1
    BY <1>1, <1>5
  <2>2. Subscript2(0, i1 + 1)
          = [e \in Dims |-> IF e < 1 THEN 0 ELSE IF e = 1 THEN i[e] + 1 ELSE i[e]]
    <3> HIDE DEF i
    <3> QED
      BY <1>1, <1>2, <1>3, <2>1 DEF Subscript2
  <2> HIDE DEF i
  <2> QED
    BY <1>2, <1>5, <2>1, <2>2 DEF GoesOn
<1> QED
  BY <1>4, <1>5
-----------------------------------------------------------------------------
(* The datatype t lists count elements, at the subscripts v.                *)

Selected(t, v) ==
  /\ t.n = call.count
  /\ call.count >= 0
  /\ InElementOrder(v, call.count)
  /\ type_size = elem_len => \A k \in 0..call.count-1 : t.disp[k] = Displacement(v[k])

LEMMA AcceptedExtents ==
  ASSUME call \in Calls, Accepted, call.count > 0
  PROVE  \A e \in Dims : Extent(e) > 0
<1>1. total_elems \in Int /\ call.count \in Int
  <2>1. Rank \in 1..15 /\ call.count \in Int
    BY CallFacts
  <2>2. Rank \in 0..15
    BY <2>1
  <2> QED
    BY <2>1, <2>2, ProductFacts DEF total_elems
<1>2. total_elems > 0
  BY <1>1 DEF Accepted
<1> QED
  BY <1>2, PositiveExtents

LEMMA FirstProducts ==
  ASSUME call \in Calls
  PROVE  Product[1] = Extent(0) /\ Product[2] = Extent(0) * Extent(1)
<1>1. Product[0] = 1 /\ Product[0+1] = Product[0] * Extent(0) /\ Product[1+1] = Product[1] * Extent(1)
  BY ProductFacts
<1>2. Extent(0) \in Int /\ Extent(1) \in Int
  BY ExtentInt
<1> QED
  BY <1>1, <1>2

LEMMA PlaneFacts ==
  ASSUME call \in Calls, Accepted, ~InRow
  PROVE  /\ Rank \in 2..15 /\ call.count > 0 /\ call.count \in Nat
         /\ Extent(0) \in Nat /\ Extent(0) > 0 /\ Extent(1) \in Nat /\ Extent(1) > 0
         /\ \A e \in Dims : Extent(e) > 0
         /\ InPlane => Depth = 2 /\ call.count <= Extent(0) * Extent(1)
         /\ call.count <= Product[Depth]
<1>1. Rank \in 1..15 /\ Dims = 0..Rank-1 /\ call.count \in Int
      /\ Extent(0) \in Int /\ Extent(1) \in Int
  BY CallFacts, ExtentInt
<1>2. Rank # 1 /\ ~(call.count <= Extent(0))
  BY DEF InRow
<1>3. Extent(0) >= 0
  BY <1>1, <1>2, CallFacts
<1>4. call.count > 0 /\ Rank \in 2..15
  BY <1>1, <1>2, <1>3
<1>5. \A e \in Dims : Extent(e) > 0
  BY <1>4, AcceptedExtents
<1>6. Extent(0) > 0 /\ Extent(1) > 0
  BY <1>1, <1>4, <1>5
<1>7. call.count <= total_elems
  BY DEF Accepted
<1>8. InPlane => Depth = 2 /\ call.count <= Extent(0) * Extent(1)
  <2>1. Rank = 2 => total_elems = Extent(0) * Extent(1)
    BY FirstProducts DEF total_elems
  <2> QED
    BY <1>7, <2>1 DEF InPlane, Depth, Accepted
<1>9. call.count <= Product[Depth]
  <2>1. CASE InPlane
    BY <1>8, <2>1, FirstProducts
  <2>2. CASE ~InPlane
    BY <1>7, <2>2 DEF Depth, total_elems
  <2> QED
    BY <2>1, <2>2
<1> QED
  BY <1>1, <1>4, <1>5, <1>6, <1>8, <1>9

LEMMA BlockFacts ==
  ASSUME NEW e \in Nat
  PROVE  Block(e).n = e /\ \A q \in 0..e-1 : Block(e).disp[q] = q * type_size
BY DEF Block

LEMMA HVectorFacts ==
  ASSUME NEW c, NEW st, NEW b
  PROVE  /\ HVector(c, st, b).n = c * b.n
         /\ \A k \in 0..c * b.n - 1 :
              HVector(c, st, b).disp[k] = st * (k \div b.n) + b.disp[k % b.n]
BY DEF HVector

\* A row of single elements.
LEMMA RowFacts ==
  ASSUME call \in Calls, NEW e \in Nat
  PROVE  LET row == HVector(e, Sm(0), Block(1))
         IN  row.n = e /\ \A q \in 0..e-1 : row.disp[q] = Sm(0) * q
<1> DEFINE row == HVector(e, Sm(0), Block(1))
<1>1. Sm(0) \in Int /\ type_size \in Nat
  BY CallFacts
<1>2. Block(1).n = 1 /\ Block(1).disp[0] = 0
  <2>1. 0 \in 0..1-1 /\ 1 \in Nat
    OBVIOUS
  <2>2. Block(1).disp[0] = 0 * type_size
    BY <2>1, BlockFacts
  <2> QED
    BY <1>1, <2>1, <2>2, BlockFacts
<1>3. row.n = e /\ e * 1 = e
  BY <1>2, HVectorFacts
<1>4. ASSUME NEW q \in 0..e-1
      PROVE  row.disp[q] = Sm(0) * q
  <2>1. q \in 0..e * Block(1).n - 1
    BY <1>2, <1>3
  <2>2. row.disp[q] = Sm(0) * (q \div Block(1).n) + Block(1).disp[q % Block(1).n]
    BY <2>1, HVectorFacts
  <2>3. q \div 1 = q /\ q % 1 = 0
    OBVIOUS
  <2>4. row.disp[q] = Sm(0) * q + 0
    BY <1>2, <2>2, <2>3
  <2>5. Sm(0) * q \in Int
    BY <1>1
  <2> HIDE DEF row
  <2> QED
    BY <2>4, <2>5
<1> HIDE DEF row
<1> QED
  BY <1>3, <1>4 DEF row

LEMMA VectorSelected ==
  ASSUME call \in Calls, Accepted, InRow, call.count >= 0
  PROVE  Selected(HVector(call.count, Sm(0), Block(1)),
                  [k \in 0..call.count-1 |-> Subscript2(k, 0)])
<1> DEFINE v == [k \in 0..call.count-1 |-> Subscript2(k, 0)]
           row == HVector(call.count, Sm(0), Block(1))
<1>1. Rank \in 1..15 /\ Dims = 0..Rank-1 /\ call.count \in Nat /\ Depth \in 1..Rank
      /\ Extent(0) \in Int /\ Sm(0) \in Int /\ Sm(1) \in Int
  <2>1. Rank \in 1..15 /\ Dims = 0..Rank-1 /\ call.count \in Int
    BY CallFacts
  <2>2. Extent(0) \in Int /\ Sm(0) \in Int /\ Sm(1) \in Int
    BY CallFacts
  <2> QED
    BY <2>1, <2>2, DepthFacts
<1>2. call.count <= Extent(0)
  BY FirstProducts DEF InRow, Accepted, total_elems
<1>3. row.n = call.count /\ \A q \in 0..call.count-1 : row.disp[q] = Sm(0) * q
  BY <1>1, RowFacts
<1>4. ASSUME NEW k \in 0..call.count-1
      PROVE  row.disp[k] = Displacement(v[k])
  <2>1. Displacement(Subscript2(k, 0)) = Sm(0) * k + (IF Rank = 1 THEN 0 ELSE Sm(1) * 0)
    <3>1. k \in Int /\ 0 \in Int
      OBVIOUS
    <3> QED
      BY <3>1, DisplacementPlane
  <2>2. Displacement(Subscript2(k, 0)) = Sm(0) * k
    BY <1>1, <2>1
  <2>3. v[k] = Subscript2(k, 0)
    OBVIOUS
  <2> HIDE DEF v, row
  <2> QED
    BY <1>3, <2>2, <2>3
<1>5. InElementOrder(v, call.count)
  <2>1. DOMAIN v = 0..call.count-1
    OBVIOUS
  <2>2. call.count > 0 => v[0] = Zero
    BY <1>1 DEF Subscript2, Zero
  <2>3. ASSUME NEW k \in 0..call.count-1
        PROVE  InLoops(v[k])
    <3>1. k \in Nat /\ 0 \in Nat /\ k < Extent(0) /\ call.count > 0
      BY <1>1, <1>2
    <3>2. \A e \in Dims : Extent(e) > 0
      BY <3>1, AcceptedExtents
    <3>3. Depth >= 2 => 0 < Extent(1)
      BY <1>1, <3>2
    <3>4. InLoops(Subscript2(k, 0))
      BY <3>1, <3>2, <3>3, SubscriptInLoops
    <3> QED
      BY <3>4
  <2>4. ASSUME NEW k \in 0..call.count-2
        PROVE  \E d : GoesOn(d, v[k], v[k+1])
    <3>1. k \in Nat /\ 0 \in Nat /\ k < Extent(0) - 1
      BY <1>1, <1>2
    <3>2. v[k] = Subscript2(k, 0) /\ v[k+1] = Subscript2(k + 1, 0)
      BY <1>1
    <3> HIDE DEF v, row
    <3>3. GoesOn(0, v[k], v[k+1])
      BY <3>1, <3>2, SubscriptGoesOn
    <3> QED
      BY <3>3
  <2> HIDE DEF v, row
  <2>5. CASE call.count = 0
    BY <2>1, <2>5 DEF InElementOrder
  <2>6. CASE call.count > 0
    <3>1. \A e \in Dims : Extent(e) > 0
      BY <2>6, AcceptedExtents
    <3> QED
      BY <1>1, <2>1, <2>2, <2>3, <2>4, <3>1, PlaneOrder
  <2> QED
    BY <1>1, <2>5, <2>6
<1> HIDE DEF v, row
<1>6. Selected(row, v)
  BY <1>1, <1>3, <1>4, <1>5 DEF Selected
<1> QED
  BY <1>6 DEF v, row

LEMMA RowsOrder ==
  ASSUME call \in Calls, call.type.builtin, Accepted, InPlane
  PROVE  InElementOrder(RowsVisited, call.count)
<1> DEFINE e0 == Extent(0)
           e1 == Extent(1)
<1>1. ~InRow
  BY DEF InPlane
<1>2. /\ Rank \in 2..15 /\ call.count > 0 /\ call.count \in Nat /\ Depth = 2
      /\ e0 \in Nat /\ e0 > 0 /\ e1 \in Nat /\ e1 > 0
      /\ call.count <= e0 * e1
      /\ \A e \in Dims : Extent(e) > 0
  BY <1>1, PlaneFacts
<1>3. ASSUME NEW k \in 0..call.count-1
      PROVE  /\ k \in Nat /\ k \div e0 \in Nat /\ k % e0 \in Nat /\ k % e0 < e0
             /\ k \div e0 < e1
             /\ RowsVisited[k] = Subscript2(k % e0, k \div e0)
  <2>1. k \in Nat /\ k < e0 * e1
    BY <1>2
  <2>2. RowsVisited[k] = Subscript2(k % e0, k \div e0)
    BY DEF RowsVisited
  <2> HIDE DEF e0, e1
  <2> QED
    BY <1>2, <2>1, <2>2, DivMod, DivLess
<1> HIDE DEF e0, e1
<1>4. RowsVisited[0] = Zero
  <2>1. 0 \in 0..call.count-1 /\ 0 \in Nat
    BY <1>2
  <2>2. 0 \div e0 = 0 /\ 0 % e0 = 0
    BY <1>2
  <2>3. RowsVisited[0] = Subscript2(0, 0)
    BY <1>3, <2>1, <2>2
  <2> QED
    BY <2>3 DEF Subscript2, Zero
<1>5. ASSUME NEW k \in 0..call.count-1
      PROVE  InLoops(RowsVisited[k])
  BY <1>2, <1>3, SubscriptInLoops DEF e0, e1
<1>6. ASSUME NEW k \in 0..call.count-2
      PROVE  \E d : GoesOn(d, RowsVisited[k], RowsVisited[k+1])
  <2>1. k \in 0..call.count-1 /\ k + 1 \in 0..call.count-1
    BY <1>2
  <2>2. k \in Nat /\ k \div e0 \in Nat /\ k % e0 \in Nat /\ k % e0 < e0
        /\ RowsVisited[k] = Subscript2(k % e0, k \div e0)
    BY <1>3, <2>1
  <2>3. (k + 1) \div e0 < e1 /\ RowsVisited[k+1] = Subscript2((k + 1) % e0, (k + 1) \div e0)
    BY <1>3, <2>1
  <2>4. CASE k % e0 < e0 - 1
    <3>1. (k + 1) \div e0 = k \div e0 /\ (k + 1) % e0 = (k % e0) + 1
      BY <1>2, <2>2, <2>4, DivModNext
    <3>2. GoesOn(0, RowsVisited[k], RowsVisited[k+1])
      BY <2>2, <2>3, <2>4, <3>1, SubscriptGoesOn DEF e0
    <3> QED
      BY <3>2
  <2>5. CASE k % e0 >= e0 - 1
    <3>1. (k + 1) \div e0 = (k \div e0) + 1 /\ (k + 1) % e0 = 0 /\ k % e0 = e0 - 1
      BY <1>2, <2>2, <2>5, DivModNext
    <3>2. k \div e0 < e1 - 1
      BY <1>2, <2>2, <2>3, <3>1
    <3>3. Depth >= 2
      BY <1>2
    <3>4. GoesOn(1, RowsVisited[k], RowsVisited[k+1])
      BY <2>2, <2>3, <3>1, <3>2, <3>3, SubscriptGoesOn DEF e0, e1
    <3> QED
      BY <3>4
  <2> QED
    BY <1>2, <2>2, <2>4, <2>5
<1>7. DOMAIN RowsVisited = 0..call.count-1
  BY DEF RowsVisited
<1> QED
  BY <1>2, <1>4, <1>5, <1>6, <1>7, PlaneOrder

LEMMA WholeRowsCount ==
  ASSUME NEW c \in Nat, NEW e \in Nat, e > 0, c % e = 0
  PROVE  (c \div e) * e = c
<1>1. c \div e \in Nat /\ c = e * (c \div e) + (c % e)
  BY DivMod
<1> QED
  BY <1>1

\* A vector of whole rows, whose elements are at multiples of the first stride.
LEMMA RowsSelected ==
  ASSUME call \in Calls, call.type.builtin, Accepted, InPlane, WholeRows, NEW row,
         row.n = Extent(0),
         type_size = elem_len => \A q \in 0..Extent(0)-1 : row.disp[q] = Sm(0) * q
  PROVE  Selected(HVector(call.count \div Extent(0), Sm(1), row), RowsVisited)
<1> DEFINE e0 == Extent(0)
           t == HVector(call.count \div e0, Sm(1), row)
<1>1. ~InRow
  BY DEF InPlane
<1>2. /\ Rank \in 2..15 /\ call.count > 0 /\ call.count \in Nat
      /\ e0 \in Nat /\ e0 > 0
  BY <1>1, PlaneFacts
<1>3. (call.count \div e0) * e0 = call.count
  <2>1. call.count % e0 = 0
    BY DEF WholeRows
  <2> HIDE DEF e0, t
  <2> QED
    BY <1>2, <2>1, WholeRowsCount
<1>4. t.n = call.count
  BY <1>3, HVectorFacts
<1>5. ASSUME type_size = elem_len, NEW k \in 0..call.count-1
      PROVE  t.disp[k] = Displacement(RowsVisited[k])
  <2>1. k \in Nat /\ k \div e0 \in Nat /\ k % e0 \in Nat /\ k % e0 < e0
    <3> HIDE DEF e0, t
    <3> QED
      BY <1>2, DivMod
  <2>2. k \in 0..(call.count \div e0) * row.n - 1
    BY <1>3
  <2>3. t.disp[k] = Sm(1) * (k \div e0) + row.disp[k % e0]
    BY <2>2, HVectorFacts
  <2>4. row.disp[k % e0] = Sm(0) * (k % e0)
    <3>1. k % e0 \in 0..e0-1
      <4> HIDE DEF e0, t
      <4> QED
        BY <1>2, <2>1
    <3> QED
      BY <1>5, <3>1
  <2>5. RowsVisited[k] = Subscript2(k % e0, k \div e0)
    BY DEF RowsVisited
  <2> HIDE DEF e0, t
  <2>6. Displacement(RowsVisited[k]) = Sm(0) * (k % e0) + Sm(1) * (k \div e0)
    <3>1. k % e0 \in Int /\ k \div e0 \in Int /\ Rank # 1
      BY <1>2, <2>1
    <3> QED
      BY <2>5, <3>1, DisplacementPlane
  <2>7. Sm(0) * (k % e0) \in Int /\ Sm(1) * (k \div e0) \in Int
    <3>1. Sm(0) \in Int /\ Sm(1) \in Int
      BY CallFacts
    <3> QED
      BY <2>1, <3>1
  <2> QED
    BY <2>3, <2>4, <2>6, <2>7
<1>6. InElementOrder(RowsVisited, call.count)
  BY RowsOrder
<1> HIDE DEF t
<1>7. Selected(t, RowsVisited)
  BY <1>2, <1>4, <1>5, <1>6 DEF Selected
<1> QED
  BY <1>7 DEF t
-----------------------------------------------------------------------------
(* What a call determines does not change when the call does not.           *)

Size == IF call.type.builtin THEN call.count ELSE total_elems

LEMMA Frame ==
  ASSUME call' = call
  PROVE  /\ Rank' = Rank /\ Dims' = Dims /\ Zero' = Zero /\ Subscripts' = Subscripts
         /\ Product' = Product /\ total_elems' = total_elems
         /\ elem_len' = elem_len /\ type_size' = type_size
<1>1. Rank' = Rank /\ Dims' = Dims /\ Zero' = Zero /\ Subscripts' = Subscripts
      /\ elem_len' = elem_len /\ type_size' = type_size
  BY DEF Rank, Dims, Zero, Subscripts, IsSubscript, Extent, elem_len, type_size
<1>2. Product' = Product
  BY DEF Product, Extent, Rank
<1> QED
  BY <1>1, <1>2 DEF total_elems

LEMMA FrameExtent ==
  ASSUME call' = call, NEW d
  PROVE  Extent(d)' = Extent(d)
BY DEF Extent, Rank

LEMMA FrameFits ==
  ASSUME call' = call
  PROVE  Fits' <=> Fits
BY Frame, FrameExtent DEF Fits

LEMMA FrameDisplacement ==
  ASSUME call' = call, NEW i
  PROVE  Displacement(i)' = Displacement(i)
BY DEF Displacement, Sm, Rank

LEMMA FrameDepth ==
  ASSUME call' = call
  PROVE  Depth' = Depth /\ Size' = Size
<1>1. InPlane' = InPlane
  BY Frame, FrameExtent DEF InPlane, InRow
<1> QED
  BY <1>1, Frame DEF Depth, Size

LEMMA FrameSubscript ==
  ASSUME call' = call, NEW i
  PROVE  IsSubscript(i)' = IsSubscript(i)
BY Frame, FrameExtent DEF IsSubscript

LEMMA FrameSuccessor ==
  ASSUME call' = call, NEW a, NEW b
  PROVE  Successor(a, b)' = Successor(a, b)
BY Frame DEF Successor, Precedes

LEMMA FrameOrder ==
  ASSUME call' = call, NEW v, NEW n
  PROVE  InElementOrder(v, n)' = InElementOrder(v, n)
BY Frame, FrameSubscript, FrameSuccessor DEF InElementOrder

LEMMA FrameLoops ==
  ASSUME call' = call, NEW i, NEW g
  PROVE  InLoops(i)' = InLoops(i) /\ Numbers(g, i)' = Numbers(g, i)
BY Frame, FrameExtent, FrameDepth DEF InLoops, Numbers

LEMMA FrameSelected ==
  ASSUME call' = call, NEW t, NEW v
  PROVE  Selected(t, v)' = Selected(t, v)
BY Frame, FrameOrder, FrameDisplacement DEF Selected
-----------------------------------------------------------------------------
(* The invariant. *)

\* Displacements enumerated so far.
EnumerationInv ==
  pc \in {"start", "loop", "looped"} =>
    /\ InElementOrder(visited, offset)
    /\ \A k \in 0..offset-1 : array_of_displacements[k] = Displacement(visited[k])

StartInv ==
  pc = "start" => offset = 0 /\ idx = Zero

\* The loops are at the element whose number is offset.
LoopInv ==
  pc = "loop" =>
    /\ \A e \in Dims : Extent(e) > 0
    /\ call.type.builtin => call.count > 0 /\ call.count <= Product[Depth]
    /\ InLoops(idx)
    /\ \E g : Numbers(g, idx) /\ g[Depth] = offset
    /\ offset = 0 => idx = Zero
    /\ offset > 0 => Successor(visited[offset-1], idx)
    /\ offset < Size

LoopedInv ==
  pc = "looped" => offset = Size

CreatedInv ==
  pc = "created" => /\ call.type.builtin
                    /\ type_size # 0
                    /\ Selected(array_datatype, visited)

IInv ==
  /\ TypeOK
  /\ StartInv
  /\ EnumerationInv
  /\ LoopInv
  /\ LoopedInv
  /\ CreatedInv
  /\ SelectsInElementOrder

LEMMA InitIInv ==
  Init => IInv
<1> SUFFICES ASSUME Init PROVE IInv
  OBVIOUS
<1> USE DEF Init
<1>1. call \in Calls /\ pc = "start" /\ offset = 0 /\ rc = "none" /\ idx = Zero
  OBVIOUS
<1>2. Zero \in [Dims -> Nat]
  BY DEF Zero
<1>3. 0..0-1 = {}
  OBVIOUS
<1>4. array_of_displacements \in [0..offset-1 -> Int]
  <2>1. <<>> \in [{} -> Int]
    OBVIOUS
  <2> QED
    BY <1>3, <2>1
<1>5. InElementOrder(visited, 0)
  <2>1. DOMAIN visited = {}
    OBVIOUS
  <2>2. 0..0-2 = {}
    OBVIOUS
  <2> QED
    BY <1>3, <2>1, <2>2 DEF InElementOrder
<1>6. TypeOK
  BY <1>1, <1>2, <1>4 DEF TypeOK, Codes
<1>7. EnumerationInv
  BY <1>1, <1>3, <1>5 DEF EnumerationInv
<1> QED
  BY <1>1, <1>6, <1>7
     DEF IInv, StartInv, LoopInv, LoopedInv, CreatedInv, SelectsInElementOrder
-----------------------------------------------------------------------------
(* Steps that return, and steps that create a datatype. *)

\* A step after which the state is one of the two last ones, in which only the
\* datatype matters.
LEMMA PastLoops ==
  ASSUME TypeOK, call' = call, idx' = idx, offset' = offset,
         array_of_displacements' = array_of_displacements,
         pc' \in {"created", "returned"}, rc' \in Codes,
         CreatedInv', SelectsInElementOrder'
  PROVE  IInv'
<1>1. TypeOK'
  BY Frame DEF TypeOK
<1> QED
  BY <1>1 DEF IInv, StartInv, EnumerationInv, LoopInv, LoopedInv

\* Any return but that of a datatype for a predefined type.
LEMMA ReturnOther ==
  ASSUME TypeOK, NEW code \in Codes, Return(code), code # "MPI_SUCCESS"
  PROVE  IInv'
<1>1. pc' = "returned" /\ rc' = code /\ call' = call /\ idx' = idx /\ offset' = offset
      /\ array_of_displacements' = array_of_displacements
  BY DEF Return
<1>2. CreatedInv'
  BY <1>1 DEF CreatedInv
<1>3. SelectsInElementOrder'
  BY <1>1 DEF SelectsInElementOrder
<1> QED
  BY <1>1, <1>2, <1>3, PastLoops

LEMMA CreateIInv ==
  ASSUME TypeOK, NEW t, NEW v, Create(t, v), call.type.builtin,
         call.count >= 0 => Selected(t, v)
  PROVE  IInv'
<1>1. CASE type_size = 0 \/ call.count < 0
  <2>1. Return("abort")
    BY <1>1 DEF Create
  <2>2. "abort" \in Codes
    BY DEF Codes
  <2> QED
    BY <2>1, <2>2, ReturnOther
<1>2. CASE ~(type_size = 0 \/ call.count < 0)
  <2>1. pc' = "created" /\ array_datatype' = t /\ visited' = v /\ call' = call /\ idx' = idx
        /\ offset' = offset /\ array_of_displacements' = array_of_displacements /\ rc' = rc
    BY <1>2 DEF Create
  <2>2. call.count >= 0 /\ type_size # 0
    <3>1. call.count \in Int
      BY CallFacts DEF TypeOK
    <3> QED
      BY <1>2, <3>1
  <2>3. Selected(array_datatype, visited)'
    BY <2>1, <2>2, FrameSelected
  <2>4. CreatedInv'
    BY <2>1, <2>2, <2>3, Frame DEF CreatedInv
  <2>5. SelectsInElementOrder'
    BY <2>1 DEF SelectsInElementOrder
  <2>6. rc' \in Codes
    BY <2>1 DEF TypeOK
  <2> QED
    BY <2>1, <2>4, <2>5, <2>6, PastLoops
<1> QED
  BY <1>1, <1>2
-----------------------------------------------------------------------------
(* One lemma per action. *)

LEMMA TooManyElementsStep ==
  ASSUME IInv, TooManyElements
  PROVE  IInv'
<1>1. PICK code \in {"MPI_ERR_COUNT", "MPI_ERR_ARG"} : Return(code)
  BY DEF TooManyElements
<1> QED
  BY <1>1, ReturnOther DEF IInv, Codes

LEMMA UnsupportedStep ==
  ASSUME IInv, Unsupported
  PROVE  IInv'
BY ReturnOther DEF IInv, Unsupported, Codes

LEMMA NoMemoryStep ==
  ASSUME IInv, NoMemory
  PROVE  IInv'
BY ReturnOther DEF IInv, NoMemory, Codes

LEMMA VectorStep ==
  ASSUME IInv, Vector
  PROVE  IInv'
<1>1. TypeOK /\ call \in Calls /\ Accepted /\ InRow /\ call.type.builtin
  BY DEF IInv, TypeOK, Vector, Accepted
<1>2. Create(HVector(call.count, Sm(0), Block(1)), [k \in 0..call.count-1 |-> Subscript2(k, 0)])
  BY DEF Vector
<1> QED
  BY <1>1, <1>2, VectorSelected, CreateIInv

LEMMA VectorOfRowsStep ==
  ASSUME IInv, VectorOfRows
  PROVE  IInv'
<1>1. TypeOK /\ call \in Calls /\ Accepted /\ InPlane /\ WholeRows /\ call.type.builtin
      /\ Sm(0) = elem_len
  BY DEF IInv, TypeOK, VectorOfRows, Accepted
<1>2. Create(HVector(call.count \div Extent(0), Sm(1), Block(Extent(0))), RowsVisited)
  BY DEF VectorOfRows
<1>3. Extent(0) \in Nat
  BY <1>1, PlaneFacts DEF InPlane
<1>4. Block(Extent(0)).n = Extent(0)
  BY <1>3, BlockFacts
<1>5. ASSUME type_size = elem_len, NEW q \in 0..Extent(0)-1
      PROVE  Block(Extent(0)).disp[q] = Sm(0) * q
  <2>1. Block(Extent(0)).disp[q] = q * type_size
    BY <1>3, BlockFacts
  <2>2. type_size \in Nat
    BY <1>1, CallFacts
  <2>3. q * type_size = type_size * q
    BY <2>2
  <2> QED
    BY <1>1, <1>5, <2>1, <2>3
<1>6. Selected(HVector(call.count \div Extent(0), Sm(1), Block(Extent(0))), RowsVisited)
  BY <1>1, <1>4, <1>5, RowsSelected
<1> QED
  BY <1>1, <1>2, <1>6, CreateIInv

LEMMA VectorOfVectorsStep ==
  ASSUME IInv, VectorOfVectors
  PROVE  IInv'
<1> DEFINE row == HVector(Extent(0), Sm(0), Block(1))
<1>1. TypeOK /\ call \in Calls /\ Accepted /\ InPlane /\ WholeRows /\ call.type.builtin
  BY DEF IInv, TypeOK, VectorOfVectors, Accepted
<1>2. Create(HVector(call.count \div Extent(0), Sm(1), row), RowsVisited)
  BY DEF VectorOfVectors
<1>3. Extent(0) \in Nat
  BY <1>1, PlaneFacts DEF InPlane
<1>4. row.n = Extent(0) /\ \A q \in 0..Extent(0)-1 : row.disp[q] = Sm(0) * q
  BY <1>1, <1>3, RowFacts
<1> HIDE DEF row
<1>5. Selected(HVector(call.count \div Extent(0), Sm(1), row), RowsVisited)
  BY <1>1, <1>4, RowsSelected
<1> QED
  BY <1>1, <1>2, <1>5, CreateIInv

LEMMA HIndexedStep ==
  ASSUME IInv, HIndexed
  PROVE  IInv'
<1> DEFINE t == [n |-> call.count, disp |-> array_of_displacements]
<1>1. TypeOK /\ call.type.builtin /\ pc = "looped" /\ Create(t, visited)
  BY DEF IInv, HIndexed
<1>2. offset = call.count
  BY <1>1 DEF IInv, LoopedInv, Size
<1>3. InElementOrder(visited, offset)
      /\ \A k \in 0..offset-1 : array_of_displacements[k] = Displacement(visited[k])
  BY <1>1 DEF IInv, EnumerationInv
<1>4. t.n = call.count /\ t.disp = array_of_displacements
  OBVIOUS
<1> HIDE DEF t
<1>5. call.count >= 0 => Selected(t, visited)
  BY <1>2, <1>3, <1>4 DEF Selected
<1> QED
  BY <1>1, <1>5, CreateIInv

LEMMA SizeOfElement ==
  ASSUME NEW n \in Nat, n > 0, NEW s \in Nat, NEW e \in Nat, n * s = n * e
  PROVE  s = e
<1>1. n * (s - e) = 0
  OBVIOUS
<1> QED
  BY <1>1

LEMMA VerifySizeStep ==
  ASSUME IInv, VerifySize
  PROVE  IInv'
<1>1. PICK same \in IF call.count * elem_len > IntMax THEN BOOLEAN
                     ELSE {TypeSize(array_datatype) = call.count * elem_len} :
        Return(IF same THEN "MPI_SUCCESS" ELSE "MPI_ERR_INTERN")
  BY DEF VerifySize
<1>2. TypeOK /\ call \in Calls /\ pc = "created"
  BY DEF IInv, TypeOK, VerifySize
<1>3. call.type.builtin /\ Selected(array_datatype, visited)
  BY <1>2 DEF IInv, CreatedInv
<1>4. CASE ~same
  <2>1. "MPI_ERR_INTERN" \in Codes
    BY DEF Codes
  <2> QED
    BY <1>1, <1>2, <1>4, <2>1, ReturnOther
<1>5. CASE same
  <2>1. Return("MPI_SUCCESS")
    BY <1>1, <1>5
  <2>2. /\ pc' = "returned" /\ rc' = "MPI_SUCCESS" /\ call' = call /\ idx' = idx
        /\ offset' = offset /\ array_of_displacements' = array_of_displacements
        /\ visited' = visited /\ array_datatype' = array_datatype
    BY <2>1 DEF Return
  <2>3. call.count \in Nat /\ elem_len \in Nat /\ type_size \in Nat /\ array_datatype.n = call.count
    <3>1. call.count \in Int /\ elem_len \in Nat \ {0} /\ type_size \in Nat
      BY <1>2, CallFacts
    <3> QED
      BY <1>3, <3>1 DEF Selected
  <2>4. ASSUME call.count * elem_len <= IntMax, call.count > 0
        PROVE  type_size = elem_len
    <3>1. IntMax \in Nat /\ LibUndefined \in Int /\ LibUndefined < 0
      BY CfiAssumption
    <3>2. ~(call.count * elem_len > IntMax)
      BY <2>3, <2>4, <3>1
    <3>3. TypeSize(array_datatype) = call.count * elem_len
      BY <1>1, <1>5, <3>2
    <3>4. call.count * elem_len \in Nat /\ call.count * type_size \in Nat
      BY <2>3
    <3>5. call.count * type_size = call.count * elem_len
      BY <2>3, <3>1, <3>3, <3>4 DEF TypeSize
    <3> QED
      BY <2>3, <2>4, <3>5, SizeOfElement
  <2>5. CreatedInv'
    BY <2>2 DEF CreatedInv
  <2>6. Selected(array_datatype, visited)'
    BY <1>3, <2>2, FrameSelected
  <2>7. (call.count * elem_len <= IntMax /\ call.count > 0 => type_size = elem_len)'
    BY <2>2, <2>4, Frame
  <2>8. SelectsInElementOrder'
    <3>1. (call.count)' = call.count /\ call.count \in Nat
      BY <2>2, <2>3
    <3>2. CASE call.count > 0
      BY <2>6, <2>7, <3>1, <3>2 DEF SelectsInElementOrder, Selected
    <3>3. CASE call.count = 0
      BY <2>6, <3>1, <3>3 DEF SelectsInElementOrder, Selected
    <3> QED
      BY <3>1, <3>2, <3>3
  <2>9. rc' \in Codes
    BY <2>2 DEF Codes
  <2> QED
    BY <1>2, <2>2, <2>5, <2>8, <2>9, PastLoops
<1> QED
  BY <1>4, <1>5

\* The state after the first step of the loops, with nothing enumerated yet.
LEMMA FirstNumber ==
  ASSUME call \in Calls, \A e \in Dims : Extent(e) > 0
  PROVE  /\ InLoops(Zero)
         /\ \E g : Numbers(g, Zero) /\ g[Depth] = 0
         /\ ~call.type.builtin => total_elems > 0
<1>1. Rank \in 1..15 /\ Dims = 0..Rank-1 /\ Depth \in 1..Rank /\ Depth \in 1..15
  BY CallFacts, DepthFacts
<1>2. Zero \in [Dims -> Nat] /\ \A d \in Dims : Zero[d] = 0
  BY DEF Zero
<1>3. InLoops(Zero) /\ IsSubscript(Zero)
  BY <1>2 DEF InLoops, IsSubscript
<1> DEFINE g == [x \in 0..Depth |-> 0]
<1>4. Numbers(g, Zero) /\ g[Depth] = 0
  <2>1. g \in [0..Depth -> Int] /\ g[0] = 0 /\ g[Depth] = 0
    BY <1>1
  <2>2. ASSUME NEW d \in 0..Depth-1
        PROVE  g[d+1] = g[d] + Zero[d] * Product[d]
    <3>1. d \in Dims /\ d \in 0..15 /\ d \in 0..Depth /\ d + 1 \in 0..Depth
      BY <1>1
    <3>2. Product[d] \in Int /\ Zero[d] = 0
      BY <1>2, <3>1, ProductFacts
    <3> QED
      BY <3>1, <3>2, ZeroTimes
  <2> QED
    BY <2>1, <2>2 DEF Numbers
<1>5. ~call.type.builtin => total_elems > 0
  <2>1. Depth \in 0..Depth
    BY <1>1
  <2> HIDE DEF g
  <2>2. g[Depth] < Product[Depth]
    BY <1>3, <1>4, <2>1, NumberBelow
  <2>3. Product[Depth] \in Int
    <3>1. Depth \in 0..15
      BY <1>1
    <3> QED
      BY <3>1, ProductFacts
  <2> QED
    BY <1>4, <2>2, <2>3 DEF Depth, total_elems
<1> HIDE DEF g
<1> QED
  BY <1>3, <1>4, <1>5

LEMMA EnterLoopsStep ==
  ASSUME IInv, Fits, EnterLoops
  PROVE  IInv'
<1>1. /\ call' = call /\ idx' = idx /\ offset' = offset /\ visited' = visited /\ rc' = rc
      /\ array_of_displacements' = array_of_displacements
      /\ pc' \in {"loop", "looped"}
      /\ pc' = "loop" <=> \A d \in LoopDims : Extent(d) > 0
      /\ pc = "start" /\ Enumerates
      /\ call.count >= 0 /\ (call.type.builtin \/ total_elems >= 0)
  <2>1. \A d \in LoopDims : LoopExtent(d) = Extent(d)
    <3>1. call \in Calls
      BY DEF IInv, TypeOK
    <3>2. Rank \in 1..15 /\ Dims = 0..Rank-1 /\ Depth \in 1..Rank /\ LoopDims = 0..Depth-1
      BY <3>1, DepthFacts, CallFacts
    <3>3. LoopDims \subseteq Dims
      BY <3>2
    <3> QED
      BY <3>1, <3>3, LoopExtentFits
  <2> QED
    BY <2>1 DEF EnterLoops, Enumerates, Accepted
<1>2. TypeOK /\ call \in Calls
  BY DEF IInv, TypeOK
<1>3. offset = 0 /\ idx = Zero
  BY <1>1 DEF IInv, StartInv
<1>4. Rank \in 1..15 /\ Dims = 0..Rank-1 /\ Depth \in 1..Rank /\ LoopDims = 0..Depth-1
      /\ call.type.builtin \in BOOLEAN /\ call.count \in Int
  BY <1>2, CallFacts, DepthFacts
<1>5. ASSUME call.type.builtin
      PROVE  /\ \A e \in Dims : Extent(e) > 0
             /\ call.count > 0 /\ call.count <= Product[Depth]
  <2>1. Accepted /\ ~InRow
    BY <1>1, <1>5 DEF Enumerates
  <2> QED
    BY <1>2, <2>1, PlaneFacts
<1>6. TypeOK'
  BY <1>1, <1>2, Frame DEF TypeOK
<1>7. EnumerationInv'
  <2>1. InElementOrder(visited, offset)'
    BY <1>1, FrameOrder DEF IInv, EnumerationInv
  <2>2. (\A k \in 0..offset-1 : array_of_displacements[k] = Displacement(visited[k]))'
    BY <1>1, <1>3
  <2> QED
    BY <2>1, <2>2 DEF EnumerationInv
<1>8. CASE pc' = "loop"
  <2>1. \A e \in Dims : Extent(e) > 0
    BY <1>1, <1>4, <1>5, <1>8 DEF Depth
  <2>2. InLoops(Zero) /\ (~call.type.builtin => total_elems > 0)
    BY <1>2, <2>1, FirstNumber
  <2>3. PICK g : Numbers(g, Zero) /\ g[Depth] = 0
    BY <1>2, <2>1, FirstNumber
  <2>4. 0 < Size
    BY <1>4, <1>5, <2>2 DEF Size
  <2>5. InLoops(idx)' /\ Numbers(g, idx)' /\ (g[Depth] = offset)'
    BY <1>1, <1>3, <2>2, <2>3, FrameLoops, FrameDepth
  <2>6. (\A e \in Dims : Extent(e) > 0)' /\ (offset < Size)'
    BY <1>1, <1>3, <2>1, <2>4, Frame, FrameExtent, FrameDepth
  <2>7. (call.type.builtin => call.count > 0 /\ call.count <= Product[Depth])'
    BY <1>1, <1>5, Frame, FrameDepth
  <2>8. offset' = 0 /\ idx' = Zero'
    BY <1>1, <1>3, Frame
  <2>9. LoopInv'
    BY <2>5, <2>6, <2>7, <2>8 DEF LoopInv
  <2> QED
    BY <1>6, <1>7, <1>8, <2>9
       DEF IInv, StartInv, LoopedInv, CreatedInv, SelectsInElementOrder
<1>9. CASE pc' = "looped"
  <2>1. ~call.type.builtin
    BY <1>1, <1>4, <1>5, <1>9
  <2>2. ~(\A e \in Dims : Extent(e) > 0)
    BY <1>1, <1>4, <1>9
  <2>3. total_elems \in Int /\ ~(total_elems > 0)
    <3>1. total_elems \in Int
      <4>1. Rank \in 0..15
        BY <1>4
      <4> QED
        BY <1>2, <4>1, ProductFacts DEF total_elems
    <3> QED
      BY <1>2, <2>2, <3>1, PositiveExtents
  <2>4. offset = Size
    BY <1>1, <1>3, <2>1, <2>3 DEF Size
  <2>5. LoopedInv'
    BY <1>1, <2>4, FrameDepth DEF LoopedInv
  <2> QED
    BY <1>6, <1>7, <1>9, <2>5
       DEF IInv, StartInv, LoopInv, CreatedInv, SelectsInElementOrder
<1> QED
  BY <1>1, <1>8, <1>9

LEMMA ElementStep ==
  ASSUME IInv, Fits, Element
  PROVE  IInv'
<1>1. /\ call' = call /\ rc' = rc /\ offset' = offset + 1 /\ pc = "loop"
      /\ array_of_displacements' = Store(array_of_displacements, Displacement(idx))
      /\ visited' = Store(visited, idx)
      /\ IF Enough(offset + 1) \/ Last(idx)
         THEN pc' = "looped" /\ idx' = idx
         ELSE pc' = "loop"   /\ idx' = Advance(idx)
  BY DEF Element
<1>2. TypeOK /\ call \in Calls /\ offset \in Nat /\ rc \in Codes
      /\ array_of_displacements \in [0..offset-1 -> Int]
  BY DEF IInv, TypeOK
<1>3. /\ \A e \in Dims : Extent(e) > 0
      /\ call.type.builtin => call.count > 0 /\ call.count <= Product[Depth]
      /\ InLoops(idx)
      /\ offset = 0 => idx = Zero
      /\ offset > 0 => Successor(visited[offset-1], idx)
      /\ offset < Size
  BY <1>1 DEF IInv, LoopInv
<1>4. PICK g : Numbers(g, idx) /\ g[Depth] = offset
  BY <1>1 DEF IInv, LoopInv
<1>5. InElementOrder(visited, offset)
      /\ \A k \in 0..offset-1 : array_of_displacements[k] = Displacement(visited[k])
  BY <1>1 DEF IInv, EnumerationInv
<1>6. Rank \in 1..15 /\ Dims = 0..Rank-1 /\ Depth \in 1..Rank /\ Depth \in 1..15
      /\ LoopDims = 0..Depth-1 /\ call.count \in Int /\ call.type.builtin \in BOOLEAN
  BY <1>2, CallFacts, DepthFacts
<1>7. Product[Depth] \in Int /\ (~call.type.builtin => total_elems = Product[Depth])
  <2>1. Depth \in 0..15
    BY <1>6
  <2> QED
    BY <1>2, <2>1, ProductFacts DEF Depth, total_elems
<1>8. idx \in [Dims -> Nat] /\ IsSubscript(idx)
  BY <1>3 DEF InLoops, IsSubscript
<1>9. EnumerationInv'
  <2>1. InElementOrder(visited', offset + 1)
    BY <1>1, <1>2, <1>3, <1>5, <1>8, ExtendOrder DEF Store
  <2>2. InElementOrder(visited, offset)'
    BY <1>1, <2>1, FrameOrder
  <2>3. ASSUME NEW k \in 0..offset'-1
        PROVE  array_of_displacements'[k] = Displacement(visited'[k])
    <3>1. k \in 0..offset
      BY <1>1, <1>2
    <3>2. /\ array_of_displacements'[k] = IF k = offset THEN Displacement(idx)
                                          ELSE array_of_displacements[k]
          /\ visited'[k] = IF k = offset THEN idx ELSE visited[k]
      BY <1>1, <3>1 DEF Store
    <3>3. k # offset => k \in 0..offset-1
      BY <1>2, <3>1
    <3> QED
      BY <1>5, <3>2, <3>3
  <2>4. (\A k \in 0..offset-1 : array_of_displacements[k] = Displacement(visited[k]))'
    BY <1>1, <2>3, FrameDisplacement
  <2> QED
    BY <2>2, <2>4 DEF EnumerationInv
<1>10. array_of_displacements' \in [0..offset'-1 -> Int]
  <2>1. Displacement(idx) \in Int
    <3>1. idx \in [Dims -> Int]
      BY <1>8
    <3> QED
      BY <1>2, <3>1, DisplacementInt
  <2>2. 0..offset'-1 = 0..offset
    BY <1>1, <1>2
  <2>3. ASSUME NEW k \in 0..offset
        PROVE  (IF k = offset THEN Displacement(idx) ELSE array_of_displacements[k]) \in Int
    <3>1. k # offset => k \in 0..offset-1
      BY <1>2
    <3> QED
      BY <1>2, <2>1, <3>1
  <2> QED
    BY <1>1, <2>2, <2>3 DEF Store
<1>11. CASE Enough(offset + 1) \/ Last(idx)
  <2>1. pc' = "looped" /\ idx' = idx
    BY <1>1, <1>11
  <2>2. TypeOK'
    BY <1>1, <1>2, <1>8, <1>10, <2>1, Frame DEF TypeOK
  <2>3. Last(idx) => offset = Product[Depth] - 1
    <3>1. SUFFICES ASSUME Last(idx)
                   PROVE  offset = Product[Depth] - 1
      OBVIOUS
    <3>2. \A y \in 0..Depth-1 : idx[y] = Extent(y) - 1
      BY <1>2, <1>6, <3>1, LoopExtentFits DEF Last
    <3>3. Depth \in 0..Depth
      BY <1>6
    <3> QED
      BY <1>2, <1>4, <3>2, <3>3, NumberOfLast
  <2>4. offset + 1 = Size
    <3>1. CASE call.type.builtin /\ offset + 1 = call.count
      BY <3>1 DEF Size
    <3>2. CASE Last(idx)
      BY <1>2, <1>3, <1>6, <1>7, <2>3, <3>2 DEF Size
    <3> QED
      BY <1>11, <3>1, <3>2 DEF Enough
  <2>5. LoopedInv'
    BY <1>1, <2>4, FrameDepth DEF LoopedInv
  <2> QED
    BY <1>9, <2>1, <2>2, <2>5
       DEF IInv, StartInv, LoopInv, CreatedInv, SelectsInElementOrder
<1>12. CASE ~(Enough(offset + 1) \/ Last(idx))
  <2>1. pc' = "loop" /\ idx' = Advance(idx)
    BY <1>1, <1>12
  <2>2. PICK d : GoesOn(d, idx, idx')
    BY <1>2, <1>3, <1>12, <2>1, AdvanceGoesOn
  <2>3. InLoops(idx') /\ Successor(idx, idx')
    BY <1>2, <1>3, <2>2, GoesOnStays, GoesOnSuccessor
  <2>4. PICK h : Numbers(h, idx') /\ h[Depth] = offset + 1
    BY <1>2, <1>3, <1>4, <2>2, GoesOnNumber
  <2>5. offset + 1 < Size
    <3>1. CASE call.type.builtin
      BY <1>2, <1>3, <1>6, <1>12, <3>1 DEF Size, Enough
    <3>2. CASE ~call.type.builtin
      <4>1. IsSubscript(idx') /\ Depth \in 0..Depth
        BY <1>6, <2>3 DEF InLoops, IsSubscript
      <4>2. h[Depth] < Product[Depth]
        BY <1>2, <2>4, <4>1, NumberBelow
      <4> QED
        BY <1>7, <2>4, <3>2, <4>2 DEF Size
    <3> QED
      BY <1>6, <3>1, <3>2
  <2>6. InLoops(idx)' /\ Numbers(h, idx)' /\ (h[Depth] = offset)'
    BY <1>1, <2>3, <2>4, FrameLoops, FrameDepth
  <2>7. (\A e \in Dims : Extent(e) > 0)' /\ (offset < Size)'
    BY <1>1, <1>3, <2>5, Frame, FrameExtent, FrameDepth
  <2>8. (call.type.builtin => call.count > 0 /\ call.count <= Product[Depth])'
    BY <1>1, <1>3, Frame, FrameDepth
  <2>9. offset' # 0 /\ Successor(visited[offset-1], idx)'
    <3>1. offset' - 1 = offset /\ offset' # 0
      BY <1>1, <1>2
    <3>2. visited'[offset] = idx
      BY <1>1, <1>2 DEF Store
    <3>3. visited'[offset'-1] = idx
      BY <3>1, <3>2
    <3> QED
      BY <1>1, <2>3, <3>1, <3>3, FrameSuccessor
  <2>10. LoopInv'
    BY <2>6, <2>7, <2>8, <2>9 DEF LoopInv
  <2>11. TypeOK'
    <3>1. idx' \in [Dims -> Nat]
      BY <2>3 DEF InLoops
    <3> QED
      BY <1>1, <1>2, <1>10, <2>1, <3>1, Frame DEF TypeOK
  <2> QED
    BY <1>9, <2>1, <2>10, <2>11
       DEF IInv, StartInv, LoopedInv, CreatedInv, SelectsInElementOrder
<1> QED
  BY <1>11, <1>12

\* Steps that change nothing the invariant is about.
LEMMA UnchangedIInv ==
  ASSUME IInv, call' = call, pc' = pc, idx' = idx, offset' = offset, visited' = visited,
         array_of_displacements' = array_of_displacements, rc' = rc,
         array_datatype' = array_datatype
  PROVE  IInv'
<1>1. TypeOK'
  BY Frame DEF IInv, TypeOK
<1>2. StartInv'
  BY Frame DEF IInv, StartInv
<1>3. EnumerationInv'
  BY FrameOrder, FrameDisplacement DEF IInv, EnumerationInv
<1>4. LoopInv'
  <2>1. SUFFICES ASSUME pc = "loop"
                 PROVE  LoopInv'
    BY DEF LoopInv
  <2>2. PICK g : Numbers(g, idx) /\ g[Depth] = offset
    BY <2>1 DEF IInv, LoopInv
  <2>3. Numbers(g, idx)' /\ (g[Depth] = offset)' /\ InLoops(idx)'
    BY <2>1, <2>2, FrameLoops, FrameDepth DEF IInv, LoopInv
  <2>4. (offset > 0 => Successor(visited[offset-1], idx))'
    BY <2>1, FrameSuccessor DEF IInv, LoopInv
  <2>5. (\A e \in Dims : Extent(e) > 0)' /\ (offset < Size)' /\ (offset = 0 => idx = Zero)'
        /\ (call.type.builtin => call.count > 0 /\ call.count <= Product[Depth])'
    BY <2>1, Frame, FrameExtent, FrameDepth DEF IInv, LoopInv
  <2> QED
    BY <2>3, <2>4, <2>5 DEF LoopInv
<1>5. LoopedInv'
  BY FrameDepth DEF IInv, LoopedInv
<1>6. CreatedInv'
  BY Frame, FrameSelected DEF IInv, CreatedInv
<1>7. SelectsInElementOrder'
  BY Frame, FrameOrder, FrameDisplacement DEF IInv, SelectsInElementOrder
<1> QED
  BY <1>1, <1>2, <1>3, <1>4, <1>5, <1>6, <1>7 DEF IInv

LEMMA PickStep ==
  ASSUME IInv, Pick
  PROVE  IInv'
<1>1. /\ call' = call /\ idx' = idx /\ offset' = offset /\ visited' = visited
      /\ array_of_displacements' = array_of_displacements /\ array_datatype' = array_datatype
      /\ (pc' = pc /\ rc' = rc) \/ (pc' = "returned" /\ rc' = "out of bounds")
  BY DEF Pick
<1>2. CASE pc' = pc /\ rc' = rc
  BY <1>1, <1>2, UnchangedIInv
<1>3. CASE pc' = "returned" /\ rc' = "out of bounds"
  <2>1. CreatedInv' /\ SelectsInElementOrder'
    BY <1>3 DEF CreatedInv, SelectsInElementOrder
  <2> QED
    BY <1>1, <1>3, <2>1, PastLoops DEF IInv, Codes
<1> QED
  BY <1>1, <1>2, <1>3

LEMMA HIndexedPickedStep ==
  ASSUME IInv, HIndexedPicked
  PROVE  IInv'
<1>1. CASE Return("abort")
  BY <1>1, ReturnOther DEF IInv, Codes
<1>2. CASE ~Return("abort")
  <2>1. /\ call' = call /\ idx' = idx /\ offset' = offset
        /\ array_of_displacements' = array_of_displacements
        /\ pc' = "returned" /\ rc' = "MPI_SUCCESS" /\ ~call.type.builtin
    BY <1>2 DEF HIndexedPicked
  <2>2. CreatedInv' /\ SelectsInElementOrder'
    BY <2>1 DEF CreatedInv, SelectsInElementOrder
  <2> QED
    BY <2>1, <2>2, PastLoops DEF IInv, Codes
<1> QED
  BY <1>1, <1>2
-----------------------------------------------------------------------------
(* The theorems. *)

LEMMA IInvStep ==
  IInv /\ Fits /\ [Next]_vars => IInv'
<1> SUFFICES ASSUME IInv, Fits, [Next]_vars PROVE IInv'
  OBVIOUS
<1>1. CASE TooManyElements
  BY <1>1, TooManyElementsStep
<1>2. CASE Vector
  BY <1>2, VectorStep
<1>3. CASE VectorOfRows
  BY <1>3, VectorOfRowsStep
<1>4. CASE VectorOfVectors
  BY <1>4, VectorOfVectorsStep
<1>5. CASE Unsupported
  BY <1>5, UnsupportedStep
<1>6. CASE NoMemory
  BY <1>6, NoMemoryStep
<1>7. CASE EnterLoops
  BY <1>7, EnterLoopsStep
<1>8. CASE Element
  BY <1>8, ElementStep
<1>9. CASE HIndexed
  BY <1>9, HIndexedStep
<1>10. CASE VerifySize
  BY <1>10, VerifySizeStep
<1>11. CASE Pick
  BY <1>11, PickStep
<1>12. CASE HIndexedPicked
  BY <1>12, HIndexedPickedStep
<1>13. CASE UNCHANGED vars
  BY <1>13, UnchangedIInv DEF vars
<1> QED
  BY <1>1, <1>2, <1>3, <1>4, <1>5, <1>6, <1>7, <1>8, <1>9, <1>10, <1>11, <1>12, <1>13
     DEF Next

\* No step changes the call.
LEMMA SameCall ==
  ASSUME [Next]_vars
  PROVE  call' = call
BY DEF Next, TooManyElements, Vector, VectorOfRows, VectorOfVectors, Unsupported, NoMemory,
       EnterLoops, Element, HIndexed, VerifySize, Pick, HIndexedPicked, Return, Create, vars

\* The loops store integers and step to natural numbers, whatever the extents are.
LEMMA ElementTypes ==
  ASSUME TypeOK, Element
  PROVE  TypeOK'
<1>1. /\ call \in Calls /\ call' = call /\ rc' = rc /\ rc \in Codes /\ pc' \in {"loop", "looped"}
      /\ offset' = offset + 1 /\ offset \in Nat /\ idx \in [Dims -> Nat]
      /\ array_of_displacements \in [0..offset-1 -> Int]
      /\ array_of_displacements' = Store(array_of_displacements, Displacement(idx))
      /\ idx' = idx \/ idx' = Advance(idx)
  BY DEF TypeOK, Element
<1>2. Advance(idx) \in [Dims -> Nat]
  BY <1>1 DEF Advance
<1>3. Displacement(idx) \in Int
  BY <1>1, DisplacementInt
<1>4. ASSUME NEW k \in 0..offset
      PROVE  (IF k = offset THEN Displacement(idx) ELSE array_of_displacements[k]) \in Int
  <2>1. k # offset => k \in 0..offset-1
    BY <1>1
  <2> QED
    BY <1>1, <1>3, <2>1
<1>5. 0..offset'-1 = 0..offset
  BY <1>1
<1>6. array_of_displacements' \in [0..offset'-1 -> Int]
  BY <1>1, <1>4, <1>5 DEF Store
<1> QED
  BY <1>1, <1>2, <1>6, Frame DEF TypeOK

LEMMA TypeStep ==
  TypeOK /\ [Next]_vars => TypeOK'
<1> SUFFICES ASSUME TypeOK, [Next]_vars PROVE TypeOK'
  OBVIOUS
<1>1. CASE Element
  BY <1>1, ElementTypes
<1>2. ASSUME call' = call, idx' = idx, offset' = offset, rc' \in Codes,
             array_of_displacements' = array_of_displacements,
             pc' \in {"start", "loop", "looped", "created", "returned"}
      PROVE  TypeOK'
  BY <1>2, Frame DEF TypeOK
<1>3. ASSUME NEW code \in Codes, Return(code) PROVE TypeOK'
  BY <1>2, <1>3 DEF Return
<1>4. ASSUME NEW t, NEW v, Create(t, v) PROVE TypeOK'
  <2>1. "abort" \in Codes
    BY DEF Codes
  <2> QED
    BY <1>2, <1>3, <1>4, <2>1 DEF Create, TypeOK
<1>5. CASE TooManyElements \/ Unsupported \/ NoMemory
  BY <1>3, <1>5 DEF TooManyElements, Unsupported, NoMemory, Codes
<1>6. CASE Vector \/ VectorOfRows \/ VectorOfVectors \/ HIndexed
  BY <1>4, <1>6 DEF Vector, VectorOfRows, VectorOfVectors, HIndexed
<1>7. CASE EnterLoops
  BY <1>2, <1>7 DEF EnterLoops, TypeOK
<1>8. CASE VerifySize
  <2>1. Return("MPI_SUCCESS") \/ Return("MPI_ERR_INTERN")
    BY <1>8 DEF VerifySize
  <2> QED
    BY <1>3, <2>1 DEF Codes
<1>9. CASE Pick
  BY <1>2, <1>9 DEF Pick, TypeOK, Codes
<1>10. CASE HIndexedPicked
  <2>1. CASE Return("abort")
    BY <1>3, <2>1 DEF Codes
  <2>2. CASE ~Return("abort")
    BY <1>2, <1>10, <2>2 DEF HIndexedPicked, TypeOK, Codes
  <2> QED
    BY <2>1, <2>2
<1>11. CASE UNCHANGED vars
  BY <1>2, <1>11 DEF vars, TypeOK
<1> QED
  BY <1>1, <1>5, <1>6, <1>7, <1>8, <1>9, <1>10, <1>11 DEF Next

\* A predefined type with an extent that is no C integer: the call is refused.
RefusedInv ==
  call.type.builtin /\ ~Fits =>
    \/ pc = "start"
    \/ pc = "returned" /\ rc = "MPI_ERR_COUNT"

LEMMA RefusedStep ==
  ASSUME TypeOK, RefusedInv, [Next]_vars
  PROVE  RefusedInv'
<1> SUFFICES ASSUME call.type.builtin, ~Fits
             PROVE  RefusedInv'
  BY SameCall, FrameFits DEF RefusedInv
<1>1. pc = "start" \/ (pc = "returned" /\ rc = "MPI_ERR_COUNT")
  BY DEF RefusedInv
<1>2. ExtentTooLarge
  <2>1. PICK d \in Dims : ~(Extent(d) <= IntMax)
    BY DEF Fits
  <2>2. call \in Calls /\ Rank \in 1..15 /\ Dims = 0..Rank-1 /\ IntMax \in Nat
    BY CallFacts, CfiAssumption DEF TypeOK
  <2>3. d + 1 \in 1..Rank /\ (d + 1) - 1 = d /\ d \in 0..14
    BY <2>2
  <2>4. Extent(d) > IntMax
    <3>1. Extent(d) \in Int
      BY <2>2, <2>3, ExtentInt
    <3> QED
      BY <2>1, <2>2, <3>1
  <2>5. Extent((d+1)-1) > IntMax
    BY <2>3, <2>4, Zenon
  <2> QED
    BY <2>3, <2>5 DEF ExtentTooLarge
<1>3. TooManyElements \/ UNCHANGED vars
  BY <1>1, <1>2 DEF Next, Vector, VectorOfRows, VectorOfVectors, Unsupported, NoMemory,
     EnterLoops, Enumerates, Element, HIndexed, VerifySize, Pick, HIndexedPicked, Accepted
<1>4. CASE TooManyElements
  BY <1>2, <1>4 DEF TooManyElements, Return, RefusedInv
<1>5. CASE UNCHANGED vars
  BY <1>1, <1>5 DEF vars, RefusedInv
<1> QED
  BY <1>3, <1>4, <1>5

\* What holds in every state, and what holds when the extents are C integers.
DatatypeInv == TypeOK /\ RefusedInv /\ (Fits => IInv)

\* The invariant holds in every state of VAPAA_CFI_CREATE_DATATYPE.
THEOREM DatatypeInvariance == Spec => []DatatypeInv
<1>1. Init => DatatypeInv
  BY InitIInv DEF DatatypeInv, IInv, RefusedInv, Init
<1>2. DatatypeInv /\ [Next]_vars => DatatypeInv'
  <2> SUFFICES ASSUME DatatypeInv, [Next]_vars PROVE DatatypeInv'
    OBVIOUS
  <2>1. TypeOK' /\ RefusedInv'
    BY TypeStep, RefusedStep DEF DatatypeInv
  <2>2. Fits' => IInv'
    BY SameCall, FrameFits, IInvStep DEF DatatypeInv
  <2> QED
    BY <2>1, <2>2 DEF DatatypeInv
<1> QED
  BY <1>1, <1>2, PTL DEF Spec

\* Every variable of VAPAA_CFI_CREATE_DATATYPE keeps its type.
THEOREM DatatypeTypeCorrect == Spec => []TypeOK
<1>1. DatatypeInv => TypeOK
  BY DEF DatatypeInv
<1> QED
  BY <1>1, DatatypeInvariance, PTL

\* The nested loops of VAPAA_CFI_CREATE_DATATYPE and of
\* VAPAA_CFI_CREATE_ELEMENT_ADDRESSES fill the array they were allocated, for
\* any rank and count and any extents that are C integers.
THEOREM LoopsFillArray == Spec => []EachDisplacementWrittenOnce
<1>1. DatatypeInv => EachDisplacementWrittenOnce
  BY DEF DatatypeInv, IInv, LoopInv, LoopedInv, EachDisplacementWrittenOnce, Size
<1> QED
  BY <1>1, DatatypeInvariance, PTL

\* A datatype that VAPAA_CFI_CREATE_DATATYPE returns for a predefined type
\* selects the first count elements in array element order, for any descriptor:
\* extents that are no C integer are refused.
THEOREM SelectionCorrect == Spec => []SelectsInElementOrder
<1>1. DatatypeInv => SelectsInElementOrder
  BY DEF DatatypeInv, IInv, RefusedInv, SelectsInElementOrder
<1> QED
  BY <1>1, DatatypeInvariance, PTL
-----------------------------------------------------------------------------
(* User-defined types. *)

\* Element of the packed array where a segment of repetition j starts, and the
\* elements of the segment.
Start(j, i) == (j * call.type.extent + call.type.iov[i].base) \div elem_len
SegmentSize(i) == call.type.iov[i].len \div elem_len
InSegment(j, i, x) == x \in Start(j, i)..Start(j, i) + SegmentSize(i) - 1

Segments == 1..Len(call.type.iov)

LEMMA DivAdd ==
  ASSUME NEW a \in Nat, NEW b \in Nat, NEW e \in Nat, e > 0
  PROVE  a \div e + b \div e <= (a + b) \div e
<1>1. /\ a \div e \in Nat /\ (a % e) \in Nat /\ a = e * (a \div e) + (a % e)
      /\ b \div e \in Nat /\ (b % e) \in Nat /\ b = e * (b \div e) + (b % e)
      /\ (a + b) \div e \in Nat /\ (a + b) % e < e /\ a + b = e * ((a + b) \div e) + ((a + b) % e)
  BY DivMod
<1> DEFINE q == (a + b) \div e
           p == a \div e + b \div e
<1>2. q \in Nat /\ p \in Nat /\ e * p <= a + b /\ a + b < e * q + e
  <2>1. e * p = e * (a \div e) + e * (b \div e)
    BY <1>1
  <2>2. (a + b) % e \in Nat
    BY DivMod
  <2> QED
    BY <1>1, <2>1, <2>2
<1>3. e * q + e = e * (q + 1)
  BY <1>2
<1> HIDE DEF p, q
<1>4. ASSUME p > q PROVE FALSE
  <2>1. p >= q + 1
    BY <1>2, <1>4
  <2>2. e * p >= e * (q + 1)
    BY <1>2, <2>1
  <2> QED
    BY <1>2, <1>3, <2>2
<1> QED
  BY <1>2, <1>4 DEF p, q

LEMMA DivMonotone ==
  ASSUME NEW a \in Nat, NEW b \in Nat, NEW e \in Nat, e > 0, a <= b
  PROVE  a \div e <= b \div e
<1>1. PICK d \in Nat : b = a + d
  <2>1. b - a \in Nat /\ b = a + (b - a)
    OBVIOUS
  <2> QED
    BY <2>1
<1>2. d \div e \in Nat /\ a \div e \in Nat /\ b \div e \in Nat
  BY DivMod
<1>3. a \div e + d \div e <= (a + d) \div e
  BY DivAdd
<1> QED
  BY <1>1, <1>2, <1>3

LEMMA ElementOfSequence ==
  ASSUME NEW S, NEW s \in Seq(S), NEW i \in 1..Len(s)
  PROVE  s[i] \in S
OBVIOUS

LEMMA ElementFacts ==
  ASSUME call \in Calls
  PROVE  /\ elem_len \in Nat /\ elem_len > 0 /\ type_size \in Nat
         /\ call.count \in Int /\ call.type.builtin \in BOOLEAN
<1>1. /\ elem_len \in Nat \ {0} /\ type_size \in Nat
      /\ call.count \in Int /\ call.type.builtin \in BOOLEAN
  BY CallFacts, Zenon
<1> QED
  BY <1>1

LEMMA TypeFacts ==
  ASSUME call \in Calls
  PROVE  /\ Len(call.type.iov) \in Nat \ {0} /\ DOMAIN call.type.iov = Segments
         /\ call.type.extent \in Nat
         /\ \A i \in Segments : call.type.iov[i].base \in Nat /\ call.type.iov[i].len \in Nat
<1>1. IsDatatype(call.type)
  BY CfiAssumption
<1>2. call.type.iov \in Seq([base : Nat, len : Nat]) /\ call.type.extent \in Nat /\ call.type.iov # <<>>
  BY <1>1 DEF IsDatatype
<1> DEFINE iov == call.type.iov
<1>3. iov \in Seq([base : Nat, len : Nat]) /\ iov # <<>>
  BY <1>2
<1> HIDE DEF iov
<1>4. Len(iov) \in Nat \ {0} /\ DOMAIN iov = 1..Len(iov)
  BY <1>3
<1>5. \A i \in 1..Len(iov) : iov[i].base \in Nat /\ iov[i].len \in Nat
  <2> TAKE i \in 1..Len(iov)
  <2>1. iov[i] \in [base : Nat, len : Nat]
    BY <1>3, ElementOfSequence, Zenon
  <2> QED
    BY <2>1
<1> QED
  BY <1>2, <1>4, <1>5, Zenon DEF Segments, iov

LEMMA SegmentFacts ==
  ASSUME call \in Calls, NEW j \in Nat, NEW i \in Segments
  PROVE  Start(j, i) \in Nat /\ SegmentSize(i) \in Nat
<1>1. elem_len \in Nat /\ elem_len > 0
  BY ElementFacts
<1>2. call.type.extent \in Nat /\ call.type.iov[i].base \in Nat /\ call.type.iov[i].len \in Nat
  BY TypeFacts
<1>3. j * call.type.extent + call.type.iov[i].base \in Nat
  BY <1>2
<1> QED
  BY <1>1, <1>2, <1>3, DivMod DEF Start, SegmentSize

\* The elements of a call, segment by segment.
LEMMA ElementsOfSegments ==
  ASSUME call \in Calls, NEW x
  PROVE  x \in Elements <=> \E j \in 0..call.count-1, i \in Segments : InSegment(j, i, x)
<1>1. call.count \in Int /\ DOMAIN call.type.iov = Segments
  BY ElementFacts, TypeFacts
<1>2. ASSUME NEW j \in 0..call.count-1, NEW i \in Segments
      PROVE  (\E k \in 0..SegmentSize(i)-1 : x = Start(j, i) + k) <=> InSegment(j, i, x)
  <2>1. Start(j, i) \in Nat /\ SegmentSize(i) \in Nat
    BY <1>1, SegmentFacts
  <2> HIDE DEF Start, SegmentSize
  <2>2. ASSUME InSegment(j, i, x) PROVE x - Start(j, i) \in 0..SegmentSize(i)-1 /\ x = Start(j, i) + (x - Start(j, i))
    BY <2>1, <2>2 DEF InSegment
  <2>3. ASSUME NEW k \in 0..SegmentSize(i)-1, x = Start(j, i) + k PROVE InSegment(j, i, x)
    BY <2>1, <2>3 DEF InSegment
  <2> QED
    BY <2>2, <2>3
<1> DEFINE part(j, i) == {Start(j, i) + k : k \in 0..SegmentSize(i)-1}
<1>3. Elements = UNION {part(j, i) : j \in 0..call.count-1, i \in DOMAIN call.type.iov}
  BY DEF Elements, Start, SegmentSize
<1>4. \A j, i : x \in part(j, i) <=> \E k \in 0..SegmentSize(i)-1 : x = Start(j, i) + k
  OBVIOUS
<1> HIDE DEF part
<1>5. x \in Elements <=> \E j \in 0..call.count-1, i \in Segments : x \in part(j, i)
  BY <1>1, <1>3
<1> QED
  BY <1>2, <1>4, <1>5

\* Where the code looks for a segment is where it is, and segments follow one
\* another.
LEMMA SupportedSegments ==
  ASSUME call \in Calls, SupportedTypes(Calls), ~call.type.builtin,
         NEW j \in 0..call.count-1, NEW i \in Segments
  PROVE  /\ Start(j, i) = call.type.iov[i].base \div elem_len + j * call.type.extent
         /\ i < Len(call.type.iov) => Start(j, i) + SegmentSize(i) <= Start(j, i+1)
         /\ j + 1 < call.count /\ i = Len(call.type.iov) =>
              Start(j, i) + SegmentSize(i) <= Start(j+1, 1)
<1>1. /\ call.count \in Int /\ elem_len \in Nat /\ elem_len > 0 /\ j \in Nat
  BY ElementFacts
<1>2. /\ Len(call.type.iov) \in Nat /\ 1 \in Segments
      /\ call.type.extent \in Nat
      /\ \A s \in Segments : call.type.iov[s].base \in Nat /\ call.type.iov[s].len \in Nat
  BY TypeFacts DEF Segments
<1>3. Increasing(call.type, call.count) /\ (call.count <= 1 \/ elem_len = 1)
  BY DEF SupportedTypes, elem_len
<1>4. Start(j, i) = call.type.iov[i].base \div elem_len + j * call.type.extent
  <2>1. CASE call.count <= 1
    <3>1. j = 0
      BY <1>1, <2>1
    <3>2. j * call.type.extent = 0
      BY <1>2, <3>1
    <3>3. call.type.iov[i].base \in Nat
      BY <1>2
    <3>4. call.type.iov[i].base \div elem_len \in Nat
      BY <1>1, <3>3, DivMod
    <3>5. Start(j, i) = call.type.iov[i].base \div elem_len
      BY <3>2, <3>3 DEF Start
    <3> QED
      BY <3>2, <3>4, <3>5
  <2>2. CASE elem_len = 1
    <3>1. \A n \in Nat : n \div 1 = n
      OBVIOUS
    <3>2. j * call.type.extent \in Nat
      BY <1>1, <1>2
    <3>3. call.type.iov[i].base \in Nat
      BY <1>2
    <3>4. call.type.iov[i].base \div elem_len = call.type.iov[i].base
      BY <2>2, <3>1, <3>3
    <3>5. Start(j, i) = j * call.type.extent + call.type.iov[i].base
      <4> DEFINE n == j * call.type.extent + call.type.iov[i].base
      <4>1. n \in Nat /\ Start(j, i) = n \div 1
        BY <2>2, <3>2, <3>3 DEF Start
      <4> HIDE DEF n
      <4>2. Start(j, i) = n
        BY <3>1, <4>1
      <4> QED
        BY <4>2 DEF n
    <3> QED
      BY <3>2, <3>3, <3>4, <3>5
  <2> QED
    BY <1>3, <2>1, <2>2
<1> DEFINE at(n, s) == n * call.type.extent + call.type.iov[s].base
<1>5. ASSUME NEW n \in Nat, NEW s \in Segments PROVE at(n, s) \in Nat
  <2>1. call.type.extent \in Nat /\ call.type.iov[s].base \in Nat
    BY <1>2
  <2>2. n * call.type.extent \in Nat
    BY <2>1
  <2> QED
    BY <2>1, <2>2
<1>6. ASSUME NEW n \in Nat, NEW s \in Segments, at(j, i) + call.type.iov[i].len <= at(n, s)
      PROVE  Start(j, i) + SegmentSize(i) <= Start(n, s)
  <2>1. at(j, i) \in Nat /\ at(n, s) \in Nat /\ call.type.iov[i].len \in Nat
    BY <1>1, <1>2, <1>5
  <2> DEFINE a == at(j, i)  l == call.type.iov[i].len  b == at(n, s)
  <2> SUFFICES a \div elem_len + l \div elem_len <= b \div elem_len
    BY DEF Start, SegmentSize
  <2>2. a \in Nat /\ l \in Nat /\ b \in Nat /\ a + l <= b
    BY <1>6, <2>1
  <2> HIDE DEF a, l, b
  <2>3. a \div elem_len + l \div elem_len <= (a + l) \div elem_len
    BY <1>1, <2>2, DivAdd
  <2>4. (a + l) \div elem_len <= b \div elem_len
    BY <1>1, <2>2, DivMonotone
  <2>5. /\ a \div elem_len \in Nat /\ l \div elem_len \in Nat
        /\ (a + l) \div elem_len \in Nat /\ b \div elem_len \in Nat
    BY <1>1, <2>2, DivMod
  <2> QED
    BY <2>3, <2>4, <2>5
<1>7. ASSUME i < Len(call.type.iov) PROVE Start(j, i) + SegmentSize(i) <= Start(j, i+1)
  <2>1. i \in 1..Len(call.type.iov)-1 /\ i + 1 \in Segments
    BY <1>2, <1>7 DEF Segments
  <2>2. call.type.iov[i].base + call.type.iov[i].len <= call.type.iov[i+1].base
    BY <1>3, <2>1 DEF Increasing
  <2>3. at(j, i) + call.type.iov[i].len <= at(j, i+1)
    <3>1. j * call.type.extent \in Nat
      BY <1>1, <1>2
    <3>2. /\ call.type.iov[i].base \in Nat /\ call.type.iov[i].len \in Nat
          /\ call.type.iov[i+1].base \in Nat
      BY <1>2, <2>1
    <3> QED
      BY <2>2, <3>1, <3>2
  <2> HIDE DEF at
  <2> QED
    BY <1>1, <1>6, <2>1, <2>3
<1>8. ASSUME j + 1 < call.count, i = Len(call.type.iov)
      PROVE  Start(j, i) + SegmentSize(i) <= Start(j+1, 1)
  <2>1. call.count > 1
    BY <1>1, <1>8
  <2>2. call.type.iov[i].base + call.type.iov[i].len <= call.type.extent + call.type.iov[1].base
    BY <1>3, <1>8, <2>1 DEF Increasing
  <2>3. (j + 1) * call.type.extent = j * call.type.extent + call.type.extent
    <3>1. \A m, n \in Nat : (m + 1) * n = m * n + n
      OBVIOUS
    <3> QED
      BY <1>1, <1>2, <3>1, Zenon
  <2>4. at(j, i) + call.type.iov[i].len <= at(j+1, 1)
    <3>1. j * call.type.extent \in Nat
      BY <1>1, <1>2
    <3>2. /\ call.type.iov[i].base \in Nat /\ call.type.iov[i].len \in Nat
          /\ call.type.iov[1].base \in Nat /\ call.type.extent \in Nat
      BY <1>2
    <3> QED
      BY <2>2, <2>3, <3>1, <3>2
  <2> HIDE DEF at
  <2>5. j + 1 \in Nat
    BY <1>1
  <2> QED
    BY <1>2, <1>6, <2>4, <2>5
<1> QED
  BY <1>4, <1>7, <1>8
-----------------------------------------------------------------------------
\* A rising list of n numbers has n elements, of which m - 1 are below the m-th.
LEMMA RisingCount ==
  ASSUME NEW n \in Nat, NEW f, \A m \in 1..n : f[m] \in Nat,
         \A i, j \in 1..n : i < j => f[i] < f[j],
         NEW S, \A x : x \in S <=> \E m \in 1..n : x = f[m]
  PROVE  /\ Cardinality(S) = n
         /\ \A m \in 1..n : Cardinality({x \in S : x < f[m]}) = m - 1
<1> DEFINE First(k) == {f[i] : i \in 1..k}
<1>1. ASSUME NEW k \in 0..n PROVE Cardinality(First(k)) = k
  <2> DEFINE g == [i \in 1..k |-> f[i]]
  <2>1. \A i \in 1..k : i \in 1..n
    OBVIOUS
  <2>2. \A i, j \in 1..k : g[i] = g[j] => i = j
    BY <2>1
  <2>3. g \in [1..k -> First(k)] /\ \A x \in First(k) : \E i \in 1..k : g[i] = x
    OBVIOUS
  <2>5. DOMAIN g = 1..k /\ k \in Nat
    OBVIOUS
  <2> HIDE DEF g, First
  <2>4. g \in Bijection(1..k, First(k))
    BY <2>2, <2>3, <2>5 DEF Bijection, Injection, Surjection, IsInjective
  <2>6. ExistsBijection(1..k, First(k))
    BY <2>4 DEF ExistsBijection
  <2> QED
    BY <2>5, <2>6, FS_CountingElements
<1>2. S = First(n)
  OBVIOUS
<1>3. ASSUME NEW m \in 1..n PROVE {x \in S : x < f[m]} = First(m - 1)
  <2>1. ASSUME NEW i \in 1..n, f[i] < f[m] PROVE i \in 1..m-1
    <3>1. ~(m < i) /\ i # m
      BY <2>1
    <3> QED
      BY <3>1
  <2>2. ASSUME NEW i \in 1..m-1 PROVE i \in 1..n /\ f[i] < f[m]
    OBVIOUS
  <2> QED
    BY <2>1, <2>2
<1>4. n \in 0..n /\ \A m \in 1..n : m - 1 \in 0..n
  OBVIOUS
<1> HIDE DEF First
<1> QED
  BY <1>1, <1>2, <1>3, <1>4

\* Segments before the one the loops over the I/O vector are at.
Before(j, i) == j < seg.j \/ (j = seg.j /\ i < seg.i)

Passed(x) == \E j \in 0..call.count-1, i \in Segments : Before(j, i) /\ InSegment(j, i, x)

\* The displacements picked so far are those of the elements f, which are the
\* ones of the segments passed, in order.
PickedBy(f) ==
  /\ \A m \in 1..Len(picked) : f[m] \in 0..offset-1
  /\ \A m, n \in 1..Len(picked) : m < n => f[m] < f[n]
  /\ \A m \in 1..Len(picked) :
       picked[m] = array_of_displacements[f[m]] - array_of_displacements[0]
  /\ seg.j < call.count => \A m \in 1..Len(picked) : f[m] < Start(seg.j, seg.i)
  /\ \A x : Passed(x) <=> \E m \in 1..Len(picked) : x = f[m]

PickingInv ==
  /\ call.count >= 0
  /\ seg = [j |-> seg.j, i |-> seg.i]
  /\ seg.j \in 0..call.count /\ seg.i \in Segments
  /\ seg.j = call.count => seg.i = 1
  /\ picked \in Seq(Int)
  /\ \E f : PickedBy(f)

SegmentInv ==
  ~call.type.builtin =>
    /\ pc \in {"start", "loop"} => picked = <<>> /\ seg = [j |-> 0, i |-> 1]
    /\ pc \in {"loop", "looped"} => call.count >= 0
    /\ pc = "looped" => PickingInv

LEMMA FrameSegments ==
  ASSUME call' = call
  PROVE  /\ Segments' = Segments /\ Elements' = Elements
         /\ \A j, i : Start(j, i)' = Start(j, i)
         /\ \A i : SegmentSize(i)' = SegmentSize(i)
         /\ \A j, i, x : InSegment(j, i, x)' = InSegment(j, i, x)
<1>1. elem_len' = elem_len
  BY Frame
<1>2. Segments' = Segments /\ \A i : SegmentSize(i)' = SegmentSize(i)
  BY <1>1 DEF Segments, SegmentSize
<1>3. \A j, i : Start(j, i)' = Start(j, i)
  BY <1>1 DEF Start
<1>4. Elements' = Elements
  BY <1>1 DEF Elements
<1> QED
  BY <1>2, <1>3, <1>4 DEF InSegment

\* Before the first segment.
LEMMA PickingStarts ==
  ASSUME call \in Calls, call' = call, call.count >= 0,
         picked' = <<>>, seg' = [j |-> 0, i |-> 1]
  PROVE  PickingInv'
<1>1. call.count \in Int /\ 1 \in Segments
  BY ElementFacts, TypeFacts DEF Segments
<1>2. Segments' = Segments
  BY FrameSegments
<1>3. \A m \in 1..Len(picked') : FALSE
  OBVIOUS
<1>4. \A j \in 0..call.count-1, i \in Segments : ~Before(j, i)'
  BY <1>1 DEF Before, Segments
<1>5. \A x : ~Passed(x)'
  BY <1>2, <1>4 DEF Passed
<1>6. PickedBy(<<>>)'
  BY <1>3, <1>5 DEF PickedBy
<1>7. picked' \in Seq(Int) /\ seg'.j = 0 /\ seg'.i = 1
  OBVIOUS
<1> QED
  BY <1>1, <1>2, <1>6, <1>7 DEF PickingInv

LEMMA EnumeratingSegments ==
  ASSUME IInv, SegmentInv, EnterLoops \/ Element
  PROVE  SegmentInv'
<1>1. call \in Calls /\ call' = call /\ picked' = picked /\ seg' = seg /\ pc \in {"start", "loop"}
      /\ pc' \in {"loop", "looped"}
  BY DEF IInv, TypeOK, EnterLoops, Enumerates, Accepted, Element
<1>2. ~call.type.builtin => call.count >= 0
  BY DEF EnterLoops, Element, SegmentInv
<1>3. ASSUME ~call.type.builtin PROVE PickingInv'
  BY <1>1, <1>2, <1>3, PickingStarts DEF SegmentInv
<1> QED
  BY <1>1, <1>2, <1>3 DEF SegmentInv

LEMMA NextSegment ==
  ASSUME NEW s, NEW j, NEW i, s = [j |-> j, i |-> i]
  PROVE  [s EXCEPT !.i = @ + 1] = [j |-> j, i |-> i + 1]
OBVIOUS

LEMMA Concatenation ==
  ASSUME NEW S, NEW s \in Seq(S), NEW t \in Seq(S)
  PROVE  /\ s \o t \in Seq(S) /\ Len(s \o t) = Len(s) + Len(t)
         /\ \A m \in 1..Len(s) + Len(t) :
              (s \o t)[m] = IF m <= Len(s) THEN s[m] ELSE t[m - Len(s)]
OBVIOUS

\* One segment more.
LEMMA PickKeeps ==
  ASSUME IInv, SegmentInv, SupportedTypes(Calls), Pick, pc' = "looped"
  PROVE  PickingInv'
<1> DEFINE j == seg.j
           i == seg.i
           last == Len(call.type.iov)
           F == SegmentFirst
           L == SegmentLength
           P == Len(picked)
           new == [k \in 1..L |-> array_of_displacements[F + k - 1] - array_of_displacements[0]]
<1>1. /\ call \in Calls /\ pc = "looped" /\ ~call.type.builtin /\ seg.j < call.count /\ call' = call
      /\ offset' = offset /\ array_of_displacements' = array_of_displacements
      /\ offset \in Nat /\ array_of_displacements \in [0..offset-1 -> Int]
  BY DEF IInv, TypeOK, Pick
<1>2. PickingInv
  BY <1>1 DEF SegmentInv
<1>3. /\ L = 0 \/ F + L <= offset
      /\ picked' = picked \o new
      /\ seg' = IF i < last THEN [seg EXCEPT !.i = @ + 1] ELSE [j |-> j + 1, i |-> 1]
  BY DEF Pick
<1>4. /\ call.count \in Int /\ last \in Nat \ {0} /\ Segments = 1..last
      /\ j \in 0..call.count-1 /\ j \in Nat /\ i \in Segments
  BY <1>1, <1>2, ElementFacts, TypeFacts DEF PickingInv, Segments
<1>5. F = Start(j, i) /\ L = SegmentSize(i) /\ F \in Nat /\ L \in Nat
  <2>1. Start(j, i) \in Nat /\ SegmentSize(i) \in Nat
    BY <1>1, <1>4, SegmentFacts
  <2>2. Start(j, i) = call.type.iov[i].base \div elem_len + j * call.type.extent
    BY <1>1, <1>4, SupportedSegments
  <2> QED
    BY <2>1, <2>2 DEF SegmentFirst, SegmentLength, SegmentSize
<1>6. /\ i < last => seg' = [j |-> j, i |-> i + 1]
      /\ i >= last => seg' = [j |-> j + 1, i |-> 1] /\ i = last
  <2>1. seg = [j |-> j, i |-> i]
    BY <1>2, Zenon DEF PickingInv
  <2>2. [seg EXCEPT !.i = @ + 1] = [j |-> j, i |-> i + 1]
    BY <2>1, NextSegment, Zenon
  <2>3. i \in Int /\ last \in Int /\ i <= last
    BY <1>4
  <2>4. i < last \/ (i >= last /\ i = last /\ ~(i < last))
    BY <2>3
  <2>5. i < last => ~(i >= last)
    BY <2>3
  <2> QED
    BY <1>3, <2>2, <2>4, <2>5, Zenon
<1>7. /\ i < last => seg'.j = j /\ seg'.i = i + 1
      /\ i >= last => seg'.j = j + 1 /\ seg'.i = 1 /\ i = last
      /\ seg' = [j |-> seg'.j, i |-> seg'.i]
  BY <1>6, <1>4
<1>8. seg'.j < call.count => F + L <= Start(seg'.j, seg'.i)
  <2>1. /\ i < last => Start(j, i) + SegmentSize(i) <= Start(j, i+1)
        /\ j + 1 < call.count /\ i = last => Start(j, i) + SegmentSize(i) <= Start(j+1, 1)
    BY <1>1, <1>4, SupportedSegments, Zenon
  <2>2. i < last \/ i >= last
    BY <1>4
  <2> QED
    BY <1>5, <1>7, <2>1, <2>2, Zenon
<1> HIDE DEF F, L
<1>9. \A k \in 1..L : F + k - 1 \in 0..offset-1 /\ 0 \in 0..offset-1
  BY <1>1, <1>3, <1>5
<1>10. picked \in Seq(Int) /\ P \in Nat
  BY <1>2 DEF PickingInv
<1>25. P \in Nat /\ F \in Nat /\ L \in Nat
  BY <1>5, <1>10
<1>11. new \in Seq(Int) /\ Len(new) = L
  <2>1. \A k \in 1..L : new[k] \in Int
    BY <1>1, <1>9
  <2> QED
    BY <1>5, <2>1
<1>12. \A k \in 1..L : new[k] = array_of_displacements[F + k - 1] - array_of_displacements[0]
  OBVIOUS
<1> HIDE DEF new
<1>13. /\ picked' \in Seq(Int) /\ Len(picked') = P + L
       /\ \A m \in 1..P+L : picked'[m] = IF m <= P THEN picked[m] ELSE new[m - P]
  BY <1>3, <1>10, <1>11, Concatenation, Zenon
<1>14. PICK f : PickedBy(f)
  BY <1>2 DEF PickingInv
<1>26. PICK g : g = [m \in 1..P+L |-> IF m <= P THEN f[m] ELSE F + (m - P) - 1]
  OBVIOUS
<1>15. /\ \A m \in 1..P : m \in 1..P+L /\ g[m] = f[m] /\ f[m] \in 0..offset-1 /\ f[m] < F
       /\ \A m \in 1..P+L : m > P => g[m] = F + (m - P) - 1 /\ m - P \in 1..L
  <2>1. P \in Nat /\ L \in Nat /\ F \in Nat
    BY <1>5, <1>10
  <2>2. \A m \in 1..P : f[m] \in 0..offset-1 /\ f[m] < F
    BY <1>1, <1>5, <1>14, Zenon DEF PickedBy
  <2> HIDE DEF P
  <2>3. ASSUME NEW m \in 1..P PROVE m \in 1..P+L /\ g[m] = f[m]
    <3>1. m \in 1..P+L /\ m <= P
      BY <2>1
    <3> QED
      BY <1>26, <3>1
  <2>4. ASSUME NEW m \in 1..P+L, m > P PROVE g[m] = F + (m - P) - 1 /\ m - P \in 1..L
    <3>1. ~(m <= P) /\ m - P \in 1..L
      BY <2>1, <2>4
    <3> QED
      BY <1>26, <3>1
  <2> QED
    BY <2>2, <2>3, <2>4
<1> HIDE DEF P
<1>16. \A m \in 1..P+L : g[m] \in 0..offset-1 /\ g[m] < F + L
  <2> TAKE m \in 1..P+L
  <2>1. CASE m <= P
    BY <1>25, <1>15, <2>1
  <2>2. CASE m > P
    <3> DEFINE k == m - P
    <3>1. g[m] = F + k - 1 /\ k \in 1..L
      BY <1>15, <2>2
    <3> HIDE DEF k
    <3> QED
      BY <1>9, <1>25, <3>1
  <2> QED
    BY <1>25, <2>1, <2>2
<1>17. \A m, n \in 1..P+L : m < n => g[m] < g[n]
  <2> TAKE m, n \in 1..P+L
  <2> HAVE m < n
  <2>1. CASE n <= P
    <3>1. m \in 1..P /\ n \in 1..P
      BY <1>25, <2>1
    <3>2. \A a, b \in 1..P : a < b => f[a] < f[b]
      BY <1>14, Zenon DEF PickedBy, P
    <3>3. g[m] = f[m] /\ g[n] = f[n]
      BY <1>15, <3>1
    <3> QED
      BY <3>1, <3>2, <3>3
  <2>2. CASE m <= P /\ n > P
    BY <1>25, <1>15, <2>2
  <2>3. CASE m > P /\ n > P
    BY <1>25, <1>15, <2>3
  <2> QED
    BY <1>25, <2>1, <2>2, <2>3
<1>18. \A m \in 1..P+L :
         picked'[m] = array_of_displacements[g[m]] - array_of_displacements[0]
  <2> TAKE m \in 1..P+L
  <2>1. CASE m <= P
    <3>1. m \in 1..P /\ g[m] = f[m] /\ picked'[m] = picked[m]
      BY <1>25, <1>13, <1>15, <2>1
    <3> QED
      BY <1>14, <3>1 DEF PickedBy, P
  <2>2. CASE m > P
    <3>1. g[m] = F + (m - P) - 1 /\ m - P \in 1..L /\ picked'[m] = new[m - P]
      BY <1>25, <1>13, <1>15, <2>2
    <3> QED
      BY <1>12, <3>1
  <2> QED
    BY <1>25, <2>1, <2>2
<1>19. \A x : (\E m \in 1..P+L : x = g[m]) <=> (\E m \in 1..P : x = f[m]) \/ InSegment(j, i, x)
  <2> TAKE x
  <2>1. ASSUME NEW m \in 1..P+L, x = g[m] PROVE (\E n \in 1..P : x = f[n]) \/ InSegment(j, i, x)
    <3>1. CASE m <= P
      BY <1>25, <1>15, <2>1, <3>1
    <3>2. CASE m > P
      BY <1>5, <1>25, <1>15, <2>1, <3>2 DEF InSegment
    <3> QED
      BY <1>25, <3>1, <3>2
  <2>2. ASSUME NEW m \in 1..P, x = f[m] PROVE \E n \in 1..P+L : x = g[n]
    BY <1>15, <2>2
  <2>3. ASSUME InSegment(j, i, x) PROVE \E n \in 1..P+L : x = g[n]
    <3> DEFINE n == P + 1 + (x - F)
    <3>1. x \in F..F+L-1
      BY <1>5, <2>3, Zenon DEF InSegment
    <3>2. n \in 1..P+L /\ n > P /\ F + (n - P) - 1 = x
      BY <1>25, <3>1
    <3> HIDE DEF n
    <3> QED
      BY <1>15, <3>2
  <2> QED
    BY <2>1, <2>2, <2>3
<1>20. \A n \in 0..call.count-1, s \in Segments : Before(n, s)' <=> Before(n, s) \/ (n = j /\ s = i)
  BY <1>4, <1>7 DEF Before
<1>21. \A x : Passed(x)' <=> Passed(x) \/ InSegment(j, i, x)
  <2>1. /\ Segments' = Segments /\ call' = call
        /\ \A n, s, x : InSegment(n, s, x)' = InSegment(n, s, x)
    BY <1>1, FrameSegments
  <2> TAKE x
  <2>2. Passed(x)' <=> \E n \in 0..call.count-1, s \in Segments : Before(n, s)' /\ InSegment(n, s, x)
    BY <2>1 DEF Passed
  <2> QED
    BY <1>4, <1>20, <2>2 DEF Passed
<1>22. \A x : Passed(x)' <=> \E m \in 1..P+L : x = g[m]
  BY <1>14, <1>19, <1>21 DEF PickedBy, P
<1>23. PickedBy(g)'
  <2>1. seg'.j < call.count => \A m \in 1..P+L : g[m] < Start(seg'.j, seg'.i)
    <3>1. ASSUME seg'.j < call.count, NEW m \in 1..P+L PROVE g[m] < Start(seg'.j, seg'.i)
      <4>1. seg'.j \in Nat /\ seg'.i \in Segments
        BY <1>4, <1>7
      <4>2. Start(seg'.j, seg'.i) \in Nat
        BY <1>1, <4>1, SegmentFacts
      <4> QED
        BY <1>5, <1>8, <1>16, <3>1, <4>2
    <3> QED
      BY <3>1
  <2>2. Start(seg.j, seg.i)' = Start(seg'.j, seg'.i)
    BY <1>1, Frame DEF Start
  <2>3. Len(picked') = P + L /\ offset' = offset /\ call' = call
        /\ array_of_displacements' = array_of_displacements
    BY <1>1, <1>13
  <2>4. \A m \in 1..P+L : g[m] \in 0..offset-1
    BY <1>16
  <2>5. /\ \A m \in 1..Len(picked') : g[m] \in 0..offset'-1
        /\ \A m, n \in 1..Len(picked') : m < n => g[m] < g[n]
        /\ \A m \in 1..Len(picked') :
             picked'[m] = array_of_displacements'[g[m]] - array_of_displacements'[0]
        /\ seg'.j < call'.count => \A m \in 1..Len(picked') : g[m] < Start(seg.j, seg.i)'
        /\ \A x : Passed(x)' <=> \E m \in 1..Len(picked') : x = g[m]
    <3>1. \A m \in 1..Len(picked') : g[m] \in 0..offset'-1
      BY <2>3, <2>4, Zenon
    <3>2. \A m, n \in 1..Len(picked') : m < n => g[m] < g[n]
      BY <1>17, <2>3, Zenon
    <3>3. \A m \in 1..Len(picked') :
             picked'[m] = array_of_displacements'[g[m]] - array_of_displacements'[0]
      BY <1>18, <2>3, Zenon
    <3>4. seg'.j < call'.count => \A m \in 1..Len(picked') : g[m] < Start(seg.j, seg.i)'
      BY <2>1, <2>2, <2>3, Zenon
    <3>5. \A x : Passed(x)' <=> \E m \in 1..Len(picked') : x = g[m]
      BY <1>22, <2>3, Zenon
    <3> QED
      BY <3>1, <3>2, <3>3, <3>4, <3>5, Zenon
  <2> QED
    BY <2>5 DEF PickedBy
<1>24. /\ seg'.j \in 0..call.count /\ seg'.i \in Segments
       /\ seg'.j = call.count => seg'.i = 1
  <2>1. CASE i < last
    <3>1. seg'.j = j /\ seg'.i = i + 1
      BY <1>7, <2>1
    <3> QED
      BY <1>4, <2>1, <3>1
  <2>2. CASE i >= last
    <3>1. seg'.j = j + 1 /\ seg'.i = 1
      BY <1>7, <2>2
    <3> QED
      BY <1>4, <3>1
  <2>3. i < last \/ i >= last
    BY <1>4
  <2> QED
    BY <2>1, <2>2, <2>3
<1> QED
  BY <1>1, <1>2, <1>7, <1>13, <1>23, <1>24, FrameSegments DEF PickingInv

LEMMA SameSegments ==
  ASSUME SegmentInv, UNCHANGED vars
  PROVE  SegmentInv'
<1>1. /\ call' = call /\ pc' = pc /\ picked' = picked /\ seg' = seg /\ offset' = offset
      /\ array_of_displacements' = array_of_displacements
  BY DEF vars
<1>2. \A x : Passed(x)' <=> Passed(x)
  BY <1>1, FrameSegments DEF Passed, Before
<1>3. \A f : PickedBy(f)' <=> PickedBy(f)
  BY <1>1, <1>2, FrameSegments DEF PickedBy
<1>4. PickingInv' <=> PickingInv
  BY <1>1, <1>3, FrameSegments DEF PickingInv
<1> QED
  BY <1>1, <1>4 DEF SegmentInv

\* The other steps are about predefined types, or return.
OtherStep ==
  /\ call' = call
  /\ \/ call.type.builtin
     \/ pc' = "returned" /\ rc' = "no memory"
     \/ HIndexedPicked
     \/ Pick /\ pc' # "looped"

LEMMA StepClasses ==
  ASSUME Next, CreatedInv
  PROVE  EnterLoops \/ Element \/ (Pick /\ pc' = "looped") \/ OtherStep
<1>1. ASSUME Accepted, NEW t, NEW v, Create(t, v) PROVE OtherStep
  BY <1>1 DEF Accepted, Create, Return, OtherStep
<1>2. CASE TooManyElements \/ Unsupported
  BY <1>2 DEF TooManyElements, Unsupported, Accepted, Return, OtherStep
<1>3. CASE Vector
  BY <1>1, <1>3 DEF Vector
<1>4. CASE VectorOfRows
  BY <1>1, <1>4 DEF VectorOfRows
<1>5. CASE VectorOfVectors
  BY <1>1, <1>5 DEF VectorOfVectors
<1>6. CASE HIndexed
  BY <1>6 DEF HIndexed, Create, Return, OtherStep
<1>7. CASE NoMemory
  BY <1>7 DEF NoMemory, Return, OtherStep
<1>8. CASE HIndexedPicked
  BY <1>8 DEF HIndexedPicked, Return, OtherStep
<1>9. CASE Pick
  BY <1>9 DEF Pick, OtherStep
<1>10. CASE EnterLoops \/ Element
  BY <1>10
<1>11. CASE VerifySize
  BY <1>11 DEF VerifySize, CreatedInv, Return, OtherStep
<1> QED
  BY <1>2, <1>3, <1>4, <1>5, <1>6, <1>7, <1>8, <1>9, <1>10, <1>11 DEF Next

LEMMA SegmentStep ==
  ASSUME IInv, SegmentInv, SupportedTypes(Calls), [Next]_vars
  PROVE  SegmentInv'
<1>1. CASE EnterLoops \/ Element
  BY <1>1, EnumeratingSegments
<1>2. CASE Pick /\ pc' = "looped"
  <2>1. PickingInv'
    BY <1>2, PickKeeps
  <2>2. call' = call /\ call.count >= 0
    BY <1>2 DEF Pick, SegmentInv
  <2> QED
    BY <1>2, <2>1, <2>2 DEF SegmentInv
<1>3. CASE OtherStep
  <2>1. call' = call /\ (call.type.builtin \/ pc' = "returned")
    BY <1>3 DEF OtherStep, HIndexedPicked, Return, Pick
  <2> QED
    BY <2>1 DEF SegmentInv
<1> QED
  BY <1>1, <1>2, <1>3, SameSegments, StepClasses DEF IInv

\* After the last segment all elements of the type were picked, in order.
LEMMA AllPicked ==
  ASSUME IInv, SegmentInv, ~call.type.builtin, pc = "looped", seg.j >= call.count
  PROVE  /\ Elements \subseteq 0..total_elems-1
         /\ Len(picked) \in Nat /\ Cardinality(Elements) = Len(picked)
         /\ \A e \in Elements :
              LET below == Cardinality({x \in Elements : x < e})
              IN  /\ below \in 0..Len(picked)-1
                  /\ picked[below+1] = Displacement(visited[e]) - Displacement(Zero)
<1>1. PickingInv /\ call \in Calls
  BY DEF SegmentInv, IInv, TypeOK
<1>2. call.count \in Int /\ seg.j = call.count /\ Len(picked) \in Nat
  BY <1>1, ElementFacts DEF PickingInv
<1>3. PICK f : PickedBy(f)
  BY <1>1 DEF PickingInv
<1>4. \A x : x \in Elements <=> \E m \in 1..Len(picked) : x = f[m]
  <2>1. \A j \in 0..call.count-1, i \in Segments : Before(j, i)
    BY <1>2 DEF Before
  <2>2. \A x : x \in Elements <=> Passed(x)
    BY <1>1, <2>1, ElementsOfSegments DEF Passed
  <2> QED
    BY <1>3, <2>2 DEF PickedBy
<1>5. /\ offset = total_elems /\ offset \in Nat
      /\ InElementOrder(visited, offset)
      /\ \A k \in 0..offset-1 : array_of_displacements[k] = Displacement(visited[k])
  BY DEF IInv, TypeOK, LoopedInv, EnumerationInv, Size
<1>6. /\ \A m \in 1..Len(picked) : f[m] \in 0..offset-1
      /\ \A m, n \in 1..Len(picked) : m < n => f[m] < f[n]
      /\ \A m \in 1..Len(picked) :
           picked[m] = array_of_displacements[f[m]] - array_of_displacements[0]
  BY <1>3 DEF PickedBy
<1>7. \A m \in 1..Len(picked) : f[m] \in Nat
  BY <1>5, <1>6
<1> DEFINE S == Elements
           n == Len(picked)
<1>8. n \in Nat /\ \A x : x \in S <=> \E m \in 1..n : x = f[m]
  BY <1>2, <1>4
<1> HIDE DEF S
<1>9. /\ Cardinality(S) = n
      /\ \A m \in 1..n : Cardinality({x \in S : x < f[m]}) = m - 1
  <2>1. /\ \A m \in 1..n : f[m] \in Nat
        /\ \A i, j \in 1..n : i < j => f[i] < f[j]
    BY <1>6, <1>7, Zenon
  <2> HIDE DEF n
  <2> QED
    BY <1>8, <2>1, RisingCount
<1>10. ASSUME NEW m \in 1..n
       PROVE  picked[m] = Displacement(visited[f[m]]) - Displacement(Zero)
  <2>1. f[m] \in 0..offset-1 /\ 0 \in 0..offset-1
    BY <1>5, <1>6
  <2>2. visited[0] = Zero
    BY <1>5, <2>1 DEF InElementOrder
  <2> QED
    BY <1>5, <1>6, <2>1, <2>2
<1>11. ASSUME NEW e \in S
       PROVE  LET below == Cardinality({x \in S : x < e})
              IN  /\ below \in 0..n-1
                  /\ picked[below+1] = Displacement(visited[e]) - Displacement(Zero)
  <2>1. PICK m \in 1..n : e = f[m]
    BY <1>8, <1>11
  <2>2. Cardinality({x \in S : x < e}) = m - 1
    BY <1>9, <2>1
  <2>3. m - 1 \in 0..n-1 /\ (m - 1) + 1 = m
    BY <1>8
  <2> QED
    BY <1>10, <2>1, <2>2, <2>3
<1>12. S \subseteq 0..offset-1
  BY <1>6, <1>8
<1> QED
  BY <1>2, <1>5, <1>9, <1>11, <1>12 DEF S

\* A read past the last address is for an element that is outside.
LEMMA OutsideArray ==
  ASSUME IInv, SegmentInv, SupportedTypes(Calls), Pick, pc' # "looped"
  PROVE  /\ pc' = "returned" /\ rc' = "out of bounds"
         /\ ~(Elements \subseteq 0..total_elems-1)
<1>1. /\ call \in Calls /\ pc = "looped" /\ ~call.type.builtin /\ seg.j < call.count
      /\ offset \in Nat
  BY DEF IInv, TypeOK, Pick
<1>2. /\ pc' = "returned" /\ rc' = "out of bounds"
      /\ SegmentLength # 0 /\ ~(SegmentFirst + SegmentLength <= offset)
  BY DEF Pick
<1>3. PickingInv
  BY <1>1 DEF SegmentInv
<1>4. seg.j \in 0..call.count-1 /\ seg.i \in Segments /\ seg.j \in Nat
  BY <1>1, <1>3, ElementFacts DEF PickingInv
<1>5. /\ SegmentFirst = Start(seg.j, seg.i) /\ SegmentLength = SegmentSize(seg.i)
      /\ SegmentFirst \in Nat /\ SegmentLength \in Nat
  <2>1. Start(seg.j, seg.i) \in Nat /\ SegmentSize(seg.i) \in Nat
    BY <1>1, <1>4, SegmentFacts
  <2>2. Start(seg.j, seg.i) = call.type.iov[seg.i].base \div elem_len + seg.j * call.type.extent
    BY <1>1, <1>4, SupportedSegments
  <2> QED
    BY <2>1, <2>2 DEF SegmentFirst, SegmentLength, SegmentSize
<1> DEFINE x == SegmentFirst + SegmentLength - 1
<1>6. x \in SegmentFirst..SegmentFirst+SegmentLength-1 /\ x >= offset
  <2>1. \A a, l, o \in Nat : l # 0 /\ ~(a + l <= o) => a + l - 1 \in a..a+l-1 /\ a + l - 1 >= o
    OBVIOUS
  <2> QED
    BY <1>1, <1>2, <1>5, <2>1, Zenon
<1>7. InSegment(seg.j, seg.i, x)
  BY <1>5, <1>6, Zenon DEF InSegment
<1>8. x \in Elements
  BY <1>1, <1>4, <1>7, ElementsOfSegments
<1>9. offset = total_elems
  BY <1>1 DEF IInv, LoopedInv, Size
<1>10. x \notin 0..total_elems-1
  BY <1>1, <1>6, <1>9
<1> QED
  BY <1>2, <1>8, <1>10, Zenon

LEMMA NextIndexed ==
  ASSUME IInv, SegmentInv, Fits, SupportedTypes(Calls), IndexedSelectsTypeElements, [Next]_vars
  PROVE  IndexedSelectsTypeElements'
<1>1. CASE EnterLoops \/ Element \/ (Pick /\ pc' = "looped")
  <2>1. pc' # "returned"
    BY <1>1 DEF EnterLoops, Element
  <2> QED
    BY <2>1 DEF IndexedSelectsTypeElements
<1>2. CASE OtherStep
  <2>1. CASE call.type.builtin \/ (pc' = "returned" /\ rc' = "no memory")
    BY <1>2, <2>1 DEF OtherStep, IndexedSelectsTypeElements
  <2>2. CASE HIndexedPicked
    <3>1. /\ pc = "looped" /\ ~call.type.builtin /\ seg.j >= call.count
          /\ pc' = "returned" /\ call' = call /\ visited' = visited
          /\ \/ rc' = "abort"
             \/ array_datatype' = [n |-> Len(picked),
                                   disp |-> [k \in 0..Len(picked)-1 |-> picked[k+1]]]
                /\ rc' = "MPI_SUCCESS"
      BY <2>2 DEF HIndexedPicked, Return
    <3>2. /\ Elements \subseteq 0..total_elems-1
          /\ Len(picked) \in Nat /\ Cardinality(Elements) = Len(picked)
          /\ \A e \in Elements :
               LET below == Cardinality({x \in Elements : x < e})
               IN  /\ below \in 0..Len(picked)-1
                   /\ picked[below+1] = Displacement(visited[e]) - Displacement(Zero)
      BY <3>1, AllPicked
    <3>3. /\ Elements' = Elements /\ total_elems' = total_elems /\ Zero' = Zero
          /\ \A i : Displacement(i)' = Displacement(i)
      BY <3>1, Frame, FrameSegments, FrameDisplacement
    <3>4. CASE rc' = "abort"
      BY <3>4 DEF IndexedSelectsTypeElements
    <3>5. CASE array_datatype' = [n |-> Len(picked),
                                  disp |-> [k \in 0..Len(picked)-1 |-> picked[k+1]]]
               /\ rc' = "MPI_SUCCESS"
      <4>1. /\ array_datatype'.n = Len(picked)
            /\ \A k \in 0..Len(picked)-1 : array_datatype'.disp[k] = picked[k+1]
        BY <3>5
      <4>2. ASSUME NEW e \in Elements
            PROVE  array_datatype'.disp[Cardinality({x \in Elements : x < e})]
                     = Displacement(visited[e]) - Displacement(Zero)
        BY <3>2, <4>1, Zenon
      <4> QED
        BY <3>1, <3>2, <3>3, <3>5, <4>1, <4>2, Zenon DEF IndexedSelectsTypeElements
    <3> QED
      BY <3>1, <3>4, <3>5
  <2>3. CASE Pick /\ pc' # "looped"
    <3>1. rc' = "out of bounds" /\ ~(Elements \subseteq 0..total_elems-1) /\ call' = call
      BY <1>2, <2>3, OutsideArray DEF OtherStep
    <3>2. Elements' = Elements /\ total_elems' = total_elems
      BY <3>1, Frame, FrameSegments
    <3> QED
      BY <3>1, <3>2, Zenon DEF IndexedSelectsTypeElements
  <2> QED
    BY <1>2, <2>1, <2>2, <2>3 DEF OtherStep
<1>3. CASE UNCHANGED vars
  <2>1. /\ call' = call /\ pc' = pc /\ rc' = rc /\ array_datatype' = array_datatype
        /\ visited' = visited
    BY <1>3 DEF vars
  <2>2. /\ Elements' = Elements /\ total_elems' = total_elems /\ Zero' = Zero
        /\ \A i : Displacement(i)' = Displacement(i)
    BY <2>1, Frame, FrameSegments, FrameDisplacement
  <2> QED
    BY <2>1, <2>2, FrameFits DEF IndexedSelectsTypeElements
<1> QED
  BY <1>1, <1>2, <1>3, StepClasses DEF IInv

\* Sizes of a legal call of a predefined type are C integers.
LEMMA LegalSizes ==
  ASSUME call \in Calls, Legal, call.type.builtin
  PROVE  /\ ~ExtentTooLarge /\ call.count <= total_elems
         /\ call.count * elem_len <= IntMax
<1>1. /\ elem_len \in Nat /\ elem_len > 0 /\ call.count \in Int /\ IntMax \in Nat
  BY ElementFacts, CfiAssumption
<1>2. Rank \in 1..15 /\ \A n \in 1..Rank : n \in 0..15
  <2>1. Rank \in 1..15
    BY CallFacts, Zenon
  <2> QED
    BY <2>1
<1>3. \A n \in 1..Rank : Product[n] \in Int
  BY <1>2, ProductFacts
<1>4. /\ call.count >= 0 /\ call.count <= total_elems
      /\ \A n \in 1..Rank : Product[n] * elem_len <= IntMax
  BY Zenon DEF Legal
<1>5. \A n, e, m \in Int : e > 0 /\ m >= 0 /\ n * e <= m => n <= m
  <2> TAKE n, e, m \in Int
  <2> HAVE e > 0 /\ m >= 0 /\ n * e <= m
  <2>1. CASE n <= 0
    BY <2>1
  <2>2. CASE n > 0
    <3>1. n * e >= n
      BY <2>2
    <3> QED
      BY <3>1
  <2> QED
    BY <2>1, <2>2
<1>6. ASSUME NEW n \in 1..Rank PROVE ~(Extent(n-1) > IntMax) /\ ~(Product[n] > IntMax)
  <2>1. n - 1 \in 0..14
    BY <1>2
  <2>2. Extent(n-1) \in Int /\ Extent(n-1) <= IntMax
    <3>1. n - 1 \in Dims
      BY <1>2, CallFacts
    <3> QED
      BY <2>1, <3>1, ExtentInt DEF Legal, Fits
  <2>3. Product[n] <= IntMax
    BY <1>1, <1>3, <1>4, <1>5
  <2> QED
    BY <1>1, <1>3, <1>4, <2>2, <2>3
<1>7. total_elems \in Int /\ total_elems * elem_len <= IntMax
  BY <1>2, <1>3, <1>4 DEF total_elems
<1>8. call.count * elem_len <= IntMax
  <2>1. \A a, b, e \in Int : a <= b /\ e > 0 => a * e <= b * e
    OBVIOUS
  <2>2. call.count * elem_len <= total_elems * elem_len
    BY <1>1, <1>4, <1>7, <2>1
  <2>3. call.count * elem_len \in Int /\ total_elems * elem_len \in Int
    BY <1>1, <1>7
  <2> QED
    BY <1>1, <1>7, <2>2, <2>3
<1> QED
  BY <1>4, <1>6, <1>8 DEF ExtentTooLarge

LEMMA FrameLegal ==
  ASSUME call' = call
  PROVE  Legal' = Legal
BY Frame, FrameSegments, FrameFits, Zenon DEF Legal

LEMMA NextLegal ==
  ASSUME IInv, SegmentInv, SupportedTypes(Calls), LegalCallSucceeds, [Next]_vars
  PROVE  LegalCallSucceeds'
<1> SUFFICES ASSUME pc' = "returned", Legal' PROVE rc' \in {"MPI_SUCCESS", "no memory"}
  BY DEF LegalCallSucceeds
<1>1. call \in Calls
  BY DEF IInv, TypeOK
<1>2. call' = call
  BY SameCall
<1>3. Legal
  BY <1>2, FrameLegal
<1>4. /\ type_size = elem_len /\ call.count >= 0 /\ Rank < 15
      /\ type_size \in Nat /\ type_size > 0 /\ call.count \in Int
  BY <1>1, <1>3, ElementFacts DEF Legal
<1>5. ASSUME NEW t, NEW v, Create(t, v) PROVE FALSE
  <2>1. ~(type_size = 0 \/ call.count < 0)
    BY <1>4
  <2> QED
    BY <1>5, <2>1 DEF Create
<1>6. CASE TooManyElements
  <2>1. ~ExtentTooLarge /\ call.count <= total_elems /\ call.type.builtin
    BY <1>1, <1>3, <1>6, LegalSizes DEF TooManyElements
  <2>2. total_elems \in Int
    <3>1. Rank \in 1..15
      BY <1>1, CallFacts, Zenon
    <3>2. Rank \in 0..15
      BY <3>1
    <3> QED
      BY <1>1, <3>2, ProductFacts DEF total_elems
  <2>3. ~(call.count > total_elems)
    BY <1>4, <2>1, <2>2
  <2> QED
    BY <1>6, <2>1, <2>3, Zenon DEF TooManyElements
<1>7. CASE Vector \/ VectorOfRows \/ VectorOfVectors \/ HIndexed
  BY <1>5, <1>7 DEF Vector, VectorOfRows, VectorOfVectors, HIndexed
<1>8. CASE Unsupported
  <2>1. Rank # 15
    BY <1>4
  <2> QED
    BY <1>8, <2>1 DEF Unsupported
<1>9. CASE NoMemory
  BY <1>9 DEF NoMemory, Return
<1>10. CASE EnterLoops \/ Element
  BY <1>10 DEF EnterLoops, Element
<1>11. CASE VerifySize
  <2>1. call.type.builtin /\ Selected(array_datatype, visited)
    BY <1>11 DEF IInv, CreatedInv, VerifySize
  <2>2. call.count * elem_len <= IntMax
    BY <1>1, <1>3, <2>1, LegalSizes
  <2>3. array_datatype.n * type_size = call.count * elem_len
    BY <1>4, <2>1 DEF Selected
  <2>4. call.count * elem_len \in Int /\ IntMax \in Int
    BY <1>4, CfiAssumption
  <2>5. ~(call.count * elem_len > IntMax)
    BY <2>2, <2>4
  <2>6. TypeSize(array_datatype) = call.count * elem_len
    BY <2>3, <2>5 DEF TypeSize
  <2>7. \E same \in {TypeSize(array_datatype) = call.count * elem_len} :
          Return(IF same THEN "MPI_SUCCESS" ELSE "MPI_ERR_INTERN")
    BY <1>11, <2>5 DEF VerifySize
  <2>8. Return("MPI_SUCCESS")
    BY <2>6, <2>7
  <2> QED
    BY <2>8 DEF Return
<1>12. CASE Pick
  <2>1. ~call.type.builtin /\ pc' # "looped"
    BY <1>12 DEF Pick
  <2>2. Elements \subseteq 0..total_elems-1
    BY <1>3, <2>1, Zenon DEF Legal
  <2> QED
    BY <1>12, <2>1, <2>2, OutsideArray
<1>13. CASE HIndexedPicked
  <2>1. pc = "looped" /\ ~call.type.builtin /\ seg.j >= call.count
    BY <1>13 DEF HIndexedPicked
  <2>2. Len(picked) \in Nat /\ Cardinality(Elements) = Len(picked)
    BY <2>1, AllPicked
  <2>3. Cardinality(Elements) < IntMax
    BY <1>3, <2>1, Zenon DEF Legal
  <2>4. ~(type_size = 0 \/ Len(picked) >= IntMax)
    BY <1>4, <2>2, <2>3, CfiAssumption
  <2> QED
    BY <1>13, <2>4 DEF HIndexedPicked
<1>14. CASE UNCHANGED vars
  BY <1>3, <1>14 DEF LegalCallSucceeds, vars
<1> QED
  BY <1>6, <1>7, <1>8, <1>9, <1>10, <1>11, <1>12, <1>13, <1>14 DEF Next

\* A user-defined type, with count or elem_len 1 and increasing segments of natural
\* bases, and an array whose extents and element size are C integers: the datatype
\* that VAPAA_CFI_CREATE_INDEXED returns selects, in order, the elements of the
\* array that the type falls on, and no address behind the last one is read unless
\* one of them lies outside.
THEOREM IndexedCorrect == SupportedTypes(Calls) => (Spec => []IndexedSelectsTypeElements)
<1> SUFFICES ASSUME SupportedTypes(Calls) PROVE Spec => []IndexedSelectsTypeElements
  OBVIOUS
<1> DEFINE Inv == (Fits => SegmentInv) /\ IndexedSelectsTypeElements
<1>1. Init => Inv
  BY DEF Init, SegmentInv, IndexedSelectsTypeElements
<1>2. DatatypeInv /\ Inv /\ [Next]_vars => Inv'
  <2> SUFFICES ASSUME DatatypeInv, Inv, [Next]_vars PROVE Inv'
    OBVIOUS
  <2>1. Fits' <=> Fits
    BY SameCall, FrameFits
  <2>2. CASE Fits
    BY <2>1, <2>2, SegmentStep, NextIndexed DEF DatatypeInv
  <2>3. CASE ~Fits
    BY <2>1, <2>3 DEF IndexedSelectsTypeElements
  <2> QED
    BY <2>2, <2>3
<1>3. Inv => IndexedSelectsTypeElements
  OBVIOUS
<1> HIDE DEF Inv
<1> QED
  BY <1>1, <1>2, <1>3, DatatypeInvariance, PTL DEF Spec

\* VAPAA_CFI_CREATE_DATATYPE neither refuses a call within the array whose sizes
\* are C integers nor aborts it, except for lack of memory.
THEOREM LegalSucceeds == SupportedTypes(Calls) => (Spec => []LegalCallSucceeds)
<1> SUFFICES ASSUME SupportedTypes(Calls) PROVE Spec => []LegalCallSucceeds
  OBVIOUS
<1> DEFINE Inv == (Fits => SegmentInv) /\ LegalCallSucceeds
<1>1. Init => Inv
  BY DEF Init, SegmentInv, LegalCallSucceeds
<1>2. DatatypeInv /\ Inv /\ [Next]_vars => Inv'
  <2> SUFFICES ASSUME DatatypeInv, Inv, [Next]_vars PROVE Inv'
    OBVIOUS
  <2>1. Fits' <=> Fits
    BY SameCall, FrameFits
  <2>2. CASE Fits
    BY <2>1, <2>2, SegmentStep, NextLegal DEF DatatypeInv
  <2>3. CASE ~Fits
    BY <2>1, <2>3 DEF LegalCallSucceeds, Legal
  <2> QED
    BY <2>2, <2>3
<1>3. Inv => LegalCallSucceeds
  OBVIOUS
<1> HIDE DEF Inv
<1> QED
  BY <1>1, <1>2, <1>3, DatatypeInvariance, PTL DEF Spec
=============================================================================
