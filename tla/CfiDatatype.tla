----------------------------- MODULE CfiDatatype -----------------------------
(***************************************************************************)
(* VAPAA_CFI_CREATE_DATATYPE (cfi_util.c): from the descriptor of a        *)
(* noncontiguous Fortran array and a count of MPI elements, the datatype   *)
(* that picks those elements out of the array.                             *)
(*                                                                         *)
(* For a predefined MPI type the code chooses, by rank and count, a        *)
(* vector, a vector of rows, a vector of vectors, or a list of             *)
(* displacements that nested loops enumerate.  For a user-defined type it  *)
(* enumerates all elements of the array and then picks those the segments  *)
(* (the I/O vector) of that type fall on.                                  *)
(*                                                                         *)
(* A datatype is [n, disp]: n elements of the descriptor's type at byte    *)
(* displacements disp[0], ..., disp[n-1], in the order of its type map.    *)
(***************************************************************************)
EXTENDS Integers, Sequences, FiniteSets

CONSTANTS
  Calls,     \* the calls: a descriptor, a count and an MPI datatype each
  IntMax,    \* INT_MAX
  LibUndefined  \* MPI_UNDEFINED of the library, its size of a type too large

\* A descriptor; type_size is the size of the MPI type that CFI_TO_MPI_TYPE
\* returns for the element type, 0 when that is MPI_DATATYPE_NULL.  The last
\* extent of an assumed-size array is -1.  An element, not the array, is smaller
\* than INT_MAX bytes: elem_len becomes an int too, and nothing says what then.
IsDescriptor(d) ==
  /\ d \in [rank : 1..15, elem_len : 1..IntMax, type_size : Nat,
             dim : [0..d.rank-1 -> [extent : Nat \cup {-1}, sm : Int]]]
  /\ \A x \in 0..d.rank-2 : d.dim[x].extent >= 0

\* A user-defined type has segments in its I/O vector, and an extent, in bytes
\* (bounds: no negative lower bound of a segment, no negative extent).
IsDatatype(t) ==
  /\ t \in [builtin : BOOLEAN, iov : Seq([base : Nat, len : Nat]), extent : Nat]
  /\ t.iov # <<>>

ASSUME CfiAssumption ==
  /\ \A c \in Calls : /\ IsDescriptor(c.desc) /\ IsDatatype(c.type)
                       /\ c.count \in -IntMax-1..IntMax
  /\ IntMax \in Nat
  /\ LibUndefined \in Int /\ LibUndefined < 0

VARIABLES
  call,    \* the arguments, which do not change
  pc,      \* where the function is
  idx,     \* the loop indices i0, i1, ...
  offset,  \* elements enumerated so far
  array_of_displacements,
  visited, \* history: the subscripts each displacement was computed from
  seg,     \* user-defined type: repetition j and segment i of the I/O vector
  picked,  \* displacements of the elements picked for a user-defined type
  array_datatype,  \* the datatype created
  rc               \* the value returned, or why the program was aborted

vars == <<call, pc, idx, offset, array_of_displacements, visited, seg, picked,
          array_datatype, rc>>

Rank == call.desc.rank
Dims == 0..Rank-1
elem_len  == call.desc.elem_len
type_size == call.desc.type_size
Extent(d) == IF Rank > d THEN call.desc.dim[d].extent ELSE 1
Sm(d)     == IF Rank > d THEN call.desc.dim[d].sm ELSE 0

\* The conversion of an extent to an int, and the extent that the nested loops
\* are bounded by.
AsInt(x) == ((x + IntMax + 1) % (2 * (IntMax + 1))) - (IntMax + 1)
LoopExtent(d) == AsInt(Extent(d))

\* No extent changes by that; calls with a predefined type are refused otherwise.
Fits == \A d \in Dims : Extent(d) <= IntMax

\* The displacement the innermost statement of the nested loops computes.
Displacement(i) ==
  LET sum[n \in 0..Rank] == IF n = 0 THEN 0 ELSE sum[n-1] + Sm(n-1) * i[n-1]
  IN  sum[Rank]

\* The product of the first n extents: total_elems after n rounds of its loop.
Product[n \in 0..15] == IF n = 0 THEN 1 ELSE Product[n-1] * Extent(n-1)

total_elems == Product[Rank]

Zero == [d \in Dims |-> 0]

NoType == [n |-> 0, disp |-> <<>>]
-----------------------------------------------------------------------------
(* Datatype constructors of the MPI library, on elements of the array. *)

\* bl consecutive elements: a block of PMPI_Type_create_hvector.
Block(bl) == [n |-> bl, disp |-> [k \in 0..bl-1 |-> k * type_size]]

\* PMPI_Type_create_hvector: count blocks, stride bytes apart.
HVector(count, stride, block) ==
  [n |-> count * block.n,
   disp |-> [k \in 0..count * block.n - 1 |->
               stride * (k \div block.n) + block.disp[k % block.n]]]

\* PMPI_Type_size
TypeSize(t) ==
  IF t.n * type_size > IntMax THEN LibUndefined ELSE t.n * type_size
-----------------------------------------------------------------------------
Init ==
  /\ call \in Calls
  /\ pc = "start"
  /\ idx = Zero
  /\ offset = 0
  /\ array_of_displacements = <<>>
  /\ visited = <<>>
  /\ seg = [j |-> 0, i |-> 1]
  /\ picked = <<>>
  /\ array_datatype = NoType
  /\ rc = "none"

\* The function returns a code, or an assertion aborts the program.
Return(code) ==
  /\ pc' = "returned"
  /\ rc' = code
  /\ UNCHANGED <<call, idx, offset, array_of_displacements, visited, seg, picked,
                 array_datatype>>
-----------------------------------------------------------------------------
(* Predefined MPI types: the checks before a type is created. *)

ExtentTooLarge ==
  \E n \in 1..Rank : Extent(n-1) > IntMax \/ Product[n] > IntMax

TooManyElements ==
  /\ pc = "start" /\ call.type.builtin
  /\ IF ExtentTooLarge THEN Return("MPI_ERR_COUNT")
     ELSE call.count > total_elems /\ Return("MPI_ERR_ARG")

Accepted ==
  /\ pc = "start" /\ call.type.builtin
  /\ ~ExtentTooLarge
  /\ call.count <= total_elems

\* The elements lie in one row, or in one plane, of the array.
InRow_OneMore == Rank = 1 \/ call.count <= Extent(0) + 1  \* mutant: off by one
WholeRows_Assumed == TRUE                                   \* mutant: no check

InRow   == Rank = 1 \/ call.count <= Extent(0)
InPlane == ~InRow /\ (Rank = 2 \/ call.count <= Extent(0) * Extent(1))
WholeRows == call.count % Extent(0) = 0

\* The library refuses MPI_DATATYPE_NULL and negative counts; the assertion
\* after the call then aborts.
Create(t, v) ==
  IF type_size = 0 \/ call.count < 0 THEN Return("abort")
  ELSE /\ pc' = "created"
       /\ array_datatype' = t
       /\ visited' = v
       /\ UNCHANGED <<call, idx, offset, array_of_displacements, seg, picked, rc>>

\* The subscripts of element k when only the first two vary.
Subscript2(i0, i1) == [d \in Dims |-> IF d = 0 THEN i0 ELSE IF d = 1 THEN i1 ELSE 0]

Vector ==
  /\ Accepted /\ InRow
  /\ Create(HVector(call.count, Sm(0), Block(1)),
            [k \in 0..call.count-1 |-> Subscript2(k, 0)])

RowsVisited == [k \in 0..call.count-1 |-> Subscript2(k % Extent(0), k \div Extent(0))]

\* The first dimension is contiguous: one type, of whole rows.
VectorOfRows ==
  /\ Accepted /\ InPlane /\ WholeRows
  /\ Sm(0) = elem_len
  /\ Create(HVector(call.count \div Extent(0), Sm(1), Block(Extent(0))), RowsVisited)

\* Otherwise a temporary type for a row, and a vector of those.
VectorOfVectors ==
  /\ Accepted /\ InPlane /\ WholeRows
  /\ Sm(0) # elem_len
  /\ Create(HVector(call.count \div Extent(0), Sm(1),
                    HVector(Extent(0), Sm(0), Block(1))), RowsVisited)

\* Rank 15 is not supported.
Unsupported ==
  /\ Accepted /\ ~InRow /\ ~InPlane /\ Rank = 15
  /\ Return("MPI_ERR_ARG")
-----------------------------------------------------------------------------
(* The nested loops.  Two loops run when the elements lie in a plane, and  *)
(* as many as the array has dimensions otherwise: in the code 3, or 15     *)
(* with extent 1 for the dimensions the array does not have.               *)

LoopDims == IF call.type.builtin /\ InPlane THEN 0..1 ELSE Dims

\* The loops end early when count elements were enumerated; those over all
\* elements, for a user-defined type, do not.
Enough_Never(n) == FALSE  \* mutant: the goto out of the loops is missing
Enough(n) == call.type.builtin /\ n = call.count

Enumerates ==
  \/ Accepted /\ ~InRow /\ IF InPlane THEN ~WholeRows ELSE Rank < 15
  \/ pc = "start" /\ ~call.type.builtin

\* A malloc fails and the assertion after it aborts the program.
NoMemory == Enumerates /\ Return("no memory")

\* With a negative count, or number of elements, the size asked of malloc is
\* too large.
EnterLoops ==
  /\ Enumerates
  /\ call.count >= 0 /\ (call.type.builtin \/ total_elems >= 0)
  /\ pc' = IF \A d \in LoopDims : LoopExtent(d) > 0 THEN "loop" ELSE "looped"
  /\ UNCHANGED <<call, idx, offset, array_of_displacements, visited, seg, picked,
                 array_datatype, rc>>

Last(i) == \A d \in LoopDims : i[d] = LoopExtent(d) - 1

\* The innermost loop that is not at its end goes on; those inside it restart.
Advance(i) ==
  LET d == CHOOSE x \in LoopDims : /\ i[x] < LoopExtent(x) - 1
                                   /\ \A y \in 0..x-1 : i[y] = LoopExtent(y) - 1
  IN  [e \in Dims |-> IF e < d THEN 0 ELSE IF e = d THEN i[e] + 1 ELSE i[e]]

\* Mutant: the offset is incremented before the store.
Store_TooLate(f, x) == [k \in 1..offset+1 |-> IF k = offset + 1 THEN x ELSE f[k]]

Store(f, x) == [k \in 0..offset |-> IF k = offset THEN x ELSE f[k]]

Element ==
  /\ pc = "loop"
  /\ array_of_displacements' = Store(array_of_displacements, Displacement(idx))
  /\ visited' = Store(visited, idx)
  /\ offset' = offset + 1
  /\ IF Enough(offset + 1) \/ Last(idx)
     THEN pc' = "looped" /\ idx' = idx
     ELSE pc' = "loop"   /\ idx' = Advance(idx)
  /\ UNCHANGED <<call, seg, picked, array_datatype, rc>>

\* PMPI_Type_create_hindexed of the elements enumerated.
HIndexed ==
  /\ pc = "looped" /\ call.type.builtin
  /\ Create([n |-> call.count, disp |-> array_of_displacements], visited)

\* Whatever was created must have the size of count elements.  A product that
\* is no C integer is undefined, and so is what the comparison says.
VerifySize ==
  /\ pc = "created"
  /\ \E same \in IF call.count * elem_len > IntMax THEN BOOLEAN
                 ELSE {TypeSize(array_datatype) = call.count * elem_len} :
       Return(IF same THEN "MPI_SUCCESS" ELSE "MPI_ERR_INTERN")
-----------------------------------------------------------------------------
(* VAPAA_CFI_CREATE_INDEXED: user-defined types. *)

\* One segment of the type's I/O vector, at repetition seg.j of the type.
SegmentFirst_NoBase == seg.j * call.type.extent  \* mutant: the base is dropped

SegmentFirst  == call.type.iov[seg.i].base \div elem_len + seg.j * call.type.extent
SegmentLength == call.type.iov[seg.i].len \div elem_len

Pick ==
  /\ pc = "looped" /\ ~call.type.builtin
  /\ seg.j < call.count
  /\ IF SegmentLength = 0 \/ SegmentFirst + SegmentLength <= offset
     THEN /\ picked' = picked \o [k \in 1..SegmentLength |->
                array_of_displacements[SegmentFirst + k - 1] - array_of_displacements[0]]
          /\ seg' = IF seg.i < Len(call.type.iov) THEN [seg EXCEPT !.i = @ + 1]
                    ELSE [j |-> seg.j + 1, i |-> 1]
          /\ UNCHANGED <<pc, rc>>
     ELSE pc' = "returned" /\ rc' = "out of bounds" /\ UNCHANGED <<picked, seg>>
  /\ UNCHANGED <<call, idx, offset, array_of_displacements, visited, array_datatype>>

HIndexedPicked ==
  /\ pc = "looped" /\ ~call.type.builtin
  /\ seg.j >= call.count
  /\ IF type_size = 0 \/ Len(picked) >= IntMax THEN Return("abort")
     ELSE /\ pc' = "returned" /\ rc' = "MPI_SUCCESS"
          /\ array_datatype' = [n |-> Len(picked), disp |-> [k \in 0..Len(picked)-1 |-> picked[k+1]]]
          /\ UNCHANGED <<call, idx, offset, array_of_displacements, visited, seg, picked>>

Next ==
  \/ TooManyElements \/ Vector \/ VectorOfRows \/ VectorOfVectors \/ Unsupported
  \/ NoMemory \/ EnterLoops \/ Element \/ HIndexed \/ VerifySize
  \/ Pick \/ HIndexedPicked

Spec == Init /\ [][Next]_vars
-----------------------------------------------------------------------------
(* Properties. *)

Codes == {"none", "MPI_SUCCESS", "MPI_ERR_COUNT", "MPI_ERR_ARG", "MPI_ERR_INTERN",
          "abort", "no memory", "out of bounds"}

TypeOK ==
  /\ call \in Calls
  /\ pc \in {"start", "loop", "looped", "created", "returned"}
  /\ idx \in [Dims -> Nat]
  /\ offset \in Nat
  /\ array_of_displacements \in [0..offset-1 -> Int]
  /\ rc \in Codes

IsSubscript(i) == i \in [Dims -> Nat] /\ \A d \in Dims : i[d] < Extent(d)

Subscripts ==
  {i \in [Dims -> UNION {0..Extent(d)-1 : d \in Dims}] : IsSubscript(i)}

\* Array element order: the first subscript varies fastest.
Precedes(a, b) ==
  \E d \in Dims : a[d] < b[d] /\ \A e \in d+1..Rank-1 : a[e] = b[e]

Successor(a, b) ==
  Precedes(a, b) /\ \A u \in Subscripts : ~(Precedes(a, u) /\ Precedes(u, b))

\* v lists the first n elements of the array, in array element order.
InElementOrder(v, n) ==
  /\ DOMAIN v = 0..n-1
  /\ n > 0 => v[0] = Zero
  /\ \A k \in 0..n-1 : IsSubscript(v[k])
  /\ \A k \in 0..n-2 : Successor(v[k], v[k+1])

\* For a predefined type the datatype returned picks the first count elements
\* of the array in array element order, at their addresses and in full, on
\* whichever of the six ways it was built (unless the size of all of them is
\* no C integer, when the size check compares overflowed values).
SelectsInElementOrder ==
  /\ pc = "returned" /\ rc = "MPI_SUCCESS" /\ call.type.builtin
  /\ call.count * elem_len <= IntMax
  => /\ array_datatype.n = call.count
     /\ call.count > 0 => type_size = elem_len
     /\ InElementOrder(visited, call.count)
     /\ \A k \in 0..call.count-1 : array_datatype.disp[k] = Displacement(visited[k])

\* The loops write each element of the malloc'ed array of displacements or
\* addresses once and nothing after it, so what the library is given is
\* initialised, when each extent is a C integer.  (When one is not, the array of
\* addresses has total_elems elements and the loops end earlier.)
EachDisplacementWrittenOnce ==
  LET size == IF call.type.builtin THEN call.count ELSE total_elems
  IN  Fits => /\ pc = "loop" => offset < size
              /\ pc = "looped" => offset = size

\* Numbers of the array elements that count repetitions of a user-defined type
\* fall on, when the array is taken as packed.
Elements ==
  UNION {{(j * call.type.extent + call.type.iov[i].base) \div elem_len + k :
            k \in 0..call.type.iov[i].len \div elem_len - 1}
         : j \in 0..call.count-1, i \in DOMAIN call.type.iov}

\* For a user-defined type (with an increasing type map), and an array whose
\* extents are C integers, the datatype returned picks, in order, the elements
\* that the type falls on in the packed array, and no address is read but those
\* of the array, unless an element lies outside.
IndexedSelectsTypeElements ==
  /\ pc = "returned" /\ ~call.type.builtin /\ Fits
  /\ rc \in {"MPI_SUCCESS", "out of bounds"}
  => IF Elements \subseteq 0..total_elems-1
    THEN /\ rc = "MPI_SUCCESS"
         /\ array_datatype.n = Cardinality(Elements)
         /\ \A e \in Elements :
              array_datatype.disp[Cardinality({x \in Elements : x < e})]
                = Displacement(visited[e]) - Displacement(Zero)
    ELSE rc = "out of bounds"

\* Calls within the array whose sizes are C integers.
Legal ==
  /\ type_size = elem_len /\ call.count >= 0 /\ Rank < 15 /\ Fits
  /\ IF call.type.builtin
     THEN /\ call.count <= total_elems
          /\ \A n \in 1..Rank : Product[n] * elem_len <= IntMax
     ELSE Elements \subseteq 0..total_elems-1 /\ Cardinality(Elements) < IntMax

\* No legal call is rejected or aborted, except for lack of memory.
LegalCallSucceeds ==
  pc = "returned" /\ Legal => rc \in {"MPI_SUCCESS", "no memory"}
-----------------------------------------------------------------------------
\* The calls for which the code treats a user-defined type as MPI does: its
\* segments follow one another, also from one repetition to the next, and the
\* unit of its extent does not matter (run repeat shows what it does otherwise).
Increasing(type, count) ==
  LET End(i) == type.iov[i].base + type.iov[i].len
      last   == Len(type.iov)
  IN  /\ \A i \in 1..last-1 : End(i) <= type.iov[i+1].base
      /\ count > 1 => End(last) <= type.extent + type.iov[1].base

SupportedTypes(calls) ==
  \A c \in calls : ~c.type.builtin =>
    Increasing(c.type, c.count) /\ (c.count <= 1 \/ c.desc.elem_len = 1)
=============================================================================
