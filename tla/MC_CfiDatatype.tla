--------------------------- MODULE MC_CfiDatatype ---------------------------
(* Calls of CfiDatatype for TLC: noncontiguous descriptors of small arrays. *)
EXTENDS CfiDatatype

Desc(extents, sms, size) ==
  [rank |-> Len(extents), elem_len |-> 4, type_size |-> size,
   dim |-> [d \in 0..Len(extents)-1 |-> [extent |-> extents[d+1], sm |-> sms[d+1]]]]

\* Strides in bytes: contiguous, every second and reversed elements in the first
\* dimension, and distinct larger strides in the others.
Rank1 == {Desc(<<e>>, <<s>>, 4) : e \in 0..5, s \in {8, -4}}
Rank2 == {Desc(<<e, f>>, <<s, t>>, z) : e \in 0..4, f \in -1..3, s \in {4, 8, -4},
                                        t \in {40, -40}, z \in {4}}
Rank3 == {Desc(<<e, f, g>>, <<s, 40, 200>>, 4) : e \in 1..3, f \in 0..2, g \in -1..2, s \in {4, 8}}
Rank4 == {Desc(<<e, f, 2, g>>, <<8, 40, 200, -1000>>, 4) : e \in 1..2, f \in 1..2, g \in 1..2}

\* Rank 15, called with few counts: enumerating its subscripts takes TLC minutes.
Ones  == [d \in 1..13 |-> 1]
Rank15 == {Desc(<<2>> \o Ones \o <<2>>, [d \in 1..15 |-> 8 * d], 4)}

\* Elements whose MPI type is unknown, or shorter than the element.
Odd == {Desc(<<3>>, <<8>>, 0), Desc(<<2, 2>>, <<8, 40>>, 1), Desc(<<2, 2>>, <<4, 40>>, 1)}

Arrays == Rank1 \cup Rank2 \cup Rank3 \cup Rank4 \cup Odd

Builtin == [builtin |-> TRUE, iov |-> <<[base |-> 0, len |-> 4]>>, extent |-> 4]

\* MPI_Type_vector(2, 1, 2) and MPI_Type_vector(2, 2, 3) of four-byte elements.
UserTypes ==
  {[builtin |-> FALSE, extent |-> 12,
    iov |-> <<[base |-> 0, len |-> 4], [base |-> 8, len |-> 4]>>],
   [builtin |-> FALSE, extent |-> 20,
    iov |-> <<[base |-> 0, len |-> 8], [base |-> 12, len |-> 8]>>]}

BuiltinCalls == {[desc |-> a, count |-> n, type |-> Builtin] : a \in Arrays, n \in -1..13}
                \cup {[desc |-> a, count |-> n, type |-> Builtin] : a \in Rank15, n \in {0, 1, 3, 5}}

UserArrays == Rank1 \cup Rank2 \cup Rank3

\* Types in the array and types that reach outside.
UserCalls(counts) == {[desc |-> a, count |-> n, type |-> t] : a \in UserArrays, n \in counts, t \in UserTypes}

\* Repetitions of a type of single bytes, with and without a gap.
ByteArrays == {[Desc(<<e, 2>>, <<2, 10>>, 1) EXCEPT !.elem_len = 1] : e \in 2..4}
ByteTypes  == {[builtin |-> FALSE, extent |-> x,
                iov |-> <<[base |-> 0, len |-> 1], [base |-> 2, len |-> 1]>>] : x \in 3..4}
ByteCalls  == {[desc |-> a, count |-> n, type |-> t] : a \in ByteArrays, n \in 1..3, t \in ByteTypes}

\* Extents that are no C integer; as C integers they are negative, 0, 1 and 2.
LargeArrays == {Desc(<<e>>, <<8>>, 4) : e \in {45, 90, 91, 92}} \cup {Desc(<<92, 2>>, <<8, 800>>, 4)}
LargeCalls  == {[desc |-> a, count |-> n, type |-> t] :
                  a \in LargeArrays, n \in 0..1, t \in UserTypes \cup {Builtin}}

MCCalls       == BuiltinCalls \cup UserCalls(0..1) \cup ByteCalls \cup LargeCalls
ASSUME SupportedTypesAssumption == SupportedTypes(MCCalls)

\* Two repetitions, which fit into the packed array.
MCSecondCalls ==
  {c \in UserCalls({2}) :
     c.count * c.type.extent <=
       4 * c.desc.dim[0].extent * (IF c.desc.rank > 1 THEN c.desc.dim[1].extent ELSE 1)
                                * (IF c.desc.rank > 2 THEN c.desc.dim[2].extent ELSE 1)}
MCLibUndefined == -32766
=============================================================================
