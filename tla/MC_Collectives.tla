--------------------------- MODULE MC_Collectives ---------------------------
(* Programs of Collectives for TLC. *)
EXTENDS Collectives

\* MPI_INTEGER, a user's MPI_Type_contiguous(2, MPI_INTEGER).
MCTypeMap ==
  [MPI_INTEGER |-> [disp |-> [k \in {0} |-> 0], extent |-> 1],
   pair        |-> [disp |-> [k \in {0, 1} |-> k], extent |-> 2]]

N == Cardinality(Procs)

\* Sections of the two arrays: all cells, or every second one.
Whole(a)  == [addr |-> a, stride |-> 1, size |-> NumCells]
Second(a) == [addr |-> a, stride |-> 2, size |-> NumCells \div 2]
InPlace   == [addr |-> f08_MPI_IN_PLACE, stride |-> 1, size |-> 1]

Each(n) == [q \in Procs |-> n]

Arguments(in, sn, st, out, rn, rt) ==
  [in |-> in, scount |-> sn, stype |-> st, out |-> out, rcount |-> rn, rtype |-> rt,
   scounts |-> Each(sn), sdispls |-> [q \in Procs |-> q * sn],
   rcounts |-> Each(rn), rdispls |-> [q \in Procs |-> q * rn]]

Round(routine, root, op, arg) == [routine |-> routine, root |-> root, op |-> op, arg |-> arg]

Same(in, sn, st, out, rn, rt) == [p \in Procs |-> Arguments(in, sn, st, out, rn, rt)]

\* Root r passes other arguments than the rest.
ForRoot(r, a, b) == [p \in Procs |-> IF p = r THEN a ELSE b]

I == "MPI_INTEGER"
Roots == {0, N - 1}

Barrier == Round("Barrier", 0, "none", Same(Whole("in"), 0, I, Whole("out"), 0, I))

\* One process has a section, the others a whole array.
Bcasts ==
  {Round("Bcast", r, "none", ForRoot(r, Arguments(a, n, I, a, n, I), Arguments(b, n, I, b, n, I))) :
     r \in Roots, n \in {1, 4}, a \in {Whole("in"), Second("in")}, b \in {Whole("in"), Second("in")}}
  \cup {Round("Bcast", N, "none", Same(Second("in"), 2, I, Second("in"), 2, I)),
        \* a section that is too short
        Round("Bcast", 0, "none", Same(Second("in"), NumCells, I, Second("in"), NumCells, I))}

Reduces ==
  {Round("Reduce", r, op, Same(Whole("in"), 2, t, Whole("out"), 2, t)) :
     r \in Roots, op \in {"MPI_SUM", "user"}, t \in {I, "pair"}}
  \cup {Round("Reduce", r, "MPI_SUM", ForRoot(r, Arguments(InPlace, 2, I, Whole("out"), 2, I),
                                                 Arguments(Whole("in"), 2, I, Whole("out"), 2, I))) :
          r \in Roots}
  \cup {Round("Allreduce", 0, op, Same(in, 2, t, out, 2, t)) :
          op \in {"MPI_SUM", "user"}, t \in {I, "pair"}, in \in {Whole("in"), Second("in"), InPlace},
          out \in {Whole("out")}}

\* Gather and the like into arrays that are contiguous.
Sends == {<<Whole("in"), 2, I>>, <<Second("in"), 2, I>>, <<Whole("in"), 1, "pair">>}

Gathering ==
  {Round(f, r, "none", Same(s[1], s[2], s[3], Whole("out"), 2, I)) :
     f \in {"Gather", "Allgather"}, r \in Roots, s \in Sends}
  \cup {Round("Gather", r, "none", ForRoot(r, Arguments(InPlace, 0, I, Whole("out"), 2, I),
                                              Arguments(Second("in"), 2, I, Second("out"), 1, I))) :
          r \in Roots}
  \cup {Round("Gather", N, "none", Same(Second("in"), 2, I, Second("out"), 2, I)),
        Round("Allgather", 0, "none", Same(InPlace, 0, I, Whole("out"), 2, I))}

Scattering ==
  {Round("Scatter", r, "none", Same(Whole("in"), 2, I, out, 2, I)) :
     r \in Roots, out \in {Whole("out"), Second("out")}}
  \cup {Round("Scatter", r, "none", ForRoot(r, Arguments(Whole("in"), 2, I, InPlace, 0, I),
                                               Arguments(Whole("in"), 2, I, Second("out"), 2, I))) :
          r \in Roots}
  \cup {Round("Scatter", N, "none", Same(Second("in"), 2, I, Second("out"), 2, I))}

Alltoalls ==
  {Round("Alltoall", 0, "none", Same(in, 2, I, Whole("out"), 2, I)) : in \in {Whole("in"), InPlace}}

\* Blocks of different sizes, in the opposite order, with gaps.
Ragged(in, out) ==
  [p \in Procs |->
     [in |-> in, scount |-> p + 1, stype |-> I, out |-> out, rcount |-> p + 1, rtype |-> I,
      scounts |-> [q \in Procs |-> q + 1], sdispls |-> [q \in Procs |-> 3 * (N - 1 - q)],
      rcounts |-> [q \in Procs |-> q + 1], rdispls |-> [q \in Procs |-> 3 * (N - 1 - q)]]]
RaggedAll(in, out) ==
  [p \in Procs |-> [Ragged(in, out)[p] EXCEPT !.rcounts = [q \in Procs |-> p + 1]]]

VectorCalls ==
  {Round(f, r, "none", Ragged(in, Whole("out"))) :
     f \in {"Gatherv", "Allgatherv", "Scatterv"}, r \in Roots, in \in {Whole("in"), Second("in")}}
  \cup {Round("Alltoallv", 0, "none", RaggedAll(in, Whole("out"))) : in \in {Whole("in"), Second("in")}}

Rounds == {Barrier} \cup Bcasts \cup Reduces \cup Gathering \cup Scattering \cup Alltoalls
          \cup VectorCalls

\* Programs of one call, and of a call after one that processes may leave
\* early or that is refused.
AfterOther(c) == {<<a, c>> : a \in {d \in Rounds : d.routine \in {"Reduce", "Bcast", "Scatter", "Gather"}}}

MCPrograms == {<<c>> : c \in Rounds} \cup AfterOther(Barrier)
              \cup AfterOther(Round("Allgather", 0, "none", Same(Second("in"), 2, I, Whole("out"), 2, I)))

\* Sections that receive, or send, a block for each process.
MCSectionPrograms ==
  {<<Round("Gather", 0, "none", Same(Whole("in"), 2, I, Second("out"), 2, I))>>,
   <<Round("Allgather", 0, "none", Same(Whole("in"), 2, I, Second("out"), 2, I))>>,
   <<Round("Scatter", 0, "none", Same(Second("in"), 2, I, Whole("out"), 2, I))>>,
   <<Round("Alltoall", 0, "none", Same(Second("in"), 2, I, Second("out"), 2, I))>>}
=============================================================================
