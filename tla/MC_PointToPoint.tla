--------------------------- MODULE MC_PointToPoint ---------------------------
(* Programs of PointToPoint, and of collectives, for TLC. *)
EXTENDS PointToPoint, MC_Collectives

\* The values of MPICH.
MPICH_PROC_NULL  == -1
MPICH_ANY_SOURCE == -2
MPICH_ANY_TAG    == -1

Wait == [in |-> Whole("in"), scount |-> 0, stype |-> I, out |-> Whole("out"), rcount |-> 0,
         rtype |-> I, op |-> "Wait", dest |-> 0, stag |-> 0, source |-> 0, rtag |-> 0,
         status |-> FALSE, handle |-> "a", restart |-> FALSE]

\* Calls of one process.
From(op, dest, tag, in, n, t) ==
  [Wait EXCEPT !.op = op, !.dest = dest, !.stag = tag, !.in = in, !.scount = n, !.stype = t]
Into(op, source, tag, out, n, t) ==
  [Wait EXCEPT !.op = op, !.source = source, !.rtag = tag, !.out = out, !.rcount = n,
               !.rtype = t, !.status = TRUE]
Exchange(dest, source, in, sn, out, rn) ==
  [Wait EXCEPT !.op = "Sendrecv", !.dest = dest, !.source = source, !.in = in, !.scount = sn,
               !.out = out, !.rcount = rn, !.stag = 1, !.rtag = 1, !.status = TRUE]
Via(call, handle) == [call EXCEPT !.handle = handle]
PackInto(in, n, out, restart) ==
  [Wait EXCEPT !.op = "Pack", !.in = in, !.scount = n, !.out = out, !.restart = restart]
UnpackFrom(in, out, n, restart) ==
  [Wait EXCEPT !.op = "Unpack", !.in = in, !.out = out, !.rcount = n, !.restart = restart]

\* The calls of processes 0 and 1 side by side.
Both(a, b) == Round("PointToPoint", 0, "none", [p \in Procs |-> IF p = 0 THEN a ELSE b])
All(call(_)) == Round("PointToPoint", 0, "none", [p \in Procs |-> call(p)])
Waits == Both(Wait, Wait)

ANY_SOURCE == -2000
ANY_TAG    == -2001

Sources == {<<Whole("in"), 4, I>>, <<Second("in"), 3, I>>, <<Whole("in"), 2, "pair">>}
Targets == {<<Whole("out"), 4, I>>, <<Second("out"), 4, I>>, <<Whole("out"), 2, "pair">>}

\* One message, from every kind of send into every kind of receive, and one
\* that does not fit.
Transfers ==
  {<<Both(From(f, 1, 1, s[1], s[2], s[3]), Into(g, 0, 1, t[1], t[2], t[3])), Waits>> :
     f \in {"Send", "Isend"}, g \in {"Recv", "Irecv"}, s \in Sources, t \in Targets}
  \cup {<<Both(From("Isend", 1, 1, Whole("in"), 4, I), Into(g, 0, 1, Second("out"), 2, I)), Waits>> :
          g \in {"Recv", "Irecv"}}

\* Several messages: taken by tag in another order, by probes, in their own
\* order, to oneself, and with collectives in between.
Sequences2 ==
  LET first(op)  == From(op, 1, 1, Second("in"), 2, I)
      second(op) == From(op, 1, 2, Whole("in"), 3, I)
      take(op, tag, s) == Into(op, 0, tag, s, 3, I)
      probe(tag, v)    == Via(Into("Mprobe", 0, tag, Whole("out"), 0, I), v)
      self(p) == Exchange(p, p, Second("in"), 4, Second("out"), 4)
  IN  {<<Both(first("Isend"), take("Irecv", 2, Second("out"))),
         Both(second("Isend"), take("Recv", 1, Whole("out"))), Waits>>,
       <<Both(first("Isend"), take("Irecv", 1, Second("out"))), Barrier,
         Both(first("Send"), take("Recv", 1, Second("in"))), Waits>>,
       <<Both(first("Isend"), Into("Probe", 0, 1, Whole("out"), 0, I)),
         Both(Wait, take("Recv", 1, Second("out")))>>,
       <<Both(first("Isend"), probe(2, "a")), Both(second("Isend"), probe(1, "b")),
         Both(Wait, Via(take("Mrecv", 2, Second("out")), "a")),
         Both(Wait, Via(take("Imrecv", 1, Second("in")), "b")), Waits>>,
       <<Both(first("Isend"), probe(1, "b")), Both(second("Isend"), Via(take("Imrecv", 1, Second("out")), "b")),
         Both(Wait, probe(2, "a")), Both(Wait, Via(take("Mrecv", 2, Second("in")), "a")), Waits>>,
       <<Both(From("Isend", 1, 1, Whole("in"), 3, I), probe(1, "a")),
         Both(second("Isend"), Via(take("Imrecv", 1, Whole("out")), "a")), Both(Wait, probe(2, "b")),
         Both(Wait, Via(take("Mrecv", 2, Whole("in")), "b")), Waits>>,
       <<Both(first("Isend"), take("Irecv", 1, Second("out"))),
         Round("Gather", 1, "none", Same(Whole("in"), 2, I, Whole("in"), 2, I)), Waits>>,
       <<All(self)>>}

Exchanges2 ==
  {<<All(LAMBDA p : Exchange(1 - p, 1 - p, x[1], 3, x[2], 4))>> :
     x \in {<<Whole("in"), Whole("out")>>, <<Second("in"), Whole("out")>>, <<Second("in"), Second("out")>>}}
  \cup {<<All(LAMBDA p : Exchange(1 - p, 1 - p, Second("in"), 5, Whole("out"), 4))>>}

\* Calls that are refused, and what follows.
Refused2 ==
  {<<Both(From(f, d[1], d[2], Second("in"), 2, I), Into(g, x[1], x[2], Second("out"), 2, I)),
     Both(From("Isend", 1, 1, Second("in"), 2, I), Into("Recv", 0, 1, Second("out"), 2, I)), Waits>> :
     f \in {"Send", "Isend"}, g \in {"Recv", "Irecv", "Mprobe"}, d \in {<<-19, 1>>, <<1, -1>>},
     x \in {<<ANY_SOURCE, 1>>, <<0, ANY_TAG>>}}
  \cup {<<All(LAMBDA p : Exchange(-19, 1 - p, Second("in"), 2, Second("out"), 2))>>,
        \* the null process, and a message that was never probed
        <<All(LAMBDA p : Into("Mprobe", -19, 1, Whole("out"), 0, I)),
          All(LAMBDA p : Into("Mrecv", 0, 1, Second("out"), 2, I))>>,
        <<All(LAMBDA p : Into("Probe", -19, 1, Whole("out"), 0, I)),
          All(LAMBDA p : Into("Probe", ANY_SOURCE, 1, Whole("out"), 0, I)),
          Both(Into("Mrecv", 0, 1, Second("out"), 2, I), Into("Imrecv", 0, 1, Second("out"), 2, I))>>,
        <<Both(From("Send", 1, 0, Second("in"), 5, I), Into("Recv", 0, 0, Second("out"), 5, I))>>}

\* Sections packed one after the other, sent as one message and unpacked into
\* sections; a pack buffer that is full, and ones that are not contiguous.
Packing ==
  {<<Both(PackInto(Second("in"), 2, Whole("out"), TRUE), Wait),
     Both(PackInto(Whole("in"), 3, Whole("out"), FALSE), Wait),
     Both(From("Send", 1, 0, Whole("out"), 5, I), Into("Recv", 0, 0, Whole("in"), 5, I)),
     Both(Wait, UnpackFrom(Whole("in"), Second("out"), 3, TRUE)),
     Both(Wait, UnpackFrom(Whole("in"), Second("out"), 2, FALSE))>>,
   <<Both(PackInto(Second("in"), 4, Whole("out"), TRUE), UnpackFrom(Whole("in"), Whole("out"), 6, TRUE)),
     Both(PackInto(Whole("in"), 5, Whole("out"), FALSE), UnpackFrom(Whole("in"), Second("out"), 3, FALSE)),
     Both(PackInto(Second("in"), 4, Whole("out"), FALSE), UnpackFrom(Whole("in"), Second("out"), 2, FALSE))>>,
   <<Both(PackInto(Whole("in"), 3, Whole("out"), TRUE), UnpackFrom(Whole("in"), Whole("out"), 5, TRUE)),
     Both(PackInto(Whole("in"), 2, Whole("out"), FALSE), UnpackFrom(Whole("in"), Whole("out"), 3, FALSE)),
     Both(PackInto(Whole("in"), 9, Whole("out"), FALSE), UnpackFrom(Whole("in"), Whole("out"), 1, FALSE))>>,
   <<Both(PackInto(Whole("in"), 2, Second("out"), TRUE), UnpackFrom(Second("in"), Whole("out"), 2, TRUE))>>}

MCPointToPointPrograms ==
  MCPrograms \cup Transfers \cup Sequences2 \cup Exchanges2 \cup Refused2 \cup Packing

\* A receive section with gaps, next to a send buffer without.
MCSendrecvPrograms ==
  {<<All(LAMBDA p : Exchange(1 - p, 1 - p, Whole("in"), 3, Second("out"), 4))>>}

\* The collectives of these programs use their sections as MPI asks; those of
\* MC_Collectives do not.
ASSUME LegalProgramsAssumption == LegalCollectives
=============================================================================
