-------------------------- MODULE CollectivesProofs --------------------------
(***************************************************************************)
(* Proofs about Collectives, for any number of processes and any programs  *)
(* that satisfy ProgramsAssumption: which collectives the processes enter, *)
(* what becomes of the datatypes built from the descriptors, which types   *)
(* the variables have, and what the calls leave in the arrays.             *)
(*                                                                         *)
(* What matters for CollectivesMatch is only which calls reach the         *)
(* library, so each step is put into one of six classes first.             *)
(***************************************************************************)
EXTENDS Collectives, SumProofs

\* The call i of the program does not reach the library's collectives: it is
\* refused, or is none (a round of module PointToPoint).
Refused(i) ==
  \/ program[i].routine = "PointToPoint"
  \/ program[i].root \notin Procs
  \/ /\ program[i].routine \in Reductions
     /\ program[i].op \notin BuiltinOps
     /\ \E p \in Procs : program[i].arg[p].stype \in BuiltinTypes

\* The call of the last collective a process entered.
LastRound(p) == IF entered[p] = 0 THEN 0 ELSE coll[entered[p]][p].round

ProgramInv == program \in Programs

ControlInv ==
  /\ round \in [Procs -> Nat \ {0}]
  /\ pc \in [Procs -> {"idle", "called", "inside", "finished"}]
  /\ \A p \in Procs : round[p] <= Len(program) + 1 /\ (pc[p] # "idle" => round[p] <= Len(program))

\* A process entered the first collectives, one after the other.
EnteredInv ==
  /\ \E S : coll \in Seq(S)
  /\ entered \in [Procs -> Nat]
  /\ \A p \in Procs : entered[p] <= Len(coll)
  /\ \A n \in 1..Len(coll) : DOMAIN coll[n] = {p \in Procs : n <= entered[p]}

\* The calls with which a process entered them, and that it skipped no other.
RoundsInv ==
  \A p \in Procs : \A n \in 1..entered[p] :
    /\ coll[n][p].round \in 1..Len(program)
    /\ ~Refused(coll[n][p].round)
    /\ \A i \in 1..Len(program) :
         /\ i < coll[n][p].round
         /\ n > 1 => coll[n-1][p].round < i
         => Refused(i)
    /\ n > 1 => coll[n-1][p].round < coll[n][p].round

\* Those since the last are refused.
ProgressInv ==
  \A p \in Procs :
    /\ pc[p] = "inside" => LastRound(p) = round[p] \/ Refused(round[p])
    /\ pc[p] \in {"idle", "called"} => LastRound(p) < round[p]
    /\ LastRound(p) <= round[p]
    /\ \A i \in 1..Len(program) :
         /\ LastRound(p) < i
         /\ i < round[p] \/ (i = round[p] /\ pc[p] = "finished")
         => Refused(i)

MatchInv == ProgramInv /\ ControlInv /\ EnteredInv /\ RoundsInv /\ ProgressInv /\ CollectivesMatch
-----------------------------------------------------------------------------
(* The classes of steps. *)

\* The buffers of a call, and when the wrapper is done with their datatypes.
InBuffer(p) ==
  CASE Call(p).routine = "Bcast" -> BcastBuffer(p)
    [] Call(p).routine \in {"Scatterv", "Alltoallv"} -> VSend(p)
    [] OTHER -> Buffer(p, "in")

OutBuffer(p) ==
  CASE Call(p).routine = "Bcast" -> BcastBuffer(p)
    [] Call(p).routine \in Vectors \ {"Scatterv"} -> VRecv(p)
    [] OTHER -> Buffer(p, "out")

TypesMade(p) ==
  HaveCFI =>
    /\ Call(p).routine \in Reductions \cup Vectors => BothContiguous(p)
    /\ ~NeedsType(p, "in")
    /\ Call(p).routine # "Bcast" => ~NeedsType(p, "out")

\* The same in a round "PointToPoint" (module PointToPoint).
MadeForOp(p) ==
  CASE Arg(p).op \in {"Send", "Isend"} -> Noncontiguous(p, {"in"})
    [] Arg(p).op \in {"Recv", "Irecv", "Mrecv", "Imrecv"} -> Noncontiguous(p, {"out"})
    [] Arg(p).op = "Sendrecv" -> IF Contiguous(Section(p, "in")) THEN {} ELSE {"in", "out"}
    [] Arg(p).op = "Pack" /\ Contiguous(Section(p, "out")) -> Noncontiguous(p, {"in"})
    [] Arg(p).op = "Unpack" /\ Contiguous(Section(p, "in")) -> Noncontiguous(p, {"out"})
    [] OTHER -> {}

\* The sections that the routine of a call makes datatypes for, which are those
\* it frees.
Made(p) ==
  CASE HaveCFI /\ Call(p).routine \in {"Gather", "Allgather", "Scatter", "Alltoall"} ->
         Noncontiguous(p, {"in", "out"})
    [] HaveCFI /\ Call(p).routine = "Bcast" -> Noncontiguous(p, {"in"})
    [] HaveCFI /\ Call(p).routine = "PointToPoint" -> MadeForOp(p)
    [] OTHER -> {}

EnterStep(p) ==
  /\ \/ Call(p).routine = "Barrier" /\ Enter(p, NoBlocks, NoBlocks)
     \/ Call(p).routine # "Barrier" /\ TypesMade(p) /\ Enter(p, InBuffer(p), OutBuffer(p))
  /\ Call(p).routine \in Reductions => ~Rejected(p)
  /\ Call(p).routine # "PointToPoint"
  /\ ~aborted

RejectStep(p) == Reject(p) /\ Call(p).routine \in Reductions /\ Rejected(p) /\ ~aborted

AbortStep(p) ==
  /\ Abort(p) /\ pc[p] = "called" /\ ~BothContiguous(p)
  /\ \/ Call(p).routine \in Reductions \cup Vectors
     \/ \E side \in Arrays : CreateFails(Section(p, side), Count(p, side))

CreateStep(p) ==
  /\ pc[p] = "called" /\ ~aborted
  /\ \E side \in Arrays :
       /\ ~CreateFails(Section(p, side), Count(p, side)) /\ side \in Made(p)
       /\ temp' = [temp EXCEPT ![p][side] = SectionType(Section(p, side), Count(p, side))]
  /\ UNCHANGED <<HaveCFI, program, round, pc, mem, args, rc, coll, entered, given, aborted>>

ReturnStep(p) == Return(p, Made(p))

\* What a process that enters or leaves a collective does to its own state.
LEMMA EnterEffect ==
  ASSUME NEW p \in Procs, EnterStep(p)
  PROVE  /\ pc[p] = "called" /\ ~aborted
         /\ pc' = [pc EXCEPT ![p] = "inside"] \/ pc' = [pc EXCEPT ![p] = "finished"]
         /\ UNCHANGED <<HaveCFI, program, round, mem, temp, given, aborted>>
<1>1. PICK in, out : Enter(p, in, out)
  BY DEF EnterStep
<1>2. pc[p] = "called" /\ UNCHANGED <<HaveCFI, program, round, mem, temp, given, aborted>>
  BY <1>1 DEF Enter
<1>3. pc' = [pc EXCEPT ![p] = "inside"] \/ pc' = [pc EXCEPT ![p] = "finished"]
  BY <1>1, Zenon DEF Enter
<1> QED
  BY <1>2, <1>3 DEF EnterStep

LEMMA LeaveEffect ==
  ASSUME NEW p \in Procs, Leave(p)
  PROVE  /\ pc[p] = "inside" /\ ~aborted
         /\ pc' = [pc EXCEPT ![p] = "finished"]
         /\ UNCHANGED <<HaveCFI, program, round, temp, args, coll, entered, given, aborted>>
BY Zenon DEF Leave

LEMMA MakeTypeStep ==
  ASSUME NEW p \in Procs, NEW side \in Arrays, MakeType(p, side), ~aborted, ~BothContiguous(p),
         side \in Made(p)
  PROVE  AbortStep(p) \/ CreateStep(p)
<1>1. CASE CreateFails(Section(p, side), Count(p, side))
  BY <1>1 DEF MakeType, AbortStep
<1>2. CASE ~CreateFails(Section(p, side), Count(p, side))
  BY <1>2 DEF MakeType, CreateStep
<1> QED
  BY <1>1, <1>2

LEMMA CreateTypeStep ==
  ASSUME NEW p \in Procs, NEW side \in Arrays, CreateType(p, side), ~aborted,
         ~Contiguous(Section(p, side)) => side \in Made(p)
  PROVE  AbortStep(p) \/ CreateStep(p)
<1>1. MakeType(p, side) /\ ~BothContiguous(p)
  BY DEF CreateType, NeedsType, Section, BothContiguous, Arrays
<1>2. side \in Made(p)
  BY DEF CreateType, NeedsType
<1> QED
  BY <1>1, <1>2, MakeTypeStep

LEMMA WrapperStep ==
  ASSUME NEW p \in Procs, Wrapper(p)
  PROVE  EnterStep(p) \/ RejectStep(p) \/ AbortStep(p) \/ CreateStep(p) \/ (ReturnStep(p) /\ ~aborted)
<1>1. ~aborted
  BY DEF Wrapper, At, C_MPI_Barrier, C_MPI_Bcast, C_MPI_Reduce, C_MPI_Allreduce, C_MPI_Gather,
    C_MPI_Allgather, C_MPI_Scatter, C_MPI_Alltoall, CFI_MPI_Bcast, CFI_MPI_Reduce,
    CFI_MPI_Allreduce, CFI_MPI_Gather, CFI_MPI_Allgather, CFI_MPI_Scatter, CFI_MPI_Alltoall,
    C_MPI_Gatherv, C_MPI_Allgatherv, C_MPI_Scatterv, C_MPI_Alltoallv, CFI_MPI_Gatherv,
    CFI_MPI_Allgatherv, CFI_MPI_Scatterv, CFI_MPI_Alltoallv
<1>2. "in" \in Arrays /\ "out" \in Arrays
  BY DEF Arrays
<1>3. CASE C_MPI_Barrier(p)
  <2>1. Made(p) = {}
    BY <1>3 DEF C_MPI_Barrier, At, Made
  <2> QED
    BY <1>1, <1>3, <2>1 DEF C_MPI_Barrier, At, EnterStep, ReturnStep, Reductions
<1>4. CASE C_MPI_Bcast(p) \/ CFI_MPI_Bcast(p)
  <2>1. Call(p).routine = "Bcast"
    BY <1>4 DEF C_MPI_Bcast, CFI_MPI_Bcast, At
  <2>2. InBuffer(p) = BcastBuffer(p) /\ OutBuffer(p) = BcastBuffer(p)
    BY <2>1 DEF InBuffer, OutBuffer, Vectors
  <2>3. ~HaveCFI \/ ~NeedsType(p, "in") => TypesMade(p)
    BY <2>1 DEF TypesMade, Reductions, Vectors
  <2>4. (~HaveCFI \/ ~NeedsType(p, "in")) /\ Enter(p, BcastBuffer(p), BcastBuffer(p)) => EnterStep(p)
    BY <1>1, <2>1, <2>2, <2>3 DEF EnterStep, Reductions
  <2>5. Made(p) = IF HaveCFI THEN Noncontiguous(p, {"in"}) ELSE {}
    BY <2>1 DEF Made
  <2>6. HaveCFI /\ ~Contiguous(Section(p, "in")) => "in" \in Made(p)
    BY <2>5 DEF Noncontiguous
  <2> QED
    BY <1>1, <1>2, <1>4, <2>4, <2>5, <2>6, CreateTypeStep DEF C_MPI_Bcast, CFI_MPI_Bcast, ReturnStep
<1>5. ASSUME Call(p).routine \in {"Gather", "Allgather", "Scatter", "Alltoall"},
             \/ HaveCFI /\ WithTypes(p, Noncontiguous(p, {"in", "out"}))
             \/ ~HaveCFI /\ Plain(p)
      PROVE  EnterStep(p) \/ AbortStep(p) \/ CreateStep(p) \/ ReturnStep(p)
  <2>1. InBuffer(p) = Buffer(p, "in") /\ OutBuffer(p) = Buffer(p, "out")
    BY <1>5 DEF InBuffer, OutBuffer, Vectors
  <2>2. ~HaveCFI \/ (~NeedsType(p, "in") /\ ~NeedsType(p, "out")) => TypesMade(p)
    BY <1>5 DEF TypesMade, Reductions, Vectors
  <2>3. TypesMade(p) /\ Enter(p, Buffer(p, "in"), Buffer(p, "out")) => EnterStep(p)
    BY <1>1, <1>5, <2>1 DEF EnterStep, Reductions
  <2>4. Made(p) = IF HaveCFI THEN Noncontiguous(p, {"in", "out"}) ELSE {}
    BY <1>5 DEF Made
  <2>5. HaveCFI => \A side \in Arrays : ~Contiguous(Section(p, side)) => side \in Made(p)
    BY <2>4 DEF Noncontiguous, Arrays
  <2> QED
    BY <1>1, <1>2, <1>5, <2>2, <2>3, <2>4, <2>5, CreateTypeStep DEF WithTypes, Plain, ReturnStep
<1>6. BothContiguous(p) => TypesMade(p)
  BY DEF BothContiguous, TypesMade, NeedsType, Section
<1>7. ASSUME Call(p).routine \in Reductions, Reduction(p), ~HaveCFI \/ BothContiguous(p) \/ Rejected(p)
      PROVE  EnterStep(p) \/ RejectStep(p) \/ ReturnStep(p)
  <2>1. InBuffer(p) = Buffer(p, "in") /\ OutBuffer(p) = Buffer(p, "out")
    BY <1>7 DEF InBuffer, OutBuffer, Vectors, Reductions
  <2>2. ~Rejected(p) => TypesMade(p)
    BY <1>6, <1>7 DEF TypesMade
  <2>3. ~Rejected(p) /\ Enter(p, Buffer(p, "in"), Buffer(p, "out")) => EnterStep(p)
    BY <1>1, <1>7, <2>1, <2>2 DEF EnterStep, Reductions
  <2>4. Made(p) = {}
    BY <1>7 DEF Made, Reductions
  <2> QED
    BY <1>1, <1>7, <2>3, <2>4 DEF Reduction, RejectStep, ReturnStep
<1>8. CASE Call(p).routine \in Reductions /\ CFI_Reduction(p)
  BY <1>1, <1>7, <1>8 DEF CFI_Reduction, AbortStep
<1>9. ASSUME NEW in, NEW out, Call(p).routine \in Vectors, in = InBuffer(p), out = OutBuffer(p),
             CFI_Vector(p, in, out) \/ (~HaveCFI /\ (Enter(p, in, out) \/ Return(p, {})))
      PROVE  EnterStep(p) \/ AbortStep(p) \/ ReturnStep(p)
  <2>1. Call(p).routine \notin Reductions \cup {"PointToPoint", "Barrier"}
    BY <1>9 DEF Vectors, Reductions
  <2>2. ~HaveCFI \/ BothContiguous(p) => TypesMade(p)
    BY <1>6 DEF TypesMade
  <2>3. TypesMade(p) /\ Enter(p, in, out) => EnterStep(p)
    BY <1>1, <1>9, <2>1 DEF EnterStep
  <2>4. Made(p) = {}
    BY <1>9 DEF Made, Vectors
  <2> QED
    BY <1>1, <1>9, <2>2, <2>3, <2>4 DEF CFI_Vector, AbortStep, ReturnStep
<1>10. ASSUME Call(p).routine \in Vectors
       PROVE  /\ InBuffer(p) = IF Call(p).routine \in {"Scatterv", "Alltoallv"} THEN VSend(p)
                               ELSE Buffer(p, "in")
              /\ OutBuffer(p) = IF Call(p).routine = "Scatterv" THEN Buffer(p, "out") ELSE VRecv(p)
  BY <1>10 DEF InBuffer, OutBuffer, Vectors
<1>11. CASE \/ C_MPI_Gather(p) \/ C_MPI_Allgather(p) \/ C_MPI_Scatter(p) \/ C_MPI_Alltoall(p)
  BY <1>1, <1>5, <1>11 DEF C_MPI_Gather, C_MPI_Allgather, C_MPI_Scatter, C_MPI_Alltoall, At
<1>12. CASE \/ CFI_MPI_Gather(p) \/ CFI_MPI_Allgather(p) \/ CFI_MPI_Scatter(p)
            \/ CFI_MPI_Alltoall(p)
  BY <1>1, <1>5, <1>12 DEF CFI_MPI_Gather, CFI_MPI_Allgather, CFI_MPI_Scatter, CFI_MPI_Alltoall, At
<1>13. CASE C_MPI_Reduce(p) \/ C_MPI_Allreduce(p)
  BY <1>1, <1>7, <1>13 DEF C_MPI_Reduce, C_MPI_Allreduce, At, Reductions
<1>14. CASE CFI_MPI_Reduce(p) \/ CFI_MPI_Allreduce(p)
  BY <1>8, <1>14 DEF CFI_MPI_Reduce, CFI_MPI_Allreduce, At, Reductions
<1>15. CASE C_MPI_Gatherv(p) \/ C_MPI_Allgatherv(p) \/ C_MPI_Scatterv(p) \/ C_MPI_Alltoallv(p)
  BY <1>1, <1>9, <1>10, <1>15
  DEF C_MPI_Gatherv, C_MPI_Allgatherv, C_MPI_Scatterv, C_MPI_Alltoallv, At, Vectors
<1>16. CASE CFI_MPI_Gatherv(p) \/ CFI_MPI_Allgatherv(p) \/ CFI_MPI_Scatterv(p)
            \/ CFI_MPI_Alltoallv(p)
  BY <1>1, <1>9, <1>10, <1>16
  DEF CFI_MPI_Gatherv, CFI_MPI_Allgatherv, CFI_MPI_Scatterv, CFI_MPI_Alltoallv, At, Vectors
<1> QED
  BY <1>3, <1>4, <1>11, <1>12, <1>13, <1>14, <1>15, <1>16 DEF Wrapper
-----------------------------------------------------------------------------
(* The classes of steps keep the invariant. *)

LEMMA ProgramFacts ==
  ASSUME ProgramInv
  PROVE  /\ Len(program) \in Nat /\ DOMAIN program = 1..Len(program)
         /\ \A i \in 1..Len(program) : \A p \in Procs :
              /\ program[i].arg[p].scount \in Nat /\ program[i].arg[p].rcount \in Nat
              /\ program[i].arg[p].in.size \in Nat /\ program[i].arg[p].out.size \in Nat
              /\ program[i].routine \in Reductions =>
                   \A q \in Procs : program[i].arg[p].stype = program[i].arg[q].stype
BY ProgramsAssumption DEF ProgramInv, Reductions

LEMMA InitMatch == ASSUME Init PROVE MatchInv
<1>1. Len(program) \in Nat
  BY ProgramFacts DEF Init, ProgramInv
<1>2. EnteredInv
  <2>1. coll \in Seq({}) /\ Len(coll) = 0
    BY DEF Init
  <2> QED
    BY <2>1 DEF Init, EnteredInv
<1>3. \A p \in Procs : LastRound(p) = 0
  BY DEF Init, LastRound
<1> QED
  BY <1>1, <1>2, <1>3
  DEF Init, MatchInv, ProgramInv, ControlInv, RoundsInv, ProgressInv, CollectivesMatch

\* What the library records of a process that enters.
LEMMA EnterRecord ==
  ASSUME NEW p \in Procs, NEW in, NEW out, EnteredInv, Enter(p, in, out), Call(p).root \in Procs
  PROVE  /\ EnteredInv'
         /\ entered' = [entered EXCEPT ![p] = @ + 1]
         /\ coll'[entered[p] + 1][p] = [round |-> round[p], data |-> Sent(p, in, out)]
         /\ \A q \in Procs : \A m \in 1..entered[q] : coll'[m][q] = coll[m][q]
<1> DEFINE n == entered[p] + 1
           part == [round |-> round[p], data |-> Sent(p, in, out)]
           c == coll'[n]
<1>1. PICK S : coll \in Seq(S)
  BY DEF EnteredInv
<1>2. /\ entered \in [Procs -> Nat] /\ entered[p] <= Len(coll) /\ Len(coll) \in Nat
      /\ n \in 1..Len(coll)+1
  BY <1>1 DEF EnteredInv
<1>3. /\ entered' = [entered EXCEPT ![p] = n]
      /\ coll' = IF n > Len(coll) THEN Append(coll, [q \in {p} |-> part])
                 ELSE [coll EXCEPT ![n] = [q \in DOMAIN @ \cup {p} |-> IF q = p THEN part ELSE @[q]]]
  BY DEF Enter
<1> HIDE DEF part
<1>5. /\ coll' \in Seq(S \cup {c})
      /\ Len(coll') = IF n > Len(coll) THEN Len(coll) + 1 ELSE Len(coll)
      /\ \A m \in 1..Len(coll) : m # n => coll'[m] = coll[m]
      /\ n > Len(coll) => c = [q \in {p} |-> part]
      /\ n <= Len(coll) => c = [q \in DOMAIN coll[n] \cup {p} |-> IF q = p THEN part ELSE coll[n][q]]
  <2>1. CASE n > Len(coll)
    <3>1. coll' = Append(coll, [q \in {p} |-> part])
      BY <1>3, <2>1
    <3>2. c = [q \in {p} |-> part] /\ Len(coll') = Len(coll) + 1
      BY <1>1, <1>2, <2>1, <3>1
    <3>3. \A m \in 1..Len(coll) : coll'[m] = coll[m]
      BY <1>1, <1>2, <3>1
    <3>4. coll' \in Seq(S \cup {c})
      <4> DEFINE T == S \cup {c}
      <4>1. coll \in Seq(T) /\ c \in T
        BY <1>1
      <4>2. coll' = Append(coll, c)
        BY <3>1, <3>2
      <4> HIDE DEF T, c
      <4>3. coll' \in Seq(T)
        BY <4>1, <4>2
      <4> QED
        BY <4>3 DEF T
    <3> QED
      BY <1>2, <2>1, <3>2, <3>3, <3>4
  <2>2. CASE n <= Len(coll)
    <3> DEFINE new == [q \in DOMAIN coll[n] \cup {p} |-> IF q = p THEN part ELSE coll[n][q]]
    <3>0. DOMAIN coll = 1..Len(coll) /\ n \in DOMAIN coll
      BY <1>1, <1>2, <2>2
    <3>1. coll' = [coll EXCEPT ![n] = new]
      BY <1>2, <1>3, <2>2
    <3> HIDE DEF new
    <3>3. c = new /\ \A m \in 1..Len(coll) : m # n => coll'[m] = coll[m]
      BY <3>0, <3>1
    <3>2. /\ c = [q \in DOMAIN coll[n] \cup {p} |-> IF q = p THEN part ELSE coll[n][q]]
          /\ \A m \in 1..Len(coll) : m # n => coll'[m] = coll[m]
      BY <3>3 DEF new
    <3>4. coll' \in Seq(S \cup {c}) /\ Len(coll') = Len(coll)
      BY <1>1, <3>0, <3>1, <3>3
    <3> QED
      BY <1>2, <2>2, <3>2, <3>4
  <2> QED
    BY <1>2, <2>1, <2>2
<1>6. \A m \in 1..Len(coll) : DOMAIN coll[m] = {q \in Procs : m <= entered[q]}
  BY DEF EnteredInv
<1>7. \A q \in Procs : entered[q] \in Nat /\ entered[q] <= Len(coll)
  BY DEF EnteredInv
<1>8. c[p] = part /\ \A q \in Procs : q # p /\ n <= entered[q] => c[q] = coll[n][q]
  BY <1>2, <1>5, <1>6, <1>7
<1>9. \A m \in 1..Len(coll') : DOMAIN coll'[m] = {q \in Procs : m <= entered'[q]}
  <2> SUFFICES ASSUME NEW m \in 1..Len(coll')
               PROVE  DOMAIN coll'[m] = {q \in Procs : m <= entered'[q]}
    OBVIOUS
  <2>1. entered'[p] = n /\ \A q \in Procs : q # p => entered'[q] = entered[q]
    BY <1>2, <1>3
  <2>2. CASE m # n
    <3>1. m \in 1..Len(coll) /\ coll'[m] = coll[m]
      BY <1>2, <1>5, <2>2
    <3>2. \A q \in Procs : m <= entered'[q] <=> m <= entered[q]
      BY <1>2, <1>7, <2>1, <2>2, <3>1
    <3> QED
      BY <1>6, <3>1, <3>2
  <2>3. CASE m = n /\ n > Len(coll)
    <3>1. \A q \in Procs : n <= entered'[q] <=> q = p
      BY <1>2, <1>7, <2>1, <2>3
    <3> QED
      BY <1>5, <2>3, <3>1
  <2>4. CASE m = n /\ n <= Len(coll)
    <3>1. DOMAIN coll'[m] = {q \in Procs : n <= entered[q]} \cup {p}
      BY <1>2, <1>5, <1>6, <2>4
    <3>2. \A q \in Procs : n <= entered'[q] <=> (n <= entered[q] \/ q = p)
      BY <1>2, <2>1
    <3> QED
      BY <2>4, <3>1, <3>2
  <2> QED
    BY <1>2, <2>2, <2>3, <2>4
<1>10. EnteredInv'
  <2>1. \E T : coll' \in Seq(T)
    BY <1>5
  <2>2. entered' \in [Procs -> Nat] /\ \A q \in Procs : entered'[q] <= Len(coll')
    BY <1>2, <1>3, <1>5, <1>7
  <2> QED
    BY <1>9, <2>1, <2>2 DEF EnteredInv
<1>11. \A q \in Procs : \A m \in 1..entered[q] : coll'[m][q] = coll[m][q]
  <2> SUFFICES ASSUME NEW q \in Procs, NEW m \in 1..entered[q]
               PROVE  coll'[m][q] = coll[m][q]
    OBVIOUS
  <2>1. m \in 1..Len(coll)
    BY <1>2, <1>7
  <2>2. CASE m # n
    BY <1>5, <2>1, <2>2
  <2>3. CASE m = n
    BY <1>2, <1>7, <1>8, <2>3
  <2> QED
    BY <2>2, <2>3
<1> QED
  BY <1>3, <1>8, <1>10, <1>11 DEF part

LEMMA EnterMatch ==
  ASSUME NEW p \in Procs, MatchInv, EnterStep(p)
  PROVE  MatchInv'
<1> USE DEF MatchInv
<1>1. PICK in, out : Enter(p, in, out)
  BY DEF EnterStep
<1>2. /\ Len(program) \in Nat /\ pc[p] = "called" /\ round[p] \in 1..Len(program)
      /\ program' = program /\ round' = round
  BY <1>1, ProgramFacts DEF ControlInv, Enter
<1>3. ProgramInv'
  BY <1>2 DEF ProgramInv
<1>4. CASE Call(p).root \notin Procs
  <2>1. /\ pc' = [pc EXCEPT ![p] = "finished"]
        /\ UNCHANGED <<coll, entered>>
    BY <1>1, <1>4 DEF Enter
  <2>2. Refused(round[p])
    BY <1>4 DEF Refused, Call
  <2>3. ControlInv'
    BY <1>2, <2>1 DEF ControlInv
  <2>4. EnteredInv' /\ CollectivesMatch'
    BY <2>1 DEF EnteredInv, CollectivesMatch
  <2>5. RoundsInv'
    BY <1>2, <2>1 DEF RoundsInv, Refused
  <2>6. ProgressInv'
    <3>1. pc \in [Procs -> {"idle", "called", "inside", "finished"}]
      BY DEF ControlInv
    <3>2. \A q \in Procs : LastRound(q)' = LastRound(q)
      BY <2>1 DEF LastRound
    <3>3. \A i : Refused(i)' = Refused(i)
      BY <1>2 DEF Refused
    <3> QED
      BY <1>2, <2>1, <2>2, <3>1, <3>2, <3>3 DEF ProgressInv
  <2> QED
    BY <1>3, <2>3, <2>4, <2>5, <2>6
<1>5. CASE Call(p).root \in Procs
  <2> DEFINE n == entered[p] + 1
             r == round[p]
  <2>1. /\ pc' = [pc EXCEPT ![p] = "inside"]
        /\ pc \in [Procs -> {"idle", "called", "inside", "finished"}]
        /\ entered \in [Procs -> Nat]
    BY <1>1, <1>5 DEF Enter, ControlInv, EnteredInv
  <2>2. /\ EnteredInv'
        /\ entered' = [entered EXCEPT ![p] = n]
        /\ coll'[n][p].round = r
        /\ \A q \in Procs : \A m \in 1..entered[q] : coll'[m][q].round = coll[m][q].round
    <3>1. /\ EnteredInv'
          /\ entered' = [entered EXCEPT ![p] = n]
          /\ coll'[n][p] = [round |-> r, data |-> Sent(p, in, out)]
          /\ \A q \in Procs : \A m \in 1..entered[q] : coll'[m][q] = coll[m][q]
      BY <1>1, <1>5, EnterRecord
    <3>2. coll'[n][p].round = r
      BY <3>1
    <3> QED
      BY <3>1, <3>2
  <2>3. ControlInv'
    BY <1>2, <2>1 DEF ControlInv
  <2>4. \A i : Refused(i)' = Refused(i)
    BY <1>2 DEF Refused
  <2>5. ~Refused(r)
    <3>0. program[r].routine # "PointToPoint"
      BY DEF EnterStep, Call
    <3>1. \/ program[r].routine \notin Reductions
          \/ program[r].op \in BuiltinOps
          \/ program[r].arg[p].stype \notin BuiltinTypes
      BY DEF EnterStep, Rejected, Call, Arg
    <3>2. program[r].routine \in Reductions =>
            \A q \in Procs : program[r].arg[p].stype = program[r].arg[q].stype
      BY <1>2, ProgramFacts
    <3> QED
      BY <1>5, <3>0, <3>1, <3>2 DEF Refused, Call
  <2>6. /\ LastRound(p) < r
        /\ \A i \in 1..Len(program) : LastRound(p) < i /\ i < r => Refused(i)
    BY <1>2 DEF ProgressInv
  <2>7. n > 1 => LastRound(p) = coll[n-1][p].round /\ n-1 \in 1..entered[p]
    BY <2>1 DEF LastRound
  <2>8. n = 1 => LastRound(p) = 0
    BY <2>1 DEF LastRound
  <2>9. RoundsInv'
    <3> SUFFICES ASSUME NEW q \in Procs, NEW m \in 1..entered'[q]
                 PROVE  /\ coll'[m][q].round \in 1..Len(program)
                        /\ ~Refused(coll'[m][q].round)
                        /\ \A i \in 1..Len(program) :
                             /\ i < coll'[m][q].round
                             /\ m > 1 => coll'[m-1][q].round < i
                             => Refused(i)
                        /\ m > 1 => coll'[m-1][q].round < coll'[m][q].round
      BY <1>2, <2>4 DEF RoundsInv
    <3>1. CASE m \in 1..entered[q]
      <4>1. coll'[m][q].round = coll[m][q].round
        BY <2>2, <3>1
      <4>2. m > 1 => coll'[m-1][q].round = coll[m-1][q].round
        BY <2>1, <2>2, <3>1
      <4> QED
        BY <3>1, <4>1, <4>2 DEF RoundsInv
    <3>2. CASE m \notin 1..entered[q]
      <4>1. q = p /\ m = n
        BY <2>1, <2>2, <3>2
      <4>2. coll'[m][q].round = r
        BY <2>2, <4>1
      <4>3. m > 1 => coll'[m-1][q].round = LastRound(p)
        BY <2>2, <2>7, <4>1
      <4>4. m = 1 => LastRound(p) = 0
        BY <2>8, <4>1
      <4>5. m = 1 \/ m > 1
        BY <2>1, <2>2
      <4> QED
        BY <1>2, <2>5, <2>6, <4>2, <4>3, <4>4, <4>5
    <3> QED
      BY <3>1, <3>2
  <2>10. LastRound(p)' = r /\ \A q \in Procs : q # p => LastRound(q)' = LastRound(q)
    <3>1. LastRound(p)' = r
      BY <2>1, <2>2 DEF LastRound
    <3>2. ASSUME NEW q \in Procs, q # p PROVE LastRound(q)' = LastRound(q)
      <4>1. entered'[q] = entered[q] /\ entered[q] \in Nat
        BY <2>1, <2>2, <3>2
      <4>2. entered[q] # 0 => coll'[entered[q]][q].round = coll[entered[q]][q].round
        BY <2>2, <4>1
      <4> QED
        BY <4>1, <4>2 DEF LastRound
    <3> QED
      BY <3>1, <3>2
  <2>11. ProgressInv'
    <3>1. r \in Nat /\ \A i \in 1..Len(program) : ~(r < i /\ (i < r \/ i = r))
      BY <1>2
    <3>2. pc'[p] = "inside" /\ \A q \in Procs : q # p => pc'[q] = pc[q]
      BY <2>1
    <3> QED
      BY <1>2, <2>4, <2>10, <3>1, <3>2 DEF ProgressInv
  <2>12. CollectivesMatch'
    <3>1. \A m \in DOMAIN coll' : \A q \in DOMAIN coll'[m] :
            q \in Procs /\ m \in 1..entered'[q]
      BY <2>2 DEF EnteredInv
    <3>2. \A m : \A q, q2 \in Procs :
            m \in 1..entered[q] /\ m \in 1..entered[q2] => coll[m][q].round = coll[m][q2].round
      BY DEF CollectivesMatch, EnteredInv
    <3>3. ASSUME NEW q \in Procs, q # p, n \in 1..entered[q]
          PROVE  coll[n][q].round = r
      <4> DEFINE s == coll[n][q].round
                 L == LastRound(p)
      <4>1. n \in Nat /\ n >= 1
        BY <2>1
      <4>2. n > 1 => coll[n-1][q].round = L
        <5> SUFFICES ASSUME n > 1 PROVE coll[n-1][q].round = L
          OBVIOUS
        <5>1. n-1 \in 1..entered[q] /\ n-1 \in 1..entered[p]
          BY <2>1, <2>7, <3>3
        <5> QED
          BY <2>7, <3>2, <5>1
      <4>3. /\ s \in 1..Len(program) /\ ~Refused(s)
            /\ \A i \in 1..Len(program) :
                 i < s /\ (n > 1 => coll[n-1][q].round < i) => Refused(i)
            /\ n > 1 => coll[n-1][q].round < s
        BY <3>3 DEF RoundsInv
      <4>4. L < s
        BY <2>8, <4>1, <4>2, <4>3
      <4>5. ~(s < r)
        BY <2>6, <4>3, <4>4
      <4>6. ~(r < s)
        BY <1>2, <2>5, <2>6, <4>2, <4>3
      <4> QED
        BY <1>2, <4>3, <4>5, <4>6
    <3>4. ASSUME NEW m, NEW q \in Procs, NEW q2 \in Procs,
                 m \in 1..entered'[q], m \in 1..entered'[q2]
          PROVE  coll'[m][q].round = coll'[m][q2].round
      <4>1. ASSUME NEW x \in Procs, m \in 1..entered'[x], m = n, n \in 1..entered'[p]
            PROVE  coll'[m][x].round = r
        <5>1. CASE x = p
          BY <2>2, <4>1, <5>1
        <5>2. CASE x # p
          <6>1. n \in 1..entered[x]
            BY <2>1, <2>2, <4>1, <5>2
          <6>2. coll[n][x].round = r
            BY <3>3, <4>1, <5>2, <6>1
          <6> QED
            BY <2>2, <4>1, <6>1, <6>2
        <5> QED
          BY <5>1, <5>2
      <4>2. n \in 1..entered'[p]
        BY <2>1, <2>2
      <4>3. CASE m = n
        BY <3>4, <4>1, <4>2, <4>3
      <4>4. CASE m # n
        <5>1. ASSUME NEW x \in Procs, m \in 1..entered'[x] PROVE m \in 1..entered[x]
          <6>1. m \in Int /\ 1 <= m /\ m <= entered'[x]
            BY <2>1, <2>2, <5>1
          <6>2. m <= entered[x]
            BY <2>1, <2>2, <4>4, <6>1
          <6> QED
            BY <2>1, <6>1, <6>2
        <5> QED
          BY <2>2, <3>2, <3>4, <5>1
      <4> QED
        BY <4>3, <4>4
    <3> QED
      BY <3>1, <3>4 DEF CollectivesMatch
  <2> QED
    BY <1>3, <2>2, <2>3, <2>9, <2>11, <2>12
<1> QED
  BY <1>4, <1>5

\* Steps that leave the library's record alone and move one process at most.
LEMMA OtherMatch ==
  ASSUME NEW p \in Procs, MatchInv, UNCHANGED <<program, coll, entered>>,
         \/ RejectStep(p)
         \/ AbortStep(p)
         \/ CreateStep(p)
         \/ ReturnStep(p)
         \/ Start(p)
         \/ Leave(p)
         \/ UNCHANGED vars
  PROVE  MatchInv'
<1> USE DEF MatchInv
<1>1. /\ Len(program) \in Nat
      /\ pc \in [Procs -> {"idle", "called", "inside", "finished"}]
      /\ round \in [Procs -> Nat \ {0}]
  BY ProgramFacts DEF ControlInv
<1>2. ProgramInv' /\ EnteredInv' /\ CollectivesMatch'
  BY DEF ProgramInv, EnteredInv, CollectivesMatch
<1>3. \A i : Refused(i)' = Refused(i)
  BY DEF Refused
<1>4. \A q : LastRound(q)' = LastRound(q)
  BY DEF LastRound
<1>5. RoundsInv'
  BY <1>3 DEF RoundsInv
<1>6. CASE RejectStep(p)
  <2>1. /\ pc[p] = "called" /\ pc' = [pc EXCEPT ![p] = "finished"] /\ round' = round
        /\ Refused(round[p])
    BY <1>6 DEF RejectStep, Reject, Rejected, Refused, Call, Arg
  <2>2. ControlInv'
    BY <1>1, <2>1 DEF ControlInv
  <2>3. ProgressInv'
    BY <1>1, <1>3, <1>4, <2>1 DEF ProgressInv
  <2> QED
    BY <1>2, <1>5, <2>2, <2>3
<1>7. CASE AbortStep(p) \/ CreateStep(p) \/ UNCHANGED vars
  <2>1. pc' = pc /\ round' = round
    BY <1>7 DEF AbortStep, Abort, CreateStep, vars
  <2>2. ControlInv' /\ ProgressInv'
    BY <1>3, <1>4, <2>1 DEF ControlInv, ProgressInv
  <2> QED
    BY <1>2, <1>5, <2>2
<1>8. CASE ReturnStep(p)
  <2>1. /\ pc[p] = "finished" /\ pc' = [pc EXCEPT ![p] = "idle"]
        /\ round' = [round EXCEPT ![p] = @ + 1]
    BY <1>8 DEF ReturnStep, Return
  <2>2. ControlInv'
    BY <1>1, <2>1 DEF ControlInv
  <2>3. ProgressInv'
    <3>1. LastRound(p) <= round[p]
      BY DEF ProgressInv
    <3>2. round[p] \in Nat /\ round'[p] = round[p] + 1 /\ pc'[p] = "idle"
      BY <1>1, <2>1
    <3>3. LastRound(p) \in Nat
      BY <3>2 DEF LastRound, RoundsInv, EnteredInv
    <3>4. \A i \in 1..Len(program) : i < round'[p] => i < round[p] \/ i = round[p]
      BY <1>1, <3>2
    <3>5. \A i \in 1..Len(program) : LastRound(p) < i /\ i < round'[p] => Refused(i)
      BY <2>1, <3>4 DEF ProgressInv
    <3>6. LastRound(p) < round'[p] /\ LastRound(p) <= round'[p]
      BY <3>1, <3>2, <3>3
    <3>7. \A q \in Procs : q # p => pc'[q] = pc[q] /\ round'[q] = round[q]
      BY <1>1, <2>1
    <3> QED
      BY <1>3, <1>4, <3>2, <3>5, <3>6, <3>7 DEF ProgressInv
  <2> QED
    BY <1>2, <1>5, <2>2, <2>3
<1>9. CASE Start(p)
  <2>1. /\ pc[p] = "idle" /\ pc' = [pc EXCEPT ![p] = "called"] /\ round' = round
        /\ round[p] <= Len(program)
    BY <1>9 DEF Start
  <2>2. ControlInv'
    BY <1>1, <2>1 DEF ControlInv
  <2>3. ProgressInv'
    BY <1>1, <1>3, <1>4, <2>1 DEF ProgressInv
  <2> QED
    BY <1>2, <1>5, <2>2, <2>3
<1>10. CASE Leave(p)
  <2>1. pc[p] = "inside" /\ pc' = [pc EXCEPT ![p] = "finished"] /\ round' = round
    BY <1>10, LeaveEffect
  <2>2. ControlInv'
    BY <1>1, <2>1 DEF ControlInv
  <2>3. ProgressInv'
    <3>1. (LastRound(p) = round[p] \/ Refused(round[p])) /\ round[p] \in Nat
      BY <1>1, <2>1 DEF ProgressInv
    <3>2. \A i \in 1..Len(program) :
            LastRound(p) < i /\ (i < round[p] \/ i = round[p]) => Refused(i)
      BY <3>1 DEF ProgressInv
    <3> QED
      BY <1>1, <1>3, <1>4, <2>1, <3>1, <3>2 DEF ProgressInv
  <2> QED
    BY <1>2, <1>5, <2>2, <2>3
<1> QED
  BY <1>6, <1>7, <1>8, <1>9, <1>10

LEMMA NextMatch == ASSUME MatchInv, [Next]_vars PROVE MatchInv'
<1>1. ASSUME NEW p \in Procs, Wrapper(p) PROVE MatchInv'
  <2>1. CASE EnterStep(p)
    BY <2>1, EnterMatch
  <2>2. CASE RejectStep(p) \/ AbortStep(p) \/ CreateStep(p) \/ ReturnStep(p)
    <3>1. UNCHANGED <<program, coll, entered>>
      BY <2>2 DEF RejectStep, Reject, AbortStep, Abort, CreateStep, ReturnStep, Return
    <3> QED
      BY <2>2, <3>1, OtherMatch
  <2> QED
    BY <1>1, <2>1, <2>2, WrapperStep
<1>2. ASSUME NEW p \in Procs, Start(p) \/ Leave(p) PROVE MatchInv'
  <2>1. UNCHANGED <<program, coll, entered>>
    BY <1>2, LeaveEffect DEF Start
  <2> QED
    BY <1>2, <2>1, OtherMatch
<1>3. CASE UNCHANGED vars
  <2>1. UNCHANGED <<program, coll, entered>>
    BY <1>3 DEF vars
  <2>2. PICK p : p \in Procs
    BY CollectivesAssumption
  <2> QED
    BY <1>3, <2>1, <2>2, OtherMatch
<1> QED
  BY <1>1, <1>2, <1>3 DEF Next

\* Processes that meet in a collective of the library made the same call,
\* whatever the programs: the checks before the library stop all or none.
THEOREM MeetInSameCall == Spec => []CollectivesMatch
<1>1. Spec => []MatchInv
  BY InitMatch, NextMatch, PTL DEF Spec
<1>2. MatchInv => CollectivesMatch
  BY DEF MatchInv
<1> QED
  BY <1>1, <1>2, PTL
-----------------------------------------------------------------------------
(* The control state of a process, also in rounds "PointToPoint" (module       *)
(* PointToPoint).                                                            *)

\* In a round "PointToPoint" the library takes or answers a process's own call,
\* or lets it go.
MoveStep(p) ==
  /\ Call(p).routine = "PointToPoint" /\ ~aborted
  /\ pc[p] \in {"called", "inside"}
  /\ pc' = [pc EXCEPT ![p] = "inside"] \/ pc' = [pc EXCEPT ![p] = "finished"]
  /\ UNCHANGED <<HaveCFI, program, round, temp, coll, entered, aborted>>

Steps(p) ==
  \/ EnterStep(p) \/ RejectStep(p) \/ AbortStep(p) \/ CreateStep(p)
  \/ (ReturnStep(p) /\ ~aborted) \/ Start(p) \/ Leave(p) \/ MoveStep(p)

\* Process p made call i.
Called(p, i) == i < round[p] \/ (i = round[p] /\ pc[p] \in {"inside", "finished"})

\* The control state of a process, apart from where it gets a datatype.
LEMMA StepControl ==
  ASSUME MatchInv, NEW p \in Procs, Steps(p)
  PROVE  /\ UNCHANGED <<HaveCFI, program>>
         /\ \A q \in Procs : q # p => pc'[q] = pc[q] /\ round'[q] = round[q]
         /\ \/ ReturnStep(p)
            \/ CreateStep(p)
            \/ /\ UNCHANGED <<round, temp>>
               /\ \/ pc' = pc
                  \/ pc[p] = "idle" /\ pc'[p] = "called"
                  \/ pc[p] = "called" /\ pc'[p] = "inside"
                  \/ pc[p] \in {"called", "inside"} /\ pc'[p] = "finished"
<1>0. pc \in [Procs -> {"idle", "called", "inside", "finished"}] /\ round \in [Procs -> Nat \ {0}]
  BY DEF MatchInv, ControlInv
<1>1. CASE EnterStep(p)
  BY <1>0, <1>1, EnterEffect
<1>2. CASE Leave(p)
  BY <1>0, <1>2, LeaveEffect
<1>3. CASE RejectStep(p)
  BY <1>0, <1>3 DEF RejectStep, Reject
<1>4. CASE AbortStep(p)
  BY <1>0, <1>4 DEF AbortStep, Abort
<1>5. CASE CreateStep(p)
  BY <1>0, <1>5 DEF CreateStep
<1>6. CASE ReturnStep(p)
  BY <1>0, <1>6 DEF ReturnStep, Return
<1>7. CASE Start(p)
  BY <1>0, <1>7 DEF Start
<1>8. CASE MoveStep(p)
  <2>1. pc[p] \in {"called", "inside"} /\ UNCHANGED <<HaveCFI, program, round, temp>>
    BY <1>8 DEF MoveStep
  <2>2. CASE pc' = [pc EXCEPT ![p] = "finished"]
    BY <1>0, <2>1, <2>2
  <2>3. CASE pc' = [pc EXCEPT ![p] = "inside"]
    BY <1>0, <2>1, <2>3
  <2> QED
    BY <1>8, <2>2, <2>3 DEF MoveStep
<1> QED
  BY <1>1, <1>2, <1>3, <1>4, <1>5, <1>6, <1>7, <1>8 DEF Steps

\* A call that was made stays one that was made.
LEMMA StepCalled ==
  ASSUME MatchInv, NEW p \in Procs, Steps(p), NEW q \in Procs, NEW i \in Int, Called(q, i)
  PROVE  Called(q, i)'
<1>0. pc \in [Procs -> {"idle", "called", "inside", "finished"}] /\ round \in [Procs -> Nat \ {0}]
  BY DEF MatchInv, ControlInv
<1>1. CASE q # p
  <2>1. pc'[q] = pc[q] /\ round'[q] = round[q]
    BY <1>1, StepControl
  <2> QED
    BY <2>1 DEF Called
<1>2. CASE q = p /\ ReturnStep(p)
  <2>1. round'[p] = round[p] + 1
    BY <1>0, <1>2 DEF ReturnStep, Return
  <2> QED
    BY <1>0, <1>2, <2>1 DEF Called
<1>3. CASE q = p /\ ~ReturnStep(p)
  <2>1. round' = round /\ (pc[p] \in {"inside", "finished"} => pc'[p] \in {"inside", "finished"})
    BY <1>0, <1>3, StepControl DEF CreateStep
  <2> QED
    BY <1>3, <2>1 DEF Called
<1> QED
  BY <1>1, <1>2, <1>3

LEMMA CurrentCall ==
  ASSUME MatchInv, NEW p \in Procs, pc[p] # "idle"
  PROVE  round[p] \in DOMAIN program /\ round[p] \in 1..Len(program)
BY ProgramFacts DEF MatchInv, ControlInv
-----------------------------------------------------------------------------
(* The datatypes of sections. *)

\* Without descriptors all sections are contiguous.
BuildInv ==
  HaveCFI \/ \A i \in DOMAIN program : \A p \in Procs :
               Contiguous(program[i].arg[p].in) /\ Contiguous(program[i].arg[p].out)

\* A datatype that a call made is one that its routine will free, and that of
\* its section, which is long enough.
TempInv ==
  /\ DOMAIN temp = Procs
  /\ \A p \in Procs : DOMAIN temp[p] = Arrays
  /\ \A p \in Procs : \A side \in Arrays :
       \/ temp[p][side] = NoType
       \/ /\ pc[p] # "idle" /\ ~CreateFails(Section(p, side), Count(p, side))
          /\ side \in Made(p)
          /\ temp[p][side] = SectionType(Section(p, side), Count(p, side))

\* What is freed when a routine returns is decided by what does not change
\* during the call.
LEMMA MadeStays ==
  ASSUME NEW p \in Procs, UNCHANGED <<HaveCFI, program>>, round'[p] = round[p]
  PROVE  /\ Made(p)' = Made(p)
         /\ \A side \in Arrays : /\ Section(p, side)' = Section(p, side)
                                /\ Count(p, side)' = Count(p, side)
<1>1. Call(p)' = Call(p) /\ Arg(p)' = Arg(p)
  BY DEF Call, Arg
<1>2. \A side : Section(p, side)' = Section(p, side)
  BY <1>1 DEF Section
<1>3. \A sides : Noncontiguous(p, sides)' = Noncontiguous(p, sides)
  BY <1>2 DEF Noncontiguous, Contiguous
<1>4. MadeForOp(p)' = MadeForOp(p)
  BY <1>1, <1>2, <1>3 DEF MadeForOp, Contiguous
<1>5. Made(p)' = Made(p)
  BY <1>1, <1>3, <1>4 DEF Made
<1> QED
  BY <1>1, <1>2, <1>5 DEF Count

LEMMA FirstProcess == 0 \in Procs
<1>1. Cardinality(Procs) \in Nat
  BY CollectivesAssumption, FS_CardinalityType
<1>2. Procs # {} /\ Procs = 0..Cardinality(Procs)-1
  BY CollectivesAssumption
<1> QED
  BY <1>1, <1>2

LEMMA NumbersBelow ==
  ASSUME NEW n \in Nat
  PROVE  IsFiniteSet(0..n-1) /\ Cardinality(0..n-1) = n
BY FS_Interval

LEMMA DenseSize ==
  ASSUME NEW type, Dense(type)
  PROVE  Size(type) = type.extent /\ Size(type) \in Nat
BY NumbersBelow DEF Dense, Size

LEMMA SectionTypeSize ==
  ASSUME NEW buf, NEW count \in Nat
  PROVE  Size(SectionType(buf, count)) = count
BY NumbersBelow DEF SectionType, Size

LEMMA StepTemp ==
  ASSUME MatchInv, TempInv, NEW p \in Procs, Steps(p)
  PROVE  TempInv'
<1>1. /\ program' = program /\ HaveCFI' = HaveCFI
      /\ \A q \in Procs : q # p => pc'[q] = pc[q] /\ round'[q] = round[q]
  BY StepControl DEF MatchInv
<1>2. pc \in [Procs -> {"idle", "called", "inside", "finished"}]
  BY DEF MatchInv, ControlInv
<1>3. ASSUME NEW q \in Procs, round'[q] = round[q]
      PROVE  /\ Made(q)' = Made(q)
             /\ \A side \in Arrays : /\ Section(q, side)' = Section(q, side)
                                    /\ Count(q, side)' = Count(q, side)
  BY <1>1, <1>3, MadeStays
<1>4. CASE UNCHANGED <<round, temp>> /\ (pc[p] # "idle" => pc'[p] # "idle")
  BY <1>1, <1>3, <1>4 DEF TempInv
<1>5. CASE CreateStep(p)
  <2>1. PICK side \in Arrays :
          /\ ~CreateFails(Section(p, side), Count(p, side)) /\ side \in Made(p)
          /\ temp' = [temp EXCEPT ![p][side] = SectionType(Section(p, side), Count(p, side))]
    BY <1>5 DEF CreateStep
  <2>2. pc[p] = "called" /\ pc' = pc /\ round' = round
    BY <1>5 DEF CreateStep
  <2>3. /\ DOMAIN temp' = Procs
        /\ \A q \in Procs : DOMAIN temp'[q] = Arrays
        /\ \A q \in Procs : \A s \in Arrays : q # p \/ s # side => temp'[q][s] = temp[q][s]
        /\ temp'[p][side] = SectionType(Section(p, side), Count(p, side))
    BY <2>1 DEF TempInv
  <2>4. ~CreateFails(Section(p, side), Count(p, side)) /\ side \in Made(p)
    BY <2>1
  <2> QED
    BY <1>3, <2>2, <2>3, <2>4 DEF TempInv
<1>6. CASE ReturnStep(p)
  <2>1. temp' = [temp EXCEPT ![p] = [side \in Arrays |->
                   IF side \in Made(p) THEN NoType ELSE temp[p][side]]]
    BY <1>6 DEF ReturnStep, Return, Released
  <2>2. /\ DOMAIN temp' = Procs
        /\ \A q \in Procs : DOMAIN temp'[q] = Arrays
        /\ \A q \in Procs : q # p => temp'[q] = temp[q]
        /\ \A s \in Arrays : temp'[p][s] = IF s \in Made(p) THEN NoType ELSE temp[p][s]
    BY <2>1 DEF TempInv
  <2>3. \A s \in Arrays : temp'[p][s] = NoType
    BY <2>2 DEF TempInv
  <2> QED
    BY <1>1, <1>3, <2>2, <2>3 DEF TempInv
<1> QED
  BY <1>2, <1>4, <1>5, <1>6, StepControl DEF MatchInv
-----------------------------------------------------------------------------
(* Cells of buffers. *)

LEMMA DivModOf ==
  ASSUME NEW k \in Nat, NEW n \in Nat, k < n
  PROVE  k \div n = 0 /\ k % n = k
OBVIOUS

LEMMA DivModSum ==
  ASSUME NEW k \in Nat, NEW n \in Nat, n > 0
  PROVE  (k \div n) * n + (k % n) = k /\ (k % n) \in 0..n-1
<1>1. k = n * (k \div n) + (k % n)
  BY SMTT(60)
<1>2. (k % n) \in 0..n-1 /\ k \div n \in Int
  OBVIOUS
<1> QED
  BY <1>1, <1>2

\* The cells of a block of a dense datatype's elements follow each other.
LEMMA DenseBlock ==
  ASSUME NEW buf, NEW b, Dense(buf.type), buf.count[b] \in Nat, buf.displ[b] \in Int
  PROVE  /\ buf.count[b] * Size(buf.type) \in Nat
         /\ CellsOf(buf, b) = [m \in 0..buf.count[b] * Size(buf.type) - 1 |->
                                 buf.displ[b] * Size(buf.type) + m]
<1> DEFINE n == Size(buf.type)
           count == buf.count[b]
           first == buf.displ[b]
<1>1. n \in Nat /\ n = buf.type.extent /\ buf.type.disp = [k \in 0..n-1 |-> k]
  BY DenseSize DEF Dense
<1>2. CellsOf(buf, b) = [m \in 0..count * n - 1 |-> (first + m \div n) * n + buf.type.disp[m % n]]
  BY <1>1 DEF CellsOf
<1>3. count * n \in Nat
  BY <1>1
<1>4. ASSUME NEW m \in 0..count * n - 1
      PROVE  (first + m \div n) * n + buf.type.disp[m % n] = first * n + m
  <2>1. n > 0
    <3>1. n # 0
      BY <1>4
    <3> QED
      BY <1>1, <3>1
  <2>2. m \in Nat
    BY <1>4
  <2>3. (m \div n) * n + (m % n) = m /\ (m % n) \in 0..n-1
    BY <1>1, <2>1, <2>2, DivModSum
  <2>4. buf.type.disp[m % n] = m % n
    BY <1>1, <2>3
  <2>5. (first + m \div n) * n = first * n + (m \div n) * n
    BY <1>1, <2>1, <2>2
  <2>6. m \div n \in Int /\ first * n \in Int /\ (m \div n) * n \in Int
    BY <1>1, <2>1, <2>2
  <2> QED
    BY <2>3, <2>4, <2>5, <2>6
<1> HIDE DEF n, count, first
<1> QED
  BY <1>2, <1>3, <1>4 DEF n, count, first

\* Those of a section's type are the section's.
LEMMA SectionCells ==
  ASSUME NEW addr, NEW count \in Nat, NEW buf, buf.stride \in Nat \ {0}
  PROVE  CellsOf(Blocks(addr, 1, SectionType(buf, count)), 0)
           = [k \in 0..count - 1 |-> k * buf.stride]
<1> DEFINE type == SectionType(buf, count)
           b == Blocks(addr, 1, type)
<1>1. Size(type) = count
  BY SectionTypeSize
<1>2. b.count[0] = 1 /\ b.displ[0] = 0 /\ b.type = type
  BY FirstProcess DEF Blocks
<1>3. type.extent \in Int /\ type.disp = [k \in 0..count-1 |-> k * buf.stride]
  BY DEF SectionType
<1> HIDE DEF type, b
<1>4. CellsOf(b, 0) = [m \in 0..count - 1 |->
                         (0 + m \div count) * type.extent + type.disp[m % count]]
  <2>1. b.count[0] * Size(b.type) = count /\ b.displ[0] = 0 /\ Size(b.type) = count
    BY <1>1, <1>2
  <2>2. CellsOf(b, 0) = [m \in 0..count - 1 |-> LET n == Size(b.type)
                          IN  (b.displ[0] + m \div n) * b.type.extent + b.type.disp[m % n]]
    BY <2>1, Zenon DEF CellsOf
  <2> QED
    BY <1>2, <2>1, <2>2, Zenon
<1>5. ASSUME NEW m \in 0..count - 1
      PROVE  (0 + m \div count) * type.extent + type.disp[m % count] = m * buf.stride
  <2>1. m \div count = 0 /\ m % count = m
    BY DivModOf
  <2>2. type.disp[m] = m * buf.stride
    BY <1>3
  <2>3. (0 + m \div count) * type.extent = 0
    <3>1. 0 + m \div count = 0
      BY <2>1
    <3>2. 0 * type.extent = 0
      BY <1>3
    <3> QED
      BY <3>1, <3>2
  <2>4. m * buf.stride \in Int
    OBVIOUS
  <2> QED
    BY <2>1, <2>2, <2>3, <2>4
<1> QED
  BY <1>4, <1>5 DEF type, b
-----------------------------------------------------------------------------
(* Datatypes created for a call. *)

LEMMA TempIsReleased == ASSUME TempInv PROVE TypesReleased
BY DEF TempInv, TypesReleased

\* What each routine frees when it returns is what it created in the call,
\* whichever sections were contiguous and whatever the library answered.
THEOREM NoTypeLeft == Spec => []TypesReleased
<1>1. Init => TempInv
  BY DEF Init, TempInv
<1>2. ASSUME MatchInv, TempInv, [Next]_vars PROVE TempInv'
  <2>1. CASE UNCHANGED vars
    <3>1. UNCHANGED <<HaveCFI, program, round, pc, temp>>
      BY <2>1 DEF vars
    <3> QED
      BY <1>2, <3>1, MadeStays DEF TempInv
  <2>2. ASSUME NEW p \in Procs, Start(p) \/ Wrapper(p) \/ Leave(p) PROVE Steps(p)
    BY <2>2, WrapperStep DEF Steps
  <2> QED
    BY <1>2, <2>1, <2>2, StepTemp DEF Next
<1>3. Spec => []MatchInv
  BY InitMatch, NextMatch, PTL DEF Spec
<1> QED
  BY <1>1, <1>2, <1>3, TempIsReleased, PTL DEF Spec
-----------------------------------------------------------------------------
(* Aborts. *)

\* What an abort in a call of p is about; the call stays the same after it.
AbortCause(p) ==
  /\ round[p] <= Len(program) /\ ~BothContiguous(p)
  /\ \/ Call(p).routine \in Reductions \cup Vectors
     \/ \E side \in Arrays : Count(p, side) > Section(p, side).size

LEMMA CauseStays ==
  ASSUME NEW p \in Procs, UNCHANGED <<program, round>>
  PROVE  AbortCause(p)' = AbortCause(p)
<1>1. Call(p)' = Call(p) /\ Arg(p)' = Arg(p)
  BY DEF Call, Arg
<1>2. \A side \in Arrays : Count(p, side)' = Count(p, side) /\ Section(p, side)' = Section(p, side)
  BY <1>1 DEF Count, Section
<1>3. BothContiguous(p)' = BothContiguous(p)
  BY <1>1 DEF BothContiguous, Contiguous
<1> QED
  BY <1>1, <1>2, <1>3 DEF AbortCause

LEMMA AbortStepHasCause ==
  ASSUME NEW p \in Procs, MatchInv, AbortStep(p)
  PROVE  AbortsOnlyUnsupported'
<1>1. UNCHANGED <<program, round>>
  BY DEF AbortStep, Abort
<1>2. round[p] \in 1..Len(program) /\ round[p] <= Len(program)
  BY ProgramFacts DEF MatchInv, ControlInv, AbortStep
<1>3. \A side \in Arrays : Count(p, side) \in Nat /\ Section(p, side).size \in Nat
  BY <1>2, ProgramFacts DEF MatchInv, Count, Section, Arg, Call
<1>4. AbortCause(p)
  BY <1>2, <1>3 DEF AbortStep, CreateFails, AbortCause
<1> QED
  BY <1>1, <1>4, CauseStays DEF AbortsOnlyUnsupported, AbortCause

\* An abort has a cause the documentation names, or a section that is too short.
THEOREM AbortHasCause == Spec => []AbortsOnlyUnsupported
<1>1. Init => AbortsOnlyUnsupported
  BY DEF Init, AbortsOnlyUnsupported
<1>2. ASSUME MatchInv, AbortsOnlyUnsupported, [Next]_vars PROVE AbortsOnlyUnsupported'
  <2>1. CASE UNCHANGED vars
    <3>1. UNCHANGED <<program, round>> /\ aborted' = aborted
      BY <2>1 DEF vars
    <3> QED
      BY <1>2, <3>1, CauseStays DEF AbortsOnlyUnsupported, AbortCause
  <2>2. ASSUME NEW p \in Procs,
               EnterStep(p) \/ RejectStep(p) \/ CreateStep(p) \/ (ReturnStep(p) /\ ~aborted)
        PROVE  ~aborted'
    BY <2>2, EnterEffect DEF RejectStep, Reject, CreateStep, ReturnStep, Return
  <2>3. ASSUME NEW p \in Procs, Start(p) \/ Leave(p) PROVE ~aborted'
    BY <2>3, LeaveEffect DEF Start
  <2> QED
    BY <1>2, <2>1, <2>2, <2>3, AbortStepHasCause, WrapperStep DEF Next, AbortsOnlyUnsupported
<1>3. Spec => []MatchInv
  BY InitMatch, NextMatch, PTL DEF Spec
<1> QED
  BY <1>1, <1>2, <1>3, PTL DEF Spec
-----------------------------------------------------------------------------
(* The buffers of a collective. *)

MovesData(c) == c.routine \notin {"Barrier", "PointToPoint"}

LEMMA BlockNumbers == \A b \in Procs : b \in Nat
<1>1. Cardinality(Procs) \in Nat
  BY CollectivesAssumption, FS_CardinalityType
<1>2. Procs = 0..Cardinality(Procs)-1
  BY CollectivesAssumption
<1> QED
  BY <1>1, <1>2

\* The cells of a block of a section with one count and one datatype, which is
\* passed as elements or as one element of its datatype.
LEMMA SideCells ==
  ASSUME MatchInv, BuildInv, TempInv, NEW p \in Procs, pc[p] = "called", NEW side \in Arrays,
         HaveCFI => ~NeedsType(p, side), NEW t, MpiType(p, side) = TypeMap[t],
         NEW b \in Procs, Usable(Section(p, side), t, b), NEW addr
  PROVE  CellsOf(BufferAt(addr, p, side), b) =
           [m \in 0..Size(TypeMap[t]) * Count(p, side) - 1 |->
              (b * (Size(TypeMap[t]) * Count(p, side)) + m) * Section(p, side).stride]
<1> DEFINE type == TypeMap[t]
           size == Size(type)
           count == Count(p, side)
           buf == Section(p, side)
<1>1. Dense(type) /\ size \in Nat /\ size = type.extent
  BY DenseSize DEF Usable
<1>2. round[p] \in 1..Len(program)
  BY CurrentCall
<1>3. count \in Nat
  BY <1>2, ProgramFacts DEF MatchInv, Count, Arg, Call
<1>4. b \in Nat /\ buf.stride \in Nat \ {0} /\ (buf.stride # 1 => b = 0 /\ type.extent = 1)
  BY BlockNumbers DEF Usable
<1>5. CASE Contiguous(buf)
  <2> DEFINE all == Blocks(addr, count, type)
  <2>1. BufferAt(addr, p, side) = all
    BY <1>5 DEF BufferAt
  <2>2. all.type = type /\ all.count[b] = count /\ all.displ[b] = b * count
    BY DEF Blocks
  <2>3. /\ Dense(all.type) /\ all.count[b] \in Nat /\ all.displ[b] \in Int
    BY <1>1, <1>3, <1>4, <2>2
  <2> HIDE DEF all
  <2>4. CellsOf(all, b) = [m \in 0..all.count[b] * Size(all.type) - 1 |->
                             all.displ[b] * Size(all.type) + m]
    BY <2>3, DenseBlock, Zenon
  <2>5. CellsOf(all, b) = [m \in 0..count * size - 1 |-> (b * count) * size + m]
    BY <2>2, <2>4, Zenon
  <2>6. count * size = size * count /\ size * count \in Nat
    BY <1>1, <1>3
  <2>7. (b * count) * size = b * (size * count) /\ b * (size * count) \in Nat
    <3> HIDE DEF size, count
    <3>1. (b * count) * size = b * (count * size)
      BY <1>1, <1>3, <1>4, SMTT(30)
    <3> QED
      BY <1>1, <1>3, <1>4, <2>6, <3>1
  <2>8. buf.stride = 1
    BY <1>5 DEF Contiguous
  <2>9. \A m \in 0..size * count - 1 :
          (b * count) * size + m = (b * (size * count) + m) * buf.stride
    <3> HIDE DEF size, count, buf
    <3> QED
      BY <2>6, <2>7, <2>8
  <2> HIDE DEF size, count, buf
  <2>10. CellsOf(all, b) = [m \in 0..size * count - 1 |-> (b * count) * size + m]
    BY <2>5, <2>6
  <2> QED
    BY <2>1, <2>9, <2>10 DEF size, count, buf, type
<1>6. CASE ~Contiguous(buf)
  <2>1. HaveCFI
    BY <1>2, <1>6, ProgramFacts DEF BuildInv, MatchInv, Section, Arg, Call
  <2>2. temp[p][side] = SectionType(buf, count)
    BY <1>6, <2>1 DEF NeedsType, TempInv
  <2>3. BufferAt(addr, p, side) = Blocks(addr, 1, SectionType(buf, count))
    BY <1>6, <2>2 DEF BufferAt
  <2>4. b = 0 /\ size = 1
    BY <1>1, <1>4, <1>6 DEF Contiguous
  <2> HIDE DEF buf, count
  <2>5. CellsOf(BufferAt(addr, p, side), b) = [k \in 0..count - 1 |-> k * buf.stride]
    BY <1>3, <1>4, <2>3, <2>4, SectionCells
  <2>6. size * count = count /\ b * (size * count) = 0
    BY <1>3, <2>4
  <2> HIDE DEF size
  <2>7. \A m \in 0..size * count - 1 : (b * (size * count) + m) * buf.stride = m * buf.stride
    BY <1>3, <2>6
  <2> QED
    BY <2>5, <2>6, <2>7 DEF size, buf, count, type
<1> QED
  BY <1>5, <1>6

\* Those of a block with its own count and displacement.
LEMMA VectorCells ==
  ASSUME NEW buf, NEW b, Dense(buf.type), buf.count[b] \in Nat, buf.displ[b] \in Nat
  PROVE  CellsOf(buf, b) = [m \in 0..Size(buf.type) * buf.count[b] - 1 |->
                              (Size(buf.type) * buf.displ[b] + m) * 1]
<1> DEFINE size == Size(buf.type)
           count == buf.count[b]
           first == buf.displ[b]
<1>0. buf.displ[b] \in Int
  OBVIOUS
<1>1. size \in Nat /\ count \in Nat /\ first \in Nat
  BY DenseSize
<1>2. CellsOf(buf, b) = [m \in 0..count * size - 1 |-> first * size + m]
  BY <1>0, DenseBlock, Zenon
<1>3. count * size = size * count /\ first * size = size * first
  BY <1>1
<1>4. \A m \in 0..size * count - 1 : size * first + m = (size * first + m) * 1
  BY <1>1
<1> HIDE DEF size, count, first
<1>5. CellsOf(buf, b) = [m \in 0..size * count - 1 |-> size * first + m]
  BY <1>2, <1>3, Zenon
<1> QED
  BY <1>4, <1>5 DEF size, count, first

\* A vector routine is entered with contiguous sections only.
LEMMA VectorStride ==
  ASSUME MatchInv, BuildInv, NEW p \in Procs, pc[p] = "called", TypesMade(p),
         Call(p).routine \in Reductions \cup Vectors
  PROVE  Arg(p).in.stride = 1 /\ Arg(p).out.stride = 1
<1>1. round[p] \in DOMAIN program
  BY CurrentCall
<1>2. BothContiguous(p)
  BY <1>1 DEF TypesMade, BuildInv, BothContiguous, Arg, Call
<1> QED
  BY <1>2 DEF BothContiguous, Contiguous

\* The buffers have the cells of the elements that they stand for.
LEMMA InCells ==
  ASSUME MatchInv, BuildInv, TempInv, NEW p \in Procs, pc[p] = "called", MovesData(Call(p)),
         TypesMade(p), NEW b \in Procs, Usable(Arg(p).in, Arg(p).stype, b),
         Call(p).routine \in {"Scatterv", "Alltoallv"} =>
           Arg(p).scounts[b] \in Nat /\ Arg(p).sdispls[b] \in Nat
  PROVE  CellsOf(InBuffer(p), b) =
           [m \in 0..SendCount(Call(p), p, b) - 1 |->
              (SendFirst(Call(p), p, b) + m) * Arg(p).in.stride]
<1> DEFINE c == Call(p)
           a == Arg(p)
<1>0. c.arg[p] = a /\ "in" \in Arrays
  BY DEF Arg, Arrays
<1>1. CASE c.routine \in {"Scatterv", "Alltoallv"}
  <2>1. a.in.stride = 1
    BY <1>1, VectorStride DEF Vectors
  <2>2. InBuffer(p) = VBlocks(Address(a.in), a.scounts, a.sdispls, TypeMap[a.stype])
    BY <1>1 DEF InBuffer, VSend, MpiType
  <2>3. Dense(TypeMap[a.stype]) /\ a.scounts[b] \in Nat /\ a.sdispls[b] \in Nat
    BY <1>1 DEF Usable
  <2>4. CellsOf(InBuffer(p), b) =
          [m \in 0..Size(TypeMap[a.stype]) * a.scounts[b] - 1 |->
             (Size(TypeMap[a.stype]) * a.sdispls[b] + m) * 1]
    <3>1. PICK v : /\ v = InBuffer(p)
                   /\ v.type = TypeMap[a.stype] /\ v.count = a.scounts /\ v.displ = a.sdispls
      BY <2>2 DEF VBlocks
    <3>2. Dense(v.type) /\ v.count[b] \in Nat /\ v.displ[b] \in Nat
      BY <2>3, <3>1, Zenon
    <3>3. CellsOf(v, b) = [m \in 0..Size(v.type) * v.count[b] - 1 |->
                             (Size(v.type) * v.displ[b] + m) * 1]
      BY <3>2, VectorCells
    <3> HIDE DEF a
    <3> QED
      BY <3>1, <3>3, Zenon
  <2>5. /\ SendCount(c, p, b) = Size(TypeMap[a.stype]) * a.scounts[b]
        /\ SendFirst(c, p, b) = Size(TypeMap[a.stype]) * a.sdispls[b]
    BY <1>0, <1>1 DEF SendCount, SendFirst
  <2> HIDE DEF a, c
  <2> QED
    BY <2>1, <2>4, <2>5, Zenon DEF a, c
<1>2. CASE c.routine \notin {"Scatterv", "Alltoallv"}
  <2>1. PICK addr : InBuffer(p) = BufferAt(addr, p, "in")
    BY <1>2 DEF InBuffer, BcastBuffer, Buffer
  <2>2. Section(p, "in") = a.in /\ Count(p, "in") = a.scount /\ MpiType(p, "in") = TypeMap[a.stype]
    BY DEF Section, Count, MpiType
  <2>3. HaveCFI => ~NeedsType(p, "in")
    BY DEF TypesMade
  <2>4. Usable(Section(p, "in"), a.stype, b)
    BY <2>2
  <2>5. CellsOf(BufferAt(addr, p, "in"), b) =
           [m \in 0..Size(TypeMap[a.stype]) * Count(p, "in") - 1 |->
              (b * (Size(TypeMap[a.stype]) * Count(p, "in")) + m) * Section(p, "in").stride]
    <3> PICK t : t = a.stype
      OBVIOUS
    <3>1. MpiType(p, "in") = TypeMap[t] /\ Usable(Section(p, "in"), t, b) /\ "in" \in Arrays
      BY <1>0, <2>2, <2>4
    <3> HIDE DEF a
    <3>2. CellsOf(BufferAt(addr, p, "in"), b) =
           [m \in 0..Size(TypeMap[t]) * Count(p, "in") - 1 |->
              (b * (Size(TypeMap[t]) * Count(p, "in")) + m) * Section(p, "in").stride]
      BY <2>3, <3>1, SideCells
    <3> QED
      BY <3>2, Zenon
  <2>6. /\ SendCount(c, p, b) = Size(TypeMap[a.stype]) * a.scount
        /\ SendFirst(c, p, b) = b * SendCount(c, p, b)
    BY <1>0, <1>2 DEF SendCount, SendFirst
  <2> HIDE DEF a, c
  <2> QED
    BY <2>1, <2>2, <2>5, <2>6, Zenon DEF a, c
<1> QED
  BY <1>1, <1>2

LEMMA OutCells ==
  ASSUME MatchInv, BuildInv, TempInv, NEW p \in Procs, pc[p] = "called", MovesData(Call(p)),
         TypesMade(p), NEW b \in Procs, Usable(ReceiveSection(Call(p), p), Arg(p).rtype, b),
         Call(p).routine \in Vectors \ {"Scatterv"} =>
           Arg(p).rcounts[b] \in Nat /\ Arg(p).rdispls[b] \in Nat,
         Call(p).routine = "Bcast" => Arg(p).scount = Arg(p).rcount /\ Arg(p).stype = Arg(p).rtype
  PROVE  CellsOf(OutBuffer(p), b) =
           [m \in 0..RecvCount(Call(p), p, b) - 1 |->
              (RecvFirst(Call(p), p, b) + m) * ReceiveSection(Call(p), p).stride]
<1> DEFINE c == Call(p)
           a == Arg(p)
           to == ReceiveSection(c, p)
<1>0. c.arg[p] = a /\ "in" \in Arrays /\ "out" \in Arrays
  BY DEF Arg, Arrays
<1>1. CASE c.routine \in Vectors \ {"Scatterv"}
  <2>1. to = a.out /\ a.out.stride = 1
    BY <1>0, <1>1, VectorStride DEF Vectors, ReceiveSection
  <2>2. OutBuffer(p) = VBlocks(Address(a.out), a.rcounts, a.rdispls, TypeMap[a.rtype])
    BY <1>1 DEF OutBuffer, VRecv, MpiType, Vectors
  <2>3. Dense(TypeMap[a.rtype]) /\ a.rcounts[b] \in Nat /\ a.rdispls[b] \in Nat
    BY <1>1 DEF Usable
  <2>4. CellsOf(OutBuffer(p), b) =
          [m \in 0..Size(TypeMap[a.rtype]) * a.rcounts[b] - 1 |->
             (Size(TypeMap[a.rtype]) * a.rdispls[b] + m) * 1]
    <3>1. PICK v : /\ v = OutBuffer(p)
                   /\ v.type = TypeMap[a.rtype] /\ v.count = a.rcounts /\ v.displ = a.rdispls
      BY <2>2 DEF VBlocks
    <3>2. Dense(v.type) /\ v.count[b] \in Nat /\ v.displ[b] \in Nat
      BY <2>3, <3>1, Zenon
    <3>3. CellsOf(v, b) = [m \in 0..Size(v.type) * v.count[b] - 1 |->
                             (Size(v.type) * v.displ[b] + m) * 1]
      BY <3>2, VectorCells
    <3> HIDE DEF a
    <3> QED
      BY <3>1, <3>3, Zenon
  <2>5. /\ RecvCount(c, p, b) = Size(TypeMap[a.rtype]) * a.rcounts[b]
        /\ RecvFirst(c, p, b) = Size(TypeMap[a.rtype]) * a.rdispls[b]
    BY <1>0, <1>1 DEF RecvCount, RecvFirst
  <2> HIDE DEF a, c, to
  <2> QED
    BY <2>1, <2>4, <2>5, Zenon DEF a, c, to
<1>2. CASE c.routine \notin Vectors \ {"Scatterv"}
  <2> DEFINE side == IF c.routine = "Bcast" THEN "in" ELSE "out"
  <2>1. PICK addr : OutBuffer(p) = BufferAt(addr, p, side)
    BY <1>2 DEF OutBuffer, BcastBuffer, Buffer
  <2>2. /\ side \in Arrays /\ Section(p, side) = to
        /\ Count(p, side) = a.rcount /\ MpiType(p, side) = TypeMap[a.rtype]
    BY <1>0 DEF Section, Count, MpiType, ReceiveSection
  <2>3. HaveCFI => ~NeedsType(p, side)
    BY DEF TypesMade
  <2>4. Usable(Section(p, side), a.rtype, b)
    BY <2>2
  <2>5. CellsOf(BufferAt(addr, p, side), b) =
           [m \in 0..Size(TypeMap[a.rtype]) * Count(p, side) - 1 |->
              (b * (Size(TypeMap[a.rtype]) * Count(p, side)) + m) * Section(p, side).stride]
    <3> PICK t : t = a.rtype
      OBVIOUS
    <3>1. MpiType(p, side) = TypeMap[t] /\ Usable(Section(p, side), t, b) /\ side \in Arrays
      BY <1>0, <2>2, <2>4
    <3> HIDE DEF a, side
    <3>2. CellsOf(BufferAt(addr, p, side), b) =
           [m \in 0..Size(TypeMap[t]) * Count(p, side) - 1 |->
              (b * (Size(TypeMap[t]) * Count(p, side)) + m) * Section(p, side).stride]
      BY <2>3, <3>1, SideCells
    <3> QED
      BY <3>2, Zenon
  <2>6. /\ RecvCount(c, p, b) = Size(TypeMap[a.rtype]) * a.rcount
        /\ RecvFirst(c, p, b) = b * RecvCount(c, p, b)
    BY <1>0, <1>2 DEF RecvCount, RecvFirst
  <2> HIDE DEF a, c, to, side
  <2> QED
    BY <2>1, <2>2, <2>5, <2>6, Zenon DEF a, c, to
<1> QED
  BY <1>1, <1>2

LEMMA CallLegal ==
  ASSUME LegalCollectives, MatchInv, NEW i \in 1..Len(program), MovesData(program[i]),
         program[i].root \in Procs
  PROVE  /\ \A p \in Procs : LegalArguments(program[i], p)
         /\ \A s \in Senders(program[i]) : \A p \in Receivers(program[i]) :
              /\ Supported(program[i], s) /\ Supported(program[i], p)
              /\ ReceiveSection(program[i], p).addr \in Arrays
              => LegalTransfer(program[i], s, p)
<1>1. program \in Programs /\ i \in DOMAIN program
  BY ProgramFacts DEF MatchInv, ProgramInv
<1> QED
  BY <1>1, Zenon DEF LegalCollectives, MovesData

LEMMA Participants ==
  ASSUME NEW c, c.root \in Procs
  PROVE  Senders(c) \subseteq Procs /\ Receivers(c) \subseteq Procs
BY DEF Senders, Receivers

\* The library is reached with sections that the wrapper supports.
LEMMA EnterSupported ==
  ASSUME MatchInv, BuildInv, TempInv, NEW p \in Procs, pc[p] = "called", TypesMade(p)
  PROVE  Supported(Call(p), p)
<1> DEFINE c == Call(p)
           a == Arg(p)
<1>0. c.arg[p] = a /\ "in" \in Arrays /\ "out" \in Arrays
  BY DEF Arg, Arrays
<1>1. round[p] \in 1..Len(program) /\ round[p] \in DOMAIN program
  BY CurrentCall
<1>2. a.scount \in Nat /\ a.rcount \in Nat /\ a.in.size \in Nat /\ a.out.size \in Nat
  BY <1>1, ProgramFacts DEF MatchInv, Arg, Call
<1>3. CASE ~HaveCFI
  <2>1. Contiguous(a.in) /\ Contiguous(a.out)
    BY <1>1, <1>3 DEF BuildInv, Arg, Call
  <2> QED
    BY <1>0, <2>1 DEF Supported
<1>4. CASE HaveCFI
  <2>1. c.routine \in Reductions \cup Vectors => Contiguous(a.in) /\ Contiguous(a.out)
    BY <1>4 DEF TypesMade, BothContiguous
  <2>2. ASSUME NEW side \in Arrays, ~NeedsType(p, side)
        PROVE  Contiguous(Section(p, side)) \/ ~CreateFails(Section(p, side), Count(p, side))
    BY <2>2 DEF NeedsType, TempInv
  <2>3. ~NeedsType(p, "in") /\ (c.routine # "Bcast" => ~NeedsType(p, "out"))
    BY <1>4 DEF TypesMade
  <2>4. Contiguous(a.in) \/ a.scount <= a.in.size
    BY <1>0, <1>2, <2>2, <2>3 DEF CreateFails, Section, Count
  <2>5. c.routine = "Bcast" \/ Contiguous(a.out) \/ a.rcount <= a.out.size
    BY <1>0, <1>2, <2>2, <2>3 DEF CreateFails, Section, Count
  <2> QED
    BY <1>0, <2>1, <2>4, <2>5 DEF Supported
<1> QED
  BY <1>3, <1>4

LEMMA BufferAddress ==
  ASSUME NEW p \in Procs, MovesData(Call(p)), LegalArguments(Call(p), p)
  PROVE  /\ InBuffer(p).addr = Address(Arg(p).in)
         /\ p \in Receivers(Call(p)) => OutBuffer(p).addr = Address(ReceiveSection(Call(p), p))
<1> DEFINE c == Call(p)
           a == Arg(p)
<1>0. c.arg[p] = a
  BY DEF Arg
<1>1. /\ \A addr, side : BufferAt(addr, p, side).addr = addr
      /\ \A addr, counts, displs, type : VBlocks(addr, counts, displs, type).addr = addr
  BY DEF BufferAt, Blocks, VBlocks
<1>2. CASE c.routine = "Bcast"
  <2>1. a.in.addr \in Arrays /\ a.in.addr = Address(a.in) /\ ReceiveSection(c, p) = a.in
    BY <1>0, <1>2 DEF LegalArguments, Address, Arrays, f08_MPI_IN_PLACE, ReceiveSection
  <2>2. InBuffer(p) = BcastBuffer(p) /\ OutBuffer(p) = BcastBuffer(p)
    BY <1>2 DEF InBuffer, OutBuffer, Vectors
  <2> QED
    BY <1>1, <2>1, <2>2 DEF BcastBuffer
<1>3. CASE c.routine # "Bcast"
  <2>1. Section(p, "in") = a.in /\ Section(p, "out") = a.out /\ ReceiveSection(c, p) = a.out
    BY <1>0, <1>3 DEF Section, ReceiveSection
  <2>2. InBuffer(p) = VSend(p) \/ InBuffer(p) = Buffer(p, "in")
    BY <1>3 DEF InBuffer
  <2>3. OutBuffer(p) = VRecv(p) \/ OutBuffer(p) = Buffer(p, "out")
    BY <1>3 DEF OutBuffer
  <2> QED
    BY <1>1, <2>1, <2>2, <2>3 DEF Buffer, VSend, VRecv
<1> QED
  BY <1>2, <1>3

\* What a process gives to the library for another are the elements of its
\* section.
LEMMA SentElements ==
  ASSUME MatchInv, BuildInv, TempInv, NEW p \in Procs, pc[p] = "called", MovesData(Call(p)),
         TypesMade(p), Call(p).root \in Procs, LegalArguments(Call(p), p), p \in Senders(Call(p)),
         NEW q \in Receivers(Call(p)), LegalTransfer(Call(p), p, q)
  PROVE  Sent(p, InBuffer(p), OutBuffer(p))[q] =
           [m \in 0..SourceCount(Call(p), p, q) - 1 |->
              mem[p][SourceSection(Call(p), p).addr]
                [(SourceFirst(Call(p), p, q) + m) * SourceSection(Call(p), p).stride]]
<1> DEFINE c == Call(p)
           a == Arg(p)
           from == SourceSection(c, p)
           src == IF InBuffer(p).addr = MPI_IN_PLACE THEN OutBuffer(p) ELSE InBuffer(p)
           b == SourceBlock(c, p, q)
           cell == CellsOf(src, b)
<1>0. c.arg[p] = a /\ q \in Procs /\ 0 \in Procs
  BY Participants, FirstProcess DEF Arg
<1>1. from.addr \in Arrays /\ Usable(from, SourceType(c, p), b)
  BY DEF LegalTransfer
<1>2. InBuffer(p).addr = MPI_IN_PLACE <=> SendsInPlace(c, p)
  <2>1. SendsInPlace(c, p) \/ a.in.addr \in Arrays
    BY <1>0, <1>1 DEF SourceSection
  <2> QED
    BY <1>0, <2>1, BufferAddress
    DEF SendsInPlace, Address, Arrays, f08_MPI_IN_PLACE, MPI_IN_PLACE
<1>3. src.addr = from.addr
  <2>1. CASE SendsInPlace(c, p)
    <3>1. c.routine # "Bcast" /\ p \in Receivers(c)
      BY <1>0, <2>1 DEF LegalTransfer, LegalArguments, SendsInPlace, Arrays, f08_MPI_IN_PLACE
    <3>2. from = a.out /\ ReceiveSection(c, p) = a.out
      BY <1>0, <2>1, <3>1 DEF SourceSection, ReceiveSection
    <3> QED
      BY <1>1, <1>2, <2>1, <3>1, <3>2, BufferAddress DEF Address, Arrays, f08_MPI_IN_PLACE
  <2>2. CASE ~SendsInPlace(c, p)
    BY <1>0, <1>1, <1>2, <2>2, BufferAddress
    DEF SourceSection, Address, Arrays, f08_MPI_IN_PLACE
  <2> QED
    BY <2>1, <2>2
<1>4. cell = [m \in 0..SourceCount(c, p, q) - 1 |-> (SourceFirst(c, p, q) + m) * from.stride]
  <2>1. CASE SendsInPlace(c, p)
    <3>1. c.routine # "Bcast" /\ p \in Receivers(c)
      BY <1>0, <2>1 DEF LegalTransfer, LegalArguments, SendsInPlace, Arrays, f08_MPI_IN_PLACE
    <3>2. /\ from = a.out /\ ReceiveSection(c, p) = a.out /\ SourceType(c, p) = a.rtype
          /\ b = InPlaceBlock(c, p, q) /\ src = OutBuffer(p)
          /\ SourceFirst(c, p, q) = RecvFirst(c, p, b) /\ SourceCount(c, p, q) = RecvCount(c, p, b)
      BY <1>0, <1>2, <2>1, <3>1
      DEF SourceSection, ReceiveSection, SourceType, SourceBlock, SourceFirst, SourceCount
    <3>3. b \in Procs
      BY <1>0, <3>2 DEF InPlaceBlock, RecvBlock
    <3>4. c.routine \in Vectors \ {"Scatterv"} => a.rcounts[b] \in Nat /\ a.rdispls[b] \in Nat
      BY <1>0, <3>1, <3>3 DEF LegalArguments
    <3> HIDE DEF b
    <3>5. CellsOf(OutBuffer(p), b) =
            [m \in 0..RecvCount(c, p, b) - 1 |->
               (RecvFirst(c, p, b) + m) * ReceiveSection(c, p).stride]
      BY <1>1, <3>1, <3>2, <3>3, <3>4, OutCells
    <3> QED
      BY <3>2, <3>5, Zenon
  <2>2. CASE ~SendsInPlace(c, p)
    <3>1. /\ from = a.in /\ SourceType(c, p) = a.stype
          /\ b = SendBlock(c, q) /\ src = InBuffer(p)
          /\ SourceFirst(c, p, q) = SendFirst(c, p, b) /\ SourceCount(c, p, q) = SendCount(c, p, b)
      BY <1>0, <1>2, <2>2
      DEF SourceSection, SourceType, SourceBlock, SourceFirst, SourceCount
    <3>2. b \in Procs
      BY <1>0, <3>1 DEF SendBlock
    <3>3. c.routine \in {"Scatterv", "Alltoallv"} => a.scounts[b] \in Nat /\ a.sdispls[b] \in Nat
      BY <1>0, <3>2 DEF LegalArguments
    <3> HIDE DEF b
    <3>4. CellsOf(InBuffer(p), b) =
            [m \in 0..SendCount(c, p, b) - 1 |-> (SendFirst(c, p, b) + m) * a.in.stride]
      BY <1>1, <3>1, <3>2, <3>3, InCells
    <3> QED
      BY <3>1, <3>4, Zenon
  <2> QED
    BY <2>1, <2>2
<1>5. Sent(p, InBuffer(p), OutBuffer(p))[q] = [m \in DOMAIN cell |-> Load(p, src.addr, cell[m])]
  <2>1. InBuffer(p).addr = MPI_IN_PLACE => b = InPlaceBlock(c, p, q)
    BY <1>2 DEF SourceBlock
  <2>2. InBuffer(p).addr # MPI_IN_PLACE => b = SendBlock(c, q)
    BY <1>2 DEF SourceBlock
  <2> HIDE DEF b
  <2> QED
    BY <1>0, <2>1, <2>2 DEF Sent
<1>6. \A m \in 0..SourceCount(c, p, q) - 1 :
        Load(p, src.addr, (SourceFirst(c, p, q) + m) * from.stride) =
          mem[p][from.addr][(SourceFirst(c, p, q) + m) * from.stride]
  <2>1. \A m \in 0..SourceCount(c, p, q) - 1 : (SourceFirst(c, p, q) + m) * from.stride \in Cells
    BY DEF LegalTransfer
  <2> QED
    BY <1>1, <1>3, <2>1, Zenon DEF Load
<1> HIDE DEF cell, src, from, b, a
<1> QED
  BY <1>4, <1>5, <1>6 DEF from

-----------------------------------------------------------------------------
(* What a process takes from a collective. *)

Origins(p)    == IF p \in Receivers(Call(p)) THEN Senders(Call(p)) ELSE {}
Placed(p, q)  == CellsOf(args[p].out, RecvBlock(Call(p), q))
Arrived(p, q) == coll[entered[p]][q].data[p]
Received(p)   == {r \in Origins(p) \X (0..NumCells-1) :
                    r[2] \in DOMAIN Placed(p, r[1]) /\ r[2] \in DOMAIN Arrived(p, r[1])}
Value(p, r)   == IF Call(p).routine \in Reductions
                 THEN SumFunction([s \in Origins(p) |-> Arrived(p, s)[r[2]]])
                 ELSE Arrived(p, r[1])[r[2]]
Taken(p, x)   == CHOOSE r \in Received(p) : Placed(p, r[1])[r[2]] = x

LEMMA LeaveStores ==
  ASSUME NEW p \in Procs, Leave(p)
  PROVE  /\ args[p].out.addr \notin Arrays => mem' = mem
         /\ args[p].out.addr \in Arrays =>
              mem' = [mem EXCEPT ![p][args[p].out.addr] =
                        [x \in Cells |-> IF \E r \in Received(p) : Placed(p, r[1])[r[2]] = x
                                         THEN Value(p, Taken(p, x))
                                         ELSE mem[p][args[p].out.addr][x]]]
<1>1. mem' = IF args[p].out.addr \notin Arrays THEN mem
             ELSE [mem EXCEPT ![p][args[p].out.addr] =
                        [x \in Cells |-> IF \E r \in Received(p) : Placed(p, r[1])[r[2]] = x
                                         THEN Value(p, Taken(p, x))
                                         ELSE mem[p][args[p].out.addr][x]]]
  BY Zenon DEF Leave, Origins, Placed, Arrived, Received, Value, Taken
<1> QED
  BY <1>1, Zenon

\* A process inside the library is in the collective that it entered last.
InsideInv ==
  \A p \in Procs : pc[p] = "inside" /\ Call(p).routine # "PointToPoint" =>
    entered[p] > 0 /\ coll[entered[p]][p].round = round[p]

LEMMA LeaveMeets ==
  ASSUME MatchInv, InsideInv, NEW p \in Procs, Leave(p), Call(p).routine # "PointToPoint",
         NEW q \in Origins(p)
  PROVE  /\ entered[p] \in 1..entered[q] /\ q \in Procs
         /\ coll[entered[p]][q].round = round[p]
<1>1. pc[p] = "inside" /\ q \in DOMAIN coll[entered[p]] /\ coll[entered[p]][q].round = round[p]
  BY Zenon DEF Leave, Origins
<1>2. entered[p] > 0 /\ entered[p] \in Nat /\ entered[p] <= Len(coll)
  BY <1>1 DEF InsideInv, MatchInv, EnteredInv
<1>3. entered[p] \in 1..Len(coll)
  <2>1. Len(coll) \in Nat
    BY DEF MatchInv, EnteredInv
  <2> QED
    BY <1>2, <2>1
<1>4. q \in Procs /\ entered[p] <= entered[q] /\ entered[q] \in Nat
  BY <1>1, <1>3 DEF MatchInv, EnteredInv
<1> QED
  BY <1>1, <1>2, <1>4
-----------------------------------------------------------------------------
(* Types. *)

\* What process p gave to the library's collective n.
DataOf(n, p) == coll[n][p].data

\* The elements a process gives to a reduction.
Reduced(c, p) == 0..c.arg[p].scount * Size(TypeMap[c.arg[p].stype]) - 1

CodesInv ==
  /\ mem \in [Procs -> [Arrays -> [Cells -> Int]]]
  /\ rc \in [Procs -> CCodes \cup FCodes]
  /\ \A p \in Procs : pc[p] = "idle" => rc[p] \in FCodes
  /\ HaveCFI \in BOOLEAN /\ aborted \in BOOLEAN

\* Elements are numbers, and a reduction has the same in all processes.
DataInv ==
  \A p \in Procs : \A n \in 1..entered[p] : \A q \in Procs :
    /\ \A m \in DOMAIN DataOf(n, p)[q] : DataOf(n, p)[q][m] \in Int
    /\ program[coll[n][p].round].routine \in Reductions =>
         DOMAIN DataOf(n, p)[q] = Reduced(program[coll[n][p].round], p)

\* Without module PointToPoint no process enters the library in its rounds.
ProcessesInv == \A p \in Procs : pc[p] = "inside" => Call(p).routine # "PointToPoint"

TypeInv == MatchInv /\ BuildInv /\ ProcessesInv /\ InsideInv /\ CodesInv /\ DataInv

\* The steps of Spec.
CollectiveSteps(p) ==
  \/ EnterStep(p) \/ RejectStep(p) \/ AbortStep(p) \/ CreateStep(p)
  \/ (ReturnStep(p) /\ ~aborted) \/ Start(p) \/ Leave(p)

LEMMA SentNumbers ==
  ASSUME CodesInv, NEW p \in Procs, NEW in, NEW out, NEW q \in Procs,
         NEW m \in DOMAIN Sent(p, in, out)[q]
  PROVE  Sent(p, in, out)[q][m] \in Int
<1> DEFINE src   == IF in.addr = MPI_IN_PLACE THEN out ELSE in
           block == IF in.addr = MPI_IN_PLACE THEN InPlaceBlock(Call(p), p, q) ELSE SendBlock(Call(p), q)
           cell  == CellsOf(src, block)
<1>1. Sent(p, in, out)[q] = [k \in DOMAIN cell |-> Load(p, src.addr, cell[k])]
  BY DEF Sent
<1> HIDE DEF src, cell
<1>2. Sent(p, in, out)[q][m] = Load(p, src.addr, cell[m])
  BY <1>1
<1>3. \A addr, x : Load(p, addr, x) \in Int
  <2>1. \A addr \in Arrays : \A x \in Cells : mem[p][addr][x] \in Int
    BY DEF CodesInv
  <2> QED
    BY <2>1 DEF Load
<1> QED
  BY <1>2, <1>3

LEMMA ReductionLength ==
  ASSUME MatchInv, BuildInv, NEW p \in Procs, pc[p] = "called", TypesMade(p),
         Call(p).routine \in Reductions, NEW q \in Procs
  PROVE  DOMAIN Sent(p, InBuffer(p), OutBuffer(p))[q] = Reduced(Call(p), p)
<1> DEFINE c == Call(p)
           a == Arg(p)
           in == InBuffer(p)
           out == OutBuffer(p)
           src == IF in.addr = MPI_IN_PLACE THEN out ELSE in
           block == IF in.addr = MPI_IN_PLACE THEN InPlaceBlock(Call(p), p, q) ELSE SendBlock(Call(p), q)
<1>0. c.arg[p] = a
  BY DEF Arg
<1>1. Contiguous(a.in) /\ Contiguous(a.out)
  BY VectorStride DEF Contiguous
<1>2. a.rcount = a.scount /\ a.rtype = a.stype
  <2>1. program \in Programs /\ round[p] \in DOMAIN program
    BY CurrentCall DEF MatchInv, ProgramInv
  <2> QED
    BY <1>0, <2>1, ProgramsAssumption DEF Arg, Call, Reductions
<1>3. /\ in = Blocks(Address(a.in), a.scount, TypeMap[a.stype])
      /\ out = Blocks(Address(a.out), a.scount, TypeMap[a.stype])
  BY <1>1, <1>2 DEF InBuffer, OutBuffer, Buffer, BufferAt, Section, Count, MpiType, Reductions, Vectors
<1>4. src.count = [r \in Procs |-> a.scount] /\ src.type = TypeMap[a.stype]
  BY <1>3 DEF Blocks
<1>5. block = 0 /\ 0 \in Procs
  BY FirstProcess DEF InPlaceBlock, RecvBlock, SendBlock, Reductions, Exchanges, Gathers, Scatters
<1>6. DOMAIN Sent(p, in, out)[q] = DOMAIN CellsOf(src, block)
  BY DEF Sent
<1>7. DOMAIN CellsOf(src, block) = 0..src.count[block] * Size(src.type) - 1
  BY DEF CellsOf
<1>8. src.count[block] = a.scount
  BY <1>4, <1>5
<1> HIDE DEF src, block, a, in, out
<1> QED
  BY <1>0, <1>4, <1>6, <1>7, <1>8, Zenon DEF Reduced, in, out

LEMMA EnterOrNot ==
  ASSUME MatchInv, NEW p \in Procs, Steps(p)
  PROVE  \/ /\ UNCHANGED <<coll, entered>>
            /\ pc'[p] = "inside" => Call(p).routine = "PointToPoint" \/ pc[p] = "inside"
         \/ EnterStep(p) /\ Call(p).root \in Procs
<1>0. pc \in [Procs -> {"idle", "called", "inside", "finished"}]
  BY DEF MatchInv, ControlInv
<1>1. CASE EnterStep(p)
  <2>1. PICK in, out : Enter(p, in, out)
    BY <1>1 DEF EnterStep
  <2>2. CASE Call(p).root \notin Procs
    <3>1. UNCHANGED <<coll, entered>> /\ pc' = [pc EXCEPT ![p] = "finished"]
      BY <2>1, <2>2 DEF Enter
    <3> QED
      BY <1>0, <3>1
  <2> QED
    BY <1>1, <2>2
<1>2. CASE Leave(p)
  BY <1>0, <1>2, LeaveEffect
<1>3. CASE RejectStep(p)
  BY <1>0, <1>3 DEF RejectStep, Reject
<1>4. CASE AbortStep(p)
  BY <1>0, <1>4 DEF AbortStep, Abort
<1>5. CASE CreateStep(p)
  BY <1>0, <1>5 DEF CreateStep
<1>6. CASE ReturnStep(p)
  BY <1>0, <1>6 DEF ReturnStep, Return
<1>7. CASE Start(p)
  BY <1>0, <1>7 DEF Start
<1>8. CASE MoveStep(p)
  BY <1>8 DEF MoveStep
<1> QED
  BY <1>1, <1>2, <1>3, <1>4, <1>5, <1>6, <1>7, <1>8 DEF Steps

LEMMA EnterData ==
  ASSUME MatchInv, NEW p \in Procs, EnterStep(p), Call(p).root \in Procs
  PROVE  /\ pc[p] = "called" /\ pc' = [pc EXCEPT ![p] = "inside"]
         /\ entered' = [entered EXCEPT ![p] = @ + 1]
         /\ coll'[entered[p] + 1][p].round = round[p]
         /\ \E in, out : /\ coll'[entered[p] + 1][p].data = Sent(p, in, out)
                         /\ args' = [args EXCEPT ![p] = [in |-> in, out |-> out]]
                         /\ Call(p).routine # "Barrier" =>
                              TypesMade(p) /\ in = InBuffer(p) /\ out = OutBuffer(p)
         /\ \A q \in Procs : \A m \in 1..entered[q] : coll'[m][q] = coll[m][q]
<1>1. PICK in, out : /\ Enter(p, in, out)
                     /\ Call(p).routine # "Barrier" =>
                              TypesMade(p) /\ in = InBuffer(p) /\ out = OutBuffer(p)
  BY DEF EnterStep
<1>2. /\ entered' = [entered EXCEPT ![p] = @ + 1]
      /\ coll'[entered[p]+1][p] = [round |-> round[p], data |-> Sent(p, in, out)]
      /\ \A q \in Procs : \A m \in 1..entered[q] : coll'[m][q] = coll[m][q]
  BY <1>1, EnterRecord DEF MatchInv
<1>3. coll'[entered[p]+1][p].round = round[p] /\ coll'[entered[p]+1][p].data = Sent(p, in, out)
  BY <1>2
<1>4. /\ pc[p] = "called" /\ pc' = [pc EXCEPT ![p] = "inside"]
      /\ args' = [args EXCEPT ![p] = [in |-> in, out |-> out]]
  BY <1>1 DEF Enter
<1> QED
  BY <1>1, <1>2, <1>3, <1>4, Zenon

LEMMA InsideKept ==
  ASSUME MatchInv, InsideInv, NEW p \in Procs, Steps(p)
  PROVE  InsideInv'
<1>0. /\ pc \in [Procs -> {"idle", "called", "inside", "finished"}]
      /\ entered \in [Procs -> Nat] /\ round \in [Procs -> Nat \ {0}]
  BY DEF MatchInv, ControlInv, EnteredInv
<1>1. program' = program /\ \A q \in Procs : q # p => pc'[q] = pc[q] /\ round'[q] = round[q]
  BY StepControl
<1>2. \A q \in Procs : pc'[q] = "inside" => round'[q] = round[q]
  <2>1. CASE ReturnStep(p)
    BY <1>0, <1>1, <2>1 DEF ReturnStep, Return
  <2>2. CASE ~ReturnStep(p)
    BY <2>2, StepControl DEF CreateStep
  <2> QED
    BY <2>1, <2>2
<1>3. \A q \in Procs : round'[q] = round[q] => Call(q)' = Call(q)
  BY <1>1 DEF Call
<1>4. CASE EnterStep(p) /\ Call(p).root \in Procs
  <2>1. /\ entered' = [entered EXCEPT ![p] = @ + 1]
        /\ coll'[entered[p] + 1][p].round = round[p]
        /\ \A q \in Procs : \A m \in 1..entered[q] : coll'[m][q] = coll[m][q]
    BY <1>4, EnterData
  <2>2. entered'[p] = entered[p] + 1 /\ entered'[p] > 0 /\ coll'[entered'[p]][p].round = round[p]
    BY <1>0, <2>1
  <2>3. ASSUME NEW q \in Procs, q # p, entered[q] > 0
        PROVE  entered'[q] = entered[q] /\ coll'[entered'[q]][q] = coll[entered[q]][q]
    <3>1. entered[q] \in 1..entered[q]
      BY <1>0, <2>3
    <3> QED
      BY <1>0, <2>1, <2>3, <3>1
  <2> QED
    BY <1>1, <1>2, <1>3, <2>2, <2>3 DEF InsideInv
<1>5. CASE /\ UNCHANGED <<coll, entered>>
           /\ pc'[p] = "inside" => Call(p).routine = "PointToPoint" \/ pc[p] = "inside"
  BY <1>1, <1>2, <1>3, <1>5 DEF InsideInv
<1> QED
  BY <1>4, <1>5, EnterOrNot

LEMMA SentDataKept ==
  ASSUME TypeInv, NEW p \in Procs, Steps(p)
  PROVE  DataInv'
<1> USE DEF TypeInv
<1>0. entered \in [Procs -> Nat] /\ program' = program
  BY StepControl DEF MatchInv, EnteredInv
<1>1. CASE UNCHANGED <<coll, entered>>
  BY <1>0, <1>1 DEF DataInv, DataOf, Reduced
<1>2. CASE EnterStep(p) /\ Call(p).root \in Procs
  <2>0. PICK n : n = entered[p] + 1
    OBVIOUS
  <2>1. /\ pc[p] = "called"
        /\ entered' = [entered EXCEPT ![p] = @ + 1]
        /\ coll'[n][p].round = round[p]
        /\ \A q \in Procs : \A m \in 1..entered[q] : coll'[m][q] = coll[m][q]
    BY <1>2, <2>0, EnterData
  <2>2. PICK in, out : /\ coll'[n][p].data = Sent(p, in, out)
                       /\ Call(p).routine # "Barrier" =>
                              TypesMade(p) /\ in = InBuffer(p) /\ out = OutBuffer(p)
    BY <1>2, <2>0, EnterData
  <2>3. ASSUME NEW q \in Procs
        PROVE  /\ \A m \in DOMAIN DataOf(n, p)'[q] : DataOf(n, p)'[q][m] \in Int
               /\ program[coll'[n][p].round].routine \in Reductions =>
                    DOMAIN DataOf(n, p)'[q] = Reduced(program[coll'[n][p].round], p)
    <3>1. DataOf(n, p)' = Sent(p, in, out) /\ program[coll'[n][p].round] = Call(p)
      BY <2>1, <2>2 DEF DataOf, Call
    <3>2. \A m \in DOMAIN Sent(p, in, out)[q] : Sent(p, in, out)[q][m] \in Int
      BY SentNumbers
    <3>3. Call(p).routine \in Reductions => DOMAIN Sent(p, in, out)[q] = Reduced(Call(p), p)
      BY <2>1, <2>2, ReductionLength DEF Reductions
    <3> QED
      BY <3>1, <3>2, <3>3, Zenon
  <2>4. ASSUME NEW s \in Procs, NEW m \in 1..entered'[s]
        PROVE  (m \in 1..entered[s] /\ coll'[m][s] = coll[m][s]) \/ (s = p /\ m = n)
    BY <1>0, <2>0, <2>1
  <2>5. ASSUME NEW s \in Procs, NEW m \in 1..entered[s], coll'[m][s] = coll[m][s], NEW q \in Procs
        PROVE  /\ \A k \in DOMAIN DataOf(m, s)'[q] : DataOf(m, s)'[q][k] \in Int
               /\ program[coll'[m][s].round].routine \in Reductions =>
                    DOMAIN DataOf(m, s)'[q] = Reduced(program[coll'[m][s].round], s)
    BY <1>0, <2>5 DEF DataInv, DataOf
  <2> QED
    BY <1>0, <2>3, <2>4, <2>5 DEF DataInv
<1> QED
  BY <1>1, <1>2, EnterOrNot

\* What a process takes from a collective are numbers.
LEMMA TakesNumbers ==
  ASSUME TypeInv, NEW p \in Procs, Leave(p), Call(p).routine # "PointToPoint", NEW r \in Received(p)
  PROVE  Value(p, r) \in Int
<1>1. r[1] \in Origins(p) /\ r[2] \in DOMAIN Arrived(p, r[1])
  BY DEF Received
<1>2. \A q \in Origins(p) : /\ entered[p] \in 1..entered[q] /\ q \in Procs
                            /\ coll[entered[p]][q].round = round[p]
  BY LeaveMeets DEF TypeInv
<1>3. ASSUME NEW q \in Origins(p)
      PROVE  /\ \A m \in DOMAIN Arrived(p, q) : Arrived(p, q)[m] \in Int
             /\ Call(p).routine \in Reductions => DOMAIN Arrived(p, q) = Reduced(Call(p), q)
  <2>1. program[coll[entered[p]][q].round] = Call(p)
    BY <1>2 DEF Call
  <2> QED
    BY <1>2, <2>1 DEF TypeInv, DataInv, DataOf, Arrived
<1>4. CASE Call(p).routine \notin Reductions
  BY <1>1, <1>3, <1>4 DEF Value
<1>5. CASE Call(p).routine \in Reductions
  <2> DEFINE f == [s \in Origins(p) |-> Arrived(p, s)[r[2]]]
  <2>1. IsFiniteSet(Origins(p))
    <3>1. Origins(p) \subseteq Procs
      BY <1>2
    <3> QED
      BY <3>1, FS_Subset, CollectivesAssumption
  <2>2. \A q \in Origins(p) : q \in Procs
    BY <1>2
  <2>3. \A q \in Procs : Reduced(Call(p), q) = Reduced(Call(p), p)
    <3>1. /\ program \in Programs
          /\ round[p] \in DOMAIN program
      BY CurrentCall, LeaveEffect DEF TypeInv, MatchInv, ProgramInv
    <3>2. \A q \in Procs : /\ Call(p).arg[q].stype = Call(p).arg[p].stype
                           /\ Call(p).arg[q].scount = Call(p).arg[p].scount
      BY <1>5, <3>1, ProgramsAssumption DEF Call, Reductions
    <3> QED
      BY <3>2 DEF Reduced
  <2>4. \A q \in Origins(p) : Arrived(p, q)[r[2]] \in Int
    BY <1>1, <1>3, <1>5, <2>2, <2>3
  <2>5. DOMAIN f = Origins(p) /\ \A q \in Origins(p) : f[q] \in Int
    BY <2>4
  <2> HIDE DEF f
  <2>6. SumFunctionOnSet(f, Origins(p)) \in Int
    BY <2>1, <2>5, SumInt
  <2>7. SumFunction(f) \in Int
    BY <2>5, <2>6, Zenon DEF SumFunction
  <2> QED
    BY <1>5, <2>7 DEF Value, f
<1> QED
  BY <1>4, <1>5

LEMMA CodesFixed == \A code \in CCodes \cup FCodes : C_MPI_RC_FIX(code) \in FCodes
BY DEF CCodes, FCodes, C_MPI_RC_FIX

LEMMA CodesKept ==
  ASSUME TypeInv, NEW p \in Procs, CollectiveSteps(p)
  PROVE  CodesInv'
<1> USE DEF TypeInv
<1>0. /\ pc \in [Procs -> {"idle", "called", "inside", "finished"}]
      /\ rc \in [Procs -> CCodes \cup FCodes]
      /\ \A q \in Procs : pc[q] = "idle" => rc[q] \in FCodes
  BY DEF MatchInv, ControlInv, CodesInv
<1>1. ASSUME NEW code \in CCodes \cup FCodes, NEW s \in {"called", "inside", "finished"},
             pc' = [pc EXCEPT ![p] = s], rc' = [rc EXCEPT ![p] = code] \/ rc' = rc
      PROVE  /\ rc' \in [Procs -> CCodes \cup FCodes]
             /\ \A q \in Procs : pc'[q] = "idle" => rc'[q] \in FCodes
  <2>1. rc' \in [Procs -> CCodes \cup FCodes]
    BY <1>0, <1>1
  <2>2. pc'[p] # "idle" /\ \A q \in Procs : q # p => pc'[q] = pc[q] /\ rc'[q] = rc[q]
    BY <1>0, <1>1
  <2> QED
    BY <1>0, <2>1, <2>2
<1>2. {"MPI_SUCCESS", "MPI_ERR_ROOT", "MPI_ERR_OP"} \subseteq CCodes
  BY DEF CCodes
<1>3. CASE EnterStep(p)
  <2>1. PICK in, out : Enter(p, in, out)
    BY <1>3 DEF EnterStep
  <2>2. UNCHANGED <<HaveCFI, mem, aborted>>
    BY <2>1 DEF Enter
  <2>3. CASE Call(p).root \notin Procs
    BY <1>1, <1>2, <2>1, <2>2, <2>3 DEF Enter, CodesInv
  <2>4. CASE Call(p).root \in Procs
    <3>1. rc' = rc /\ pc' = [pc EXCEPT ![p] = "inside"]
      BY <2>1, <2>4 DEF Enter
    <3> QED
      BY <1>1, <1>2, <2>2, <3>1 DEF CodesInv
  <2> QED
    BY <2>3, <2>4
<1>4. CASE Leave(p)
  <2>1. /\ pc' = [pc EXCEPT ![p] = "finished"] /\ UNCHANGED <<HaveCFI, aborted>>
        /\ rc' = [rc EXCEPT ![p] = "MPI_SUCCESS"]
    BY <1>4, Zenon DEF Leave
  <2>2. \A r \in Received(p) : Value(p, r) \in Int
    BY <1>4, TakesNumbers, LeaveEffect DEF ProcessesInv
  <2>3. mem' \in [Procs -> [Arrays -> [Cells -> Int]]]
    <3>0. mem \in [Procs -> [Arrays -> [Cells -> Int]]]
      BY DEF CodesInv
    <3>1. CASE args[p].out.addr \notin Arrays
      BY <1>4, <3>0, <3>1, LeaveStores
    <3>2. CASE args[p].out.addr \in Arrays
      <4> DEFINE addr == args[p].out.addr
                 new == [x \in Cells |-> IF \E r \in Received(p) : Placed(p, r[1])[r[2]] = x
                                         THEN Value(p, Taken(p, x)) ELSE mem[p][addr][x]]
      <4>1. mem' = [mem EXCEPT ![p][addr] = new]
        BY <1>4, <3>2, LeaveStores
      <4>2. ASSUME NEW x \in Cells, \E r \in Received(p) : Placed(p, r[1])[r[2]] = x
            PROVE  Taken(p, x) \in Received(p)
        BY <4>2 DEF Taken
      <4>3. \A x \in Cells : mem[p][addr][x] \in Int
        BY <3>0, <3>2
      <4>4. new \in [Cells -> Int]
        BY <2>2, <4>2, <4>3
      <4> HIDE DEF new
      <4> QED
        BY <3>0, <3>2, <4>1, <4>4
    <3> QED
      BY <3>1, <3>2
  <2> QED
    BY <1>1, <1>2, <2>1, <2>3 DEF CodesInv
<1>5. CASE RejectStep(p)
  BY <1>1, <1>2, <1>5 DEF RejectStep, Reject, CodesInv
<1>6. CASE AbortStep(p)
  BY <1>6 DEF AbortStep, Abort, CodesInv
<1>7. CASE CreateStep(p)
  BY <1>7 DEF CreateStep, CodesInv
<1>8. CASE ReturnStep(p)
  <2>1. /\ rc' = [rc EXCEPT ![p] = C_MPI_RC_FIX(rc[p])] /\ pc' = [pc EXCEPT ![p] = "idle"]
        /\ UNCHANGED <<HaveCFI, mem, aborted>>
    BY <1>8 DEF ReturnStep, Return
  <2>2. C_MPI_RC_FIX(rc[p]) \in FCodes
    BY <1>0, CodesFixed
  <2> HIDE DEF C_MPI_RC_FIX
  <2>3. rc' \in [Procs -> CCodes \cup FCodes] /\ rc'[p] \in FCodes
    BY <1>0, <2>1, <2>2
  <2>4. \A q \in Procs : q # p => pc'[q] = pc[q] /\ rc'[q] = rc[q]
    BY <1>0, <2>1
  <2> QED
    BY <1>0, <2>1, <2>3, <2>4 DEF CodesInv
<1>9. CASE Start(p)
  BY <1>1, <1>2, <1>9 DEF Start, CodesInv
<1> QED
  BY <1>3, <1>4, <1>5, <1>6, <1>7, <1>8, <1>9 DEF CollectiveSteps

LEMMA CollectivesStep == ASSUME Next PROVE \E p \in Procs : CollectiveSteps(p)
BY WrapperStep DEF Next, CollectiveSteps

LEMMA OwnKept ==
  ASSUME MatchInv, ProcessesInv, NEW p \in Procs, CollectiveSteps(p)
  PROVE  ProcessesInv'
<1>0. pc \in [Procs -> {"idle", "called", "inside", "finished"}] /\ round \in [Procs -> Nat \ {0}]
  BY DEF MatchInv, ControlInv
<1>1. /\ program' = program
      /\ \A q \in Procs : q # p => pc'[q] = pc[q] /\ round'[q] = round[q]
  BY StepControl DEF CollectiveSteps, Steps
<1>2. \A q \in Procs : q # p => Call(q)' = Call(q)
  BY <1>1 DEF Call
<1>3. CASE EnterStep(p)
  <2>1. Call(p)' = Call(p) /\ Call(p).routine # "PointToPoint"
    BY <1>1, <1>3, EnterEffect DEF Call, EnterStep
  <2> QED
    BY <1>1, <1>2, <2>1 DEF ProcessesInv
<1>4. CASE ~EnterStep(p)
  <2>1. pc'[p] = "inside" => pc[p] = "inside" /\ round'[p] = round[p]
    <3>1. CASE RejectStep(p)
      BY <1>0, <3>1 DEF RejectStep, Reject
    <3>2. CASE AbortStep(p) \/ CreateStep(p)
      BY <1>0, <3>2 DEF AbortStep, Abort, CreateStep
    <3>3. CASE ReturnStep(p) \/ Start(p)
      BY <1>0, <3>3 DEF ReturnStep, Return, Start
    <3>4. CASE Leave(p)
      BY <1>0, <3>4, LeaveEffect
    <3> QED
      BY <1>4, <3>1, <3>2, <3>3, <3>4 DEF CollectiveSteps
  <2> QED
    BY <1>1, <1>2, <2>1 DEF ProcessesInv, Call
<1> QED
  BY <1>3, <1>4

LEMMA InitTypes == ASSUME Init PROVE TypeInv
<1>1. MatchInv
  BY InitMatch
<1>2. BuildInv
  BY DEF Init, BuildInv
<1>3. ProcessesInv /\ InsideInv /\ DataInv
  BY DEF Init, ProcessesInv, InsideInv, DataInv
<1>4. CodesInv
  <2>1. \A p \in Procs : \A c \in Cells : \A n \in {0, NumCells} : 100 * p + c + n \in Int
    BY BlockNumbers, CollectivesAssumption DEF Cells
  <2>2. mem \in [Procs -> [Arrays -> [Cells -> Int]]]
    BY <2>1 DEF Init
  <2>3. rc \in [Procs -> CCodes \cup FCodes] /\ \A p \in Procs : rc[p] \in FCodes
    BY DEF Init, CCodes, FCodes
  <2> QED
    BY <2>2, <2>3 DEF Init, CodesInv
<1> QED
  BY <1>1, <1>2, <1>3, <1>4 DEF TypeInv

LEMMA NextTypes == ASSUME TypeInv, [Next]_vars PROVE TypeInv'
<1>1. MatchInv'
  BY NextMatch DEF TypeInv
<1>2. CASE UNCHANGED vars
  <2>1. BuildInv' /\ ProcessesInv' /\ InsideInv' /\ CodesInv' /\ DataInv'
    BY <1>2 DEF TypeInv, vars, BuildInv, ProcessesInv, InsideInv, CodesInv, DataInv, DataOf, Reduced, Call
  <2> QED
    BY <1>1, <2>1 DEF TypeInv
<1>3. CASE Next
  <2>1. PICK p \in Procs : CollectiveSteps(p)
    BY <1>3, CollectivesStep
  <2>2. Steps(p)
    BY <2>1 DEF CollectiveSteps, Steps
  <2>3. BuildInv'
    BY <2>2, StepControl DEF TypeInv, BuildInv
  <2>4. ProcessesInv'
    BY <2>1, OwnKept DEF TypeInv
  <2>5. InsideInv'
    BY <2>2, InsideKept DEF TypeInv
  <2>6. CodesInv' /\ DataInv'
    BY <2>1, <2>2, CodesKept, SentDataKept
  <2> QED
    BY <1>1, <2>3, <2>4, <2>5, <2>6 DEF TypeInv
<1> QED
  BY <1>2, <1>3

LEMMA TypesInvariance == Spec => []TypeInv
BY InitTypes, NextTypes, PTL DEF Spec

\* The types of all variables, and the codes that a program sees: for programs
\* of collectives.
THEOREM TypeCorrect == Spec => []TypeOK
<1>1. ASSUME TypeInv PROVE TypeOK
  <2>1. ProgramInv /\ ControlInv /\ EnteredInv /\ CodesInv
    BY <1>1 DEF TypeInv, MatchInv
  <2>2. Len(program) \in Nat
    BY <2>1, ProgramFacts
  <2>3. round \in [Procs -> 1..Len(program)+1]
    BY <2>1, <2>2 DEF ControlInv
  <2>4. entered \in [Procs -> 0..Len(coll)] /\ DOMAIN coll = 1..Len(coll)
    BY <2>1 DEF EnteredInv
  <2>5. \A n \in DOMAIN coll : DOMAIN coll[n] \subseteq Procs
    BY <2>1, <2>4 DEF EnteredInv
  <2> QED
    BY <2>1, <2>3, <2>4, <2>5 DEF ControlInv, ProgramInv, CodesInv, TypeOK
<1> QED
  BY <1>1, TypesInvariance, PTL

-----------------------------------------------------------------------------
(* Results. *)

\* The arrays were recorded when the process made its call.
GivenInv ==
  /\ DOMAIN given = DOMAIN program /\ \A i \in DOMAIN program : DOMAIN given[i] = Procs
  /\ \A p \in Procs : pc[p] \in {"called", "inside"} => given[round[p]][p] = mem[p]

\* The data that s gave to a collective are the elements of its section.
SentFrom(c, s, before, data) ==
  s \in Senders(c) => \A p \in Receivers(c) :
    Supported(c, p) /\ ReceiveSection(c, p).addr \in Arrays =>
      data[p] = [m \in 0..SourceCount(c, s, p) - 1 |-> SentElement(c, before, s, p, m)]

GoodSent(n, s, i) ==
  MovesData(program[i]) =>
    /\ Called(s, i) /\ Supported(program[i], s)
    /\ SentFrom(program[i], s, given[i], DataOf(n, s))

SentInv == \A s \in Procs : \A n \in 1..entered[s] : GoodSent(n, s, coll[n][s].round)

\* What process p gets from s goes to elements of its section.
PlacedIn(c, p, s, cells) ==
  Supported(c, s) /\ ReceiveSection(c, p).addr \in Arrays =>
    cells = [m \in 0..RecvCount(c, p, RecvBlock(c, s)) - 1 |->
               (RecvFirst(c, p, RecvBlock(c, s)) + m) * ReceiveSection(c, p).stride]

TakenInv ==
  /\ DOMAIN args = Procs
  /\ \A p \in Procs : pc[p] = "inside" /\ MovesData(Call(p)) =>
       /\ Call(p).root \in Procs /\ Supported(Call(p), p)
       /\ p \in Receivers(Call(p)) =>
            /\ args[p].out.addr = Address(ReceiveSection(Call(p), p))
            /\ \A s \in Senders(Call(p)) : PlacedIn(Call(p), p, s, Placed(p, s))

DoneInv ==
  \A p \in Procs : pc[p] = "finished" /\ rc[p] = "MPI_SUCCESS" /\ MovesData(Call(p)) =>
    /\ \A s \in Origins(p) : s \in Procs /\ Called(s, round[p])
    /\ \A addr \in Arrays : \A x \in Cells :
         mem[p][addr][x] = Expected(Call(p), given[round[p]], p, addr, x)

ResultInv == TypeInv /\ TempInv /\ GivenInv /\ SentInv /\ TakenInv /\ DoneInv

LEMMA LeaveOthers ==
  ASSUME CodesInv, NEW p \in Procs, Leave(p), NEW q \in Procs, q # p
  PROVE  mem'[q] = mem[q]
<1>0. DOMAIN mem = Procs
  BY DEF CodesInv
<1>1. CASE args[p].out.addr \notin Arrays
  BY <1>1, LeaveStores
<1>2. CASE args[p].out.addr \in Arrays
  <2>1. PICK array : mem' = [mem EXCEPT ![p][args[p].out.addr] = array]
    BY <1>2, LeaveStores
  <2> QED
    BY <1>0, <2>1
<1> QED
  BY <1>1, <1>2

\* The record of a call that was made is not written again.
LEMMA GivenStays ==
  ASSUME MatchInv, GivenInv, NEW p \in Procs, CollectiveSteps(p),
         NEW q \in Procs, NEW i \in DOMAIN program, Called(q, i)
  PROVE  given'[i][q] = given[i][q]
<1>1. CASE Start(p)
  <2>1. given' = [given EXCEPT ![round[p]][p] = mem[p]] /\ pc[p] = "idle"
    BY <1>1 DEF Start
  <2>2. round[p] \in Nat /\ ~(q = p /\ i = round[p])
    BY <2>1 DEF Called, MatchInv, ControlInv
  <2>3. DOMAIN given = DOMAIN program /\ DOMAIN given[i] = Procs
    BY DEF GivenInv
  <2> QED
    BY <2>1, <2>2, <2>3
<1>2. CASE ~Start(p)
  <2>1. given' = given
    BY <1>2, EnterEffect, LeaveEffect
    DEF CollectiveSteps, RejectStep, Reject, AbortStep, Abort, CreateStep, ReturnStep, Return
  <2> QED
    BY <2>1
<1> QED
  BY <1>1, <1>2

LEMMA GivenKept ==
  ASSUME MatchInv, CodesInv, GivenInv, NEW p \in Procs, CollectiveSteps(p)
  PROVE  GivenInv'
<1>0. /\ pc \in [Procs -> {"idle", "called", "inside", "finished"}] /\ round \in [Procs -> Nat \ {0}]
      /\ DOMAIN given = DOMAIN program /\ \A i \in DOMAIN program : DOMAIN given[i] = Procs
  BY DEF MatchInv, ControlInv, GivenInv
<1>1. program' = program /\ \A q \in Procs : q # p => pc'[q] = pc[q] /\ round'[q] = round[q]
  BY StepControl DEF CollectiveSteps, Steps
<1>2. CASE Start(p)
  <2>1. /\ given' = [given EXCEPT ![round[p]][p] = mem[p]] /\ mem' = mem /\ round' = round
        /\ pc[p] = "idle" /\ round[p] <= Len(program)
    BY <1>2 DEF Start
  <2>2. round[p] \in DOMAIN program
    <3>1. Len(program) \in Nat /\ DOMAIN program = 1..Len(program)
      BY ProgramFacts DEF MatchInv
    <3>2. round[p] \in Nat \ {0} /\ round[p] <= Len(program)
      BY <1>0, <2>1
    <3> QED
      BY <3>1, <3>2
  <2>3. /\ DOMAIN given' = DOMAIN program /\ \A i \in DOMAIN program : DOMAIN given'[i] = Procs
        /\ given'[round[p]][p] = mem[p]
    <3>1. PICK i \in DOMAIN program : i = round[p]
      BY <2>2
    <3>2. given' = [given EXCEPT ![i][p] = mem[p]]
      BY <2>1, <3>1
    <3>3. DOMAIN given' = DOMAIN program /\ given'[i] = [given[i] EXCEPT ![p] = mem[p]]
      BY <1>0, <3>2
    <3>4. \A j \in DOMAIN program : j # i => given'[j] = given[j]
      BY <1>0, <3>2
    <3>5. DOMAIN given'[i] = Procs /\ given'[i][p] = mem[p]
      BY <1>0, <3>3
    <3> QED
      BY <1>0, <3>1, <3>3, <3>4, <3>5
  <2>4. ASSUME NEW q \in Procs, q # p, pc[q] \in {"called", "inside"}
        PROVE  given'[round[q]][q] = mem[q]
    <3>1. round[q] \in DOMAIN program
      BY <2>4, CurrentCall
    <3>2. given'[round[q]][q] = given[round[q]][q]
      BY <1>0, <2>1, <2>4, <3>1
    <3> QED
      BY <2>4, <3>2 DEF GivenInv
  <2> QED
    BY <1>1, <2>1, <2>3, <2>4 DEF GivenInv
<1>3. CASE Leave(p)
  <2>1. pc'[p] = "finished" /\ UNCHANGED <<given, round>>
    BY <1>0, <1>3, LeaveEffect
  <2>2. \A q \in Procs : q # p => mem'[q] = mem[q]
    BY <1>3, LeaveOthers
  <2> QED
    BY <1>1, <2>1, <2>2 DEF GivenInv
<1>4. CASE ReturnStep(p)
  <2>1. pc'[p] = "idle" /\ UNCHANGED <<given, mem>>
    BY <1>0, <1>4 DEF ReturnStep, Return
  <2> QED
    BY <1>1, <2>1 DEF GivenInv
<1>5. CASE EnterStep(p) \/ RejectStep(p) \/ AbortStep(p) \/ CreateStep(p)
  <2>1. pc[p] = "called" /\ UNCHANGED <<given, mem, round>>
    BY <1>5, EnterEffect DEF RejectStep, Reject, AbortStep, Abort, CreateStep
  <2> QED
    BY <1>1, <2>1 DEF GivenInv
<1> QED
  BY <1>2, <1>3, <1>4, <1>5 DEF CollectiveSteps

LEMMA SentFromSame ==
  ASSUME NEW c, NEW s, NEW before, NEW after, NEW data, SentFrom(c, s, before, data),
         after[s] = before[s]
  PROVE  SentFrom(c, s, after, data)
<1>1. \A p, k : SentElement(c, after, s, p, k) = SentElement(c, before, s, p, k)
  BY DEF SentElement, Element
<1>2. ASSUME NEW p, NEW n
      PROVE  [m \in 0..n-1 |-> SentElement(c, after, s, p, m)] =
               [m \in 0..n-1 |-> SentElement(c, before, s, p, m)]
  BY <1>1, Zenon
<1>3. ASSUME s \in Senders(c), NEW p \in Receivers(c),
             Supported(c, p), ReceiveSection(c, p).addr \in Arrays
      PROVE  data[p] = [m \in 0..SourceCount(c, s, p) - 1 |-> SentElement(c, after, s, p, m)]
  <2>1. data[p] = [m \in 0..SourceCount(c, s, p) - 1 |-> SentElement(c, before, s, p, m)]
    BY <1>3, Zenon DEF SentFrom
  <2> QED
    BY <1>2, <2>1, Zenon
<1> QED
  BY <1>3, Zenon DEF SentFrom

LEMMA SentKept ==
  ASSUME ResultInv, LegalCollectives, NEW p \in Procs, CollectiveSteps(p)
  PROVE  SentInv'
<1> USE DEF ResultInv, TypeInv
<1>0. /\ entered \in [Procs -> Nat] /\ program' = program /\ Steps(p)
      /\ DOMAIN program = 1..Len(program)
  BY StepControl, ProgramFacts DEF MatchInv, EnteredInv, CollectiveSteps, Steps
<1>1. ASSUME NEW s \in Procs, NEW n \in 1..entered[s], coll'[n][s] = coll[n][s]
      PROVE  GoodSent(n, s, coll[n][s].round)'
  <2>1. PICK i \in 1..Len(program) : i = coll[n][s].round
    BY DEF MatchInv, RoundsInv
  <2>2. GoodSent(n, s, i)
    BY <2>1 DEF SentInv
  <2>3. CASE MovesData(program[i])
    <3>1. Called(s, i) /\ Supported(program[i], s)
      BY <2>2, <2>3 DEF GoodSent
    <3>2. Called(s, i)'
      BY <1>0, <3>1, StepCalled
    <3>3. given'[i][s] = given[i][s]
      BY <1>0, <3>1, GivenStays
    <3>4. DataOf(n, s)' = DataOf(n, s)
      BY <1>1 DEF DataOf
    <3>5. SentFrom(program[i], s, given'[i], DataOf(n, s))
      BY <2>2, <2>3, <3>3, SentFromSame DEF GoodSent
    <3>6. SentFrom(program[i], s, given[i], DataOf(n, s))'
      BY <1>0, <3>4, <3>5 DEF SentFrom
    <3>7. GoodSent(n, s, i)'
      BY <1>0, <3>1, <3>2, <3>6 DEF GoodSent
    <3> QED
      BY <1>1, <2>1, <3>7
  <2>4. CASE ~MovesData(program[i])
    <3>1. GoodSent(n, s, i)'
      BY <1>0, <2>4 DEF GoodSent
    <3> QED
      BY <1>1, <2>1, <3>1
  <2> QED
    BY <2>3, <2>4
<1>2. CASE UNCHANGED <<coll, entered>>
  BY <1>1, <1>2 DEF SentInv
<1>3. CASE EnterStep(p) /\ Call(p).root \in Procs
  <2>0. PICK n : n = entered[p] + 1
    OBVIOUS
  <2>1. /\ pc[p] = "called" /\ pc' = [pc EXCEPT ![p] = "inside"]
        /\ entered' = [entered EXCEPT ![p] = @ + 1]
        /\ coll'[n][p].round = round[p]
        /\ \A q \in Procs : \A m \in 1..entered[q] : coll'[m][q] = coll[m][q]
    BY <1>3, <2>0, EnterData
  <2>2. PICK in, out : /\ coll'[n][p].data = Sent(p, in, out)
                       /\ Call(p).routine # "Barrier" =>
                              TypesMade(p) /\ in = InBuffer(p) /\ out = OutBuffer(p)
    BY <1>3, <2>0, EnterData
  <2>3. PICK i \in 1..Len(program) : i = round[p] /\ program[i] = Call(p)
    BY <2>1, CurrentCall DEF Call
  <2>4. GoodSent(n, p, i)'
    <3> SUFFICES ASSUME MovesData(program[i])
                 PROVE  GoodSent(n, p, i)'
      BY <1>0 DEF GoodSent
    <3>1. pc'[p] = "inside" /\ round' = round
      BY <1>3, <2>1, EnterEffect DEF MatchInv, ControlInv
    <3>2. Called(p, i)'
      BY <2>3, <3>1 DEF Called
    <3>3. TypesMade(p) /\ DataOf(n, p)' = Sent(p, InBuffer(p), OutBuffer(p))
      BY <2>2, <2>3 DEF MovesData, DataOf
    <3>4. Supported(program[i], p)
      BY <2>1, <2>3, <3>3, EnterSupported
    <3>5. given' = given /\ given[i][p] = mem[p]
      BY <1>3, <2>1, <2>3, EnterEffect DEF GivenInv
    <3>6. ASSUME p \in Senders(program[i]), NEW q \in Receivers(program[i]),
                 Supported(program[i], q), ReceiveSection(program[i], q).addr \in Arrays
          PROVE  Sent(p, InBuffer(p), OutBuffer(p))[q] =
                   [m \in 0..SourceCount(program[i], p, q) - 1 |->
                      SentElement(program[i], given[i], p, q, m)]
      <4>1. LegalArguments(program[i], p) /\ LegalTransfer(program[i], p, q)
        BY <1>3, <2>3, <3>4, <3>6, CallLegal, Participants
      <4>2. Sent(p, InBuffer(p), OutBuffer(p))[q] =
              [m \in 0..SourceCount(Call(p), p, q) - 1 |->
                 mem[p][SourceSection(Call(p), p).addr]
                   [(SourceFirst(Call(p), p, q) + m) * SourceSection(Call(p), p).stride]]
        BY <1>3, <2>1, <2>3, <3>3, <3>6, <4>1, SentElements
      <4> QED
        BY <2>3, <3>5, <4>2, Zenon DEF SentElement, Element
    <3>7. SentFrom(program[i], p, given[i], DataOf(n, p))'
      BY <1>0, <3>3, <3>5, <3>6 DEF SentFrom
    <3> QED
      BY <1>0, <3>2, <3>4, <3>7 DEF GoodSent
  <2>5. ASSUME NEW s \in Procs, NEW m \in 1..entered'[s]
        PROVE  (m \in 1..entered[s] /\ coll'[m][s] = coll[m][s]) \/ (s = p /\ m = n)
    BY <1>0, <2>0, <2>1
  <2>6. ASSUME NEW s \in Procs, NEW m \in 1..entered'[s]
        PROVE  GoodSent(m, s, coll[m][s].round)'
    <3>1. CASE m \in 1..entered[s] /\ coll'[m][s] = coll[m][s]
      BY <1>1, <3>1
    <3>2. CASE s = p /\ m = n
      BY <2>1, <2>3, <2>4, <3>2
    <3> QED
      BY <2>5, <2>6, <3>1, <3>2
  <2> QED
    BY <2>6 DEF SentInv
<1> QED
  BY <1>0, <1>2, <1>3, EnterOrNot

LEMMA OthersKept ==
  ASSUME MatchInv, NEW p \in Procs, CollectiveSteps(p), DOMAIN args = Procs
  PROVE  /\ DOMAIN args' = Procs /\ \A q \in Procs : q # p => args'[q] = args[q]
         /\ pc'[p] = "inside" => EnterStep(p) /\ Call(p).root \in Procs
<1>0. pc \in [Procs -> {"idle", "called", "inside", "finished"}]
  BY DEF MatchInv, ControlInv
<1>1. CASE EnterStep(p)
  <2>1. PICK in, out : Enter(p, in, out)
    BY <1>1 DEF EnterStep
  <2>2. args' = [args EXCEPT ![p] = [in |-> in, out |-> out]]
    BY <2>1 DEF Enter
  <2>3. DOMAIN args' = Procs /\ \A q \in Procs : q # p => args'[q] = args[q]
    BY <2>2
  <2>4. CASE Call(p).root \notin Procs
    <3>1. pc' = [pc EXCEPT ![p] = "finished"]
      BY <2>1, <2>4 DEF Enter
    <3> QED
      BY <1>0, <2>3, <3>1
  <2> QED
    BY <1>1, <2>3, <2>4
<1>2. CASE ReturnStep(p)
  <2>1. args' = [args EXCEPT ![p] = [in |-> NoBlocks, out |-> NoBlocks]] /\ pc' = [pc EXCEPT ![p] = "idle"]
    BY <1>2 DEF ReturnStep, Return
  <2> QED
    BY <1>0, <2>1
<1>3. CASE RejectStep(p) \/ AbortStep(p) \/ CreateStep(p) \/ Start(p)
  BY <1>0, <1>3 DEF RejectStep, Reject, AbortStep, Abort, CreateStep, Start
<1>4. CASE Leave(p)
  BY <1>0, <1>4, LeaveEffect
<1> QED
  BY <1>1, <1>2, <1>3, <1>4 DEF CollectiveSteps

LEMMA TakenKept ==
  ASSUME ResultInv, LegalCollectives, NEW p \in Procs, CollectiveSteps(p)
  PROVE  TakenInv'
<1> USE DEF ResultInv, TypeInv
<1>0. /\ program' = program
      /\ \A q \in Procs : q # p => pc'[q] = pc[q] /\ round'[q] = round[q]
  BY StepControl DEF CollectiveSteps, Steps, MatchInv
<1>1. /\ DOMAIN args' = Procs /\ \A q \in Procs : q # p => args'[q] = args[q]
      /\ pc'[p] = "inside" => EnterStep(p) /\ Call(p).root \in Procs
  BY OthersKept DEF TakenInv
<1>2. ASSUME NEW q \in Procs, q # p, pc'[q] = "inside", MovesData(Call(q)')
      PROVE  /\ Call(q)'.root \in Procs /\ Supported(Call(q)', q)
             /\ q \in Receivers(Call(q)') =>
                  /\ args'[q].out.addr = Address(ReceiveSection(Call(q)', q))
                  /\ \A s \in Senders(Call(q)') : PlacedIn(Call(q)', q, s, Placed(q, s)')
  <2>1. Call(q)' = Call(q) /\ args'[q] = args[q] /\ pc[q] = "inside"
    BY <1>0, <1>1, <1>2 DEF Call
  <2>2. \A s : Placed(q, s)' = Placed(q, s)
    BY <2>1 DEF Placed
  <2>3. MovesData(Call(q))
    BY <1>2, <2>1
  <2>4. /\ Call(q).root \in Procs /\ Supported(Call(q), q)
        /\ q \in Receivers(Call(q)) =>
             /\ args[q].out.addr = Address(ReceiveSection(Call(q), q))
             /\ \A s \in Senders(Call(q)) : PlacedIn(Call(q), q, s, Placed(q, s))
    BY <2>1, <2>3, Zenon DEF TakenInv
  <2> QED
    BY <2>1, <2>2, <2>4, Zenon
<1>3. ASSUME pc'[p] = "inside", MovesData(Call(p)')
      PROVE  /\ Call(p)'.root \in Procs /\ Supported(Call(p)', p)
             /\ p \in Receivers(Call(p)') =>
                  /\ args'[p].out.addr = Address(ReceiveSection(Call(p)', p))
                  /\ \A s \in Senders(Call(p)') : PlacedIn(Call(p)', p, s, Placed(p, s)')
  <2>1. EnterStep(p) /\ Call(p).root \in Procs
    BY <1>1, <1>3
  <2>2. Call(p)' = Call(p)
    BY <1>0, <2>1, EnterEffect DEF Call
  <2>3. pc[p] = "called" /\ MovesData(Call(p))
    BY <1>3, <2>1, <2>2, EnterData
  <2>4. TypesMade(p) /\ args' = [args EXCEPT ![p] = [in |-> InBuffer(p), out |-> OutBuffer(p)]]
    BY <2>1, <2>3, EnterData DEF MovesData
  <2>5. args'[p].out = OutBuffer(p)
    BY <2>4 DEF TakenInv
  <2>6. PICK i \in 1..Len(program) : i = round[p] /\ program[i] = Call(p)
    BY <2>3, CurrentCall DEF Call
  <2>7. LegalArguments(Call(p), p)
    BY <2>1, <2>3, <2>6, CallLegal
  <2>8. Supported(Call(p), p)
    BY <2>3, <2>4, EnterSupported
  <2>9. p \in Receivers(Call(p)) => args'[p].out.addr = Address(ReceiveSection(Call(p), p))
    BY <2>3, <2>5, <2>7, BufferAddress
  <2>10. ASSUME p \in Receivers(Call(p)), NEW s \in Senders(Call(p)), Supported(Call(p), s),
                ReceiveSection(Call(p), p).addr \in Arrays
         PROVE  Placed(p, s)' = [m \in 0..RecvCount(Call(p), p, RecvBlock(Call(p), s)) - 1 |->
                                   (RecvFirst(Call(p), p, RecvBlock(Call(p), s)) + m)
                                     * ReceiveSection(Call(p), p).stride]
    <3>1. LegalTransfer(Call(p), s, p)
      BY <2>1, <2>3, <2>6, <2>8, <2>10, CallLegal
    <3>2. PICK b : b = RecvBlock(Call(p), s)
      OBVIOUS
    <3>3. b \in Procs
      BY <2>1, <2>10, <3>2, Participants, FirstProcess DEF RecvBlock
    <3>4. Usable(ReceiveSection(Call(p), p), Arg(p).rtype, b)
      BY <3>1, <3>2 DEF LegalTransfer, Arg
    <3>5. Call(p).routine \in Vectors \ {"Scatterv"} =>
            Arg(p).rcounts[b] \in Nat /\ Arg(p).rdispls[b] \in Nat
      BY <2>7, <2>10, <3>3 DEF LegalArguments, Arg
    <3>6. Call(p).routine = "Bcast" =>
            Arg(p).scount = Arg(p).rcount /\ Arg(p).stype = Arg(p).rtype
      BY <2>7 DEF LegalArguments, Arg
    <3>7. CellsOf(OutBuffer(p), b) =
            [m \in 0..RecvCount(Call(p), p, b) - 1 |->
               (RecvFirst(Call(p), p, b) + m) * ReceiveSection(Call(p), p).stride]
      BY <2>3, <2>4, <3>3, <3>4, <3>5, <3>6, OutCells
    <3>8. Placed(p, s)' = CellsOf(OutBuffer(p), b)
      <4>1. Placed(p, s)' = CellsOf(args'[p].out, RecvBlock(Call(p)', s))
        BY DEF Placed, CellsOf
      <4> QED
        BY <2>2, <2>5, <3>2, <4>1, Zenon
    <3> QED
      BY <3>2, <3>7, <3>8, Zenon
  <2> QED
    BY <2>1, <2>2, <2>8, <2>9, <2>10, Zenon DEF PlacedIn
<1> QED
  BY <1>1, <1>2, <1>3, Zenon DEF TakenInv

\* What a process receives, and where.
LEMMA TakenElements ==
  ASSUME ResultInv, LegalCollectives, NEW p \in Procs, Leave(p), NEW c, c = Call(p), MovesData(c),
         p \in Receivers(c), ReceiveSection(c, p).addr \in Arrays, NEW s \in Senders(c)
  PROVE  /\ s \in Procs /\ Called(s, round[p]) /\ LegalTransfer(c, s, p)
         /\ RecvCount(c, p, RecvBlock(c, s)) \in Nat
         /\ Placed(p, s) = [m \in 0..RecvCount(c, p, RecvBlock(c, s)) - 1 |->
                              (RecvFirst(c, p, RecvBlock(c, s)) + m) * ReceiveSection(c, p).stride]
         /\ Arrived(p, s) = [m \in 0..RecvCount(c, p, RecvBlock(c, s)) - 1 |->
                               SentElement(c, given[round[p]], s, p, m)]
<1> USE DEF ResultInv, TypeInv
<1>1. pc[p] = "inside" /\ c.routine # "PointToPoint"
  BY LeaveEffect DEF MovesData
<1>2. PICK i \in 1..Len(program) : i = round[p] /\ program[i] = c
  BY <1>1, CurrentCall DEF Call
<1>3. s \in Origins(p)
  BY DEF Origins
<1>4. PICK n : n = entered[p]
  OBVIOUS
<1>5. n \in 1..entered[s] /\ s \in Procs /\ coll[n][s].round = i
  BY <1>1, <1>2, <1>3, <1>4, LeaveMeets
<1>6. GoodSent(n, s, i)
  BY <1>5 DEF SentInv
<1>7. Called(s, i) /\ Supported(c, s) /\ SentFrom(c, s, given[i], DataOf(n, s))
  BY <1>2, <1>6 DEF GoodSent
<1>8. /\ c.root \in Procs /\ Supported(c, p)
      /\ PlacedIn(c, p, s, Placed(p, s))
  BY <1>1 DEF TakenInv
<1>9. LegalTransfer(c, s, p) /\ LegalArguments(c, p)
  BY <1>2, <1>7, <1>8, CallLegal
<1>10. PICK b : b = RecvBlock(c, s) /\ b \in Procs
  BY <1>5, FirstProcess DEF RecvBlock
<1>11. RecvCount(c, p, b) \in Nat
  <2>1. PICK t : t = c.arg[p].rtype
    OBVIOUS
  <2>2. Size(TypeMap[t]) \in Nat
    BY <1>9, <2>1, DenseSize DEF LegalTransfer, Usable
  <2>3. c.arg[p].rcount \in Nat
    BY <1>2, ProgramFacts DEF MatchInv
  <2>4. c.routine \in Vectors \ {"Scatterv"} => c.arg[p].rcounts[b] \in Nat
    BY <1>9, <1>10 DEF LegalArguments
  <2>5. PICK k \in Nat : RecvCount(c, p, b) = Size(TypeMap[t]) * k
    BY <2>1, <2>3, <2>4, Zenon DEF RecvCount
  <2> QED
    BY <2>2, <2>5
<1>12. SourceCount(c, s, p) = RecvCount(c, p, b)
  BY <1>9, <1>10 DEF LegalTransfer
<1>13. Arrived(p, s) = [m \in 0..SourceCount(c, s, p) - 1 |-> SentElement(c, given[i], s, p, m)]
  <2>1. Arrived(p, s) = DataOf(n, s)[p]
    BY <1>4 DEF Arrived, DataOf
  <2> QED
    BY <1>7, <1>8, <2>1, Zenon DEF SentFrom
<1>14. Placed(p, s) = [m \in 0..RecvCount(c, p, b) - 1 |->
                         (RecvFirst(c, p, b) + m) * ReceiveSection(c, p).stride]
  BY <1>7, <1>8, <1>10, Zenon DEF PlacedIn
<1> QED
  BY <1>2, <1>5, <1>7, <1>9, <1>10, <1>11, <1>12, <1>13, <1>14, Zenon

\* The elements of a call's result at cell x.
Hits(c, p, addr, x) ==
  {h \in (IF p \in Receivers(c) /\ ReceiveSection(c, p).addr = addr THEN Senders(c) ELSE {})
           \X (0..NumCells-1) :
     /\ h[2] < RecvCount(c, p, RecvBlock(c, h[1]))
     /\ x = (RecvFirst(c, p, RecvBlock(c, h[1])) + h[2]) * ReceiveSection(c, p).stride}

LEMMA ExpectedIs ==
  ASSUME NEW c, NEW before, NEW p, NEW addr, NEW x
  PROVE  Expected(c, before, p, addr, x) =
           IF Hits(c, p, addr, x) = {} THEN before[p][addr][x]
           ELSE IF c.routine \in Reductions
           THEN SumFunction([h \in Hits(c, p, addr, x) |-> SentElement(c, before, h[1], p, h[2])])
           ELSE SentElement(c, before, (CHOOSE h \in Hits(c, p, addr, x) : TRUE)[1], p,
                            (CHOOSE h \in Hits(c, p, addr, x) : TRUE)[2])
BY Zenon DEF Expected, Hits

LEMMA HitsTaken ==
  ASSUME ResultInv, LegalCollectives, NEW p \in Procs, Leave(p), NEW c, c = Call(p), MovesData(c),
         p \in Receivers(c), ReceiveSection(c, p).addr \in Arrays, NEW x
  PROVE  Hits(c, p, ReceiveSection(c, p).addr, x) = {r \in Received(p) : Placed(p, r[1])[r[2]] = x}
<1>1. PICK to : to = ReceiveSection(c, p)
  OBVIOUS
<1>2. Origins(p) = Senders(c)
  BY DEF Origins
<1>3. NumCells \in Nat
  BY CollectivesAssumption
<1>4. ASSUME NEW s \in Senders(c), NEW m \in 0..NumCells-1
      PROVE  (/\ m < RecvCount(c, p, RecvBlock(c, s))
              /\ x = (RecvFirst(c, p, RecvBlock(c, s)) + m) * to.stride)
             <=> (/\ m \in DOMAIN Placed(p, s) /\ m \in DOMAIN Arrived(p, s)
                  /\ Placed(p, s)[m] = x)
  <2>1. PICK k : k = RecvCount(c, p, RecvBlock(c, s))
    OBVIOUS
  <2>2. /\ k \in Nat
        /\ Placed(p, s) = [j \in 0..k - 1 |-> (RecvFirst(c, p, RecvBlock(c, s)) + j) * to.stride]
        /\ Arrived(p, s) = [j \in 0..k - 1 |-> SentElement(c, given[round[p]], s, p, j)]
    BY <1>1, <2>1, TakenElements
  <2>3. m < k <=> m \in 0..k-1
    BY <1>3, <2>2
  <2>4. DOMAIN Placed(p, s) = 0..k-1 /\ DOMAIN Arrived(p, s) = 0..k-1
    BY <2>2, Zenon
  <2>5. m \in 0..k-1 => Placed(p, s)[m] = (RecvFirst(c, p, RecvBlock(c, s)) + m) * to.stride
    BY <2>2, Zenon
  <2> QED
    BY <2>1, <2>3, <2>4, <2>5, Zenon
<1>5. ASSUME NEW r \in Senders(c) \X (0..NumCells-1)
      PROVE  r \in Hits(c, p, to.addr, x) <=> r \in Received(p) /\ Placed(p, r[1])[r[2]] = x
  <2>1. r[1] \in Senders(c) /\ r[2] \in 0..NumCells-1
    BY <1>5
  <2>2. r \in Hits(c, p, to.addr, x) <=>
          /\ r[2] < RecvCount(c, p, RecvBlock(c, r[1]))
          /\ x = (RecvFirst(c, p, RecvBlock(c, r[1])) + r[2]) * to.stride
    BY <1>1, <1>5 DEF Hits
  <2>3. r \in Received(p) <=> r[2] \in DOMAIN Placed(p, r[1]) /\ r[2] \in DOMAIN Arrived(p, r[1])
    BY <1>2, <1>5 DEF Received
  <2> QED
    BY <1>4, <2>1, <2>2, <2>3, Zenon
<1>6. Hits(c, p, to.addr, x) \subseteq Senders(c) \X (0..NumCells-1)
  BY <1>1 DEF Hits
<1>7. Received(p) \subseteq Senders(c) \X (0..NumCells-1)
  BY <1>2 DEF Received
<1> QED
  BY <1>1, <1>5, <1>6, <1>7

\* A sum over the processes is one over the elements that meet in a cell.
LEMMA SumTaken ==
  ASSUME ResultInv, LegalCollectives, NEW p \in Procs, Leave(p), NEW c, c = Call(p), MovesData(c),
         p \in Receivers(c), ReceiveSection(c, p).addr \in Arrays, c.routine \in Reductions,
         NEW x, NEW r \in Hits(c, p, ReceiveSection(c, p).addr, x)
  PROVE  Value(p, r) =
           SumFunction([h \in Hits(c, p, ReceiveSection(c, p).addr, x) |->
                          SentElement(c, given[round[p]], h[1], p, h[2])])
<1> DEFINE hits == Hits(c, p, ReceiveSection(c, p).addr, x)
<1>1. PICK before : before = given[round[p]]
  OBVIOUS
<1>2. c.routine # "PointToPoint" /\ Origins(p) = Senders(c) /\ c.routine # "Bcast"
  BY DEF Reductions, Origins
<1>3. ASSUME NEW s \in Senders(c)
      PROVE  /\ s \in Procs /\ RecvBlock(c, s) = 0
             /\ RecvFirst(c, p, RecvBlock(c, s)) = 0 /\ RecvCount(c, p, RecvBlock(c, s)) \in Nat
             /\ RecvCount(c, p, RecvBlock(c, s)) = RecvCount(c, p, 0)
             /\ DOMAIN Arrived(p, s) = 0..RecvCount(c, p, 0) - 1
             /\ \A m \in 0..RecvCount(c, p, 0) - 1 : Arrived(p, s)[m] = SentElement(c, before, s, p, m)
  <2>1. RecvBlock(c, s) = 0
    BY DEF RecvBlock, Reductions, Gathers, Exchanges
  <2>2. PICK k : k = RecvCount(c, p, 0)
    OBVIOUS
  <2>3. s \in Procs /\ k \in Nat /\ Arrived(p, s) = [m \in 0..k-1 |-> SentElement(c, before, s, p, m)]
    BY <1>1, <2>1, <2>2, TakenElements
  <2>4. RecvFirst(c, p, 0) = 0
    <3>1. RecvFirst(c, p, 0) = 0 * k
      BY <2>2 DEF RecvFirst, Vectors, Reductions
    <3> QED
      BY <2>3, <3>1
  <2> QED
    BY <2>1, <2>2, <2>3, <2>4
<1>4. ReceiveSection(c, p).stride = 1
  <2>1. pc[p] = "inside"
    BY LeaveEffect
  <2>2. Supported(c, p)
    BY <2>1 DEF ResultInv, TakenInv
  <2> QED
    BY <1>2, <2>2 DEF Supported, Contiguous, ReceiveSection
<1>5. PICK k \in Nat : k = RecvCount(c, p, 0) /\ r[1] \in Senders(c)
  BY <1>3 DEF Hits
<1>6. \A h : h \in hits <=> /\ h \in Senders(c) \X (0..NumCells-1)
                            /\ h[2] < k /\ x = h[2]
  <2>1. ASSUME NEW h \in Senders(c) \X (0..NumCells-1)
        PROVE  h \in hits <=> h[2] < k /\ x = h[2]
    <3>1. h[1] \in Senders(c) /\ h[2] \in 0..NumCells-1 /\ NumCells \in Nat
      BY CollectivesAssumption
    <3>2. h \in hits <=> /\ h[2] < RecvCount(c, p, RecvBlock(c, h[1]))
                         /\ x = (RecvFirst(c, p, RecvBlock(c, h[1])) + h[2]) * ReceiveSection(c, p).stride
      BY DEF Hits
    <3>3. /\ RecvCount(c, p, RecvBlock(c, h[1])) = k
          /\ RecvFirst(c, p, RecvBlock(c, h[1])) = 0
      BY <1>3, <1>5, <3>1
    <3>4. (0 + h[2]) * 1 = h[2]
      BY <3>1
    <3> QED
      BY <1>4, <3>2, <3>3, <3>4, Zenon
  <2>2. hits \subseteq Senders(c) \X (0..NumCells-1)
    BY DEF Hits
  <2> QED
    BY <2>1, <2>2, Zenon
<1>7. /\ x \in 0..NumCells-1 /\ x \in 0..k-1 /\ r[2] = x
  <2>1. r[2] \in 0..NumCells-1 /\ r[2] < k /\ r[2] = x /\ NumCells \in Nat
    BY <1>6, CollectivesAssumption
  <2> QED
    BY <2>1
<1> DEFINE f == [s \in Senders(c) |-> Arrived(p, s)[x]]
           g == [h \in hits |-> SentElement(c, before, h[1], p, h[2])]
           to == [s \in Senders(c) |-> <<s, x>>]
<1>8. \A s \in Senders(c) : to[s] \in hits /\ to[s] = <<s, x>>
  BY <1>6, <1>7
<1>9. \A s \in Senders(c) : f[s] \in Int /\ g[to[s]] = f[s]
  <2> SUFFICES ASSUME NEW s \in Senders(c) PROVE f[s] \in Int /\ g[to[s]] = f[s]
    OBVIOUS
  <2>1. f[s] = Arrived(p, s)[x]
    OBVIOUS
  <2>2. Arrived(p, s)[x] \in Int
    <3>1. entered[p] \in 1..entered[s] /\ s \in Procs
      BY <1>2, LeaveMeets DEF ResultInv, TypeInv
    <3>2. x \in DOMAIN Arrived(p, s)
      BY <1>3, <1>5, <1>7
    <3> QED
      BY <3>1, <3>2 DEF ResultInv, TypeInv, DataInv, DataOf, Arrived
  <2>3. Arrived(p, s)[x] = SentElement(c, before, s, p, x)
    BY <1>3, <1>5, <1>7
  <2>4. g[to[s]] = SentElement(c, before, to[s][1], p, to[s][2])
    BY <1>8, Zenon
  <2>5. to[s][1] = s /\ to[s][2] = x
    BY <1>8
  <2> QED
    BY <2>1, <2>2, <2>3, <2>4, <2>5, Zenon
<1>10. \A s, t \in Senders(c) : to[s] = to[t] => s = t
  OBVIOUS
<1>11. \A h \in hits : \E s \in Senders(c) : to[s] = h
  <2> SUFFICES ASSUME NEW h \in hits PROVE \E s \in Senders(c) : to[s] = h
    OBVIOUS
  <2>1. h \in Senders(c) \X (0..NumCells-1) /\ h[2] = x
    BY <1>6
  <2>2. h[1] \in Senders(c) /\ h = <<h[1], x>>
    BY <2>1
  <2> QED
    BY <1>8, <2>2
<1>12. IsFiniteSet(Senders(c))
  <2>1. Senders(c) \subseteq Procs
    BY <1>3
  <2> QED
    BY <2>1, FS_Subset, CollectivesAssumption
<1>13. DOMAIN f = Senders(c) /\ DOMAIN g = hits
  OBVIOUS
<1>14. Value(p, r) = SumFunction(f)
  BY <1>2, <1>7 DEF Value
<1> HIDE DEF f, g, to, hits
<1>15. SumFunctionOnSet(f, Senders(c)) = SumFunctionOnSet(g, hits)
  BY <1>8, <1>9, <1>10, <1>11, <1>12, SumMoved
<1>16. SumFunction(f) = SumFunction(g)
  BY <1>13, <1>15, Zenon DEF SumFunction
<1> QED
  BY <1>1, <1>14, <1>16 DEF g, hits

LEMMA LeaveResult ==
  ASSUME ResultInv, LegalCollectives, NEW p \in Procs, Leave(p), NEW c, c = Call(p), MovesData(c),
         NEW addr \in Arrays, NEW x \in Cells
  PROVE  mem'[p][addr][x] = Expected(c, given[round[p]], p, addr, x)
<1> USE DEF ResultInv, TypeInv
<1>0. /\ mem \in [Procs -> [Arrays -> [Cells -> Int]]] /\ pc[p] = "inside"
      /\ given[round[p]][p] = mem[p]
  BY LeaveEffect DEF CodesInv, GivenInv
<1>1. PICK to : to = ReceiveSection(c, p)
  OBVIOUS
<1>2. CASE p \in Receivers(c) /\ to.addr \in Arrays
  <2>1. args[p].out.addr = to.addr
    <3>1. args[p].out.addr = Address(to)
      BY <1>0, <1>1, <1>2 DEF TakenInv
    <3> QED
      BY <1>2, <3>1 DEF Address, Arrays, f08_MPI_IN_PLACE
  <2> DEFINE new == [y \in Cells |-> IF \E r \in Received(p) : Placed(p, r[1])[r[2]] = y
                                     THEN Value(p, Taken(p, y)) ELSE mem[p][to.addr][y]]
  <2>2. mem' = [mem EXCEPT ![p][to.addr] = new]
    BY <1>2, <2>1, LeaveStores
  <2>3. new[x] = IF \E r \in Received(p) : Placed(p, r[1])[r[2]] = x
                 THEN Value(p, Taken(p, x)) ELSE mem[p][to.addr][x]
    OBVIOUS
  <2> HIDE DEF new
  <2>4. CASE addr # to.addr
    <3>1. mem'[p][addr] = mem[p][addr]
      BY <1>0, <2>2, <2>4
    <3>2. Hits(c, p, addr, x) = {}
      BY <1>1, <2>4 DEF Hits
    <3> QED
      BY <1>0, <3>1, <3>2, ExpectedIs
  <2>5. CASE addr = to.addr
    <3>1. mem'[p][addr][x] = new[x]
      BY <1>0, <2>2, <2>5
    <3>2. PICK hits : hits = Hits(c, p, addr, x)
      OBVIOUS
    <3>3. hits = {r \in Received(p) : Placed(p, r[1])[r[2]] = x}
      BY <1>1, <1>2, <2>5, <3>2, HitsTaken
    <3>4. CASE hits = {}
      <4>1. ~\E r \in Received(p) : Placed(p, r[1])[r[2]] = x
        BY <3>3, <3>4
      <4>2. new[x] = given[round[p]][p][addr][x]
        BY <1>0, <2>3, <2>5, <4>1
      <4> QED
        BY <3>1, <3>2, <3>4, <4>2, ExpectedIs
    <3>5. CASE hits # {}
      <4>1. PICK r : r = Taken(p, x)
        OBVIOUS
      <4>2. r = CHOOSE h \in hits : TRUE
        BY <3>3, <4>1, Zenon DEF Taken
      <4>3. r \in hits
        BY <3>5, <4>2
      <4>4. new[x] = Value(p, r)
        BY <2>3, <3>3, <4>1, <4>3
      <4>5. CASE c.routine \in Reductions
        <5>1. Value(p, r) = SumFunction([h \in hits |-> SentElement(c, given[round[p]], h[1], p, h[2])])
          BY <1>1, <1>2, <2>5, <3>2, <4>3, <4>5, SumTaken
        <5> QED
          BY <3>1, <3>2, <3>5, <4>4, <4>5, <5>1, ExpectedIs, Zenon
      <4>6. CASE c.routine \notin Reductions
        <5>1. Value(p, r) = Arrived(p, r[1])[r[2]]
          BY <4>6 DEF Value
        <5>2. PICK s, m : s = r[1] /\ m = r[2] /\ s \in Senders(c) /\ m \in DOMAIN Arrived(p, s)
          BY <3>3, <4>3 DEF Received, Origins
        <5>3. Arrived(p, s) = [j \in 0..RecvCount(c, p, RecvBlock(c, s)) - 1 |->
                                 SentElement(c, given[round[p]], s, p, j)]
          BY <1>1, <1>2, <5>2, TakenElements
        <5>4. Arrived(p, s)[m] = SentElement(c, given[round[p]], s, p, m)
          BY <5>2, <5>3, Zenon
        <5>5. Expected(c, given[round[p]], p, addr, x) = SentElement(c, given[round[p]], r[1], p, r[2])
          BY <3>2, <3>5, <4>2, <4>6, ExpectedIs, Zenon
        <5> QED
          BY <3>1, <4>4, <5>1, <5>2, <5>4, <5>5, Zenon
      <4> QED
        BY <4>5, <4>6
    <3> QED
      BY <3>4, <3>5
  <2> QED
    BY <2>4, <2>5
<1>3. CASE ~(p \in Receivers(c) /\ to.addr \in Arrays)
  <2>1. Hits(c, p, addr, x) = {}
    BY <1>1, <1>3 DEF Hits
  <2>2. mem'[p][addr][x] = mem[p][addr][x]
    <3>1. CASE args[p].out.addr \notin Arrays
      BY <3>1, LeaveStores
    <3>2. CASE args[p].out.addr \in Arrays /\ p \notin Receivers(c)
      <4>1. Received(p) = {}
        BY <3>2 DEF Received, Origins
      <4>2. PICK a \in Arrays : a = args[p].out.addr
        BY <3>2
      <4> DEFINE new == [y \in Cells |-> IF \E r \in Received(p) : Placed(p, r[1])[r[2]] = y
                                         THEN Value(p, Taken(p, y)) ELSE mem[p][a][y]]
      <4>3. mem' = [mem EXCEPT ![p][a] = new]
        BY <4>2, LeaveStores
      <4>4. new[x] = mem[p][a][x]
        BY <4>1
      <4> HIDE DEF new
      <4> QED
        BY <1>0, <4>3, <4>4
    <3>3. CASE p \in Receivers(c)
      <4>1. args[p].out.addr = Address(to)
        BY <1>0, <1>1, <3>3 DEF TakenInv
      <4>2. args[p].out.addr \notin Arrays
        BY <1>3, <3>3, <4>1 DEF Address, Arrays, MPI_IN_PLACE
      <4> QED
        BY <4>2, LeaveStores
    <3> QED
      BY <3>1, <3>2, <3>3
  <2> QED
    BY <1>0, <2>1, <2>2, ExpectedIs
<1> QED
  BY <1>2, <1>3

LEMMA ExpectedSame ==
  ASSUME NEW c, NEW before, NEW after, NEW p, NEW addr, NEW x, after[p] = before[p],
         p \in Receivers(c) => \A s \in Senders(c) : after[s] = before[s]
  PROVE  Expected(c, after, p, addr, x) = Expected(c, before, p, addr, x)
<1>1. PICK hits : hits = Hits(c, p, addr, x)
  OBVIOUS
<1>2. \A h \in hits : SentElement(c, after, h[1], p, h[2]) = SentElement(c, before, h[1], p, h[2])
  <2>1. \A h \in hits : after[h[1]] = before[h[1]]
    BY <1>1 DEF Hits
  <2> QED
    BY <2>1, Zenon DEF SentElement, Element
<1>3. [h \in hits |-> SentElement(c, after, h[1], p, h[2])] =
        [h \in hits |-> SentElement(c, before, h[1], p, h[2])]
  BY <1>2, Zenon
<1>4. hits # {} => (CHOOSE h \in hits : TRUE) \in hits
  OBVIOUS
<1> QED
  BY <1>1, <1>2, <1>3, <1>4, ExpectedIs, Zenon

\* A process finishes with success when it leaves the library; until it returns
\* only other processes do anything.
LEMMA SuccessByLeave ==
  ASSUME TypeInv, NEW p \in Procs, CollectiveSteps(p)
  PROVE  /\ \A q \in Procs : q # p => rc'[q] = rc[q] /\ mem'[q] = mem[q]
         /\ pc'[p] = "finished" /\ rc'[p] = "MPI_SUCCESS" => Leave(p)
<1>0. /\ pc \in [Procs -> {"idle", "called", "inside", "finished"}]
      /\ DOMAIN rc = Procs
  BY DEF TypeInv, MatchInv, ControlInv, CodesInv
<1>1. CASE EnterStep(p)
  <2>1. PICK in, out : Enter(p, in, out)
    BY <1>1 DEF EnterStep
  <2>2. mem' = mem
    BY <2>1 DEF Enter
  <2>3. CASE Call(p).root \notin Procs
    <3>1. rc' = [rc EXCEPT ![p] = "MPI_ERR_ROOT"]
      BY <2>1, <2>3 DEF Enter
    <3> QED
      BY <1>0, <2>2, <3>1
  <2>4. CASE Call(p).root \in Procs
    <3>1. rc' = rc /\ pc' = [pc EXCEPT ![p] = "inside"]
      BY <2>1, <2>4 DEF Enter
    <3> QED
      BY <1>0, <2>2, <3>1
  <2> QED
    BY <2>3, <2>4
<1>2. CASE Leave(p)
  <2>1. rc' = [rc EXCEPT ![p] = "MPI_SUCCESS"]
    BY <1>2, Zenon DEF Leave
  <2>2. \A q \in Procs : q # p => mem'[q] = mem[q]
    BY <1>2, LeaveOthers DEF TypeInv
  <2> QED
    BY <1>0, <1>2, <2>1, <2>2
<1>3. CASE RejectStep(p)
  BY <1>0, <1>3 DEF RejectStep, Reject
<1>4. CASE AbortStep(p) \/ CreateStep(p)
  BY <1>0, <1>4 DEF AbortStep, Abort, CreateStep
<1>5. CASE Start(p)
  BY <1>0, <1>5 DEF Start
<1>6. CASE ReturnStep(p)
  <2>1. pc' = [pc EXCEPT ![p] = "idle"] /\ mem' = mem
    BY <1>6 DEF ReturnStep, Return
  <2>2. PICK code : rc' = [rc EXCEPT ![p] = code]
    BY <1>6 DEF ReturnStep, Return
  <2> QED
    BY <1>0, <2>1, <2>2
<1> QED
  BY <1>1, <1>2, <1>3, <1>4, <1>5, <1>6 DEF CollectiveSteps

LEMMA DoneKept ==
  ASSUME ResultInv, LegalCollectives, NEW p \in Procs, CollectiveSteps(p)
  PROVE  DoneInv'
<1> USE DEF ResultInv, TypeInv
<1>0. /\ pc \in [Procs -> {"idle", "called", "inside", "finished"}] /\ round \in [Procs -> Nat \ {0}]
      /\ program' = program /\ Steps(p)
      /\ \A q \in Procs : q # p => pc'[q] = pc[q] /\ round'[q] = round[q]
  BY StepControl DEF MatchInv, ControlInv, CollectiveSteps, Steps
<1>1. /\ \A q \in Procs : q # p => rc'[q] = rc[q] /\ mem'[q] = mem[q]
      /\ pc'[p] = "finished" /\ rc'[p] = "MPI_SUCCESS" => Leave(p)
  BY SuccessByLeave
<1>2. ASSUME NEW q \in Procs, q # p, pc'[q] = "finished", rc'[q] = "MPI_SUCCESS", MovesData(Call(q)')
      PROVE  /\ \A s \in Origins(q)' : s \in Procs /\ Called(s, round[q])'
             /\ \A addr \in Arrays : \A x \in Cells :
                  mem'[q][addr][x] = Expected(Call(q)', given'[round'[q]], q, addr, x)
  <2>1. /\ pc[q] = "finished" /\ rc[q] = "MPI_SUCCESS" /\ round'[q] = round[q] /\ mem'[q] = mem[q]
        /\ Call(q)' = Call(q)
    BY <1>0, <1>1, <1>2 DEF Call
  <2>2. Origins(q)' = Origins(q)
    BY <2>1 DEF Origins
  <2>3. PICK i \in DOMAIN program : i = round[q] /\ i \in Int
    BY <1>0, <2>1, CurrentCall
  <2>4. /\ \A s \in Origins(q) : s \in Procs /\ Called(s, i)
        /\ \A addr \in Arrays : \A x \in Cells :
             mem[q][addr][x] = Expected(Call(q), given[i], q, addr, x)
    BY <1>2, <2>1, <2>3 DEF DoneInv
  <2>5. \A s \in Origins(q) : Called(s, i)' /\ given'[i][s] = given[i][s]
    BY <1>0, <2>3, <2>4, StepCalled, GivenStays
  <2>6. given'[i][q] = given[i][q]
    <3>1. Called(q, i)
      BY <2>1, <2>3 DEF Called
    <3> QED
      BY <2>3, <3>1, GivenStays
  <2>7. \A addr \in Arrays : \A x \in Cells :
          Expected(Call(q), given'[i], q, addr, x) = Expected(Call(q), given[i], q, addr, x)
    BY <2>5, <2>6, ExpectedSame DEF Origins
  <2>8. \A s \in Origins(q) : Called(s, round[q])'
    BY <2>1, <2>3, <2>5 DEF Called
  <2> QED
    BY <2>1, <2>2, <2>3, <2>4, <2>7, <2>8, Zenon
<1>3. ASSUME pc'[p] = "finished", rc'[p] = "MPI_SUCCESS", MovesData(Call(p)')
      PROVE  /\ \A s \in Origins(p)' : s \in Procs /\ Called(s, round[p])'
             /\ \A addr \in Arrays : \A x \in Cells :
                  mem'[p][addr][x] = Expected(Call(p)', given'[round'[p]], p, addr, x)
  <2>1. Leave(p)
    BY <1>1, <1>3
  <2>2. pc[p] = "inside" /\ UNCHANGED <<round, given>> /\ Call(p)' = Call(p)
    BY <1>0, <2>1, LeaveEffect DEF Call
  <2>3. Origins(p)' = Origins(p) /\ MovesData(Call(p)) /\ Call(p).routine # "PointToPoint"
    BY <1>3, <2>2 DEF Origins, MovesData
  <2>4. PICK i \in DOMAIN program : i = round[p] /\ i \in Int
    BY <1>0, <2>2, CurrentCall
  <2>5. ASSUME NEW s \in Origins(p)
        PROVE  s \in Procs /\ Called(s, round[p])'
    <3>1. PICK n : n = entered[p]
      OBVIOUS
    <3>2. n \in 1..entered[s] /\ s \in Procs /\ coll[n][s].round = i
      BY <2>1, <2>3, <2>4, <2>5, <3>1, LeaveMeets
    <3>3. GoodSent(n, s, i)
      BY <3>2 DEF SentInv
    <3>4. Called(s, i)
      BY <2>3, <2>4, <3>3 DEF GoodSent, Call
    <3>5. Called(s, i)'
      BY <1>0, <2>4, <3>2, <3>4, StepCalled
    <3> QED
      BY <2>2, <2>4, <3>2, <3>5 DEF Called
  <2>6. \A addr \in Arrays : \A x \in Cells :
          mem'[p][addr][x] = Expected(Call(p), given[round[p]], p, addr, x)
    BY <2>1, <2>3, LeaveResult
  <2> QED
    BY <2>2, <2>3, <2>5, <2>6, Zenon
<1>4. ASSUME NEW q \in Procs, pc'[q] = "finished", rc'[q] = "MPI_SUCCESS", MovesData(Call(q)')
      PROVE  /\ \A s \in Origins(q)' : s \in Procs /\ Called(s, round[q])'
             /\ \A addr \in Arrays : \A x \in Cells :
                  mem'[q][addr][x] = Expected(Call(q)', given'[round'[q]], q, addr, x)
  BY <1>2, <1>3, <1>4, Zenon
<1> QED
  BY <1>4, Zenon DEF DoneInv

LEMMA InitResult == ASSUME Init PROVE ResultInv
<1>1. TypeInv
  BY InitTypes
<1>2. TempInv
  BY DEF Init, TempInv
<1>3. GivenInv /\ TakenInv /\ SentInv /\ DoneInv
  BY DEF Init, GivenInv, TakenInv, SentInv, DoneInv
<1> QED
  BY <1>1, <1>2, <1>3 DEF ResultInv

LEMMA NextResult == ASSUME ResultInv, LegalCollectives, [Next]_vars PROVE ResultInv'
<1>1. TypeInv'
  BY NextTypes DEF ResultInv
<1>2. CASE UNCHANGED vars
  <2>1. TempInv'
    BY <1>2, MadeStays DEF ResultInv, vars, TempInv
  <2>2. GivenInv'
    BY <1>2 DEF ResultInv, vars, GivenInv
  <2>3. \A s, n, i : GoodSent(n, s, i)' = GoodSent(n, s, i)
    BY <1>2 DEF vars, GoodSent, Called, DataOf, SentFrom
  <2>4. SentInv'
    BY <1>2, <2>3 DEF ResultInv, vars, SentInv
  <2>5. /\ \A p : Call(p)' = Call(p) /\ \A s : Placed(p, s)' = Placed(p, s)
        /\ \A p : Origins(p)' = Origins(p)
        /\ \A s, i : Called(s, i)' = Called(s, i)
    BY <1>2 DEF vars, Call, Placed, Origins, Called
  <2>6. TakenInv'
    BY <1>2, <2>5 DEF ResultInv, vars, TakenInv
  <2>7. DoneInv'
    BY <1>2, <2>5 DEF ResultInv, vars, DoneInv
  <2> QED
    BY <1>1, <2>1, <2>2, <2>4, <2>6, <2>7 DEF ResultInv
<1>3. CASE Next
  <2>1. PICK p \in Procs : CollectiveSteps(p)
    BY <1>3, CollectivesStep
  <2>2. Steps(p)
    BY <2>1 DEF CollectiveSteps, Steps
  <2>3. TempInv'
    BY <2>2, StepTemp DEF ResultInv, TypeInv
  <2>4. GivenInv'
    BY <2>1, GivenKept DEF ResultInv, TypeInv
  <2>5. SentInv' /\ TakenInv' /\ DoneInv'
    BY <2>1, SentKept, TakenKept, DoneKept
  <2> QED
    BY <1>1, <2>3, <2>4, <2>5 DEF ResultInv
<1> QED
  BY <1>2, <1>3

\* What a collective leaves in the arrays of a process is what MPI says of its
\* sections, for all programs that use them as MPI asks: whatever its datatypes
\* and the order in which the processes enter and leave.
THEOREM ResultsPacked == LegalCollectives => (Spec => []ResultAsIfPacked)
<1> SUFFICES ASSUME LegalCollectives PROVE Spec => []ResultAsIfPacked
  OBVIOUS
<1>1. ResultInv /\ [Next]_vars => ResultInv'
  BY NextResult
<1>2. ResultInv => ResultAsIfPacked
  BY DEF ResultInv, DoneInv, ResultAsIfPacked, MovesData
<1> QED
  BY <1>1, <1>2, InitResult, PTL DEF Spec
=============================================================================
