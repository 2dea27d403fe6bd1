-------------------------- MODULE PointToPointProofs --------------------------
(***************************************************************************)
(* What CollectivesProofs shows of collectives holds when the same         *)
(* processes also send, receive, probe and pack: for any programs that     *)
(* satisfy ProgramsAssumption.                                             *)
(*                                                                         *)
(* For the collectives a round "PointToPoint" is a call that is refused:   *)
(* it does not reach them.  Its steps are those of the datatypes, the      *)
(* return, and moves of one process.                                       *)
(***************************************************************************)
EXTENDS PointToPoint, CollectivesProofs

\* The library matches a message with a receive.
MatchStep == UNCHANGED <<HaveCFI, program, round, pc, temp, coll, entered, aborted>>

LEMMA PostMoves ==
  ASSUME NEW p \in Procs, NEW sends, NEW in, NEW receives, NEW out, NEW wants,
         NEW then \in {"inside", "finished"},
         Post(p, sends, in, receives, out, wants, then),
         Call(p).routine = "PointToPoint", ~aborted
  PROVE  MoveStep(p)
<1>1. /\ pc[p] = "called"
      /\ UNCHANGED <<HaveCFI, program, round, temp, coll, entered, aborted>>
      /\ pc' = [pc EXCEPT ![p] = then] \/ pc' = [pc EXCEPT ![p] = "finished"]
  BY DEF Post
<1> QED
  BY <1>1 DEF MoveStep

LEMMA AnswerMoves ==
  ASSUME NEW p \in Procs, NEW code, Answer(p, code), Call(p).routine = "PointToPoint", ~aborted
  PROVE  MoveStep(p)
BY DEF Answer, MoveStep

LEMMA ReceiveMoves ==
  ASSUME NEW p \in Procs, NEW out, NEW id, NEW wants, NEW then \in {"inside", "finished"},
         Receive(p, out, id, wants, then), Call(p).routine = "PointToPoint", ~aborted
  PROVE  MoveStep(p)
<1>1. CASE \E code : Answer(p, code)
  BY <1>1, AnswerMoves
<1>2. CASE /\ pc[p] = "called" /\ pc' = [pc EXCEPT ![p] = then]
           /\ UNCHANGED <<HaveCFI, program, round, temp, coll, entered, aborted>>
  BY <1>2 DEF MoveStep
<1> QED
  BY <1>1, <1>2 DEF Receive

LEMMA ProbeMoves ==
  ASSUME NEW p \in Procs, C_MPI_Probe(p)
  PROVE  MoveStep(p) \/ ReturnStep(p)
<1>1. Call(p).routine = "PointToPoint" /\ ~aborted
  BY DEF C_MPI_Probe, P2PAt, At
<1>2. ASSUME NEW source, NEW tag, NEW wants, MPI_Probe(p, source, tag, wants)
      PROVE  \E code : Answer(p, code)
  BY <1>2 DEF MPI_Probe
<1>3. Made(p) = {}
  BY <1>1 DEF C_MPI_Probe, P2PAt, Op, Made, MadeForOp
<1> QED
  BY <1>1, <1>2, <1>3, AnswerMoves DEF C_MPI_Probe, P2PReturn, ReturnStep

LEMMA MprobeMoves ==
  ASSUME NEW p \in Procs, C_MPI_Mprobe(p)
  PROVE  MoveStep(p) \/ ReturnStep(p)
<1>1. Call(p).routine = "PointToPoint" /\ ~aborted
  BY DEF C_MPI_Mprobe, P2PAt, At
<1>2. ASSUME NEW source, NEW tag, NEW wants, NEW handle, MPI_Mprobe(p, source, tag, wants, handle)
      PROVE  \E code : Answer(p, code)
  BY <1>2 DEF MPI_Mprobe
<1>3. Made(p) = {}
  BY <1>1 DEF C_MPI_Mprobe, P2PAt, Op, Made, MadeForOp
<1> QED
  BY <1>1, <1>2, <1>3, AnswerMoves DEF C_MPI_Mprobe, P2PReturn, ReturnStep

LEMMA CopyMoves ==
  ASSUME NEW p \in Procs, Call(p).routine = "PointToPoint", ~aborted,
         \/ \E in : MPI_Pack(p, in)
         \/ \E out : MPI_Unpack(p, out)
         \/ BadPackBuffer(p)
  PROVE  MoveStep(p)
<1>1. ASSUME NEW addr, NEW cell, NEW data, NEW sent, NEW room, NEW n,
             Copy(p, addr, cell, data, sent, room, n)
      PROVE  \E code : Answer(p, code)
  BY <1>1 DEF Copy
<1>2. CASE \E in : MPI_Pack(p, in)
  BY <1>1, <1>2, AnswerMoves DEF MPI_Pack
<1>3. CASE \E out : MPI_Unpack(p, out)
  BY <1>1, <1>3, AnswerMoves DEF MPI_Unpack
<1>4. CASE BadPackBuffer(p)
  BY <1>4, AnswerMoves DEF BadPackBuffer
<1> QED
  BY <1>2, <1>3, <1>4

\* The call itself, after the wrapper has made the datatype.
Transfer(p) ==
  \/ MPI_Send(p) \/ MPI_Isend(p) \/ MPI_Recv(p) \/ MPI_Irecv(p)
  \/ \E in, out : MPI_Sendrecv(p, in, out)
  \/ \E id : MPI_Mrecv(p, id) \/ MPI_Imrecv(p, id)
  \/ \E in : MPI_Pack(p, in)
  \/ \E out : MPI_Unpack(p, out)
  \/ BadPackBuffer(p)

LEMMA TransferMoves ==
  ASSUME NEW p \in Procs, Transfer(p), Call(p).routine = "PointToPoint", ~aborted
  PROVE  MoveStep(p)
<1>1. CASE MPI_Send(p) \/ MPI_Isend(p) \/ MPI_Recv(p) \/ MPI_Irecv(p)
           \/ \E in, out : MPI_Sendrecv(p, in, out)
  BY <1>1, PostMoves DEF MPI_Send, MPI_Isend, MPI_Recv, MPI_Irecv, MPI_Sendrecv
<1>2. CASE \E id : MPI_Mrecv(p, id) \/ MPI_Imrecv(p, id)
  BY <1>2, ReceiveMoves DEF MPI_Mrecv, MPI_Imrecv
<1>3. CASE \/ \E in : MPI_Pack(p, in)
           \/ \E out : MPI_Unpack(p, out)
           \/ BadPackBuffer(p)
  BY <1>3, CopyMoves
<1> QED
  BY <1>1, <1>2, <1>3 DEF Transfer

LEMMA WithTypeSteps ==
  ASSUME NEW p \in Procs, NEW side \in Arrays, NEW call,
         WithType(p, side, call, Noncontiguous(p, {side})), Made(p) = Noncontiguous(p, {side}),
         call => Transfer(p), Call(p).routine = "PointToPoint", ~aborted
  PROVE  MoveStep(p) \/ AbortStep(p) \/ CreateStep(p) \/ ReturnStep(p)
<1>1. ~Contiguous(Section(p, side)) => side \in Made(p)
  BY DEF Noncontiguous
<1> QED
  BY <1>1, TransferMoves, CreateTypeStep DEF WithType, P2PReturn, ReturnStep

LEMMA SendrecvSteps ==
  ASSUME NEW p \in Procs, CFI_MPI_Sendrecv(p)
  PROVE  MoveStep(p) \/ AbortStep(p) \/ CreateStep(p) \/ ReturnStep(p)
<1>1. Call(p).routine = "PointToPoint" /\ ~aborted
  BY DEF CFI_MPI_Sendrecv, P2PAt, At
<1>2. "in" \in Arrays /\ "out" \in Arrays
  BY DEF Arrays
<1>3. ~TreatedAsContiguous(p) => ~BothContiguous(p)
  BY DEF TreatedAsContiguous, BothContiguous, Section
<1>4. ASSUME NEW in, NEW out, MPI_Sendrecv(p, in, out)
      PROVE  MoveStep(p)
  BY <1>1, <1>4, TransferMoves DEF Transfer
<1>5. Made(p) = IF TreatedAsContiguous(p) THEN {} ELSE {"in", "out"}
  BY <1>1 DEF CFI_MPI_Sendrecv, P2PAt, Op, Made, MadeForOp, TreatedAsContiguous
<1>6. ASSUME NEW side \in Arrays, MakeType(p, side), ~TreatedAsContiguous(p)
      PROVE  AbortStep(p) \/ CreateStep(p)
  <2>1. side \in Made(p)
    BY <1>5, <1>6 DEF Arrays
  <2> QED
    BY <1>1, <1>3, <1>6, <2>1, MakeTypeStep
<1> QED
  BY <1>2, <1>4, <1>5, <1>6 DEF CFI_MPI_Sendrecv, P2PReturn, ReturnStep

LEMMA P2PWrapperStep ==
  ASSUME NEW p \in Procs, P2PWrapper(p)
  PROVE  (MoveStep(p) \/ AbortStep(p) \/ CreateStep(p) \/ ReturnStep(p)) /\ ~aborted
<1> DEFINE Step == MoveStep(p) \/ AbortStep(p) \/ CreateStep(p) \/ ReturnStep(p)
           IsCall == Call(p).routine = "PointToPoint" /\ ~aborted
<1>0. "in" \in Arrays /\ "out" \in Arrays
  BY DEF Arrays
<1>8. ~HaveCFI => Made(p) = {}
  BY DEF Made
<1>1. CASE C_MPI_Probe(p) \/ C_MPI_Mprobe(p)
  <2>1. IsCall
    BY <1>1 DEF C_MPI_Probe, C_MPI_Mprobe, P2PAt, At
  <2> QED
    BY <1>1, <2>1, ProbeMoves, MprobeMoves
<1>2. CASE \/ C_MPI_Send(p) \/ C_MPI_Isend(p) \/ C_MPI_Recv(p) \/ C_MPI_Irecv(p)
           \/ C_MPI_Mrecv(p) \/ C_MPI_Imrecv(p) \/ C_MPI_Sendrecv(p)
  <2>1. IsCall /\ ~HaveCFI /\ (Transfer(p) \/ Return(p, {}))
    BY <1>2 DEF C_MPI_Send, C_MPI_Isend, C_MPI_Recv, C_MPI_Irecv, C_MPI_Mrecv, C_MPI_Imrecv,
      C_MPI_Sendrecv, P2PAt, At, Transfer, P2PReturn
  <2> QED
    BY <1>8, <2>1, TransferMoves DEF ReturnStep
<1>3. CASE C_MPI_Pack(p) \/ C_MPI_Unpack(p)
  <2>1. IsCall /\ ~HaveCFI /\ (Transfer(p) \/ Return(p, {}))
    BY <1>3 DEF C_MPI_Pack, C_MPI_Unpack, P2PAt, At, Transfer, P2PReturn
  <2> QED
    BY <1>8, <2>1, TransferMoves DEF ReturnStep
<1>4. CASE \/ CFI_MPI_Send(p) \/ CFI_MPI_Isend(p) \/ CFI_MPI_Recv(p) \/ CFI_MPI_Irecv(p)
           \/ CFI_MPI_Mrecv(p) \/ CFI_MPI_Imrecv(p)
  <2>1. CASE CFI_MPI_Send(p) \/ CFI_MPI_Isend(p)
    <3>1. IsCall /\ \E call \in BOOLEAN :
                      /\ call => Transfer(p)
                      /\ WithType(p, "in", call, Noncontiguous(p, {"in"}))
      BY <2>1 DEF CFI_MPI_Send, CFI_MPI_Isend, P2PAt, At, Transfer, WithType
    <3>2. Made(p) = Noncontiguous(p, {"in"})
      BY <2>1 DEF CFI_MPI_Send, CFI_MPI_Isend, P2PAt, At, Op, Made, MadeForOp
    <3> QED
      BY <1>0, <3>1, <3>2, WithTypeSteps
  <2>2. CASE CFI_MPI_Recv(p) \/ CFI_MPI_Irecv(p) \/ CFI_MPI_Mrecv(p) \/ CFI_MPI_Imrecv(p)
    <3>1. IsCall /\ \E call \in BOOLEAN :
                      /\ call => Transfer(p)
                      /\ WithType(p, "out", call, Noncontiguous(p, {"out"}))
      BY <2>2 DEF CFI_MPI_Recv, CFI_MPI_Irecv, CFI_MPI_Mrecv, CFI_MPI_Imrecv, P2PAt, At,
        Transfer, WithType
    <3>2. Made(p) = Noncontiguous(p, {"out"})
      BY <2>2 DEF CFI_MPI_Recv, CFI_MPI_Irecv, CFI_MPI_Mrecv, CFI_MPI_Imrecv, P2PAt, At, Op,
        Made, MadeForOp
    <3> QED
      BY <1>0, <3>1, <3>2, WithTypeSteps
  <2> QED
    BY <1>4, <2>1, <2>2
<1>5. CASE CFI_MPI_Sendrecv(p)
  <2>1. IsCall
    BY <1>5 DEF CFI_MPI_Sendrecv, P2PAt, At
  <2> QED
    BY <1>5, <2>1, SendrecvSteps
<1>6. CASE CFI_MPI_Pack(p) \/ CFI_MPI_Unpack(p)
  <2>1. IsCall /\ HaveCFI
    BY <1>6 DEF CFI_MPI_Pack, CFI_MPI_Unpack, P2PAt, At
  <2>2. CASE BadPackBuffer(p)
    BY <2>1, <2>2, TransferMoves DEF Transfer
  <2>3. CASE /\ Op(p) = "Pack" /\ Contiguous(Section(p, "out"))
             /\ WithType(p, "in", MPI_Pack(p, Passed(p, "in")), Noncontiguous(p, {"in"}))
    <3>1. Made(p) = Noncontiguous(p, {"in"})
      BY <2>1, <2>3 DEF Op, Made, MadeForOp
    <3> QED
      BY <1>0, <2>1, <2>3, <3>1, WithTypeSteps DEF Transfer
  <2>4. CASE /\ Op(p) = "Unpack" /\ Contiguous(Section(p, "in"))
             /\ WithType(p, "out", MPI_Unpack(p, Passed(p, "out")), Noncontiguous(p, {"out"}))
    <3>1. Made(p) = Noncontiguous(p, {"out"})
      BY <2>1, <2>4 DEF Op, Made, MadeForOp
    <3> QED
      BY <1>0, <2>1, <2>4, <3>1, WithTypeSteps DEF Transfer
  <2>5. CASE /\ P2PReturn(p, {})
             /\ \/ Op(p) = "Pack" /\ ~Contiguous(Section(p, "out"))
                \/ Op(p) = "Unpack" /\ ~Contiguous(Section(p, "in"))
    <3>1. Made(p) = {}
      BY <2>1, <2>5 DEF Op, Made, MadeForOp
    <3> QED
      BY <2>1, <2>5, <3>1 DEF P2PReturn, ReturnStep
  <2> QED
    BY <1>6, <2>2, <2>3, <2>4, <2>5 DEF CFI_MPI_Pack, CFI_MPI_Unpack, P2PAt
<1>7. CASE Waitall(p)
  <2>1. IsCall
    BY <1>7 DEF Waitall, P2PAt, At
  <2>2. Made(p) = {}
    BY <1>7, <2>1 DEF Waitall, P2PAt, Op, Made, MadeForOp
  <2> QED
    BY <1>7, <2>1, <2>2, PostMoves DEF Waitall, P2PReturn, ReturnStep
<1> QED
  BY <1>1, <1>2, <1>3, <1>4, <1>5, <1>6, <1>7 DEF P2PWrapper

LEMMA FinishMoves ==
  ASSUME NEW p \in Procs, NEW waits, Finish(p, waits)
  PROVE  MoveStep(p)
BY DEF Finish, MoveStep

LEMMA MatchesMatch ==
  ASSUME NEW p \in Procs, Matches(p)
  PROVE  MatchStep /\ ~aborted
<1>1. PICK r, m : Match(r, m)
  BY DEF Matches
<1> QED
  BY <1>1, Zenon DEF Match, MatchStep

LEMMA MPIStep ==
  ASSUME [MPINext]_mpi_vars
  PROVE  \/ \E p \in Procs :
              \/ EnterStep(p) \/ RejectStep(p) \/ AbortStep(p) \/ CreateStep(p)
              \/ (ReturnStep(p) /\ ~aborted) \/ Start(p) \/ Leave(p) \/ MoveStep(p)
         \/ MatchStep
<1>1. ASSUME NEW p \in Procs, CollectiveStep(p) \/ P2PWrapper(p) \/ Finish(p, FALSE)
      PROVE  \/ EnterStep(p) \/ RejectStep(p) \/ AbortStep(p) \/ CreateStep(p)
             \/ (ReturnStep(p) /\ ~aborted) \/ Start(p) \/ Leave(p) \/ MoveStep(p)
  BY <1>1, WrapperStep, P2PWrapperStep, FinishMoves DEF CollectiveStep, LeaveCollective
<1>2. ASSUME NEW p \in Procs, Matches(p) PROVE MatchStep
  BY <1>2, MatchesMatch
<1>3. CASE UNCHANGED mpi_vars
  BY <1>3 DEF mpi_vars, vars, MatchStep
<1> QED
  BY <1>1, <1>2, <1>3 DEF MPINext
-----------------------------------------------------------------------------
(* The invariant of the collectives. *)

LEMMA MoveMatch ==
  ASSUME NEW p \in Procs, MatchInv, MoveStep(p)
  PROVE  MatchInv'
<1> USE DEF MatchInv
<1>1. /\ Len(program) \in Nat
      /\ pc \in [Procs -> {"idle", "called", "inside", "finished"}]
      /\ round \in [Procs -> Nat \ {0}]
  BY ProgramFacts DEF ControlInv
<1>2. UNCHANGED <<program, round, coll, entered>>
  BY DEF MoveStep
<1>3. Refused(round[p])
  BY DEF MoveStep, Refused, Call
<1>4. ProgramInv' /\ EnteredInv' /\ CollectivesMatch'
  BY <1>2 DEF ProgramInv, EnteredInv, CollectivesMatch
<1>5. \A i : Refused(i)' = Refused(i)
  BY <1>2 DEF Refused
<1>6. \A q : LastRound(q)' = LastRound(q)
  BY <1>2 DEF LastRound
<1>7. RoundsInv'
  BY <1>2, <1>5 DEF RoundsInv
<1>8. /\ pc[p] \in {"called", "inside"}
      /\ pc' = [pc EXCEPT ![p] = "inside"] \/ pc' = [pc EXCEPT ![p] = "finished"]
  BY DEF MoveStep
<1>9. ControlInv'
  BY <1>1, <1>2, <1>8 DEF ControlInv
<1>10. ProgressInv'
  BY <1>1, <1>2, <1>3, <1>5, <1>6, <1>8 DEF ProgressInv
<1> QED
  BY <1>4, <1>7, <1>9, <1>10

LEMMA MatchMatch ==
  ASSUME MatchInv, MatchStep
  PROVE  MatchInv'
<1>1. UNCHANGED <<program, round, pc, coll, entered>>
  BY DEF MatchStep
<1>2. \A i : Refused(i)' = Refused(i)
  BY <1>1 DEF Refused
<1>3. \A q : LastRound(q)' = LastRound(q)
  BY <1>1 DEF LastRound
<1>4. ProgramInv' /\ EnteredInv' /\ CollectivesMatch'
  BY <1>1 DEF MatchInv, ProgramInv, EnteredInv, CollectivesMatch
<1>5. ControlInv' /\ RoundsInv' /\ ProgressInv'
  BY <1>1, <1>2, <1>3 DEF MatchInv, ControlInv, RoundsInv, ProgressInv
<1> QED
  BY <1>4, <1>5 DEF MatchInv

LEMMA MPINextMatch == ASSUME MatchInv, [MPINext]_mpi_vars PROVE MatchInv'
<1>1. ASSUME NEW p \in Procs,
             \/ RejectStep(p) \/ AbortStep(p) \/ CreateStep(p) \/ ReturnStep(p) \/ Start(p) \/ Leave(p)
      PROVE  MatchInv'
  <2>1. UNCHANGED <<program, coll, entered>>
    BY <1>1, LeaveEffect DEF RejectStep, Reject, AbortStep, Abort, CreateStep, ReturnStep, Return, Start
  <2> QED
    BY <1>1, <2>1, OtherMatch
<1> QED
  BY <1>1, EnterMatch, MoveMatch, MatchMatch, MPIStep

LEMMA MPIInvariance == MPISpec => []MatchInv
<1>1. MPISpec => Init /\ [][MPINext]_mpi_vars
  BY DEF MPISpec, P2PInit
<1> QED
  BY <1>1, InitMatch, MPINextMatch, PTL

\* Also in programs that send and receive in between, processes that meet in a
\* collective of the library made the same call.
THEOREM MPIMeetInSameCall == MPISpec => []CollectivesMatch
<1>1. MatchInv => CollectivesMatch
  BY DEF MatchInv
<1> QED
  BY <1>1, MPIInvariance, PTL

\* No call, point-to-point or collective, leaves a datatype behind: what each
\* routine frees at its end is what it created on the path it took, also when
\* it is refused before the library is called or fails there.
THEOREM MPINoTypeLeft == MPISpec => []TypesReleased
<1>1. MPISpec => Init /\ [][MPINext]_mpi_vars
  BY DEF MPISpec, P2PInit
<1>2. Init => TempInv
  BY DEF Init, TempInv
<1>3. ASSUME MatchInv, TempInv, [MPINext]_mpi_vars PROVE TempInv'
  <2>1. CASE MatchStep
    <3>1. UNCHANGED <<HaveCFI, program, round, pc, temp>>
      BY <2>1 DEF MatchStep
    <3> QED
      BY <1>3, <3>1, MadeStays DEF TempInv
  <2> QED
    BY <1>3, <2>1, StepTemp, MPIStep DEF Steps
<1> QED
  BY <1>1, <1>2, <1>3, TempIsReleased, MPIInvariance, PTL

\* An abort has a cause that the documentation names, or a section that is too
\* short, also in Sendrecv, which makes a datatype for a contiguous buffer.
THEOREM MPIAbortHasCause == MPISpec => []AbortsOnlyUnsupported
<1>1. MPISpec => Init /\ [][MPINext]_mpi_vars
  BY DEF MPISpec, P2PInit
<1>2. Init => AbortsOnlyUnsupported
  BY DEF Init, AbortsOnlyUnsupported
<1>3. ASSUME MatchInv, AbortsOnlyUnsupported, [MPINext]_mpi_vars PROVE AbortsOnlyUnsupported'
  <2>1. ASSUME NEW p \in Procs,
               \/ EnterStep(p) \/ RejectStep(p) \/ CreateStep(p) \/ (ReturnStep(p) /\ ~aborted)
               \/ Start(p) \/ Leave(p) \/ MoveStep(p)
        PROVE  ~aborted'
    BY <2>1, EnterEffect, LeaveEffect DEF RejectStep, Reject, CreateStep, ReturnStep, Return, Start, MoveStep
  <2>2. CASE MatchStep
    <3>1. UNCHANGED <<program, round>> /\ aborted' = aborted
      BY <2>2 DEF MatchStep
    <3> QED
      BY <1>3, <3>1, CauseStays DEF AbortsOnlyUnsupported, AbortCause
  <2> QED
    BY <1>3, <2>1, <2>2, AbortStepHasCause, MPIStep DEF AbortsOnlyUnsupported
<1> QED
  BY <1>1, <1>2, <1>3, MPIInvariance, PTL
-----------------------------------------------------------------------------
(* The datatypes of sections. *)

IsP2P(i) == program[i].routine = "PointToPoint"

\* What is known of a point-to-point call of a program.
LEMMA SectionFacts ==
  ASSUME MatchInv, NEW p \in Procs, NEW i \in DOMAIN program, IsP2P(i)
  PROVE  LET a == program[i].arg[p]
         IN  /\ a.in.addr \in Arrays /\ a.out.addr \in Arrays
             /\ a.stype \in DOMAIN TypeMap /\ a.rtype \in DOMAIN TypeMap
             /\ a.in.stride \in Nat \ {0} /\ a.out.stride \in Nat \ {0}
             /\ a.in.stride  # 1 => TypeMap[a.stype].extent = 1
             /\ a.out.stride # 1 => TypeMap[a.rtype].extent = 1
             /\ a.op = "Sendrecv" /\ a.in.stride # 1 => TypeMap[a.rtype].extent = 1
             /\ a.scount \in Nat /\ a.rcount \in Nat
             /\ Dense(TypeMap[a.stype]) /\ Dense(TypeMap[a.rtype])
<1>1. program \in Programs
  BY DEF MatchInv, ProgramInv
<1>2. program[i].arg[p].scount \in Nat /\ program[i].arg[p].rcount \in Nat
  BY <1>1, ProgramsAssumption
<1> QED
  BY <1>1, <1>2, TypesAssumption DEF IsP2P

LEMMA CurrentFacts ==
  ASSUME MatchInv, NEW p \in Procs, pc[p] # "idle", Call(p).routine = "PointToPoint"
  PROVE  \A side \in Arrays :
           /\ Section(p, side).addr \in Arrays
           /\ Section(p, side).stride \in Nat \ {0}
           /\ Section(p, side).stride # 1 => MpiType(p, side).extent = 1
           /\ Arg(p).op = "Sendrecv" /\ Arg(p).in.stride # 1 => MpiType(p, side).extent = 1
           /\ Count(p, side) \in Nat
           /\ Dense(MpiType(p, side))
<1>1. round[p] \in DOMAIN program /\ IsP2P(round[p])
  BY CurrentCall DEF IsP2P, Call
<1> QED
  BY <1>1, SectionFacts DEF Section, Count, MpiType, Arg, Call, Arrays

\* A buffer that is passed has as many elements as the call's section, also
\* as one element of its datatype.
LEMMA PassedSize ==
  ASSUME MatchInv, BuildInv, TempInv, NEW p \in Procs, pc[p] # "idle",
         Call(p).routine = "PointToPoint", NEW side \in Arrays, ~HaveCFI \/ ~NeedsType(p, side)
  PROVE  /\ NumElements(p, side) \in Nat
         /\ Passed(p, side).count[0] * Size(Passed(p, side).type) = NumElements(p, side)
<1>0. /\ Count(p, side) \in Nat /\ Dense(MpiType(p, side))
      /\ Section(p, side).stride # 1 => MpiType(p, side).extent = 1
      /\ Size(MpiType(p, side)) = MpiType(p, side).extent /\ Size(MpiType(p, side)) \in Nat
  BY CurrentFacts, DenseSize
<1>1. CASE Contiguous(Section(p, side))
  <2>1. /\ Passed(p, side).count[0] = Count(p, side)
        /\ Passed(p, side).type = MpiType(p, side)
    BY <1>1, FirstProcess DEF Passed, BufferAt, Blocks
  <2> QED
    BY <1>0, <2>1 DEF NumElements
<1>2. CASE ~Contiguous(Section(p, side))
  <2>1. HaveCFI
    <3>1. round[p] \in DOMAIN program
      BY CurrentCall
    <3> QED
      BY <1>2, <3>1 DEF BuildInv, Section, Arg, Call
  <2>2. temp[p][side] = SectionType(Section(p, side), Count(p, side))
    BY <1>2, <2>1 DEF NeedsType, TempInv
  <2>3. Passed(p, side).count[0] = 1 /\ Passed(p, side).type = temp[p][side]
    BY <1>2, FirstProcess DEF Passed, BufferAt, Blocks
  <2>4. Size(temp[p][side]) = Count(p, side)
    BY <1>0, <2>2, SectionTypeSize
  <2>5. Size(MpiType(p, side)) = 1
    BY <1>0, <1>2 DEF Contiguous
  <2> QED
    BY <1>0, <2>3, <2>4, <2>5 DEF NumElements
<1> QED
  BY <1>1, <1>2

LEMMA InitControl == ASSUME P2PInit PROVE MatchInv /\ BuildInv /\ TempInv
BY InitMatch DEF P2PInit, Init, BuildInv, TempInv

\* What any step keeps.
ControlKept ==
  /\ MatchInv' /\ BuildInv' /\ TempInv' /\ UNCHANGED <<HaveCFI, program>>
  /\ \A q \in Procs : \A i \in Int : Called(q, i) => Called(q, i)'

LEMMA StepKeepsControl ==
  ASSUME MatchInv, BuildInv, TempInv, [MPINext]_mpi_vars
  PROVE  ControlKept
<1>1. MatchInv'
  BY MPINextMatch
<1>2. ASSUME UNCHANGED <<HaveCFI, program>> PROVE BuildInv'
  BY <1>2 DEF BuildInv
<1>3. CASE MatchStep
  <2>1. UNCHANGED <<HaveCFI, program, round, pc, temp>>
    BY <1>3 DEF MatchStep
  <2>2. TempInv'
    BY <2>1, MadeStays DEF TempInv
  <2>3. \A q \in Procs : \A i \in Int : Called(q, i) => Called(q, i)'
    BY <2>1 DEF Called
  <2> QED
    BY <1>1, <1>2, <2>1, <2>2, <2>3 DEF ControlKept
<1>4. CASE \E p \in Procs : Steps(p)
  BY <1>1, <1>2, <1>4, StepControl, StepTemp, StepCalled DEF ControlKept
<1> QED
  BY <1>3, <1>4, MPIStep DEF Steps
=============================================================================
