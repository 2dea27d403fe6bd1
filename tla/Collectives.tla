----------------------------- MODULE Collectives -----------------------------
(***************************************************************************)
(* Collective operations (mpi_coll.c) between the processes of one         *)
(* communicator.  Each process runs the same program, a sequence of        *)
(* collective calls with arguments of its own, and a call goes through     *)
(*   1. the wrapper: checks, MPI_IN_PLACE, datatypes for array sections    *)
(*      that are not contiguous                              ("called"),   *)
(*   2. the MPI library, where it meets the other processes  ("inside"),   *)
(*   3. the wrapper again: release of the datatypes, return code           *)
(*                                                         ("finished").   *)
(* Processes are at different steps, and in different calls, as far as the *)
(* library lets them.                                                      *)
(*                                                                         *)
(* An array section is its address, its number of elements and the stride  *)
(* between them, in cells of memory.  CfiDatatype describes the datatype   *)
(* that VAPAA_CFI_CREATE_DATATYPE makes of it; here it is one operator.    *)
(***************************************************************************)
EXTENDS Integers, Sequences, FiniteSets, FiniteSetsExt

CONSTANTS
  Procs,         \* ranks of the communicator
  Programs,      \* sequences of collective calls
  NumCells,      \* cells of each array in memory
  TypeMap,       \* the MPI datatypes: [disp, extent] in cells
  BuiltinTypes,  \* those C_MPI_TYPE_IS_BUILTIN knows
  BuiltinOps     \* reduction operations C_MPI_OP_IS_BUILTIN knows

Arrays == {"in", "out"}
Cells  == 0..NumCells-1

\* Addresses that stand for MPI_IN_PLACE in the program and in the library.
f08_MPI_IN_PLACE == "f08_MPI_IN_PLACE"
MPI_IN_PLACE     == "MPI_IN_PLACE"

ASSUME CollectivesAssumption ==
  /\ Procs # {} /\ IsFiniteSet(Procs) /\ Procs = 0..Cardinality(Procs)-1
  /\ NumCells \in Nat
  /\ BuiltinTypes \subseteq DOMAIN TypeMap

\* What MPI asks of a program: counts are not negative, and a reduction has one
\* count and one datatype, the same in all processes.
ASSUME ProgramsAssumption ==
  \A prog \in Programs :
    /\ Len(prog) \in Nat /\ DOMAIN prog = 1..Len(prog)
    /\ \A i \in DOMAIN prog : \A p \in Procs :
         /\ prog[i].arg[p].scount \in Nat /\ prog[i].arg[p].rcount \in Nat
         /\ prog[i].arg[p].in.size \in Nat /\ prog[i].arg[p].out.size \in Nat
         /\ prog[i].routine \in {"Reduce", "Allreduce"} =>
              \A q \in Procs :
                /\ prog[i].arg[p].stype = prog[i].arg[q].stype
                /\ prog[i].arg[p].rtype = prog[i].arg[q].stype
                /\ prog[i].arg[p].scount = prog[i].arg[q].scount
                /\ prog[i].arg[p].rcount = prog[i].arg[q].scount

VARIABLES
  HaveCFI,  \* whether the library was built with array descriptors
  program,
  round,    \* per process: index of its next or current call in the program
  pc,       \* per process: idle, called, inside, finished
  mem,      \* per process: the arrays
  temp,     \* per process: datatypes created for the input and output section
  args,     \* per process: the buffers given to the library
  rc,       \* per process: the return code
  coll,     \* the library's collectives: what each process that entered sent
  entered,  \* per process: how many of them it entered
  given,    \* history: the arrays when each process made each call
  aborted   \* MPI_Abort was called

vars == <<HaveCFI, program, round, pc, mem, temp, args, rc, coll, entered, given, aborted>>

Call(p) == program[round[p]]
Arg(p)  == Call(p).arg[p]

Contiguous(buf) == buf.stride = 1

\* The datatype of the first count elements of a section.  Its extent ends
\* with the last of them, not where the next element of the section begins.
NoType == [disp |-> <<>>, extent |-> -1]
SectionType(buf, count) ==
  [disp   |-> [k \in 0..count-1 |-> k * buf.stride],
   extent |-> IF count = 0 THEN 0 ELSE (count - 1) * buf.stride + 1]

\* A datatype whose elements fill its extent.
Dense(type) == type.extent \in Nat /\ type.disp = [k \in 0..type.extent-1 |-> k]

\* The functions of MPI on blocks: how many elements a process sends to, or
\* receives from, each other process, and where they are.
Blocks(addr, count, type) ==
  [addr |-> addr, type |-> type,
   count |-> [q \in Procs |-> count], displ |-> [q \in Procs |-> q * count]]

VBlocks(addr, counts, displs, type) ==
  [addr |-> addr, type |-> type, count |-> counts, displ |-> displs]

NoBlocks == Blocks("none", 0, NoType)

Init ==
  /\ HaveCFI \in BOOLEAN
  /\ program \in Programs
  \* Without descriptors the compiler passes contiguous copies of sections.
  /\ HaveCFI \/ \A i \in DOMAIN program : \A p \in Procs :
                  /\ Contiguous(program[i].arg[p].in)
                  /\ Contiguous(program[i].arg[p].out)
  /\ round = [p \in Procs |-> 1]
  /\ pc    = [p \in Procs |-> "idle"]
  \* every cell of every process holds a number of its own
  /\ mem   = [p \in Procs |-> [a \in Arrays |->
                [c \in Cells |-> 100 * p + c + IF a = "in" THEN 0 ELSE NumCells]]]
  /\ temp  = [p \in Procs |-> [side \in Arrays |-> NoType]]
  /\ args  = [p \in Procs |-> [in |-> NoBlocks, out |-> NoBlocks]]
  /\ rc    = [p \in Procs |-> "MPI_SUCCESS"]
  /\ coll  = <<>>
  /\ entered = [p \in Procs |-> 0]
  /\ given = [i \in DOMAIN program |-> [p \in Procs |-> mem[p]]]
  /\ aborted = FALSE
-----------------------------------------------------------------------------
(* The MPI library. *)

Scatters   == {"Scatter", "Scatterv"}
Exchanges  == {"Alltoall", "Alltoallv"}
Gathers    == {"Gather", "Gatherv", "Allgather", "Allgatherv"}
Reductions == {"Reduce", "Allreduce"}
Vectors    == {"Gatherv", "Allgatherv", "Scatterv", "Alltoallv"}

Senders(c)   == IF c.routine \in Scatters \cup {"Bcast"} THEN {c.root} ELSE Procs
Receivers(c) == IF c.routine \in {"Gather", "Gatherv", "Reduce"} THEN {c.root} ELSE Procs

\* The block for process q in what a process sends, and the one from q in what
\* it receives.  In place, p sends what is in its output where it belongs.
SendBlock(c, q) == IF c.routine \in Scatters \cup Exchanges THEN q ELSE 0
RecvBlock(c, q) == IF c.routine \in Gathers \cup Exchanges  THEN q ELSE 0
InPlaceBlock(c, p, q) == IF c.routine \in Exchanges THEN q ELSE RecvBlock(c, p)

Size(type) == Cardinality(DOMAIN type.disp)

\* The cells of block b, in the order of the type map.
CellsOf(blocks, b) ==
  [m \in 0..blocks.count[b] * Size(blocks.type) - 1 |->
     LET n == Size(blocks.type)
     IN  (blocks.displ[b] + m \div n) * blocks.type.extent + blocks.type.disp[m % n]]

\* Content of a cell; what lies outside the arrays is not a number of theirs.
Load(p, addr, cell) ==
  IF addr \in Arrays /\ cell \in Cells THEN mem[p][addr][cell] ELSE -1

Sent(p, in, out) ==
  [q \in Procs |->
     LET src   == IF in.addr = MPI_IN_PLACE THEN out ELSE in
         block == IF in.addr = MPI_IN_PLACE THEN InPlaceBlock(Call(p), p, q)
                                            ELSE SendBlock(Call(p), q)
         cell  == CellsOf(src, block)
     IN  [m \in DOMAIN cell |-> Load(p, src.addr, cell[m])]]

\* The process enters the library's next collective, or is told that an
\* argument is wrong before it does.
Enter(p, in, out) ==
  /\ pc[p] = "called"
  /\ args' = [args EXCEPT ![p] = [in |-> in, out |-> out]]
  /\ IF Call(p).root \notin Procs
     THEN /\ pc' = [pc EXCEPT ![p] = "finished"]
          /\ rc' = [rc EXCEPT ![p] = "MPI_ERR_ROOT"]
          /\ UNCHANGED <<coll, entered>>
     ELSE LET n    == entered[p] + 1
              part == [round |-> round[p], data |-> Sent(p, in, out)]
          IN  /\ pc' = [pc EXCEPT ![p] = "inside"]
              /\ entered' = [entered EXCEPT ![p] = n]
              /\ coll' = IF n > Len(coll) THEN Append(coll, [q \in {p} |-> part])
                         ELSE [coll EXCEPT ![n] = [q \in DOMAIN @ \cup {p} |->
                                                     IF q = p THEN part ELSE @[q]]]
              /\ UNCHANGED rc
  /\ UNCHANGED <<HaveCFI, program, round, mem, temp, given, aborted>>

\* A process can leave when everything it receives was sent.  The library may
\* keep it until all others have entered.  It does not serve processes that
\* meet in different calls (CollectivesMatch says that they do not).
Leave(p) ==
  LET c    == Call(p)
      part == coll[entered[p]]
      out  == args[p].out
      from == IF p \in Receivers(c) THEN Senders(c) ELSE {}
      dest(q) == CellsOf(out, RecvBlock(c, q))
      value(q, m) == IF c.routine \in Reductions
                     THEN SumFunction([r \in from |-> part[r].data[p][m]])
                     ELSE part[q].data[p][m]
      received == {r \in from \X (0..NumCells-1) :
                     r[2] \in DOMAIN dest(r[1]) /\ r[2] \in DOMAIN part[r[1]].data[p]}
  IN  /\ pc[p] = "inside" /\ ~aborted
      /\ from \subseteq DOMAIN part
      /\ \A q \in from : part[q].round = round[p]
      /\ pc' = [pc EXCEPT ![p] = "finished"]
      /\ rc' = [rc EXCEPT ![p] = "MPI_SUCCESS"]
      /\ mem' = IF out.addr \notin Arrays THEN mem
                ELSE [mem EXCEPT ![p][out.addr] =
                  [x \in Cells |->
                     IF \E r \in received : dest(r[1])[r[2]] = x
                     THEN LET r == CHOOSE r \in received : dest(r[1])[r[2]] = x
                          IN  value(r[1], r[2])
                     ELSE mem[p][out.addr][x]]]
      /\ UNCHANGED <<HaveCFI, program, round, temp, args, coll, entered, given, aborted>>
-----------------------------------------------------------------------------
(* What the wrappers share. *)

\* The program calls the next collective, through MPI_X_f08 or MPI_X_f08ts.
Start(p) ==
  /\ pc[p] = "idle" /\ ~aborted
  /\ round[p] <= Len(program)
  /\ pc' = [pc EXCEPT ![p] = "called"]
  /\ given' = [given EXCEPT ![round[p]][p] = mem[p]]
  /\ UNCHANGED <<HaveCFI, program, round, mem, temp, args, rc, coll, entered, aborted>>

At(p, routine) == pc[p] \in {"called", "finished"} /\ Call(p).routine = routine /\ ~aborted

Address_Unconverted(buf) == buf.addr  \* mutant: the sentinel is passed on
Address(buf) == IF buf.addr = f08_MPI_IN_PLACE THEN MPI_IN_PLACE ELSE buf.addr

\* MPI_Abort, called by the wrapper or by an assertion of it.
Abort(p) ==
  /\ aborted' = TRUE
  /\ UNCHANGED <<HaveCFI, program, round, pc, mem, temp, args, rc, coll, entered, given>>

\* PMPI_Type_free for the sections in frees; a datatype that is not freed stays
\* in the library.
Released(types, frees) == [side \in Arrays |-> IF side \in frees THEN NoType ELSE types[side]]

C_MPI_RC_FIX_Missing(code) == code  \* mutant: the library's integer is returned
C_MPI_RC_FIX(code) ==
  CASE code = "MPI_ERR_ROOT" -> "VAPAA_MPI_ERR_ROOT"
    [] code = "MPI_ERR_OP"   -> "VAPAA_MPI_ERR_OP"
    [] code = "MPI_ERR_RANK" -> "VAPAA_MPI_ERR_RANK"
    [] code = "MPI_ERR_TAG"  -> "VAPAA_MPI_ERR_TAG"
    [] code = "MPI_ERR_ARG"  -> "VAPAA_MPI_ERR_ARG"
    [] code = "MPI_ERR_REQUEST"   -> "VAPAA_MPI_ERR_REQUEST"
    [] code = "MPI_ERR_TRUNCATE"  -> "VAPAA_MPI_ERR_TRUNCATE"
    [] code = "MPI_ERR_IN_STATUS" -> "VAPAA_MPI_ERR_IN_STATUS"
    [] OTHER -> code

\* The end of a routine, in the order it likes: it frees the datatypes of the
\* sections it names, converts the code, and the program goes on.
Return(p, frees) ==
  /\ pc[p] = "finished"
  /\ temp' = [temp EXCEPT ![p] = Released(@, frees)]
  /\ rc' = [rc EXCEPT ![p] = C_MPI_RC_FIX(@)]
  /\ pc' = [pc EXCEPT ![p] = "idle"]
  /\ round' = [round EXCEPT ![p] = @ + 1]
  /\ args' = [args EXCEPT ![p] = [in |-> NoBlocks, out |-> NoBlocks]]
  /\ UNCHANGED <<HaveCFI, program, mem, coll, entered, given, aborted>>

Count(p, side)  == IF side = "in" THEN Arg(p).scount ELSE Arg(p).rcount
Section(p, side)  == IF side = "in" THEN Arg(p).in ELSE Arg(p).out
MpiType(p, side)  == TypeMap[IF side = "in" THEN Arg(p).stype ELSE Arg(p).rtype]

\* The count does not fit into the section, or is negative.
CreateFails_OffByOne(buf, count) == count < 0 \/ count >= buf.size  \* mutant
CreateFails(buf, count) == count < 0 \/ count > buf.size

NeedsType(p, side) == ~Contiguous(Section(p, side)) /\ temp[p][side] = NoType

\* The condition of the routines' PMPI_Type_free calls, tested when they return.
Noncontiguous(p, sides) == {side \in sides : ~Contiguous(Section(p, side))}

\* VAPAA_CFI_CREATE_DATATYPE, PMPI_Type_commit and the assertions after them.
MakeType(p, side) ==
  /\ pc[p] = "called"
  /\ IF CreateFails(Section(p, side), Count(p, side)) THEN Abort(p)
     ELSE /\ temp' = [temp EXCEPT ![p][side] =
                        SectionType(Section(p, side), Count(p, side))]
          /\ UNCHANGED <<HaveCFI, program, round, pc, mem, args, rc, coll, entered,
                         given, aborted>>
CreateType(p, side) == NeedsType(p, side) /\ MakeType(p, side)

\* The buffer as it is given to the library: a section that is not contiguous is
\* one element of the type created for it.
BufferAt(addr, p, side) ==
  IF Contiguous(Section(p, side))
  THEN Blocks(addr, Count(p, side), MpiType(p, side))
  ELSE Blocks(addr, 1, temp[p][side])

Buffer(p, side) == BufferAt(Address(Section(p, side)), p, side)

\* Bcast passes the address as it is.
BcastBuffer(p) == BufferAt(Arg(p).in.addr, p, "in")

VSend(p) == VBlocks(Address(Arg(p).in),  Arg(p).scounts, Arg(p).sdispls, MpiType(p, "in"))
VRecv(p) == VBlocks(Address(Arg(p).out), Arg(p).rcounts, Arg(p).rdispls, MpiType(p, "out"))

\* Gather, Allgather, Scatter and Alltoall with descriptors: a type for the
\* input, then one for the output.  What is freed is up to the routine.
WithTypes(p, frees) ==
  \/ CreateType(p, "in")
  \/ ~NeedsType(p, "in") /\ CreateType(p, "out")
  \/ /\ ~NeedsType(p, "in") /\ ~NeedsType(p, "out")
     /\ Enter(p, Buffer(p, "in"), Buffer(p, "out"))
  \/ Return(p, frees)

\* Without descriptors there is nothing to create, and nothing is freed.
Plain(p) == Enter(p, Buffer(p, "in"), Buffer(p, "out")) \/ Return(p, {})

BothContiguous(p) == Contiguous(Arg(p).in) /\ Contiguous(Arg(p).out)

\* Reductions with a user's operation and a predefined type are refused.
Rejected_ByRoot(p) ==  \* mutant: only the root looks
  p = 0 /\ Call(p).op \notin BuiltinOps /\ Arg(p).stype \in BuiltinTypes
Rejected(p) == Call(p).op \notin BuiltinOps /\ Arg(p).stype \in BuiltinTypes

Reject(p) ==
  /\ pc[p] = "called"
  /\ pc' = [pc EXCEPT ![p] = "finished"]
  /\ rc' = [rc EXCEPT ![p] = "MPI_ERR_OP"]
  /\ UNCHANGED <<HaveCFI, program, round, mem, temp, args, coll, entered, given, aborted>>

Reduction(p) ==
  \/ Rejected(p) /\ Reject(p)
  \/ ~Rejected(p) /\ Enter(p, Buffer(p, "in"), Buffer(p, "out"))
  \/ Return(p, {})

\* With descriptors, a reduction of sections that are not contiguous aborts.
CFI_Reduction(p) ==
  IF BothContiguous(p) \/ Rejected(p) THEN Reduction(p)
  ELSE pc[p] = "called" /\ Abort(p)
-----------------------------------------------------------------------------
(* The routines of mpi_coll.c. *)

C_MPI_Barrier(p)   == At(p, "Barrier") /\ (Enter(p, NoBlocks, NoBlocks) \/ Return(p, {}))

C_MPI_Bcast(p) ==
  /\ At(p, "Bcast") /\ ~HaveCFI
  /\ Enter(p, BcastBuffer(p), BcastBuffer(p)) \/ Return(p, {})

C_MPI_Reduce(p)    == At(p, "Reduce")    /\ ~HaveCFI /\ Reduction(p)
C_MPI_Allreduce(p) == At(p, "Allreduce") /\ ~HaveCFI /\ Reduction(p)
C_MPI_Gather(p)    == At(p, "Gather")    /\ ~HaveCFI /\ Plain(p)
C_MPI_Allgather(p) == At(p, "Allgather") /\ ~HaveCFI /\ Plain(p)
C_MPI_Scatter(p)   == At(p, "Scatter")   /\ ~HaveCFI /\ Plain(p)
C_MPI_Alltoall(p)  == At(p, "Alltoall")  /\ ~HaveCFI /\ Plain(p)

\* One buffer, so one type at most.
CFI_MPI_Bcast(p) ==
  /\ At(p, "Bcast") /\ HaveCFI
  /\ \/ CreateType(p, "in")
     \/ ~NeedsType(p, "in") /\ Enter(p, BcastBuffer(p), BcastBuffer(p))
     \/ Return(p, Noncontiguous(p, {"in"}))

CFI_MPI_Reduce(p)    == At(p, "Reduce")    /\ HaveCFI /\ CFI_Reduction(p)
CFI_MPI_Allreduce(p) == At(p, "Allreduce") /\ HaveCFI /\ CFI_Reduction(p)

CFI_MPI_Gather(p) ==
  At(p, "Gather") /\ HaveCFI /\ WithTypes(p, Noncontiguous(p, {"in", "out"}))
CFI_MPI_Allgather(p) ==
  At(p, "Allgather") /\ HaveCFI /\ WithTypes(p, Noncontiguous(p, {"in", "out"}))
CFI_MPI_Scatter_OnSuccess(p) ==  \* mutant: an early return when the library fails
  /\ At(p, "Scatter") /\ HaveCFI
  /\ WithTypes(p, IF rc[p] = "MPI_SUCCESS" THEN Noncontiguous(p, {"in", "out"}) ELSE {})
CFI_MPI_Scatter(p) ==
  At(p, "Scatter") /\ HaveCFI /\ WithTypes(p, Noncontiguous(p, {"in", "out"}))
CFI_MPI_Alltoall(p) ==
  At(p, "Alltoall") /\ HaveCFI /\ WithTypes(p, Noncontiguous(p, {"in", "out"}))

\* The functions with a count and a displacement for each process.
C_MPI_Gatherv(p) ==
  /\ At(p, "Gatherv") /\ ~HaveCFI
  /\ Enter(p, Buffer(p, "in"), VRecv(p)) \/ Return(p, {})
C_MPI_Allgatherv(p) ==
  /\ At(p, "Allgatherv") /\ ~HaveCFI
  /\ Enter(p, Buffer(p, "in"), VRecv(p)) \/ Return(p, {})
C_MPI_Scatterv(p) ==
  /\ At(p, "Scatterv") /\ ~HaveCFI
  /\ Enter(p, VSend(p), Buffer(p, "out")) \/ Return(p, {})
C_MPI_Alltoallv(p) ==
  /\ At(p, "Alltoallv") /\ ~HaveCFI
  /\ Enter(p, VSend(p), VRecv(p)) \/ Return(p, {})

\* With descriptors they abort when a section is not contiguous.
CFI_Vector(p, in, out) ==
  \/ BothContiguous(p) /\ Enter(p, in, out)
  \/ pc[p] = "called" /\ ~BothContiguous(p) /\ Abort(p)
  \/ Return(p, {})

CFI_MPI_Gatherv(p) ==
  At(p, "Gatherv") /\ HaveCFI /\ CFI_Vector(p, Buffer(p, "in"), VRecv(p))
CFI_MPI_Allgatherv(p) ==
  At(p, "Allgatherv") /\ HaveCFI /\ CFI_Vector(p, Buffer(p, "in"), VRecv(p))
CFI_MPI_Scatterv(p) ==
  At(p, "Scatterv") /\ HaveCFI /\ CFI_Vector(p, VSend(p), Buffer(p, "out"))
CFI_MPI_Alltoallv(p) ==
  At(p, "Alltoallv") /\ HaveCFI /\ CFI_Vector(p, VSend(p), VRecv(p))

Wrapper(p) ==
  \/ C_MPI_Barrier(p)
  \/ C_MPI_Bcast(p)   \/ CFI_MPI_Bcast(p)
  \/ C_MPI_Reduce(p)  \/ CFI_MPI_Reduce(p)
  \/ C_MPI_Allreduce(p)  \/ CFI_MPI_Allreduce(p)
  \/ C_MPI_Gather(p)     \/ CFI_MPI_Gather(p)
  \/ C_MPI_Allgather(p)  \/ CFI_MPI_Allgather(p)
  \/ C_MPI_Scatter(p)    \/ CFI_MPI_Scatter(p)
  \/ C_MPI_Alltoall(p)   \/ CFI_MPI_Alltoall(p)
  \/ C_MPI_Gatherv(p)    \/ CFI_MPI_Gatherv(p)
  \/ C_MPI_Allgatherv(p) \/ CFI_MPI_Allgatherv(p)
  \/ C_MPI_Scatterv(p)   \/ CFI_MPI_Scatterv(p)
  \/ C_MPI_Alltoallv(p)  \/ CFI_MPI_Alltoallv(p)

\* The program is over when it is aborted or all calls have returned.
Next == \E p \in Procs : Start(p) \/ Wrapper(p) \/ Leave(p)

\* Processes go on with their programs and calls; the library lets a process
\* leave at the latest when all have entered.
AllEntered(p) == pc[p] = "inside" /\ DOMAIN coll[entered[p]] = Procs
Fairness == \A p \in Procs : /\ WF_vars(Start(p)) /\ WF_vars(Wrapper(p))
                            /\ WF_vars(AllEntered(p) /\ Leave(p))

Spec == Init /\ [][Next]_vars /\ Fairness
-----------------------------------------------------------------------------
(* Properties. *)

CCodes == {"MPI_SUCCESS", "MPI_ERR_ROOT", "MPI_ERR_OP", "MPI_ERR_RANK", "MPI_ERR_TAG", "MPI_ERR_ARG",
           "MPI_ERR_REQUEST", "MPI_ERR_TRUNCATE", "MPI_ERR_IN_STATUS"}
FCodes == {"MPI_SUCCESS", "VAPAA_MPI_ERR_ROOT", "VAPAA_MPI_ERR_OP", "VAPAA_MPI_ERR_RANK",
           "VAPAA_MPI_ERR_TAG", "VAPAA_MPI_ERR_ARG", "VAPAA_MPI_ERR_REQUEST",
           "VAPAA_MPI_ERR_TRUNCATE", "VAPAA_MPI_ERR_IN_STATUS"}

\* Types; the codes a program sees are those of Vapaa.
TypeOK ==
  /\ HaveCFI \in BOOLEAN /\ aborted \in BOOLEAN
  /\ program \in Programs
  /\ round \in [Procs -> 1..Len(program)+1]
  /\ pc \in [Procs -> {"idle", "called", "inside", "finished"}]
  /\ mem \in [Procs -> [Arrays -> [Cells -> Int]]]
  /\ rc \in [Procs -> CCodes \cup FCodes]
  /\ \A p \in Procs : pc[p] = "idle" => rc[p] \in FCodes
  /\ entered \in [Procs -> 0..Len(coll)]
  /\ \A n \in DOMAIN coll : DOMAIN coll[n] \subseteq Procs

\* When no call of a process is under way, the library has none of the
\* datatypes that its calls created: each routine frees, on each of its paths
\* and also when the library refused the call, what it created on that path.
TypesReleased ==
  \A p \in Procs : pc[p] = "idle" => \A side \in Arrays : temp[p][side] = NoType

\* Processes that meet in a collective of the library are in the same call: a
\* check that stops a call in one process stops it in all.
CollectivesMatch ==
  \A n \in DOMAIN coll : \A p, q \in DOMAIN coll[n] : coll[n][p].round = coll[n][q].round

\* Every call returns, unless the program is aborted.
CallsReturn ==
  \A p \in Procs : pc[p] # "idle" ~> pc[p] = "idle" \/ aborted

\* A program is aborted only for what the documentation says is not supported,
\* or because a section is shorter than the count that goes with it.
AbortsOnlyUnsupported ==
  aborted => \E p \in Procs :
    /\ round[p] <= Len(program) /\ ~BothContiguous(p)
    /\ \/ Call(p).routine \in Reductions \cup Vectors
       \/ \E side \in Arrays : Count(p, side) > Section(p, side).size

(* What MPI promises of a call: sections behave like arrays of their elements. *)

\* Number of elements in block b of a section, and of those before it.
SendCount(c, p, b) ==
  Size(TypeMap[c.arg[p].stype]) * (IF c.routine \in {"Scatterv", "Alltoallv"}
                                   THEN c.arg[p].scounts[b] ELSE c.arg[p].scount)
SendFirst(c, p, b) ==
  IF c.routine \in {"Scatterv", "Alltoallv"}
  THEN Size(TypeMap[c.arg[p].stype]) * c.arg[p].sdispls[b] ELSE b * SendCount(c, p, b)
RecvCount(c, p, b) ==
  Size(TypeMap[c.arg[p].rtype]) * (IF c.routine \in Vectors \ {"Scatterv"}
                                   THEN c.arg[p].rcounts[b] ELSE c.arg[p].rcount)
RecvFirst(c, p, b) ==
  IF c.routine \in Vectors \ {"Scatterv"}
  THEN Size(TypeMap[c.arg[p].rtype]) * c.arg[p].rdispls[b] ELSE b * RecvCount(c, p, b)

\* Element e of a section, in the arrays m.
Element(buf, m, e) == m[buf.addr][e * buf.stride]

\* The section with what s sends to p, and its elements there.
SendsInPlace(c, s)   == c.arg[s].in.addr = f08_MPI_IN_PLACE
SourceSection(c, s)  == IF SendsInPlace(c, s) THEN c.arg[s].out ELSE c.arg[s].in
SourceType(c, s)     == IF SendsInPlace(c, s) THEN c.arg[s].rtype ELSE c.arg[s].stype
SourceBlock(c, s, p) == IF SendsInPlace(c, s) THEN InPlaceBlock(c, s, p) ELSE SendBlock(c, p)
SourceFirst(c, s, p) ==
  IF SendsInPlace(c, s) THEN RecvFirst(c, s, SourceBlock(c, s, p))
  ELSE SendFirst(c, s, SourceBlock(c, s, p))
SourceCount(c, s, p) ==
  IF SendsInPlace(c, s) THEN RecvCount(c, s, SourceBlock(c, s, p))
  ELSE SendCount(c, s, SourceBlock(c, s, p))

\* The element number k that process s sends to p.
SentElement(c, before, s, p, k) ==
  Element(SourceSection(c, s), before[s], SourceFirst(c, s, p) + k)

\* The section a process receives into.
ReceiveSection(c, p) == IF c.routine = "Bcast" THEN c.arg[p].in ELSE c.arg[p].out

\* The element of p's receive section that its element number k from s becomes.
Expected(c, before, p, addr, x) ==
  LET out == ReceiveSection(c, p)
      from == IF p \in Receivers(c) /\ out.addr = addr THEN Senders(c) ELSE {}
      hits == {h \in from \X (0..NumCells-1) :
                 LET b == RecvBlock(c, h[1])
                 IN  h[2] < RecvCount(c, p, b) /\ x = (RecvFirst(c, p, b) + h[2]) * out.stride}
  IN  IF hits = {} THEN before[p][addr][x]
      ELSE IF c.routine \in Reductions
      THEN SumFunction([h \in hits |-> SentElement(c, before, h[1], p, h[2])])
      ELSE LET h == CHOOSE h \in hits : TRUE
           IN  SentElement(c, before, h[1], p, h[2])

\* What MPI asks of the buffers of a call.  A section that is not contiguous is
\* used as one block, of elements of one cell: Collectives_sections shows what
\* becomes of a section with a block for each process.
Usable(buf, t, b) ==
  /\ buf.stride \in Nat \ {0} /\ t \in DOMAIN TypeMap /\ Dense(TypeMap[t])
  /\ buf.stride # 1 => b = 0 /\ TypeMap[t].extent = 1

\* What s sends to p lies in its array, and is as much as p receives.
LegalTransfer(c, s, p) ==
  LET from == SourceSection(c, s)
      to   == ReceiveSection(c, p)
  IN  /\ from.addr \in Arrays
      /\ Usable(from, SourceType(c, s), SourceBlock(c, s, p))
      /\ Usable(to, c.arg[p].rtype, RecvBlock(c, s))
      /\ SourceCount(c, s, p) = RecvCount(c, p, RecvBlock(c, s))
      /\ \A k \in 0..SourceCount(c, s, p) - 1 : (SourceFirst(c, s, p) + k) * from.stride \in Cells
      /\ SendsInPlace(c, s) => s \in Receivers(c)

LegalArguments(c, p) ==
  LET a == c.arg[p]
  IN  /\ c.routine = "Bcast" => /\ a.in.addr \in Arrays
                               /\ a.scount = a.rcount /\ a.stype = a.rtype
      /\ c.routine \in {"Scatterv", "Alltoallv"} /\ p \in Senders(c) =>
           \A q \in Procs : a.scounts[q] \in Nat /\ a.sdispls[q] \in Nat
      /\ c.routine \in Vectors \ {"Scatterv"} /\ p \in Receivers(c) =>
           \A q \in Procs : a.rcounts[q] \in Nat /\ a.rdispls[q] \in Nat
      /\ p \in Receivers(c) => ReceiveSection(c, p).addr \in Arrays \cup {f08_MPI_IN_PLACE}

\* The wrapper does not abort for the sections of process p.
Supported(c, p) ==
  LET a == c.arg[p]
  IN  /\ c.routine \in Reductions \cup Vectors => Contiguous(a.in) /\ Contiguous(a.out)
      /\ Contiguous(a.in) \/ a.scount <= a.in.size
      /\ c.routine = "Bcast" \/ Contiguous(a.out) \/ a.rcount <= a.out.size

LegalCollectives ==
  \A prog \in Programs : \A i \in DOMAIN prog :
    LET c == prog[i]
    IN  c.routine \notin {"Barrier", "PointToPoint"} /\ c.root \in Procs =>
          /\ \A p \in Procs : LegalArguments(c, p)
          /\ \A s \in Senders(c) : \A p \in Receivers(c) :
               /\ Supported(c, s) /\ Supported(c, p)
               /\ ReceiveSection(c, p).addr \in Arrays
               => LegalTransfer(c, s, p)

\* When a collective succeeded in a process, its arrays hold what MPI says: the
\* elements of its receive section those sent to it, in order, and all other
\* cells, those between the elements too, what they held before.
ResultAsIfPacked ==
  \A p \in Procs :
    /\ pc[p] = "finished" /\ rc[p] = "MPI_SUCCESS"
    /\ Call(p).routine \notin {"Barrier", "PointToPoint"}
    =>
    \A addr \in Arrays : \A x \in Cells :
      mem[p][addr][x] = Expected(Call(p), given[round[p]], p, addr, x)
=============================================================================
