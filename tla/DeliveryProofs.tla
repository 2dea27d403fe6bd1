---------------------------- MODULE DeliveryProofs ----------------------------
(***************************************************************************)
(* Point-to-point calls deliver the elements of the sender's section to    *)
(* those of the receiver's, for any number of processes and all programs   *)
(* without the exchange that mpi_p2p.c mistakes for a contiguous one       *)
(* (SendrecvAlike).                                                        *)
(*                                                                         *)
(* Every buffer that reaches the library covers the cells of its section,  *)
(* in order: as elements of a datatype, or as one element of the type made *)
(* for the section.  This is PassedCells; what is posted keeps it until    *)
(* the library stores the message, however long that takes.                *)
(***************************************************************************)
EXTENDS PointToPointProofs
-----------------------------------------------------------------------------
(* Cells of buffers. *)

LEMMA ProcessesAreNumbers == \A p \in Procs : p \in Int /\ ~(p < 0)
<1>1. Cardinality(Procs) \in Nat
  BY CollectivesAssumption, FS_CardinalityType
<1>2. Procs = 0..Cardinality(Procs)-1
  BY CollectivesAssumption
<1> QED
  BY <1>1, <1>2

\* The cells of a dense datatype's elements follow each other.
LEMMA DenseCells ==
  ASSUME NEW addr, NEW count \in Nat, NEW type, Dense(type)
  PROVE  /\ count * Size(type) \in Nat
         /\ CellsOf(Blocks(addr, count, type), 0) = [k \in 0..count * Size(type) - 1 |-> k]
<1> DEFINE b == Blocks(addr, count, type)
           n == Size(type)
<1>1. b.count[0] = count /\ b.displ[0] = 0 /\ b.type = type /\ n \in Nat
  BY FirstProcess, DenseSize DEF Blocks
<1>2. CellsOf(b, 0) = [m \in 0..count * n - 1 |-> 0 * n + m]
  <2> HIDE DEF b
  <2>1. /\ b.count[0] * Size(b.type) \in Nat
        /\ CellsOf(b, 0) = [m \in 0..b.count[0] * Size(b.type) - 1 |-> b.displ[0] * Size(b.type) + m]
    <3>1. Dense(b.type) /\ b.count[0] \in Nat /\ b.displ[0] \in Int
      BY <1>1
    <3> QED
      BY <3>1, DenseBlock, Zenon
  <2>2. b.count[0] = count /\ b.displ[0] = 0 /\ Size(b.type) = n
    BY <1>1
  <2> HIDE DEF n
  <2> QED
    BY <2>1, <2>2, Zenon
<1>3. \A m \in 0..count * n - 1 : 0 * n + m = m
  BY <1>1
<1>4. count * n \in Nat
  BY <1>1
<1> QED
  BY <1>2, <1>3, <1>4
-----------------------------------------------------------------------------
(* The invariant. *)

Receiving == {"Recv", "Irecv", "Sendrecv", "Mrecv", "Imrecv"}

\* The cells of the first n elements of a section.
InSection(section, n) == [k \in 0..n-1 |-> k * section.stride]

GoodMessage(m) ==
  /\ m.src \in Procs /\ m.data = m.sent
  /\ \E n \in Nat : DOMAIN m.sent = 0..n-1

\* The buffer of a receive covers the section of its call, and the receive
\* has not been given a message before.
GoodReceive(r) ==
  /\ r = [proc |-> r.proc, round |-> r.round, source |-> r.source, tag |-> r.tag, buf |-> r.buf,
          taken |-> r.taken, wants |-> r.wants, state |-> r.state, msg |-> r.msg]
  /\ r.proc \in Procs /\ r.round \in DOMAIN program /\ IsP2P(r.round)
  /\ program[r.round].arg[r.proc].op \in Receiving
  /\ r.buf.addr = program[r.round].arg[r.proc].out.addr
  /\ \E n \in Nat : CellsOf(r.buf, 0) = InSection(program[r.round].arg[r.proc].out, n)
  /\ \A m \in r.taken : GoodMessage(m)
  /\ r.state = "posted" => got[r.proc][r.round] = NoMessage

LibraryInv ==
  /\ DOMAIN held = Procs
  /\ \A m \in msgs : GoodMessage(m)
  /\ \A p \in Procs : \A h \in held[p] : GoodMessage(h.msg)
  /\ \A r \in recvs : GoodReceive(r) /\ Called(r.proc, r.round)
  /\ \A r, s \in recvs : r.proc = s.proc /\ r.round = s.round => r = s

GotInv ==
  /\ DOMAIN got = Procs
  /\ \A p \in Procs : DOMAIN got[p] = DOMAIN program
  /\ \A p \in Procs : \A i \in DOMAIN program : ~Called(p, i) => got[p][i] = NoMessage

MemoryInv ==
  /\ DOMAIN mem = Procs
  /\ \A p \in Procs : DOMAIN mem[p] = Arrays
  /\ position \in [Procs -> Nat]

DeliveryInv ==
  MatchInv /\ BuildInv /\ TempInv /\ LibraryInv /\ GotInv /\ MemoryInv

\* What DeliversElements says of a step.
Delivers ==
  \A p \in Procs :
    /\ \A i \in DOMAIN program : Gets(p, i) =>
         StoredAs(mem[p], mem'[p], program[i].arg[p].out,
                  IF program[i].arg[p].op = "Pack" THEN StartAt(p) ELSE 0, got'[p][i].sent)
    /\ mem'[p] # mem[p] =>
         \/ \E i \in DOMAIN program : Gets(p, i)
         \/ pc[p] = "inside" /\ Call(p).routine # "PointToPoint"

LEMMA InitDelivery == ASSUME P2PInit PROVE DeliveryInv
<1>1. LibraryInv
  BY DEF P2PInit, LibraryInv
<1>2. GotInv
  BY DEF P2PInit, GotInv
<1>3. MemoryInv
  BY DEF P2PInit, Init, MemoryInv
<1> QED
  BY <1>1, <1>2, <1>3, InitControl DEF DeliveryInv
-----------------------------------------------------------------------------
(* What is passed to the library. *)

LEMMA ContiguousCells ==
  ASSUME DeliveryInv, NEW p \in Procs, pc[p] # "idle", Call(p).routine = "PointToPoint",
         NEW side \in Arrays, Contiguous(Section(p, side)), NEW addr
  PROVE  CellsOf(Blocks(addr, Count(p, side), MpiType(p, side)), 0)
           = InSection(Section(p, side), NumElements(p, side))
<1> DEFINE c == Count(p, side)
           type == MpiType(p, side)
           n == c * Size(type)
<1>1. c \in Nat /\ Dense(type) /\ Section(p, side).stride = 1
  BY CurrentFacts DEF Contiguous, DeliveryInv
<1>2. n \in Nat /\ CellsOf(Blocks(addr, c, type), 0) = [k \in 0..n - 1 |-> k]
  BY <1>1, DenseCells
<1>3. NumElements(p, side) = n
  BY DEF NumElements
<1> HIDE DEF n, c, type
<1>4. InSection(Section(p, side), n) = [k \in 0..n - 1 |-> k]
  BY <1>1, <1>2 DEF InSection
<1> QED
  BY <1>2, <1>3, <1>4 DEF c, type

LEMMA TypedCells ==
  ASSUME DeliveryInv, NEW p \in Procs, pc[p] # "idle", Call(p).routine = "PointToPoint",
         NEW side \in Arrays, temp[p][side] # NoType, MpiType(p, side).extent = 1, NEW addr
  PROVE  CellsOf(Blocks(addr, 1, temp[p][side]), 0)
           = InSection(Section(p, side), NumElements(p, side))
<1> DEFINE c == Count(p, side)
           buf == Section(p, side)
<1>1. c \in Nat /\ Dense(MpiType(p, side)) /\ buf.stride \in Nat \ {0}
  BY CurrentFacts DEF DeliveryInv
<1>2. temp[p][side] = SectionType(buf, c)
  BY DEF DeliveryInv, TempInv
<1>3. NumElements(p, side) = c
  BY <1>1, DenseSize DEF NumElements
<1> HIDE DEF c, buf
<1>4. CellsOf(Blocks(addr, 1, SectionType(buf, c)), 0) = [k \in 0..c - 1 |-> k * buf.stride]
  BY <1>1, SectionCells
<1> QED
  BY <1>2, <1>3, <1>4 DEF InSection, buf

\* A buffer that is passed covers the section of its call.
Covers(b, p, side) ==
  /\ b.addr = Section(p, side).addr
  /\ CellsOf(b, 0) = InSection(Section(p, side), NumElements(p, side))

LEMMA ElementsAreCounted ==
  ASSUME DeliveryInv, NEW p \in Procs, pc[p] # "idle", Call(p).routine = "PointToPoint",
         NEW side \in Arrays
  PROVE  NumElements(p, side) \in Nat
BY CurrentFacts, DenseSize DEF NumElements, DeliveryInv

LEMMA PassedCells ==
  ASSUME DeliveryInv, NEW p \in Procs, pc[p] # "idle", Call(p).routine = "PointToPoint",
         NEW side \in Arrays, ~HaveCFI \/ ~NeedsType(p, side)
  PROVE  Covers(Passed(p, side), p, side)
<1> DEFINE addr == Section(p, side).addr
<1>1. CASE Contiguous(Section(p, side))
  <2>1. Passed(p, side) = Blocks(addr, Count(p, side), MpiType(p, side))
    BY <1>1 DEF Passed, BufferAt
  <2>2. Passed(p, side).addr = addr
    BY <2>1 DEF Blocks
  <2> QED
    BY <1>1, <2>1, <2>2, ContiguousCells DEF Covers
<1>2. CASE ~Contiguous(Section(p, side))
  <2>1. Passed(p, side) = Blocks(addr, 1, temp[p][side])
    BY <1>2 DEF Passed, BufferAt
  <2>2. Passed(p, side).addr = addr
    BY <2>1 DEF Blocks
  <2>3. HaveCFI
    <3>1. round[p] \in DOMAIN program
      BY CurrentCall DEF DeliveryInv
    <3> QED
      BY <1>2, <3>1 DEF DeliveryInv, BuildInv, Section, Arg, Call
  <2>4. temp[p][side] # NoType
    BY <1>2, <2>3 DEF NeedsType
  <2>5. MpiType(p, side).extent = 1
    BY <1>2, CurrentFacts DEF Contiguous, DeliveryInv
  <2> QED
    BY <2>1, <2>2, <2>4, <2>5, TypedCells DEF Covers
<1> QED
  BY <1>1, <1>2

\* What such a buffer holds are the elements of the section.
LEMMA DataIsElements ==
  ASSUME DeliveryInv, NEW p \in Procs, pc[p] = "called", Call(p).routine = "PointToPoint",
         NEW in, Covers(in, p, "in")
  PROVE  /\ Data(p, in) = Elements(p, Section(p, "in"), 0, NumElements(p, "in"))
         /\ DOMAIN Data(p, in) = 0..NumElements(p, "in")-1
<1> DEFINE buf == Section(p, "in")
           n == NumElements(p, "in")
<1>1. n \in Nat /\ buf.stride \in Nat \ {0}
  BY ElementsAreCounted, CurrentFacts DEF Arrays, DeliveryInv
<1>2. CellsOf(in, 0) = [k \in 0..n-1 |-> k * buf.stride] /\ in.addr = buf.addr
  BY DEF Covers, InSection
<1> HIDE DEF n, buf
<1>3. Data(p, in) = [k \in 0..n-1 |-> Load(p, buf.addr, k * buf.stride)]
  BY <1>2 DEF Data
<1>4. Elements(p, buf, 0, n) = [k \in 0..n-1 |-> Load(p, buf.addr, k * buf.stride)]
  BY <1>1 DEF Elements
<1> QED
  BY <1>3, <1>4 DEF n, buf

LEMMA NewMessageIsGood ==
  ASSUME DeliveryInv, NEW p \in Procs, pc[p] = "called", Call(p).routine = "PointToPoint",
         NEW in, Covers(in, p, "in")
  PROVE  GoodMessage(NewMessage(p, in))
<1> DEFINE n == NumElements(p, "in")
           m == NewMessage(p, in)
<1>1. n \in Nat
  BY ElementsAreCounted DEF Arrays
<1>2. m.src = p /\ m.data = Data(p, in) /\ m.sent = Elements(p, Section(p, "in"), 0, n)
  BY DEF NewMessage
<1>3. m.data = m.sent /\ DOMAIN m.sent = 0..n-1
  BY <1>2, DataIsElements
<1> HIDE DEF n, m
<1>4. GoodMessage(m)
  BY <1>1, <1>2, <1>3 DEF GoodMessage
<1> QED
  BY <1>4 DEF m

\* A receive into such a buffer is good.
LEMMA NewReceiveIsGood ==
  ASSUME DeliveryInv, NEW p \in Procs, pc[p] = "called", Call(p).routine = "PointToPoint",
         Op(p) \in Receiving, NEW out, Covers(out, p, "out"), NEW taken, NEW wants,
         \A m \in taken : GoodMessage(m)
  PROVE  GoodReceive(NewReceive(p, out, taken, wants))
<1> DEFINE r == NewReceive(p, out, taken, wants)
<1>1. /\ r.proc = p /\ r.round = round[p] /\ r.buf = out /\ r.taken = taken
  BY DEF NewReceive
<1>0. r = [proc |-> r.proc, round |-> r.round, source |-> r.source, tag |-> r.tag, buf |-> r.buf,
           taken |-> r.taken, wants |-> r.wants, state |-> r.state, msg |-> r.msg]
  BY DEF NewReceive
<1>2. round[p] \in DOMAIN program /\ IsP2P(round[p])
  BY CurrentCall DEF IsP2P, Call, DeliveryInv
<1>3. got[p][round[p]] = NoMessage
  BY <1>2 DEF DeliveryInv, GotInv, Called, MatchInv, ControlInv
<1>4. NumElements(p, "out") \in Nat /\ Section(p, "out") = program[round[p]].arg[p].out
  BY ElementsAreCounted DEF Arrays, Section, Arg, Call
<1> HIDE DEF r
<1>5. GoodReceive(r)
  BY <1>0, <1>1, <1>2, <1>3, <1>4 DEF GoodReceive, Covers, Op, Arg, Call
<1> QED
  BY <1>5 DEF r
-----------------------------------------------------------------------------
(* What every step keeps. *)

-----------------------------------------------------------------------------
(* Steps that store nothing. *)

DataKept == LibraryInv' /\ GotInv' /\ MemoryInv' /\ Delivers

\* Process p posts, takes messages for which there are handles, or learns that
\* its receives are finished; nothing is received or copied.
QuietStep(p) ==
  /\ UNCHANGED <<mem, got>>
  /\ position' \in [Procs -> Nat]
  /\ \A m \in msgs' : GoodMessage(m)
  /\ DOMAIN held' = Procs
  /\ \A q \in Procs : \A h \in held'[q] : GoodMessage(h.msg)
  /\ \/ recvs' \subseteq recvs
     \/ \E r : /\ recvs' = recvs \cup {r}
               /\ GoodReceive(r) /\ r.proc = p /\ r.round = round[p]
               /\ pc[p] = "called" /\ pc'[p] \in {"inside", "finished"} /\ round' = round

LEMMA RoundsAreNumbers ==
  ASSUME DeliveryInv
  PROVE  /\ \A i \in DOMAIN program : i \in Int
         /\ \A r \in recvs : r.round \in DOMAIN program /\ r.proc \in Procs
         /\ \A p \in Procs : round[p] \in Nat
<1>1. DOMAIN program = 1..Len(program) /\ Len(program) \in Nat
  BY ProgramFacts DEF DeliveryInv, MatchInv
<1>2. \A r \in recvs : r.round \in DOMAIN program /\ r.proc \in Procs
  BY DEF DeliveryInv, LibraryInv, GoodReceive
<1> QED
  BY <1>1, <1>2 DEF DeliveryInv, MatchInv, ControlInv

LEMMA GoodStays ==
  ASSUME NEW r, GoodReceive(r), program' = program,
         got'[r.proc][r.round] = got[r.proc][r.round]
  PROVE  GoodReceive(r)'
BY DEF GoodReceive, GoodMessage, IsP2P, InSection, CellsOf, Size

LEMMA QuietKeeps ==
  ASSUME DeliveryInv, ControlKept, NEW p \in Procs, QuietStep(p)
  PROVE  DataKept
<1>1. program' = program /\ got' = got /\ mem' = mem
  BY DEF ControlKept, QuietStep
<1>2. GotInv'
  <2>1. \A q \in Procs : \A i \in DOMAIN program : Called(q, i) => Called(q, i)'
    BY RoundsAreNumbers DEF ControlKept
  <2> QED
    BY <1>1, <2>1 DEF DeliveryInv, GotInv
<1>3. MemoryInv'
  BY <1>1 DEF DeliveryInv, MemoryInv, QuietStep
<1>4. Delivers
  BY <1>1 DEF Delivers, Gets
<1>5. \A r \in recvs : GoodReceive(r)' /\ Called(r.proc, r.round)'
  <2>1. \A r \in recvs : GoodReceive(r) /\ Called(r.proc, r.round)
    BY DEF DeliveryInv, LibraryInv
  <2>2. \A r \in recvs : r.proc \in Procs /\ r.round \in Int
    BY RoundsAreNumbers
  <2> QED
    BY <1>1, <2>1, <2>2, GoodStays DEF ControlKept
<1>6. /\ \A r \in recvs' : GoodReceive(r)' /\ Called(r.proc, r.round)'
      /\ \A r, s \in recvs' : r.proc = s.proc /\ r.round = s.round => r = s
  <2>0. \A r, s \in recvs : r.proc = s.proc /\ r.round = s.round => r = s
    BY DEF DeliveryInv, LibraryInv
  <2>1. CASE recvs' \subseteq recvs
    BY <1>5, <2>0, <2>1
  <2>2. CASE ~(recvs' \subseteq recvs)
    <3>1. PICK r : /\ recvs' = recvs \cup {r}
                   /\ GoodReceive(r) /\ r.proc = p /\ r.round = round[p]
                   /\ pc[p] = "called" /\ pc'[p] \in {"inside", "finished"} /\ round' = round
      BY <2>2 DEF QuietStep
    <3>2. GoodReceive(r)'
      BY <1>1, <3>1, GoodStays
    <3>3. Called(r.proc, r.round)'
      BY <3>1 DEF Called
    <3>4. \A s \in recvs : ~(s.proc = r.proc /\ s.round = r.round)
      <4>1. ~Called(p, round[p])
        BY <3>1, RoundsAreNumbers DEF Called
      <4> QED
        BY <3>1, <4>1 DEF DeliveryInv, LibraryInv
    <3> QED
      BY <1>5, <2>0, <3>1, <3>2, <3>3, <3>4
  <2> QED
    BY <2>1, <2>2
<1>7. LibraryInv'
  <2>1. /\ \A m \in msgs' : GoodMessage(m)'
        /\ \A q \in Procs : \A h \in held'[q] : GoodMessage(h.msg)'
    BY DEF QuietStep, GoodMessage
  <2> QED
    BY <1>6, <2>1 DEF LibraryInv, QuietStep
<1> QED
  BY <1>2, <1>3, <1>4, <1>7 DEF DataKept

\* A collective ends in a process.
LEMMA LeaveKeeps ==
  ASSUME DeliveryInv, ControlKept, NEW p \in Procs, LeaveCollective(p), UNCHANGED p2p_vars
  PROVE  DataKept
<1>1. PICK new, addr : /\ pc[p] = "inside" /\ Call(p).routine # "PointToPoint"
                       /\ mem' = IF addr \notin Arrays THEN mem ELSE [mem EXCEPT ![p][addr] = new]
  <2>1. pc[p] = "inside" /\ Call(p).routine # "PointToPoint" /\ Leave(p)
    BY DEF LeaveCollective
  <2>2. \E new, addr : mem' = IF addr \notin Arrays THEN mem ELSE [mem EXCEPT ![p][addr] = new]
    BY <2>1, Zenon DEF Leave
  <2> QED
    BY <2>1, <2>2
<1>2. program' = program /\ UNCHANGED <<msgs, recvs, held, position, got>>
  BY DEF ControlKept, p2p_vars
<1>3. /\ DOMAIN mem' = Procs /\ \A q \in Procs : DOMAIN mem'[q] = Arrays
      /\ \A q \in Procs : q # p => mem'[q] = mem[q]
  BY <1>1 DEF DeliveryInv, MemoryInv
<1>4. MemoryInv'
  BY <1>2, <1>3 DEF DeliveryInv, MemoryInv
<1>5. Delivers
  BY <1>1, <1>2, <1>3 DEF Delivers, Gets
<1>6. \A q \in Procs : \A i \in DOMAIN program : Called(q, i) => Called(q, i)'
  BY RoundsAreNumbers DEF ControlKept
<1>7. GotInv'
  BY <1>2, <1>6 DEF DeliveryInv, GotInv
<1>8. \A r \in recvs : GoodReceive(r)' /\ Called(r.proc, r.round)'
  <2>1. \A r \in recvs : GoodReceive(r) /\ Called(r.proc, r.round)
    BY DEF DeliveryInv, LibraryInv
  <2>2. \A r \in recvs : r.proc \in Procs /\ r.round \in DOMAIN program
    BY RoundsAreNumbers
  <2> QED
    BY <1>2, <1>6, <2>1, <2>2, GoodStays
<1>9. LibraryInv'
  BY <1>2, <1>8 DEF DeliveryInv, LibraryInv, GoodMessage
<1> QED
  BY <1>4, <1>5, <1>7, <1>9 DEF DataKept

\* Mprobe takes a message out of the library's queue.
LEMMA MprobeKeeps ==
  ASSUME DeliveryInv, ControlKept, NEW p \in Procs, NEW m \in msgs,
         pc[p] = "called", Call(p).routine = "PointToPoint", Op(p) = "Mprobe",
         msgs' \subseteq msgs, UNCHANGED <<mem, recvs, position>>,
         NEW id, held' = [held EXCEPT ![p] = @ \cup {[id |-> id, msg |-> m]}],
         got' = [got EXCEPT ![p][round[p]] = m],
         pc'[p] = "finished", round' = round
  PROVE  DataKept
<1>0. program' = program
  BY DEF ControlKept
<1>1. round[p] \in DOMAIN program
  BY CurrentCall DEF DeliveryInv
<1>2. /\ DOMAIN got' = Procs
      /\ \A q \in Procs : DOMAIN got'[q] = DOMAIN program
      /\ \A q \in Procs : \A i \in DOMAIN program :
           q # p \/ i # round[p] => got'[q][i] = got[q][i]
  BY <1>1 DEF DeliveryInv, GotInv
<1>3. Called(p, round[p])'
  BY DEF Called
<1>4. GotInv'
  <2>1. \A q \in Procs : \A i \in DOMAIN program : Called(q, i) => Called(q, i)'
    BY RoundsAreNumbers DEF ControlKept
  <2> QED
    BY <1>0, <1>2, <1>3, <2>1 DEF DeliveryInv, GotInv
<1>5. MemoryInv'
  BY DEF DeliveryInv, MemoryInv
<1>6. Delivers
  <2>1. ASSUME NEW q \in Procs, NEW i \in DOMAIN program PROVE ~Gets(q, i)
    <3>1. CASE q = p /\ i = round[p]
      BY <3>1 DEF Gets, Op, Arg, Call
    <3>2. CASE q # p \/ i # round[p]
      BY <1>2, <3>2 DEF Gets
    <3> QED
      BY <3>1, <3>2
  <2> QED
    BY <2>1 DEF Delivers
<1>7. \A r \in recvs : GoodReceive(r)' /\ Called(r.proc, r.round)'
  <2> SUFFICES ASSUME NEW r \in recvs PROVE GoodReceive(r)' /\ Called(r.proc, r.round)'
    OBVIOUS
  <2>1. GoodReceive(r) /\ Called(r.proc, r.round)
    BY DEF DeliveryInv, LibraryInv
  <2>2. r.proc \in Procs /\ r.round \in DOMAIN program /\ r.round \in Int
    BY RoundsAreNumbers
  <2>3. ~Called(p, round[p])
    BY RoundsAreNumbers DEF Called
  <2>4. got'[r.proc][r.round] = got[r.proc][r.round]
    BY <1>2, <2>1, <2>2, <2>3
  <2>5. Called(r.proc, r.round)'
    BY <2>1, <2>2 DEF ControlKept
  <2>6. GoodReceive(r)'
    BY <1>0, <2>1, <2>4, GoodStays
  <2> QED
    BY <2>5, <2>6
<1>8. GoodMessage(m) /\ DOMAIN held = Procs /\ \A q \in Procs : \A h \in held[q] : GoodMessage(h.msg)
  BY DEF DeliveryInv, LibraryInv
<1>9. DOMAIN held' = Procs /\ \A q \in Procs : \A h \in held'[q] : GoodMessage(h.msg)
  <2>1. DOMAIN held' = Procs /\ held'[p] = held[p] \cup {[id |-> id, msg |-> m]}
    BY <1>8
  <2>2. \A q \in Procs : q # p => held'[q] = held[q]
    BY <1>8
  <2>3. [id |-> id, msg |-> m].msg = m
    OBVIOUS
  <2> QED
    BY <1>8, <2>1, <2>2, <2>3
<1>10. LibraryInv'
  <2>1. \A n \in msgs' : GoodMessage(n)
    BY DEF DeliveryInv, LibraryInv
  <2>2. /\ \A n \in msgs' : GoodMessage(n)'
        /\ \A q \in Procs : \A h \in held'[q] : GoodMessage(h.msg)'
    BY <1>9, <2>1 DEF GoodMessage
  <2>3. \A r, s \in recvs' : r.proc = s.proc /\ r.round = s.round => r = s
    BY DEF DeliveryInv, LibraryInv
  <2> QED
    BY <1>7, <1>9, <2>2, <2>3 DEF LibraryInv
<1> QED
  BY <1>4, <1>5, <1>6, <1>10 DEF DataKept
-----------------------------------------------------------------------------
(* Steps that store elements. *)

\* The cells are those of a section's elements from number first on, and the
\* data are what was sent.
Places(section, first, cell, data, sent) ==
  /\ DOMAIN data = DOMAIN sent
  /\ \A k \in DOMAIN sent : data[k] = sent[k] /\ cell[k] = (first + k) * section.stride

Stores(p, addr, cell, data) == mem' = [mem EXCEPT ![p][addr] = Filled(@, cell, data)]
GetsMessage(p, i, m) == got' = [got EXCEPT ![p][i] = m]

OutOf(p, i) == program[i].arg[p].out

\* Where a call stores its first element.
First(p, i) == IF program[i].arg[p].op = "Pack" THEN StartAt(p) ELSE 0

\* Elements stored at the cells of a section are the section's.
LEMMA FilledIsStored ==
  ASSUME NEW section, NEW cell, NEW data, NEW sent, NEW first, NEW before, NEW after,
         Places(section, first, cell, data, sent),
         \A b \in Arrays : b # section.addr => after[b] = before[b],
         after[section.addr] = Filled(before[section.addr], cell, data)
  PROVE  StoredAs(before, after, section, first, sent)
<1> DEFINE a == section.addr
           at(k) == (first + k) * section.stride
<1>1. /\ \A b \in Arrays : b # a => after[b] = before[b]
      /\ after[a] = Filled(before[a], cell, data)
  OBVIOUS
<1>0. /\ DOMAIN data = DOMAIN sent
      /\ \A k \in DOMAIN sent : data[k] = sent[k] /\ cell[k] = at(k)
  BY DEF Places
<1>2. ASSUME NEW x \in Cells, NEW j \in DOMAIN sent, x = at(j)
      PROVE  \E k \in DOMAIN sent : x = at(k) /\ after[a][x] = sent[k]
  <2> DEFINE k == CHOOSE k \in DOMAIN data : cell[k] = x
  <2>1. j \in DOMAIN data /\ cell[j] = x
    BY <1>0, <1>2
  <2>2. k \in DOMAIN data /\ cell[k] = x
    BY <2>1
  <2>3. after[a][x] = data[k]
    <3>1. Filled(before[a], cell, data)[x] = data[k]
      BY <2>1, Zenon DEF Filled
    <3> QED
      BY <1>1, <3>1
  <2> HIDE DEF k
  <2>4. k \in DOMAIN sent /\ x = at(k) /\ after[a][x] = sent[k]
    BY <1>0, <2>2, <2>3
  <2> QED
    BY <2>4
<1>3. ASSUME NEW x \in Cells, ~\E j \in DOMAIN sent : x = at(j)
      PROVE  after[a][x] = before[a][x]
  <2>1. ~\E j \in DOMAIN data : cell[j] = x
    BY <1>0, <1>3
  <2>2. Filled(before[a], cell, data)[x] = before[a][x]
    BY <2>1, Zenon DEF Filled
  <2> QED
    BY <1>1, <2>2
<1> HIDE DEF at
<1>4. ASSUME NEW b \in Arrays, NEW x \in Cells
      PROVE  \/ b = a /\ \E k \in DOMAIN sent : x = at(k) /\ after[b][x] = sent[k]
             \/ ~(b = a /\ \E k \in DOMAIN sent : x = at(k)) /\ after[b][x] = before[b][x]
  BY <1>1, <1>2, <1>3
<1> QED
  BY <1>4 DEF StoredAs, at

\* What call i of process p receives or copies, for the first time.
LEMMA StoreDelivers ==
  ASSUME DeliveryInv, NEW p \in Procs, NEW i \in DOMAIN program, NEW m, NEW cell, NEW data,
         OutOf(p, i).addr \in Arrays, program[i].arg[p].op # "Mprobe",
         got[p][i] = NoMessage, m.src \in Procs,
         GetsMessage(p, i, m),
         Places(OutOf(p, i), First(p, i), cell, data, m.sent),
         Stores(p, OutOf(p, i).addr, cell, data),
         program' = program, position' \in [Procs -> Nat], Called(p, i)',
         \A q \in Procs : \A j \in DOMAIN program : Called(q, j) => Called(q, j)'
  PROVE  /\ GotInv' /\ MemoryInv' /\ Delivers
         /\ \A q \in Procs : \A j \in DOMAIN program : q # p \/ j # i => got'[q][j] = got[q][j]
<1> DEFINE section == OutOf(p, i)
<1>0. mem' = [mem EXCEPT ![p][section.addr] = Filled(@, cell, data)]
  BY DEF Stores
<1> HIDE DEF section
<1>1. /\ DOMAIN got' = Procs
      /\ \A q \in Procs : DOMAIN got'[q] = DOMAIN program
      /\ \A q \in Procs : \A j \in DOMAIN program : q # p \/ j # i => got'[q][j] = got[q][j]
      /\ got'[p][i] = m
  BY DEF DeliveryInv, GotInv, GetsMessage
<1>2. GotInv'
  BY <1>1 DEF DeliveryInv, GotInv
<1>3. /\ DOMAIN mem' = Procs /\ \A q \in Procs : DOMAIN mem'[q] = Arrays
      /\ \A q \in Procs : q # p => mem'[q] = mem[q]
      /\ \A b \in Arrays : b # section.addr => mem'[p][b] = mem[p][b]
      /\ mem'[p][section.addr] = Filled(mem[p][section.addr], cell, data)
  BY <1>0 DEF DeliveryInv, MemoryInv, section
<1>4. MemoryInv'
  BY <1>3 DEF DeliveryInv, MemoryInv
<1>5. Gets(p, i)
  <2>1. m # NoMessage
    <3>1. m.src \in Int /\ ~(m.src < 0)
      BY ProcessesAreNumbers
    <3>2. NoMessage.src = MPI_PROC_NULL
      BY DEF NoMessage
    <3>3. MPI_PROC_NULL < 0
      BY ConstantsAssumption
    <3>4. m.src # MPI_PROC_NULL
      BY <3>1, <3>3
    <3> QED
      BY <3>2, <3>4
  <2> QED
    BY <1>1, <2>1 DEF Gets
<1>6. StoredAs(mem[p], mem'[p], section, First(p, i), m.sent)
  <2>1. Places(section, First(p, i), cell, data, m.sent)
    BY DEF section
  <2> QED
    BY ONLY <1>3, <2>1, FilledIsStored
<1>7. \A q \in Procs : \A j \in DOMAIN program : Gets(q, j) => q = p /\ j = i
  BY <1>1 DEF Gets
<1>8. Delivers
  <2> SUFFICES ASSUME NEW q \in Procs
               PROVE  /\ \A j \in DOMAIN program : Gets(q, j) =>
                           StoredAs(mem[q], mem'[q], program[j].arg[q].out,
                             IF program[j].arg[q].op = "Pack" THEN StartAt(q) ELSE 0, got'[q][j].sent)
                      /\ mem'[q] # mem[q] => \E j \in DOMAIN program : Gets(q, j)
    BY DEF Delivers
  <2>1. CASE q # p
    BY <1>3, <1>7, <2>1
  <2>2. CASE q = p
    BY <1>1, <1>5, <1>6, <1>7, <2>2 DEF First, section, OutOf
  <2> QED
    BY <2>1, <2>2
<1> QED
  BY <1>1, <1>2, <1>4, <1>8

\* A copy of elements into a section, from a pack buffer or into one.
LEMMA CopyKeeps ==
  ASSUME DeliveryInv, ControlKept, NEW p \in Procs, pc[p] = "called",
         Call(p).routine = "PointToPoint", Op(p) # "Mprobe",
         NEW cell, NEW data, NEW sent, NEW room, NEW n \in Nat,
         Places(Section(p, "out"), First(p, round[p]), cell, data, sent),
         Copy(p, Section(p, "out").addr, cell, data, sent, room, n)
  PROVE  DataKept
<1>0. /\ StartAt(p) \in Nat
      /\ position \in [Procs -> Nat]
  BY DEF StartAt, DeliveryInv, MemoryInv
<1>1. pc'[p] = "finished" /\ round' = round /\ program' = program
  BY DEF Copy, Answer, DeliveryInv, MatchInv, ControlInv
<1>2. CASE StartAt(p) + n > room
  <2>1. /\ position' = [position EXCEPT ![p] = StartAt(p)]
        /\ UNCHANGED <<mem, msgs, recvs, held, message, status, got>>
    BY <1>2 DEF Copy
  <2>2. QuietStep(p)
    <3>1. position' \in [Procs -> Nat]
      BY <1>0, <2>1
    <3>2. /\ DOMAIN held' = Procs /\ \A m \in msgs' : GoodMessage(m)
          /\ \A q \in Procs : \A h \in held'[q] : GoodMessage(h.msg)
      BY <2>1 DEF DeliveryInv, LibraryInv
    <3> QED
      BY <2>1, <3>1, <3>2 DEF QuietStep
  <2> QED
    BY <2>2, QuietKeeps
<1>3. CASE ~(StartAt(p) + n > room)
  <2>10. PICK i : i = round[p]
    OBVIOUS
  <2> DEFINE m == [NoMessage EXCEPT !.src = p, !.round = i, !.data = data, !.sent = sent]
  <2>0. OutOf(p, i) = Section(p, "out")
    BY <2>10 DEF OutOf, Section, Arg, Call
  <2>1. /\ Stores(p, OutOf(p, i).addr, cell, data)
        /\ position' = [position EXCEPT ![p] = StartAt(p) + n]
        /\ GetsMessage(p, i, m)
        /\ UNCHANGED <<msgs, recvs, held, message, status>>
    BY <1>3, <2>10, <2>0 DEF Copy, CopiedBack, Stores, GetsMessage
  <2>2. m.src = p /\ m.sent = sent
    BY DEF NoMessage
  <2>3. i \in DOMAIN program
    BY <2>10, CurrentCall DEF DeliveryInv
  <2>4. OutOf(p, i).addr \in Arrays /\ program[i].arg[p].op = Op(p)
    <3>1. OutOf(p, i).addr \in Arrays
      BY <2>0, CurrentFacts DEF Arrays, DeliveryInv
    <3> QED
      BY <2>10, <3>1 DEF Arg, Call, Op
  <2>5. ~Called(p, i) /\ got[p][i] = NoMessage /\ Called(p, i)'
    <3>1. ~Called(p, i) /\ Called(p, i)'
      BY <1>1, <2>10, RoundsAreNumbers DEF Called
    <3> QED
      BY <2>3, <3>1 DEF DeliveryInv, GotInv
  <2>6. position' \in [Procs -> Nat]
    BY <1>0, <2>1
  <2>7. \A q \in Procs : \A j \in DOMAIN program : Called(q, j) => Called(q, j)'
    BY RoundsAreNumbers DEF ControlKept
  <2> HIDE DEF m
  <2>8. /\ GotInv' /\ MemoryInv' /\ Delivers
        /\ \A q \in Procs : \A j \in DOMAIN program : q # p \/ j # i => got'[q][j] = got[q][j]
    <3>1. /\ program[i].arg[p].op # "Mprobe"
          /\ m.src \in Procs
          /\ Places(OutOf(p, i), First(p, i), cell, data, m.sent)
      BY <2>0, <2>2, <2>4, <2>10
    <3> QED
      BY <1>1, <2>1, <2>3, <2>4, <2>5, <2>6, <2>7, <3>1, StoreDelivers
  <2>9. LibraryInv'
    <3>1. ASSUME NEW r \in recvs PROVE GoodReceive(r)' /\ Called(r.proc, r.round)'
      <4>1. GoodReceive(r) /\ Called(r.proc, r.round) /\ r.proc \in Procs /\ r.round \in DOMAIN program
        BY RoundsAreNumbers DEF DeliveryInv, LibraryInv
      <4>2. got'[r.proc][r.round] = got[r.proc][r.round]
        BY <2>5, <2>8, <4>1
      <4> QED
        BY <1>1, <2>7, <4>1, <4>2, GoodStays
    <3> QED
      BY <2>1, <3>1 DEF DeliveryInv, LibraryInv, GoodMessage
  <2> QED
    BY <2>8, <2>9 DEF DataKept
<1> QED
  BY <1>2, <1>3

LEMMA PackKeeps ==
  ASSUME DeliveryInv, ControlKept, NEW p \in Procs, pc[p] = "called",
         Call(p).routine = "PointToPoint", Op(p) = "Pack", Contiguous(Section(p, "out")),
         ~HaveCFI \/ ~NeedsType(p, "in"), MPI_Pack(p, Passed(p, "in"))
  PROVE  DataKept
<1> DEFINE in == Passed(p, "in")
           data == Data(p, in)
           sent == Elements(p, Section(p, "in"), 0, NumElements(p, "in"))
           cell == [k \in DOMAIN data |-> StartAt(p) + k]
           n == in.count[0] * Size(in.type)
<1>0. "in" \in Arrays /\ "out" \in Arrays
  BY DEF Arrays
<1>1. Covers(in, p, "in") /\ n \in Nat
  BY <1>0, PassedCells, PassedSize DEF DeliveryInv
<1>2. data = sent /\ DOMAIN data = 0..NumElements(p, "in")-1
  BY <1>1, DataIsElements
<1>3. Copy(p, Section(p, "out").addr, cell, data, sent, Section(p, "out").size, n)
  BY DEF MPI_Pack
<1>4. StartAt(p) \in Nat /\ Section(p, "out").stride = 1
  BY DEF StartAt, DeliveryInv, MemoryInv, Contiguous
<1>5. cell = [k \in DOMAIN data |-> StartAt(p) + k]
  OBVIOUS
<1> HIDE DEF in, data, sent, cell, n
<1>6. Places(Section(p, "out"), StartAt(p), cell, data, sent)
  <2>1. ASSUME NEW k \in DOMAIN sent
        PROVE  cell[k] = (StartAt(p) + k) * Section(p, "out").stride
    <3>1. k \in Int /\ cell[k] = StartAt(p) + k
      BY <1>2, <1>5
    <3> QED
      BY <1>4, <3>1
  <2> QED
    BY <1>2, <2>1 DEF Places
<1>7. First(p, round[p]) = StartAt(p)
  BY DEF First, Op, Arg, Call
<1> QED
  BY <1>1, <1>3, <1>6, <1>7, CopyKeeps

LEMMA UnpackKeeps ==
  ASSUME DeliveryInv, ControlKept, NEW p \in Procs, pc[p] = "called",
         Call(p).routine = "PointToPoint", Op(p) = "Unpack", Contiguous(Section(p, "in")),
         ~HaveCFI \/ ~NeedsType(p, "out"), MPI_Unpack(p, Passed(p, "out"))
  PROVE  DataKept
<1> DEFINE out == Passed(p, "out")
           cell == CellsOf(out, 0)
           data == [k \in DOMAIN cell |-> Load(p, Section(p, "in").addr, StartAt(p) + k)]
           sent == Elements(p, Section(p, "in"), StartAt(p), NumElements(p, "out"))
           n == out.count[0] * Size(out.type)
<1>0. "in" \in Arrays /\ "out" \in Arrays
  BY DEF Arrays
<1>1. Covers(out, p, "out") /\ n \in Nat
  BY <1>0, PassedCells, PassedSize DEF DeliveryInv
<1>2. /\ cell = [k \in 0..NumElements(p, "out")-1 |-> k * Section(p, "out").stride]
      /\ out.addr = Section(p, "out").addr
  BY <1>1 DEF Covers, InSection
<1>3. Copy(p, Section(p, "out").addr, cell, data, sent, Section(p, "in").size, n)
  BY <1>2 DEF MPI_Unpack
<1>4. StartAt(p) \in Nat /\ Section(p, "in").stride = 1 /\ NumElements(p, "out") \in Nat
  BY <1>0, ElementsAreCounted DEF StartAt, DeliveryInv, MemoryInv, Contiguous
<1>5. Places(Section(p, "out"), 0, cell, data, sent)
  <2>1. DOMAIN data = DOMAIN sent
    BY <1>2 DEF Elements
  <2> SUFFICES ASSUME NEW k \in DOMAIN sent
               PROVE  data[k] = sent[k] /\ cell[k] = (0 + k) * Section(p, "out").stride
    BY <2>1 DEF Places
  <2>2. k \in 0..NumElements(p, "out")-1 /\ k \in Int
    BY <1>4 DEF Elements
  <2>3. sent[k] = Load(p, Section(p, "in").addr, (StartAt(p) + k) * Section(p, "in").stride)
    BY <2>2 DEF Elements
  <2>4. (StartAt(p) + k) * Section(p, "in").stride = StartAt(p) + k /\ 0 + k = k
    BY <1>4, <2>2
  <2> QED
    BY <1>2, <2>2, <2>3, <2>4
<1>6. First(p, round[p]) = 0
  BY DEF First, Op, Arg, Call
<1> HIDE DEF out, data, sent, cell, n
<1> QED
  BY <1>1, <1>3, <1>5, <1>6, CopyKeeps

\* The library matches a message with a receive.
LEMMA MatchStores ==
  ASSUME DeliveryInv, ControlKept, NEW r \in recvs, NEW m \in msgs \cup r.taken, Match(r, m)
  PROVE  /\ GotInv' /\ MemoryInv' /\ Delivers
         /\ \A q \in Procs : \A j \in DOMAIN program :
              q # r.proc \/ j # r.round => got'[q][j] = got[q][j]
<1> DEFINE p == r.proc
           i == r.round
           cell == CellsOf(r.buf, 0)
           fits == DOMAIN m.data \subseteq DOMAIN cell
<1>1. /\ r.state = "posted" /\ position' = position
      /\ mem' = IF fits THEN [mem EXCEPT ![p][r.buf.addr] = Filled(@, cell, m.data)] ELSE mem
      /\ got' = IF fits THEN [got EXCEPT ![p][i] = m] ELSE got
  BY Zenon DEF Match
<1>2. /\ p \in Procs /\ i \in DOMAIN program /\ IsP2P(i)
      /\ program[i].arg[p].op \in Receiving /\ r.buf.addr = OutOf(p, i).addr
      /\ got[p][i] = NoMessage /\ Called(p, i)
  BY <1>1 DEF DeliveryInv, LibraryInv, GoodReceive, OutOf
<1>3. GoodMessage(m)
  BY DEF DeliveryInv, LibraryInv, GoodReceive
<1>4. \A q \in Procs : \A j \in DOMAIN program : Called(q, j) => Called(q, j)'
  BY RoundsAreNumbers DEF ControlKept
<1>5. program' = program /\ position' \in [Procs -> Nat]
  BY <1>1 DEF ControlKept, DeliveryInv, MemoryInv
<1>6. CASE fits
  <2>1. Stores(p, OutOf(p, i).addr, cell, m.data) /\ GetsMessage(p, i, m)
    BY <1>1, <1>2, <1>6 DEF Stores, GetsMessage
  <2>2. Places(OutOf(p, i), First(p, i), cell, m.data, m.sent)
    <3>1. First(p, i) = 0
      BY <1>2 DEF First, Receiving
    <3>2. PICK n \in Nat : cell = InSection(OutOf(p, i), n)
      BY DEF DeliveryInv, LibraryInv, GoodReceive, OutOf
    <3>3. m.data = m.sent /\ DOMAIN m.sent \subseteq 0..n-1
      BY <1>3, <1>6, <3>2 DEF GoodMessage, InSection
    <3> HIDE DEF cell
    <3>4. \A k \in DOMAIN m.sent : cell[k] = (0 + k) * OutOf(p, i).stride
      <4> SUFFICES ASSUME NEW k \in DOMAIN m.sent
                   PROVE  cell[k] = (0 + k) * OutOf(p, i).stride
        OBVIOUS
      <4>1. k \in 0..n-1 /\ 0 + k = k
        BY <3>3
      <4> QED
        BY <3>2, <4>1 DEF InSection
    <3> QED
      BY <3>1, <3>3, <3>4 DEF Places
  <2>3. /\ OutOf(p, i).addr \in Arrays /\ program[i].arg[p].op # "Mprobe"
        /\ m.src \in Procs /\ Called(p, i)'
    <3>1. OutOf(p, i).addr \in Arrays
      BY <1>2, SectionFacts DEF OutOf, DeliveryInv
    <3> QED
      BY <1>2, <1>3, <1>4, <3>1 DEF GoodMessage, Receiving
  <2> HIDE DEF cell, p, i
  <2> QED
    BY <1>2, <1>4, <1>5, <2>1, <2>2, <2>3, StoreDelivers DEF p, i
<1>7. CASE ~fits
  <2>1. UNCHANGED <<mem, got>>
    BY <1>1, <1>7
  <2>2. GotInv'
    BY <1>4, <1>5, <2>1 DEF DeliveryInv, GotInv
  <2>3. MemoryInv'
    BY <1>5, <2>1 DEF DeliveryInv, MemoryInv
  <2>4. Delivers
    BY <2>1 DEF Delivers, Gets
  <2> QED
    BY <2>1, <2>2, <2>3, <2>4
<1> QED
  BY <1>6, <1>7

LEMMA MatchKeeps ==
  ASSUME DeliveryInv, ControlKept, NEW r \in recvs, NEW m \in msgs \cup r.taken, Match(r, m)
  PROVE  DataKept
<1>0. /\ GotInv' /\ MemoryInv' /\ Delivers
      /\ \A q \in Procs : \A j \in DOMAIN program :
           q # r.proc \/ j # r.round => got'[q][j] = got[q][j]
  BY MatchStores
<1>1. PICK state, new : /\ state # "posted"
                        /\ new = [r EXCEPT !.state = state, !.msg = m]
                        /\ recvs' = (recvs \ {r}) \cup {new}
  <2> DEFINE state == IF DOMAIN m.data \subseteq DOMAIN CellsOf(r.buf, 0) THEN "done" ELSE "truncated"
  <2>1. recvs' = (recvs \ {r}) \cup {[r EXCEPT !.state = state, !.msg = m]}
    BY Zenon DEF Match
  <2>2. state # "posted"
    OBVIOUS
  <2> QED
    BY <2>1, <2>2, Zenon
<1>2. msgs' \subseteq msgs /\ held' = held /\ program' = program
  <2>1. msgs' = (IF r.taken # {} THEN msgs ELSE msgs \ {m}) /\ held' = held
    BY Zenon DEF Match
  <2> QED
    BY <2>1 DEF ControlKept
<1>3. /\ \A s \in recvs : GoodReceive(s) /\ Called(s.proc, s.round)
      /\ \A s, t \in recvs : s.proc = t.proc /\ s.round = t.round => s = t
      /\ \A s \in recvs : s.proc \in Procs /\ s.round \in DOMAIN program
  BY RoundsAreNumbers DEF DeliveryInv, LibraryInv
<1>4. \A q \in Procs : \A j \in DOMAIN program : Called(q, j) => Called(q, j)'
  BY RoundsAreNumbers DEF ControlKept
<1>5. /\ new = [proc |-> r.proc, round |-> r.round, source |-> r.source, tag |-> r.tag, buf |-> r.buf,
                taken |-> r.taken, wants |-> r.wants, state |-> state, msg |-> m]
  <2>1. r = [proc |-> r.proc, round |-> r.round, source |-> r.source, tag |-> r.tag, buf |-> r.buf,
             taken |-> r.taken, wants |-> r.wants, state |-> r.state, msg |-> r.msg]
    BY <1>3 DEF GoodReceive
  <2> QED
    BY <1>1, <2>1
<1>6. /\ new.proc = r.proc /\ new.round = r.round /\ new.buf = r.buf /\ new.taken = r.taken
      /\ new.state = state
      /\ new = [proc |-> new.proc, round |-> new.round, source |-> new.source, tag |-> new.tag,
                buf |-> new.buf, taken |-> new.taken, wants |-> new.wants, state |-> new.state,
                msg |-> new.msg]
  BY <1>5
<1>7. GoodReceive(new)
  BY <1>1, <1>3, <1>6 DEF GoodReceive
<1>8. GoodReceive(new)' /\ Called(new.proc, new.round)'
  <2>1. GoodReceive(new)'
    <3>1. \A n \in new.taken : GoodMessage(n)'
      BY <1>2, <1>7 DEF GoodReceive, GoodMessage, IsP2P
    <3>2. new.state # "posted"
      BY <1>1, <1>6
    <3>3. IsP2P(new.round)' = IsP2P(new.round)
      BY <1>2 DEF IsP2P
    <3>4. \E n \in Nat : CellsOf(new.buf, 0) = InSection(program'[new.round].arg[new.proc].out, n)
      BY <1>2, <1>7 DEF GoodReceive
    <3>5. /\ new = [proc |-> new.proc, round |-> new.round, source |-> new.source, tag |-> new.tag,
                    buf |-> new.buf, taken |-> new.taken, wants |-> new.wants, state |-> new.state,
                    msg |-> new.msg]
          /\ new.proc \in Procs /\ new.round \in DOMAIN program' /\ IsP2P(new.round)
          /\ program'[new.round].arg[new.proc].op \in Receiving
          /\ new.buf.addr = program'[new.round].arg[new.proc].out.addr
      BY <1>2, <1>7, Zenon DEF GoodReceive
    <3> QED
      BY <3>1, <3>2, <3>3, <3>4, <3>5 DEF GoodReceive
  <2> QED
    BY <1>3, <1>4, <1>6, <2>1
<1>9. ASSUME NEW s \in recvs, s # r PROVE GoodReceive(s)' /\ Called(s.proc, s.round)'
  <2>1. got'[s.proc][s.round] = got[s.proc][s.round]
    BY <1>0, <1>3, <1>9
  <2> QED
    BY <1>2, <1>3, <1>4, <2>1, GoodStays
<1>10. \A s, t \in recvs' : s.proc = t.proc /\ s.round = t.round => s = t
  BY <1>1, <1>3, <1>6
<1>11. LibraryInv'
  <2>1. /\ DOMAIN held' = Procs
        /\ \A n \in msgs' : GoodMessage(n)'
        /\ \A q \in Procs : \A h \in held'[q] : GoodMessage(h.msg)'
    BY <1>2 DEF DeliveryInv, LibraryInv, GoodMessage
  <2>2. \A s \in recvs' : GoodReceive(s)' /\ Called(s.proc, s.round)'
    BY <1>1, <1>8, <1>9
  <2> QED
    BY <1>10, <2>1, <2>2 DEF LibraryInv
<1> QED
  BY <1>0, <1>11 DEF DataKept
-----------------------------------------------------------------------------
(* The calls. *)

LEMMA PostKeeps ==
  ASSUME DeliveryInv, ControlKept, NEW p \in Procs, Call(p).routine = "PointToPoint",
         NEW sends, NEW in, NEW receives, NEW out, NEW wants, NEW then \in {"inside", "finished"},
         Post(p, sends, in, receives, out, wants, then),
         sends => Covers(in, p, "in"),
         receives => Op(p) \in Receiving /\ Covers(out, p, "out")
  PROVE  DataKept
<1>1. /\ pc[p] = "called" /\ round' = round /\ pc'[p] \in {"inside", "finished"}
      /\ UNCHANGED <<mem, held, position, got>>
  BY DEF Post, DeliveryInv, MatchInv, ControlInv
<1>2. /\ msgs' = msgs \/ (sends /\ msgs' = msgs \cup {NewMessage(p, in)})
      /\ recvs' = recvs \/ (receives /\ recvs' = recvs \cup {NewReceive(p, out, {}, wants)})
  BY DEF Post
<1>3. sends => GoodMessage(NewMessage(p, in))
  BY <1>1, NewMessageIsGood
<1>4. receives => GoodReceive(NewReceive(p, out, {}, wants))
  BY <1>1, NewReceiveIsGood
<1>5. NewReceive(p, out, {}, wants).proc = p /\ NewReceive(p, out, {}, wants).round = round[p]
  BY DEF NewReceive
<1>6. /\ \A m \in msgs' : GoodMessage(m)
      /\ DOMAIN held' = Procs
      /\ \A q \in Procs : \A h \in held'[q] : GoodMessage(h.msg)
      /\ position' \in [Procs -> Nat]
  BY <1>1, <1>2, <1>3 DEF DeliveryInv, LibraryInv, MemoryInv
<1>7. QuietStep(p)
  BY <1>1, <1>2, <1>4, <1>5, <1>6 DEF QuietStep
<1> QED
  BY <1>7, QuietKeeps

LEMMA AnswerKeeps ==
  ASSUME DeliveryInv, ControlKept, NEW p \in Procs,
         UNCHANGED <<mem, msgs, recvs, held, got>>, position' \in [Procs -> Nat]
  PROVE  DataKept
<1>1. QuietStep(p)
  BY DEF QuietStep, DeliveryInv, LibraryInv
<1> QED
  BY <1>1, QuietKeeps

LEMMA FinishKeeps ==
  ASSUME DeliveryInv, ControlKept, NEW p \in Procs, NEW waits, Finish(p, waits)
  PROVE  DataKept
<1>1. recvs' \subseteq recvs /\ UNCHANGED <<mem, msgs, held, position, got>>
  BY DEF Finish
<1>2. QuietStep(p)
  BY <1>1 DEF QuietStep, DeliveryInv, LibraryInv, MemoryInv
<1> QED
  BY <1>2, QuietKeeps

\* Mrecv and Imrecv.
LEMMA ReceiveKeeps ==
  ASSUME DeliveryInv, ControlKept, NEW p \in Procs, Call(p).routine = "PointToPoint",
         NEW out, NEW id, NEW wants, NEW then \in {"inside", "finished"},
         Receive(p, out, id, wants, then), pc[p] = "called",
         Op(p) \in Receiving, Covers(out, p, "out")
  PROVE  DataKept
<1>0. position \in [Procs -> Nat]
  BY DEF DeliveryInv, MemoryInv
<1>1. CASE UNCHANGED <<mem, msgs, recvs, held, got, position>>
  BY <1>0, <1>1, AnswerKeeps
<1>2. ASSUME NEW h \in held[p],
             /\ pc' = [pc EXCEPT ![p] = then] /\ round' = round
             /\ held' = [held EXCEPT ![p] = @ \ {h}]
             /\ recvs' = recvs \cup {NewReceive(p, out, {h.msg}, wants)}
             /\ UNCHANGED <<mem, msgs, position, got>>
      PROVE  DataKept
  <2>1. pc'[p] \in {"inside", "finished"}
    BY <1>2 DEF DeliveryInv, MatchInv, ControlInv
  <2>2. DOMAIN held = Procs /\ \A q \in Procs : \A k \in held[q] : GoodMessage(k.msg)
    BY DEF DeliveryInv, LibraryInv
  <2>3. DOMAIN held' = Procs /\ \A q \in Procs : \A k \in held'[q] : GoodMessage(k.msg)
    BY <1>2, <2>2
  <2>4. \A m \in {h.msg} : GoodMessage(m)
    BY <2>2
  <2>5. GoodReceive(NewReceive(p, out, {h.msg}, wants))
    BY <2>4, NewReceiveIsGood
  <2>6. /\ NewReceive(p, out, {h.msg}, wants).proc = p
        /\ NewReceive(p, out, {h.msg}, wants).round = round[p]
    BY DEF NewReceive
  <2>7. \A m \in msgs' : GoodMessage(m)
    BY <1>2 DEF DeliveryInv, LibraryInv
  <2>8. QuietStep(p)
    BY <1>0, <1>2, <2>1, <2>3, <2>5, <2>6, <2>7 DEF QuietStep
  <2> QED
    BY <2>8, QuietKeeps
<1>3. \/ UNCHANGED <<mem, msgs, recvs, held, got, position>>
      \/ \E h \in held[p] :
             /\ pc' = [pc EXCEPT ![p] = then] /\ round' = round
             /\ held' = [held EXCEPT ![p] = @ \ {h}]
             /\ recvs' = recvs \cup {NewReceive(p, out, {h.msg}, wants)}
             /\ UNCHANGED <<mem, msgs, position, got>>
  BY DEF Receive, p2p_vars
<1> QED
  BY <1>1, <1>2, <1>3

LEMMA ProbesKeep ==
  ASSUME DeliveryInv, ControlKept, NEW p \in Procs, C_MPI_Probe(p) \/ C_MPI_Mprobe(p)
  PROVE  DataKept \/ P2PReturn(p, {})
<1>0. position \in [Procs -> Nat]
  BY DEF DeliveryInv, MemoryInv
<1>1. ASSUME NEW source, NEW tag, NEW wants, MPI_Probe(p, source, tag, wants)
      PROVE  DataKept
  <2>1. UNCHANGED <<mem, msgs, recvs, held, position, got>>
    BY <1>1 DEF MPI_Probe, p2p_vars
  <2> QED
    BY <1>0, <2>1, AnswerKeeps
<1>2. ASSUME NEW source, NEW tag, NEW wants, NEW handle, MPI_Mprobe(p, source, tag, wants, handle),
             Call(p).routine = "PointToPoint", Op(p) = "Mprobe"
      PROVE  DataKept
  <2>1. CASE UNCHANGED <<mem, msgs, recvs, held, position, got>>
    BY <1>0, <2>1, AnswerKeeps
  <2>2. ASSUME NEW m \in Candidates(p, source, tag), NEW id,
               /\ Answer(p, "MPI_SUCCESS")
               /\ msgs' = msgs \ {m}
               /\ held' = [held EXCEPT ![p] = @ \cup {[id |-> id, msg |-> m]}]
               /\ got' = [got EXCEPT ![p][round[p]] = m]
               /\ UNCHANGED <<mem, recvs, position>>
        PROVE  DataKept
    <3>1. m \in msgs /\ msgs' \subseteq msgs
      BY <2>2 DEF Candidates
    <3>2. pc[p] = "called" /\ pc'[p] = "finished" /\ round' = round
      BY <2>2 DEF Answer, DeliveryInv, MatchInv, ControlInv
    <3> QED
      BY <1>2, <2>2, <3>1, <3>2, MprobeKeeps
  <2>3. \/ UNCHANGED <<mem, msgs, recvs, held, position, got>>
        \/ \E m \in Candidates(p, source, tag) : \E id :
             /\ Answer(p, "MPI_SUCCESS")
             /\ msgs' = msgs \ {m}
             /\ held' = [held EXCEPT ![p] = @ \cup {[id |-> id, msg |-> m]}]
             /\ got' = [got EXCEPT ![p][round[p]] = m]
             /\ UNCHANGED <<mem, recvs, position>>
    BY <1>2 DEF MPI_Mprobe
  <2> QED
    BY <2>1, <2>2, <2>3
<1> QED
  BY <1>1, <1>2 DEF C_MPI_Probe, C_MPI_Mprobe, P2PAt, At

\* Steps outside the library.
LEMMA OuterKeeps ==
  ASSUME DeliveryInv, ControlKept, NEW p \in Procs, UNCHANGED p2p_vars,
         \/ EnterStep(p) \/ RejectStep(p) \/ AbortStep(p) \/ CreateStep(p) \/ Start(p)
         \/ \E frees : Return(p, frees)
         \/ \E side : MakeType(p, side)
  PROVE  DataKept
<1>1. mem' = mem
  BY EnterEffect DEF RejectStep, Reject, AbortStep, Abort, CreateStep, Return, Start, MakeType
<1>2. UNCHANGED <<msgs, recvs, held, got>> /\ position' \in [Procs -> Nat]
  BY DEF p2p_vars, DeliveryInv, MemoryInv
<1> QED
  BY <1>1, <1>2, AnswerKeeps

\* A call whose buffers are ready.
Ready(p, side) == ~HaveCFI \/ ~NeedsType(p, side)

LEMMA SendsKeep ==
  ASSUME DeliveryInv, ControlKept, NEW p \in Procs, Call(p).routine = "PointToPoint",
         Ready(p, "in"), MPI_Send(p) \/ MPI_Isend(p)
  PROVE  DataKept
<1>1. pc[p] = "called" /\ "in" \in Arrays
  BY DEF MPI_Send, MPI_Isend, Post, Arrays
<1>2. Covers(Passed(p, "in"), p, "in")
  BY <1>1, PassedCells DEF Ready
<1> QED
  BY <1>2, PostKeeps DEF MPI_Send, MPI_Isend

LEMMA ReceivesKeep ==
  ASSUME DeliveryInv, ControlKept, NEW p \in Procs, Call(p).routine = "PointToPoint",
         Ready(p, "out"), Op(p) \in Receiving, pc[p] = "called",
         MPI_Recv(p) \/ MPI_Irecv(p) \/ \E id : MPI_Mrecv(p, id) \/ MPI_Imrecv(p, id)
  PROVE  DataKept
<1>1. "out" \in Arrays
  BY DEF Arrays
<1>2. Covers(Passed(p, "out"), p, "out")
  BY <1>1, PassedCells DEF Ready
<1>3. CASE MPI_Recv(p) \/ MPI_Irecv(p)
  BY <1>2, <1>3, PostKeeps DEF MPI_Recv, MPI_Irecv
<1>4. CASE \E id : MPI_Mrecv(p, id) \/ MPI_Imrecv(p, id)
  BY <1>2, <1>4, ReceiveKeeps DEF MPI_Mrecv, MPI_Imrecv
<1> QED
  BY <1>3, <1>4

\* With a datatype for the section, if it needs one.
LEMMA WithTypeKeeps ==
  ASSUME DeliveryInv, ControlKept, NEW p \in Procs, NEW side \in Arrays, NEW call,
         NEW frees, WithType(p, side, call, frees), call /\ Ready(p, side) => DataKept
  PROVE  DataKept
<1>1. CASE \/ CreateType(p, side) /\ UNCHANGED p2p_vars
           \/ P2PReturn(p, frees)
  BY <1>1, OuterKeeps DEF CreateType, P2PReturn
<1>2. CASE ~NeedsType(p, side) /\ call
  BY <1>2 DEF Ready
<1> QED
  BY <1>1, <1>2 DEF WithType

\* A buffer that is noncontiguous in its receiving section only.
SendrecvAlike ==
  \A prog \in Programs : \A i \in DOMAIN prog : \A p \in Procs :
    /\ prog[i].routine = "PointToPoint" /\ prog[i].arg[p].op = "Sendrecv"
    /\ Contiguous(prog[i].arg[p].in)
    => Contiguous(prog[i].arg[p].out)

LEMMA ExchangeKeeps ==
  ASSUME SendrecvAlike, DeliveryInv, ControlKept, NEW p \in Procs, CFI_MPI_Sendrecv(p)
  PROVE  DataKept
<1>1. Call(p).routine = "PointToPoint" /\ Op(p) = "Sendrecv" /\ pc[p] # "idle"
  BY DEF CFI_MPI_Sendrecv, P2PAt, At
<1>2. "in" \in Arrays /\ "out" \in Arrays /\ Op(p) \in Receiving
  BY <1>1 DEF Arrays, Receiving
<1>3. ASSUME NEW in, NEW out, MPI_Sendrecv(p, in, out), Covers(in, p, "in"), Covers(out, p, "out")
      PROVE  DataKept
  BY <1>1, <1>2, <1>3, PostKeeps DEF MPI_Sendrecv
<1>4. CASE \/ \E frees : P2PReturn(p, frees)
           \/ \E side : MakeType(p, side) /\ UNCHANGED p2p_vars
  BY <1>4, OuterKeeps DEF P2PReturn
<1>5. CASE TreatedAsContiguous(p) /\ MPI_Sendrecv(p, AsElements(p, "in"), AsElements(p, "out"))
  <2>1. Contiguous(Section(p, "in"))
    BY <1>5 DEF TreatedAsContiguous
  <2>2. Contiguous(Section(p, "out"))
    <3>1. round[p] \in DOMAIN program /\ program \in Programs
      BY <1>1, CurrentCall DEF DeliveryInv, MatchInv, ProgramInv
    <3> QED
      BY <1>1, <2>1, <3>1 DEF SendrecvAlike, Section, Arg, Call, Op
  <2>3. ASSUME NEW side \in Arrays PROVE Covers(AsElements(p, side), p, side)
    <3>1. Contiguous(Section(p, side))
      BY <2>1, <2>2, <2>3 DEF Arrays
    <3>2. AsElements(p, side).addr = Section(p, side).addr
      BY DEF AsElements, Blocks
    <3> QED
      BY <1>1, <3>1, <3>2, ContiguousCells DEF Covers, AsElements
  <2> QED
    BY <1>2, <1>3, <1>5, <2>3
<1>6. CASE /\ ~TreatedAsContiguous(p)
           /\ temp[p]["in"] # NoType /\ temp[p]["out"] # NoType
           /\ MPI_Sendrecv(p, AsType(p, "in"), AsType(p, "out"))
  <2>1. \A side \in Arrays : temp[p][side] # NoType
    BY <1>6 DEF Arrays
  <2>2. \A side \in Arrays : MpiType(p, side).extent = 1
    <3>1. Arg(p).op = "Sendrecv" /\ Arg(p).in.stride # 1
      BY <1>1, <1>6 DEF Op, TreatedAsContiguous, Contiguous, Section
    <3> QED
      BY <1>1, <3>1, CurrentFacts DEF DeliveryInv
  <2>3. ASSUME NEW side \in Arrays PROVE Covers(AsType(p, side), p, side)
    <3>1. AsType(p, side).addr = Section(p, side).addr
      BY DEF AsType, Blocks
    <3> QED
      BY <1>1, <2>1, <2>2, <3>1, TypedCells DEF Covers, AsType
  <2> QED
    BY <1>2, <1>3, <1>6, <2>3
<1> QED
  BY <1>4, <1>5, <1>6 DEF CFI_MPI_Sendrecv

LEMMA CopiesKeep ==
  ASSUME DeliveryInv, ControlKept, NEW p \in Procs,
         C_MPI_Pack(p) \/ C_MPI_Unpack(p) \/ CFI_MPI_Pack(p) \/ CFI_MPI_Unpack(p)
  PROVE  DataKept
<1>1. Call(p).routine = "PointToPoint" /\ pc[p] # "idle"
  BY DEF C_MPI_Pack, C_MPI_Unpack, CFI_MPI_Pack, CFI_MPI_Unpack, P2PAt, At
<1>2. "in" \in Arrays /\ "out" \in Arrays
  BY DEF Arrays
<1>3. CASE \E frees : P2PReturn(p, frees)
  BY <1>3, OuterKeeps DEF P2PReturn
<1>4. CASE BadPackBuffer(p)
  <2>1. /\ UNCHANGED <<mem, msgs, recvs, held, got>>
        /\ position' = [position EXCEPT ![p] = StartAt(p)]
    BY <1>4 DEF BadPackBuffer
  <2>2. position' \in [Procs -> Nat]
    BY <2>1 DEF StartAt, DeliveryInv, MemoryInv
  <2> QED
    BY <2>1, <2>2, AnswerKeeps
<1>5. ASSUME Op(p) = "Pack", Contiguous(Section(p, "out")), Ready(p, "in"), MPI_Pack(p, Passed(p, "in"))
      PROVE  DataKept
  <2>1. pc[p] = "called"
    BY <1>5 DEF MPI_Pack, Copy, Answer
  <2> QED
    BY <1>1, <1>5, <2>1, PackKeeps DEF Ready
<1>6. ASSUME Op(p) = "Unpack", Contiguous(Section(p, "in")), Ready(p, "out"),
             MPI_Unpack(p, Passed(p, "out"))
      PROVE  DataKept
  <2>1. pc[p] = "called"
    BY <1>6 DEF MPI_Unpack, Copy, Answer
  <2> QED
    BY <1>1, <1>6, <2>1, UnpackKeeps DEF Ready
<1>7. CASE CFI_MPI_Pack(p)
  BY <1>2, <1>3, <1>4, <1>5, <1>7, WithTypeKeeps DEF CFI_MPI_Pack, P2PAt
<1>8. CASE CFI_MPI_Unpack(p)
  BY <1>2, <1>3, <1>4, <1>6, <1>8, WithTypeKeeps DEF CFI_MPI_Unpack, P2PAt
<1>9. CASE C_MPI_Pack(p) \/ C_MPI_Unpack(p)
  <2>1. ~HaveCFI
    BY <1>9 DEF C_MPI_Pack, C_MPI_Unpack
  <2>2. Contiguous(Section(p, "in")) /\ Contiguous(Section(p, "out"))
    <3>1. round[p] \in DOMAIN program
      BY <1>1, CurrentCall DEF DeliveryInv
    <3> QED
      BY <2>1, <3>1 DEF DeliveryInv, BuildInv, Section, Arg, Call
  <2>3. Ready(p, "in") /\ Ready(p, "out")
    BY <2>1 DEF Ready
  <2> QED
    BY <1>3, <1>5, <1>6, <1>9, <2>2, <2>3 DEF C_MPI_Pack, C_MPI_Unpack, P2PAt
<1> QED
  BY <1>7, <1>8, <1>9

LEMMA P2PWrapperKeeps ==
  ASSUME SendrecvAlike, DeliveryInv, ControlKept, NEW p \in Procs, P2PWrapper(p)
  PROVE  DataKept
<1>0. "in" \in Arrays /\ "out" \in Arrays
  BY DEF Arrays
<1>1. CASE \E frees : P2PReturn(p, frees)
  BY <1>1, OuterKeeps DEF P2PReturn
<1>2. CASE C_MPI_Probe(p) \/ C_MPI_Mprobe(p)
  BY <1>1, <1>2, ProbesKeep
<1>3. CASE \/ C_MPI_Send(p) \/ CFI_MPI_Send(p) \/ C_MPI_Isend(p) \/ CFI_MPI_Isend(p)
  <2>1. Call(p).routine = "PointToPoint"
    BY <1>3 DEF C_MPI_Send, C_MPI_Isend, CFI_MPI_Send, CFI_MPI_Isend, P2PAt, At
  <2>2. Ready(p, "in") /\ (MPI_Send(p) \/ MPI_Isend(p)) => DataKept
    BY <2>1, SendsKeep
  <2>3. ~HaveCFI => Ready(p, "in")
    BY DEF Ready
  <2> QED
    BY <1>0, <1>1, <1>3, <2>2, <2>3, WithTypeKeeps
    DEF C_MPI_Send, C_MPI_Isend, CFI_MPI_Send, CFI_MPI_Isend
<1>4. CASE \/ C_MPI_Recv(p)  \/ C_MPI_Irecv(p)  \/ C_MPI_Mrecv(p)  \/ C_MPI_Imrecv(p)
           \/ CFI_MPI_Recv(p) \/ CFI_MPI_Irecv(p) \/ CFI_MPI_Mrecv(p) \/ CFI_MPI_Imrecv(p)
  <2>1. Call(p).routine = "PointToPoint" /\ Op(p) \in Receiving
    BY <1>4 DEF C_MPI_Recv, C_MPI_Irecv, C_MPI_Mrecv, C_MPI_Imrecv, CFI_MPI_Recv, CFI_MPI_Irecv,
      CFI_MPI_Mrecv, CFI_MPI_Imrecv, P2PAt, At, Receiving
  <2>2. ASSUME MPI_Recv(p) \/ MPI_Irecv(p) \/ \E id : MPI_Mrecv(p, id) \/ MPI_Imrecv(p, id),
               Ready(p, "out")
        PROVE  DataKept
    <3>1. pc[p] = "called" \/ UNCHANGED <<mem, p2p_vars>>
      BY <2>2 DEF MPI_Recv, MPI_Irecv, MPI_Mrecv, MPI_Imrecv, Post, Receive, Answer
    <3>2. CASE UNCHANGED <<mem, p2p_vars>>
      <4>1. UNCHANGED <<mem, msgs, recvs, held, got>> /\ position' \in [Procs -> Nat]
        BY <3>2 DEF p2p_vars, DeliveryInv, MemoryInv
      <4> QED
        BY <4>1, AnswerKeeps
    <3> QED
      BY <2>1, <2>2, <3>1, <3>2, ReceivesKeep
  <2>3. ~HaveCFI => Ready(p, "out")
    BY DEF Ready
  <2>4. CASE \/ C_MPI_Recv(p)  \/ C_MPI_Irecv(p)  \/ C_MPI_Mrecv(p)  \/ C_MPI_Imrecv(p)
    BY <1>1, <2>2, <2>3, <2>4 DEF C_MPI_Recv, C_MPI_Irecv, C_MPI_Mrecv, C_MPI_Imrecv
  <2>5. CASE \/ CFI_MPI_Recv(p) \/ CFI_MPI_Irecv(p) \/ CFI_MPI_Mrecv(p) \/ CFI_MPI_Imrecv(p)
    BY <1>0, <2>2, <2>5, WithTypeKeeps
    DEF CFI_MPI_Recv, CFI_MPI_Irecv, CFI_MPI_Mrecv, CFI_MPI_Imrecv
  <2> QED
    BY <1>4, <2>4, <2>5
<1>5. CASE CFI_MPI_Sendrecv(p)
  BY <1>5, ExchangeKeeps
<1>6. CASE C_MPI_Sendrecv(p)
  <2>1. Call(p).routine = "PointToPoint" /\ Op(p) \in Receiving /\ pc[p] # "idle"
        /\ Ready(p, "in") /\ Ready(p, "out")
    BY <1>6 DEF C_MPI_Sendrecv, P2PAt, At, Receiving, Ready
  <2>2. Covers(Passed(p, "in"), p, "in") /\ Covers(Passed(p, "out"), p, "out")
    BY <1>0, <2>1, PassedCells DEF Ready
  <2>3. CASE MPI_Sendrecv(p, Passed(p, "in"), Passed(p, "out"))
    BY <2>1, <2>2, <2>3, PostKeeps DEF MPI_Sendrecv
  <2> QED
    BY <1>1, <1>6, <2>3 DEF C_MPI_Sendrecv
<1>7. CASE C_MPI_Pack(p) \/ C_MPI_Unpack(p) \/ CFI_MPI_Pack(p) \/ CFI_MPI_Unpack(p)
  BY <1>7, CopiesKeep
<1>8. CASE Waitall(p)
  <2>1. Call(p).routine = "PointToPoint"
    BY <1>8 DEF Waitall, P2PAt, At
  <2>2. CASE Post(p, FALSE, NoBlocks, FALSE, NoBlocks, FALSE, "inside")
    BY <2>1, <2>2, PostKeeps
  <2> QED
    BY <1>1, <1>8, <2>2 DEF Waitall
<1> QED
  BY <1>2, <1>3, <1>4, <1>5, <1>6, <1>7, <1>8 DEF P2PWrapper
-----------------------------------------------------------------------------
LEMMA NextDelivery ==
  ASSUME SendrecvAlike, DeliveryInv, [MPINext]_mpi_vars
  PROVE  DeliveryInv' /\ Delivers
<1>1. ControlKept
  BY StepKeepsControl DEF DeliveryInv
<1>2. ASSUME NEW p \in Procs, CollectiveStep(p) PROVE DataKept
  <2>1. CASE Start(p) \/ Wrapper(p)
    <3>1. UNCHANGED p2p_vars
      BY <1>2 DEF CollectiveStep
    <3>2. ReturnStep(p) => \E frees : Return(p, frees)
      BY DEF ReturnStep
    <3>3. EnterStep(p) \/ RejectStep(p) \/ AbortStep(p) \/ CreateStep(p) \/ Start(p) \/ ReturnStep(p)
      BY <2>1, WrapperStep
    <3> QED
      BY <1>1, <3>1, <3>2, <3>3, OuterKeeps
  <2>2. CASE LeaveCollective(p)
    BY <1>1, <1>2, <2>2, LeaveKeeps DEF CollectiveStep
  <2> QED
    BY <1>2, <2>1, <2>2 DEF CollectiveStep
<1>3. ASSUME NEW p \in Procs, Matches(p) PROVE DataKept
  <2>1. PICK r \in recvs : \E m \in msgs \cup r.taken : Match(r, m)
    BY <1>3 DEF Matches
  <2> QED
    BY <1>1, <2>1, MatchKeeps
<1>4. ASSUME UNCHANGED mpi_vars PROVE DataKept
  <2>1. UNCHANGED <<mem, msgs, recvs, held, got>> /\ position' \in [Procs -> Nat]
    BY <1>4 DEF mpi_vars, vars, p2p_vars, DeliveryInv, MemoryInv
  <2>2. PICK p : p \in Procs
    BY CollectivesAssumption
  <2> QED
    BY <1>1, <2>1, <2>2, AnswerKeeps
<1>5. DataKept
  BY <1>1, <1>2, <1>3, <1>4, P2PWrapperKeeps, FinishKeeps DEF MPINext
<1> QED
  BY <1>1, <1>5 DEF ControlKept, DataKept, DeliveryInv

\* Whatever the library does in between, a receive, an unpacking or a packing
\* changes the cells of the elements of its own section, in order, and these to
\* the elements sent; and no other step of such a call changes an array.
THEOREM ElementsDelivered ==
  ASSUME SendrecvAlike
  PROVE  MPISpec => DeliversElements
<1>1. MPISpec => P2PInit /\ [][MPINext]_mpi_vars
  BY DEF MPISpec
<1>2. DeliveryInv /\ [MPINext]_mpi_vars => DeliveryInv' /\ Delivers
  BY NextDelivery
<1>3. DeliveryInv /\ [MPINext]_mpi_vars => [Delivers]_mpi_vars
  BY <1>2
<1>4. P2PInit => DeliveryInv
  BY InitDelivery
<1>5. MPISpec => [][Delivers]_mpi_vars
  BY <1>1, <1>2, <1>3, <1>4, PTL
<1> QED
  BY <1>5 DEF DeliversElements, Delivers
=============================================================================
