---------------------------- MODULE PointToPoint ----------------------------
(***************************************************************************)
(* Point-to-point calls, matched probes and packing (mpi_p2p.c, from       *)
(* C_MPI_Probe on; its completion routines are in Requests), in the same   *)
(* programs as the collectives.  In a round "PointToPoint" each process    *)
(* makes a call of its own, arg[p].op.  The steps of a call are those of   *)
(* Collectives; what is new is the library:                                *)
(*   - a message is in msgs until a receive takes it, in recvs until the   *)
(*     receiving call returns;                                             *)
(*   - it matches in MPI's order, whenever it likes, and may or may not    *)
(*     buffer what is sent;                                                *)
(*   - messages taken by Mprobe are named by small integers, which are     *)
(*     used again.                                                         *)
(* Processes whose call is not blocking wait for all their operations in a *)
(* round "Wait"; what the wrappers do there is in Requests.                *)
(***************************************************************************)
EXTENDS Collectives

CONSTANTS
  MPI_PROC_NULL, MPI_ANY_SOURCE, MPI_ANY_TAG,  \* the library's values
  MessageIds,    \* integers of the library's message handles
  HandleVars     \* the program's variables of type MPI_Message

\* The constants a program has for them.
VAPAA_MPI_MESSAGE_NULL    == -15
VAPAA_MPI_MESSAGE_NO_PROC == -150
VAPAA_MPI_PROC_NULL       == -19

MPI_MESSAGE_NULL    == 0  \* the library's, as integers
MPI_MESSAGE_NO_PROC == 1

ASSUME ConstantsAssumption ==
  /\ {MPI_PROC_NULL, MPI_ANY_SOURCE, MPI_ANY_TAG} \subseteq Int \ Nat
  /\ MPI_PROC_NULL # MPI_ANY_SOURCE
  /\ MessageIds \subseteq Nat \ {MPI_MESSAGE_NULL, MPI_MESSAGE_NO_PROC}
  /\ VAPAA_MPI_PROC_NULL \notin {MPI_PROC_NULL, MPI_ANY_SOURCE}

\* A datatype's elements fill its extent, and what is not contiguous has
\* elements of one cell (other datatypes: CfiDatatype).
ASSUME TypesAssumption ==
  /\ \A t \in DOMAIN TypeMap : Dense(TypeMap[t])
  /\ \A prog \in Programs : \A i \in DOMAIN prog : \A p \in Procs :
       LET a == prog[i].arg[p]
       IN  prog[i].routine = "PointToPoint" =>
             /\ a.in.addr \in Arrays /\ a.out.addr \in Arrays
             /\ a.stype \in DOMAIN TypeMap /\ a.rtype \in DOMAIN TypeMap
             /\ a.in.stride \in Nat \ {0} /\ a.out.stride \in Nat \ {0}
             /\ a.in.stride  # 1 => TypeMap[a.stype].extent = 1
             /\ a.out.stride # 1 => TypeMap[a.rtype].extent = 1
             /\ a.op = "Sendrecv" /\ a.in.stride # 1 => TypeMap[a.rtype].extent = 1

\* Ranks and tags are Fortran integers of any value, a message handle is a
\* variable of the program's, and a section lies in its array.
ASSUME ArgumentsAssumption ==
  \A prog \in Programs : \A i \in DOMAIN prog : \A p \in Procs :
    LET a == prog[i].arg[p]
    IN  prog[i].routine = "PointToPoint" =>
          /\ {a.dest, a.stag, a.source, a.rtag} \subseteq Int
          /\ a.handle \in HandleVars
          /\ a.in.size <= NumCells /\ a.out.size <= NumCells

VARIABLES
  msgs,      \* messages sent and not yet taken
  recvs,     \* receives until the program knows that they are finished
  held,      \* per process: messages taken by Mprobe, with their integers
  message,   \* per process: the program's message handles
  status,    \* per process: the program's status
  position,  \* per process: the program's position in a pack buffer
  got        \* history: the message that each call of each process received

p2p_vars == <<msgs, recvs, held, message, status, position, got>>
mpi_vars == <<vars, p2p_vars>>

NoMessage == [src |-> MPI_PROC_NULL, dst |-> MPI_PROC_NULL, tag |-> MPI_ANY_TAG, round |-> 0,
              data |-> <<>>, sent |-> <<>>]

P2PInit ==
  /\ Init
  /\ msgs = {} /\ recvs = {}
  /\ held = [p \in Procs |-> {}]
  /\ message = [p \in Procs |-> [v \in HandleVars |-> VAPAA_MPI_MESSAGE_NULL]]
  /\ status = [p \in Procs |-> [source |-> MPI_PROC_NULL, tag |-> MPI_ANY_TAG]]
  /\ position = [p \in Procs |-> 0]
  /\ got = [p \in Procs |-> [i \in DOMAIN program |-> NoMessage]]
-----------------------------------------------------------------------------
(* The MPI library. *)

Op(p) == Arg(p).op

\* What a buffer holds, in the order of its type map, and in the program's
\* terms: the elements of the section from number first on.
Data(p, buf) ==
  LET cell == CellsOf(buf, 0) IN [m \in DOMAIN cell |-> Load(p, buf.addr, cell[m])]
Elements(p, section, first, n) ==
  [k \in 0..n-1 |-> Load(p, section.addr, (first + k) * section.stride)]

NumElements(p, side) == Count(p, side) * Size(MpiType(p, side))

\* An array after data was stored at the given cells.
Filled(array, cell, data) ==
  [x \in Cells |-> IF \E k \in DOMAIN data : cell[k] = x
                   THEN data[CHOOSE k \in DOMAIN data : cell[k] = x] ELSE array[x]]

SendCode(dest, tag) ==
  CASE dest \notin Procs -> "MPI_ERR_RANK"
    [] dest \in Procs /\ tag < 0 -> "MPI_ERR_TAG"
    [] OTHER -> "MPI_SUCCESS"

ReceiveCode(source, tag) ==
  CASE source \notin Procs \cup {MPI_ANY_SOURCE} -> "MPI_ERR_RANK"
    [] source \in Procs \cup {MPI_ANY_SOURCE} /\ tag < 0 /\ tag # MPI_ANY_TAG -> "MPI_ERR_TAG"
    [] OTHER -> "MPI_SUCCESS"

Refusal(p, sends, receives) ==
  LET a == Arg(p)
  IN  IF sends /\ SendCode(a.dest, a.stag) # "MPI_SUCCESS" THEN SendCode(a.dest, a.stag)
      ELSE IF receives THEN ReceiveCode(a.source, a.rtag) ELSE "MPI_SUCCESS"

NewMessage(p, in) ==
  [src |-> p, dst |-> Arg(p).dest, tag |-> Arg(p).stag, round |-> round[p],
   data |-> Data(p, in), sent |-> Elements(p, Section(p, "in"), 0, NumElements(p, "in"))]

NewReceive(p, out, taken, wants) ==
  [proc |-> p, round |-> round[p], source |-> Arg(p).source, tag |-> Arg(p).rtag,
   buf |-> out, taken |-> taken, wants |-> wants, state |-> "posted", msg |-> NoMessage]

\* A call posts a send, a receive or both, or is refused.  It returns at once
\* or waits inside the library.
Post(p, sends, in, receives, out, wants, then) ==
  LET code == Refusal(p, sends, receives)
  IN  /\ pc[p] = "called"
      /\ rc' = [rc EXCEPT ![p] = code]
      /\ pc' = [pc EXCEPT ![p] = IF code = "MPI_SUCCESS" THEN then ELSE "finished"]
      /\ msgs' = IF code = "MPI_SUCCESS" /\ sends THEN msgs \cup {NewMessage(p, in)} ELSE msgs
      /\ recvs' = IF code = "MPI_SUCCESS" /\ receives THEN recvs \cup {NewReceive(p, out, {}, wants)}
                  ELSE recvs
      /\ UNCHANGED <<HaveCFI, program, round, mem, temp, args, coll, entered, given, aborted,
                     held, message, status, position, got>>

Accepts(source, tag, m) == source \in {m.src, MPI_ANY_SOURCE} /\ tag \in {m.tag, MPI_ANY_TAG}

\* The message for a receive of p: of each sender, the first that matches.
Candidates(p, source, tag) ==
  {m \in msgs : /\ m.dst = p /\ Accepts(source, tag, m)
                /\ ~\E n \in msgs : /\ n.dst = p /\ n.src = m.src /\ n.round < m.round
                                    /\ Accepts(source, tag, n)}

\* The library gives message m to receive r.  What does not fit is not stored.
\* For a collective in progress the elements were there when it was called.
Match(r, m) ==
  LET cell == CellsOf(r.buf, 0)
      fits == DOMAIN m.data \subseteq DOMAIN cell
  IN  /\ ~aborted /\ r.state = "posted"
      /\ IF r.taken # {} THEN m \in r.taken
         ELSE /\ m \in Candidates(r.proc, r.source, r.tag)
              /\ ~\E s \in recvs : /\ s.proc = r.proc /\ s.round < r.round /\ s.state = "posted"
                                   /\ s.taken = {} /\ Accepts(s.source, s.tag, m)
      /\ msgs' = IF r.taken # {} THEN msgs ELSE msgs \ {m}
      /\ recvs' = (recvs \ {r})
                  \cup {[r EXCEPT !.state = IF fits THEN "done" ELSE "truncated", !.msg = m]}
      /\ mem' = IF fits THEN [mem EXCEPT ![r.proc][r.buf.addr] = Filled(@, cell, m.data)] ELSE mem
      /\ given' = IF fits /\ pc[r.proc] # "idle"
                  THEN [given EXCEPT ![round[r.proc]][r.proc][r.buf.addr] = Filled(@, cell, m.data)]
                  ELSE given
      /\ got' = IF fits THEN [got EXCEPT ![r.proc][r.round] = m] ELSE got
      /\ UNCHANGED <<HaveCFI, program, round, pc, temp, args, rc, coll, entered, aborted,
                     held, message, status, position>>

\* The library writes a status where the call gave it an address.
Status(p, wants, m) ==
  IF wants THEN [status EXCEPT ![p] = [source |-> m.src, tag |-> m.tag]] ELSE status

\* A call that waits in the library returns: its receives are finished, its
\* sends are taken or buffered.
Finish(p, waits) ==
  LET mine == {r \in recvs : r.proc = p /\ (Op(p) = "Wait" \/ r.round = round[p])}
      bad  == \E r \in mine : r.state = "truncated"
  IN  /\ pc[p] = "inside" /\ Call(p).routine = "PointToPoint" /\ ~aborted
      /\ \A r \in mine : r.state # "posted"
      /\ waits => ~\E m \in msgs : m.src = p /\ (Op(p) = "Wait" \/ m.round = round[p])
      /\ recvs' = recvs \ mine
      /\ pc' = [pc EXCEPT ![p] = "finished"]
      /\ rc' = [rc EXCEPT ![p] = CASE ~bad -> "MPI_SUCCESS"
                                   [] bad /\ Op(p) = "Wait" -> "MPI_ERR_IN_STATUS"
                                   [] OTHER -> "MPI_ERR_TRUNCATE"]
      /\ status' = IF \E r \in mine : r.wants /\ r.state = "done"
                   THEN Status(p, TRUE, (CHOOSE r \in mine : r.wants).msg) ELSE status
      /\ UNCHANGED <<HaveCFI, program, round, mem, temp, args, coll, entered, given, aborted,
                     msgs, held, message, position, got>>

\* A call that the library answers at once.
Answer(p, code) ==
  /\ pc[p] = "called"
  /\ pc' = [pc EXCEPT ![p] = "finished"]
  /\ rc' = [rc EXCEPT ![p] = code]
  /\ UNCHANGED <<HaveCFI, program, round, temp, args, coll, entered, given, aborted>>

NoProcMessage == [NoMessage EXCEPT !.src = MPI_PROC_NULL]

\* MPI_Probe only looks.
MPI_Probe(p, source, tag, wants) ==
  \/ /\ source # MPI_PROC_NULL /\ ReceiveCode(source, tag) # "MPI_SUCCESS"
     /\ Answer(p, ReceiveCode(source, tag))
     /\ UNCHANGED <<mem, p2p_vars>>
  \/ \E m \in Candidates(p, source, tag) \cup {n \in {NoProcMessage} : source = MPI_PROC_NULL} :
       /\ Answer(p, "MPI_SUCCESS")
       /\ status' = Status(p, wants, m)
       /\ UNCHANGED <<mem, msgs, recvs, held, message, position, got>>

\* MPI_Mprobe takes the message and gives it an integer that is not in use.
MPI_Mprobe(p, source, tag, wants, handle) ==
  \/ /\ source # MPI_PROC_NULL /\ ReceiveCode(source, tag) # "MPI_SUCCESS"
     /\ Answer(p, ReceiveCode(source, tag))
     /\ \E id \in MessageIds \cup {MPI_MESSAGE_NULL} :  \* the C variable was never written
          message' = [message EXCEPT ![p][handle] = id]
     /\ UNCHANGED <<mem, msgs, recvs, held, status, position, got>>
  \/ /\ source = MPI_PROC_NULL
     /\ Answer(p, "MPI_SUCCESS")
     /\ status' = Status(p, wants, NoProcMessage)
     /\ message' = [message EXCEPT ![p][handle] = MPI_MESSAGE_NO_PROC]
     /\ UNCHANGED <<mem, msgs, recvs, held, position, got>>
  \/ \E m \in Candidates(p, source, tag) : \E id \in MessageIds :
       /\ \A h \in held[p] : h.id # id
       /\ Answer(p, "MPI_SUCCESS")
       /\ msgs' = msgs \ {m}
       /\ held' = [held EXCEPT ![p] = @ \cup {[id |-> id, msg |-> m]}]
       /\ message' = [message EXCEPT ![p][handle] = id]
       /\ status' = Status(p, wants, m)
       /\ got' = [got EXCEPT ![p][round[p]] = m]
       /\ UNCHANGED <<mem, recvs, position>>

\* MPI_Mrecv and MPI_Imrecv: the integer is free for other messages.
Receive(p, out, id, wants, then) ==
  \/ /\ id = MPI_MESSAGE_NO_PROC
     /\ Answer(p, "MPI_SUCCESS")
     /\ status' = Status(p, wants, NoProcMessage)
     /\ UNCHANGED <<mem, msgs, recvs, held, message, position, got>>
  \/ /\ \A h \in held[p] : h.id # id
     /\ id # MPI_MESSAGE_NO_PROC
     /\ Answer(p, "MPI_ERR_REQUEST")
     /\ UNCHANGED <<mem, p2p_vars>>
  \/ \E h \in held[p] :
       /\ h.id = id
       /\ pc[p] = "called"
       /\ pc' = [pc EXCEPT ![p] = then]
       /\ rc' = [rc EXCEPT ![p] = "MPI_SUCCESS"]
       /\ held' = [held EXCEPT ![p] = @ \ {h}]
       /\ recvs' = recvs \cup {NewReceive(p, out, {h.msg}, wants)}
       /\ UNCHANGED <<HaveCFI, program, round, temp, args, coll, entered, given, aborted,
                      mem, msgs, message, status, position, got>>

\* A pack buffer holds an element in each of its cells.  Packing and unpacking
\* go on at the position and move it, or fail when the pack buffer ends.
CopiedBack_Forgotten(p, n) == position  \* mutant: Fortran keeps its own copy
CopiedBack_Added(p, n) == [position EXCEPT ![p] = @ + n]  \* mutant: it adds to its copy
CopiedBack(p, n) == [position EXCEPT ![p] = n]

StartAt(p) == IF Arg(p).restart THEN 0 ELSE position[p]

Copy(p, addr, cell, data, sent, room, n) ==
  IF StartAt(p) + n > room
  THEN /\ Answer(p, "MPI_ERR_ARG")
       /\ position' = [position EXCEPT ![p] = StartAt(p)]
       /\ UNCHANGED <<mem, msgs, recvs, held, message, status, got>>
  ELSE /\ Answer(p, "MPI_SUCCESS")
       /\ mem' = [mem EXCEPT ![p][addr] = Filled(@, cell, data)]
       /\ position' = CopiedBack(p, StartAt(p) + n)
       /\ got' = [got EXCEPT ![p][round[p]] =
                    [NoMessage EXCEPT !.src = p, !.round = round[p], !.data = data, !.sent = sent]]
       /\ UNCHANGED <<msgs, recvs, held, message, status>>

MPI_Pack(p, in) ==
  LET data == Data(p, in)
  IN  Copy(p, Section(p, "out").addr, [k \in DOMAIN data |-> StartAt(p) + k], data,
           Elements(p, Section(p, "in"), 0, NumElements(p, "in")),
           Section(p, "out").size, in.count[0] * Size(in.type))

MPI_Unpack(p, out) ==
  LET cell == CellsOf(out, 0)
  IN  Copy(p, out.addr, cell, [k \in DOMAIN cell |-> Load(p, Section(p, "in").addr, StartAt(p) + k)],
           Elements(p, Section(p, "in"), StartAt(p), NumElements(p, "out")),
           Section(p, "in").size, out.count[0] * Size(out.type))
-----------------------------------------------------------------------------
(* The routines of mpi_p2p.c. *)

P2PAt(p, op) == At(p, "PointToPoint") /\ Op(p) = op

P2PReturn(p, frees) == Return(p, frees) /\ UNCHANGED p2p_vars

\* The buffer of a call: its address is passed as it is.
Passed_WithCount(p, side) ==  \* mutant: the program's count goes with the datatype
  IF Contiguous(Section(p, side)) THEN BufferAt(Section(p, side).addr, p, side)
  ELSE Blocks(Section(p, side).addr, Count(p, side), temp[p][side])
Passed(p, side) == BufferAt(Section(p, side).addr, p, side)

\* With descriptors: a section that is not contiguous gets a datatype first.
\* What is freed is up to the routine.
WithType(p, side, call, frees) ==
  \/ CreateType(p, side) /\ UNCHANGED p2p_vars
  \/ ~NeedsType(p, side) /\ call
  \/ P2PReturn(p, frees)

\* The library is given the address of the program's status, or told that
\* there is none.
StatusArgument_Inverted(p) == ~Arg(p).status  \* mutant: as Probe looks at it
StatusArgument(p) == Arg(p).status

MPI_Send(p)  == Post(p, TRUE, Passed(p, "in"), FALSE, NoBlocks, FALSE, "inside")
MPI_Isend(p) == Post(p, TRUE, Passed(p, "in"), FALSE, NoBlocks, FALSE, "finished")
MPI_Recv(p)  == Post(p, FALSE, NoBlocks, TRUE, Passed(p, "out"), StatusArgument(p), "inside")
MPI_Irecv(p) == Post(p, FALSE, NoBlocks, TRUE, Passed(p, "out"), FALSE, "finished")
MPI_Sendrecv(p, in, out) == Post(p, TRUE, in, TRUE, out, StatusArgument(p), "inside")
MPI_Mrecv(p, id)  == Receive(p, Passed(p, "out"), id, StatusArgument(p), "inside")
MPI_Imrecv(p, id) == Receive(p, Passed(p, "out"), id, FALSE, "finished")

C_MPI_Send(p)  == P2PAt(p, "Send")  /\ ~HaveCFI /\ (MPI_Send(p)  \/ P2PReturn(p, {}))
C_MPI_Isend(p) == P2PAt(p, "Isend") /\ ~HaveCFI /\ (MPI_Isend(p) \/ P2PReturn(p, {}))
C_MPI_Recv(p)  == P2PAt(p, "Recv")  /\ ~HaveCFI /\ (MPI_Recv(p)  \/ P2PReturn(p, {}))
C_MPI_Irecv(p) == P2PAt(p, "Irecv") /\ ~HaveCFI /\ (MPI_Irecv(p) \/ P2PReturn(p, {}))

CFI_MPI_Send(p) ==
  /\ P2PAt(p, "Send") /\ HaveCFI
  /\ WithType(p, "in", MPI_Send(p), Noncontiguous(p, {"in"}))
CFI_MPI_Isend(p) ==
  /\ P2PAt(p, "Isend") /\ HaveCFI
  /\ WithType(p, "in", MPI_Isend(p), Noncontiguous(p, {"in"}))
CFI_MPI_Recv(p) ==
  /\ P2PAt(p, "Recv") /\ HaveCFI
  /\ WithType(p, "out", MPI_Recv(p), Noncontiguous(p, {"out"}))
CFI_MPI_Irecv(p) ==
  /\ P2PAt(p, "Irecv") /\ HaveCFI
  /\ WithType(p, "out", MPI_Irecv(p), Noncontiguous(p, {"out"}))

\* The matched message reaches the library by its integer; what the library
\* makes of its copy (the null message) is not written back.
C_MPI_MESSAGE_F2C(handle) ==
  CASE handle = VAPAA_MPI_MESSAGE_NULL    -> MPI_MESSAGE_NULL
    [] handle = VAPAA_MPI_MESSAGE_NO_PROC -> MPI_MESSAGE_NO_PROC
    [] OTHER -> handle

Message(p) == C_MPI_MESSAGE_F2C(message[p][Arg(p).handle])

C_MPI_Mrecv(p)  == P2PAt(p, "Mrecv")  /\ ~HaveCFI /\ (MPI_Mrecv(p, Message(p))  \/ P2PReturn(p, {}))
C_MPI_Imrecv(p) == P2PAt(p, "Imrecv") /\ ~HaveCFI /\ (MPI_Imrecv(p, Message(p)) \/ P2PReturn(p, {}))
CFI_MPI_Mrecv(p) ==
  /\ P2PAt(p, "Mrecv") /\ HaveCFI
  /\ WithType(p, "out", MPI_Mrecv(p, Message(p)), Noncontiguous(p, {"out"}))
CFI_MPI_Imrecv(p) ==
  /\ P2PAt(p, "Imrecv") /\ HaveCFI
  /\ WithType(p, "out", MPI_Imrecv(p, Message(p)), Noncontiguous(p, {"out"}))

\* The only constant that is converted is the null process, and only here.
C_MPI_PROC_NULL_DETECTOR(rank) == IF rank = VAPAA_MPI_PROC_NULL THEN MPI_PROC_NULL ELSE rank

\* Probe takes a status it was given for one to be ignored.  One to be ignored
\* it writes, over the constant MPI_STATUS_IGNORE itself (not modelled).
C_MPI_Probe(p) ==
  /\ P2PAt(p, "Probe")
  /\ \/ MPI_Probe(p, C_MPI_PROC_NULL_DETECTOR(Arg(p).source), Arg(p).rtag, FALSE)
     \/ P2PReturn(p, {})

C_MPI_Mprobe(p) ==
  /\ P2PAt(p, "Mprobe")
  /\ \/ MPI_Mprobe(p, C_MPI_PROC_NULL_DETECTOR(Arg(p).source), Arg(p).rtag, StatusArgument(p),
                   Arg(p).handle)
     \/ P2PReturn(p, {})

C_MPI_Sendrecv(p) ==
  /\ P2PAt(p, "Sendrecv") /\ ~HaveCFI
  /\ MPI_Sendrecv(p, Passed(p, "in"), Passed(p, "out")) \/ P2PReturn(p, {})

\* Both buffers are converted, or none: which is decided by the send buffer,
\* the only one that is looked at.
TreatedAsContiguous(p) == Contiguous(Section(p, "in")) /\ Contiguous(Section(p, "in"))

AsElements(p, side) == Blocks(Section(p, side).addr, Count(p, side), MpiType(p, side))
AsType(p, side)     == Blocks(Section(p, side).addr, 1, temp[p][side])

CFI_MPI_Sendrecv(p) ==
  /\ P2PAt(p, "Sendrecv") /\ HaveCFI
  /\ \/ TreatedAsContiguous(p) /\ MPI_Sendrecv(p, AsElements(p, "in"), AsElements(p, "out"))
     \/ /\ ~TreatedAsContiguous(p)
        /\ \/ temp[p]["in"] = NoType /\ MakeType(p, "in") /\ UNCHANGED p2p_vars
           \/ /\ temp[p]["in"] # NoType /\ temp[p]["out"] = NoType
              /\ MakeType(p, "out") /\ UNCHANGED p2p_vars
           \/ /\ temp[p]["in"] # NoType /\ temp[p]["out"] # NoType
              /\ MPI_Sendrecv(p, AsType(p, "in"), AsType(p, "out"))
     \/ P2PReturn(p, IF TreatedAsContiguous(p) THEN {} ELSE {"in", "out"})

C_MPI_Pack(p) ==
  P2PAt(p, "Pack") /\ ~HaveCFI /\ (MPI_Pack(p, Passed(p, "in")) \/ P2PReturn(p, {}))
C_MPI_Unpack(p) ==
  P2PAt(p, "Unpack") /\ ~HaveCFI /\ (MPI_Unpack(p, Passed(p, "out")) \/ P2PReturn(p, {}))

\* The pack buffer has to be contiguous.
BadPackBuffer(p) ==
  /\ Answer(p, "MPI_ERR_ARG")
  /\ position' = [position EXCEPT ![p] = StartAt(p)]
  /\ UNCHANGED <<mem, msgs, recvs, held, message, status, got>>

CFI_MPI_Pack(p) ==
  /\ P2PAt(p, "Pack") /\ HaveCFI
  /\ \/ ~Contiguous(Section(p, "out")) /\ (BadPackBuffer(p) \/ P2PReturn(p, {}))
     \/ /\ Contiguous(Section(p, "out"))
        /\ WithType(p, "in", MPI_Pack(p, Passed(p, "in")), Noncontiguous(p, {"in"}))
CFI_MPI_Unpack(p) ==
  /\ P2PAt(p, "Unpack") /\ HaveCFI
  /\ \/ ~Contiguous(Section(p, "in")) /\ (BadPackBuffer(p) \/ P2PReturn(p, {}))
     \/ /\ Contiguous(Section(p, "in"))
        /\ WithType(p, "out", MPI_Unpack(p, Passed(p, "out")), Noncontiguous(p, {"out"}))

\* MPI_Waitall on all requests of the process (Requests has the wrappers).
Waitall(p) ==
  /\ P2PAt(p, "Wait")
  /\ Post(p, FALSE, NoBlocks, FALSE, NoBlocks, FALSE, "inside") \/ P2PReturn(p, {})

P2PWrapper(p) ==
  \/ C_MPI_Probe(p)    \/ C_MPI_Mprobe(p)
  \/ C_MPI_Send(p)     \/ CFI_MPI_Send(p)
  \/ C_MPI_Isend(p)    \/ CFI_MPI_Isend(p)
  \/ C_MPI_Recv(p)     \/ CFI_MPI_Recv(p)
  \/ C_MPI_Irecv(p)    \/ CFI_MPI_Irecv(p)
  \/ C_MPI_Mrecv(p)    \/ CFI_MPI_Mrecv(p)
  \/ C_MPI_Imrecv(p)   \/ CFI_MPI_Imrecv(p)
  \/ C_MPI_Sendrecv(p) \/ CFI_MPI_Sendrecv(p)
  \/ C_MPI_Pack(p)     \/ CFI_MPI_Pack(p)
  \/ C_MPI_Unpack(p)   \/ CFI_MPI_Unpack(p)
  \/ Waitall(p)

\* A step of a collective or of the program.
LeaveCollective(p) == pc[p] = "inside" /\ Call(p).routine # "PointToPoint" /\ Leave(p)
CollectiveStep(p) == (Start(p) \/ Wrapper(p) \/ LeaveCollective(p)) /\ UNCHANGED p2p_vars

Matches(p) == \E r \in recvs : r.proc = p /\ \E m \in msgs \cup r.taken : Match(r, m)

MPINext ==
  \E p \in Procs : CollectiveStep(p) \/ P2PWrapper(p) \/ Matches(p) \/ Finish(p, FALSE)

\* The library may keep a sender until its message is taken, not longer.
MPIFairness ==
  \A p \in Procs :
    /\ WF_mpi_vars(Start(p) /\ UNCHANGED p2p_vars)
    /\ WF_mpi_vars(Wrapper(p) /\ UNCHANGED p2p_vars)
    /\ WF_mpi_vars(LeaveCollective(p) /\ AllEntered(p) /\ UNCHANGED p2p_vars)
    /\ WF_mpi_vars(P2PWrapper(p))
    /\ WF_mpi_vars(Matches(p))
    /\ WF_mpi_vars(Finish(p, TRUE))

MPISpec == P2PInit /\ [][MPINext]_mpi_vars /\ MPIFairness
-----------------------------------------------------------------------------
(* Properties. *)

\* What the library keeps is about calls that were made, each receive in one
\* state of its life; the program's outputs are values it knows.
P2PTypeOK ==
  /\ \A m \in msgs : m.src \in Procs /\ m.dst \in Procs /\ m.tag \in Nat /\ m.round \in DOMAIN program
  /\ \A r \in recvs : /\ r.proc \in Procs /\ r.round \in DOMAIN program /\ r.round <= round[r.proc]
                      /\ r.state \in {"posted", "done", "truncated"}
  /\ \A r, s \in recvs : r.proc = s.proc /\ r.round = s.round => r = s
  /\ \A p \in Procs : \A h, k \in held[p] : h.id \in MessageIds /\ (h.id = k.id => h = k)
  /\ message \in [Procs -> [HandleVars -> MessageIds \cup
                  {VAPAA_MPI_MESSAGE_NULL, MPI_MESSAGE_NULL, MPI_MESSAGE_NO_PROC}]]
  /\ status \in [Procs -> [source : Int, tag : Int]]
  /\ position \in [Procs -> 0..NumCells]

\* The arrays after hold the elements sent as those of the section from number
\* first on, and are otherwise as before.
StoredAs(before, after, section, first, sent) ==
  \A addr \in Arrays : \A x \in Cells :
    \/ /\ addr = section.addr
       /\ \E k \in DOMAIN sent : x = (first + k) * section.stride /\ after[addr][x] = sent[k]
    \/ /\ ~(addr = section.addr /\ \E k \in DOMAIN sent : x = (first + k) * section.stride)
       /\ after[addr][x] = before[addr][x]

\* Call i of process p receives, or copies, what it was called for.
Gets(p, i) == got'[p][i] # got[p][i] /\ program[i].arg[p].op # "Mprobe"

\* A message, or what is packed or unpacked, arrives as the same elements in
\* the same order, in the cells of the receiving section and no others, and
\* only then does a point-to-point call change the program's arrays.
DeliversElements ==
  [][\A p \in Procs :
       /\ \A i \in DOMAIN program : Gets(p, i) =>
            StoredAs(mem[p], mem'[p], program[i].arg[p].out,
                     IF program[i].arg[p].op = "Pack" THEN StartAt(p) ELSE 0, got'[p][i].sent)
       /\ mem'[p] # mem[p] =>
            \/ \E i \in DOMAIN program : Gets(p, i)
            \/ pc[p] = "inside" /\ Call(p).routine # "PointToPoint"]_mpi_vars

\* The call by which p took the message it passes to Mrecv in call i.
ProbeOf(p, i) ==
  Max({j \in 1..i-1 : /\ program[j].routine = "PointToPoint" /\ program[j].arg[p].op = "Mprobe"
                      /\ program[j].arg[p].handle = program[i].arg[p].handle})

\* What a call received is what it asked for: from the process and with the tag
\* it named, or the message that its handle was probed for, also when handles
\* of the library are in use again; and the status says so.
EnvelopesAgree ==
  \A p \in Procs :
    /\ \A i \in DOMAIN program :
         LET m == got[p][i]
             a == program[i].arg[p]
         IN  m # NoMessage =>
               /\ a.op \in {"Recv", "Irecv", "Sendrecv", "Mprobe"} => a.source = m.src /\ a.rtag = m.tag
               /\ a.op \in {"Mrecv", "Imrecv"} => m = got[p][ProbeOf(p, i)]
    /\ pc[p] = "finished" /\ rc[p] = "MPI_SUCCESS" /\ Call(p).routine = "PointToPoint"
       => LET m == got[p][round[p]]
          IN  Op(p) \in {"Recv", "Sendrecv", "Mprobe", "Mrecv"} /\ Arg(p).status /\ m # NoMessage
              => status[p] = [source |-> m.src, tag |-> m.tag]

\* Elements packed, or unpacked, by p since it last went back to the start.
Copied(p, i) ==
  LET copies == {j \in 1..i : /\ program[j].routine = "PointToPoint"
                              /\ program[j].arg[p].op \in {"Pack", "Unpack"}}
      since  == {j \in copies : \A k \in copies : k > j => ~program[k].arg[p].restart}
  IN  SumFunction([j \in since |-> Cardinality(DOMAIN got[p][j].sent)])

\* The program's position counts the elements copied: one call goes on where
\* the one before ended, also after one that failed.
PositionCounts ==
  \A p \in Procs :
    pc[p] = "finished" /\ Call(p).routine = "PointToPoint" /\ Op(p) \in {"Pack", "Unpack"}
    => position[p] = Copied(p, round[p])
=============================================================================
