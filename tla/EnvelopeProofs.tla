---------------------------- MODULE EnvelopeProofs ----------------------------
(***************************************************************************)
(* Who receives which message: what a receive takes is what its call asked *)
(* for, by rank and tag or by the handle of a matched probe, and the       *)
(* status says so; for any number of processes, messages and handles.      *)
(*                                                                         *)
(* Types come first: what the library keeps belongs to calls that were     *)
(* made.  A call is one of the shapes below (Refuses, Posts, Copies,       *)
(* Answers, Takes, Collects), and both invariants are shown to survive     *)
(* each shape.                                                             *)
(***************************************************************************)
EXTENDS PointToPointProofs

\* Call i of process p is one of the given point-to-point calls.
Makes(p, i, ops) ==
  i \in DOMAIN program /\ program[i].routine = "PointToPoint" /\ program[i].arg[p].op \in ops

Selecting == {"Recv", "Irecv", "Sendrecv"}   \* receives by rank and tag
Matched   == {"Mrecv", "Imrecv"}             \* receives by handle
Blocking  == {"Recv", "Sendrecv", "Mrecv"}
Copying   == {"Pack", "Unpack"}

LibraryHandles == MessageIds \cup {MPI_MESSAGE_NULL, MPI_MESSAGE_NO_PROC}
Statuses == [source : Int, tag : Int]

Envelope(m) == m.src \in Procs /\ m.dst \in Procs /\ m.tag \in Nat /\ m.round \in DOMAIN program

IsReceive(r) ==
  /\ r = [proc |-> r.proc, round |-> r.round, source |-> r.source, tag |-> r.tag, buf |-> r.buf,
          taken |-> r.taken, wants |-> r.wants, state |-> r.state, msg |-> r.msg]
  /\ r.proc \in Procs /\ Makes(r.proc, r.round, Selecting \cup Matched) /\ Called(r.proc, r.round)
  /\ r.state \in {"posted", "done", "truncated"}
  /\ \A m \in r.taken : Envelope(m)
  /\ r.state # "posted" => Envelope(r.msg)

\* What the library keeps.
KeptInv ==
  /\ \A m \in msgs : Envelope(m)
  /\ \A r \in recvs : IsReceive(r)
  /\ \A r, s \in recvs : r.proc = s.proc /\ r.round = s.round => r = s
  /\ DOMAIN held = Procs
  /\ \A p \in Procs : \A h \in held[p] : h.id \in MessageIds /\ Envelope(h.msg)
  /\ \A p \in Procs : \A h, k \in held[p] : h.id = k.id => h = k

\* What the program sees.
SeenInv ==
  /\ message \in [Procs -> [HandleVars -> LibraryHandles \cup {VAPAA_MPI_MESSAGE_NULL}]]
  /\ status \in [Procs -> Statuses]
  /\ position \in [Procs -> 0..NumCells]
  /\ DOMAIN rc = Procs

EnvelopeTypes == MatchInv /\ BuildInv /\ TempInv /\ KeptInv /\ SeenInv
-----------------------------------------------------------------------------
(* What is known of a call. *)

LEMMA Ranks == \A p \in Procs : p \in Nat
<1>1. Cardinality(Procs) \in Nat
  BY CollectivesAssumption, FS_CardinalityType
<1>2. Procs = 0..Cardinality(Procs)-1
  BY CollectivesAssumption
<1> QED
  BY <1>1, <1>2

LEMMA ControlFacts ==
  ASSUME MatchInv
  PROVE  /\ pc \in [Procs -> {"idle", "called", "inside", "finished"}]
         /\ round \in [Procs -> Nat \ {0}]
         /\ program \in Programs
         /\ DOMAIN program = 1..Len(program) /\ Len(program) \in Nat
         /\ \A i \in DOMAIN program : i \in Nat \ {0}
         /\ \A p \in Procs : pc[p] # "idle" => round[p] \in DOMAIN program
BY ProgramFacts DEF MatchInv, ProgramInv, ControlInv

LEMMA CallIsTyped ==
  ASSUME MatchInv, NEW p \in Procs, pc[p] # "idle", Call(p).routine = "PointToPoint"
  PROVE  /\ \A ops : Op(p) \in ops => Makes(p, round[p], ops)
         /\ round[p] \in DOMAIN program
         /\ Arg(p).dest \in Int /\ Arg(p).stag \in Int /\ Arg(p).source \in Int /\ Arg(p).rtag \in Int
         /\ Arg(p).handle \in HandleVars
         /\ \A side \in Arrays : /\ Section(p, side).size \in 0..NumCells
                                 /\ Count(p, side) \in Nat /\ Dense(MpiType(p, side))
<1>1. round[p] \in DOMAIN program /\ program \in Programs
  BY ControlFacts
<1>2. /\ {Arg(p).dest, Arg(p).stag, Arg(p).source, Arg(p).rtag} \subseteq Int
      /\ Arg(p).handle \in HandleVars
      /\ Arg(p).in.size <= NumCells /\ Arg(p).out.size <= NumCells
  BY <1>1, ArgumentsAssumption DEF Arg, Call
<1>3. /\ Arg(p).in.size \in Nat /\ Arg(p).out.size \in Nat
      /\ Arg(p).scount \in Nat /\ Arg(p).rcount \in Nat
  BY <1>1, ProgramsAssumption DEF Arg, Call
<1>4. Dense(TypeMap[Arg(p).stype]) /\ Dense(TypeMap[Arg(p).rtype])
  BY <1>1, TypesAssumption DEF Arg, Call
<1>5. \A ops : Op(p) \in ops => Makes(p, round[p], ops)
  BY <1>1 DEF Makes, Op, Arg, Call
<1>6. \A side \in Arrays : /\ Section(p, side).size \in 0..NumCells
                           /\ Count(p, side) \in Nat /\ Dense(MpiType(p, side))
  <2>1. NumCells \in Nat
    BY CollectivesAssumption
  <2> QED
    BY <1>2, <1>3, <1>4, <2>1 DEF Section, Count, MpiType, Arrays
<1> QED
  BY <1>1, <1>2, <1>5, <1>6
-----------------------------------------------------------------------------
(* The shapes of a call. *)

\* The library answers the call, or keeps the process.
Moves(p, then, code) ==
  /\ pc[p] = "called" /\ Call(p).routine = "PointToPoint"
  /\ pc' = [pc EXCEPT ![p] = then] /\ then \in {"inside", "finished"}
  /\ rc' = [rc EXCEPT ![p] = code]

\* The program has an envelope for what the library may probe for.
Accepted(prog, p, k) ==
  LET a == prog[k].arg[p]
      source == C_MPI_PROC_NULL_DETECTOR(a.source)
  IN  source = MPI_PROC_NULL \/ ReceiveCode(source, a.rtag) = "MPI_SUCCESS"

\* The library refuses the call; a refused Mprobe leaves any value in the handle.
Refuses(p) ==
  /\ \E code : code # "MPI_SUCCESS" /\ Moves(p, "finished", code)
  /\ UNCHANGED <<msgs, recvs, held, status, got>>
  /\ position' = IF Op(p) \in Copying THEN [position EXCEPT ![p] = StartAt(p)] ELSE position
  /\ \/ Op(p) # "Mprobe" /\ message' = message
     \/ /\ Op(p) = "Mprobe" /\ ~Accepted(program, p, round[p])
        /\ \E id \in LibraryHandles : message' = [message EXCEPT ![p][Arg(p).handle] = id]

\* The call posts a send, a receive or both.
Posts(p, receives, out, wants, then) ==
  /\ Moves(p, then, "MPI_SUCCESS")
  /\ msgs' = msgs \/ \E m : Envelope(m) /\ msgs' = msgs \cup {m}
  /\ recvs' = IF receives THEN recvs \cup {NewReceive(p, out, {}, wants)} ELSE recvs
  /\ UNCHANGED <<held, message, status, position, got>>

Sends(p) ==
  /\ Op(p) \notin Selecting \cup Matched \cup Copying \cup {"Mprobe"}
  /\ \E out, wants, then : Posts(p, FALSE, out, wants, then)
Receives(p) ==
  /\ Op(p) \in Selecting
  /\ \E out, wants, then :
       /\ Posts(p, TRUE, out, wants, then)
       /\ Op(p) \in Blocking => wants = Arg(p).status /\ then = "inside"

\* The call packs or unpacks, and the position moves on by what it copies.
Copies(p) ==
  /\ Op(p) \in Copying /\ Moves(p, "finished", "MPI_SUCCESS")
  /\ \E m, n : /\ n \in Nat /\ Cardinality(DOMAIN m.sent) = n /\ StartAt(p) + n \in 0..NumCells
              /\ got' = [got EXCEPT ![p][round[p]] = m]
              /\ position' = [position EXCEPT ![p] = StartAt(p) + n]
  /\ UNCHANGED <<msgs, recvs, held, message, status>>

\* The call is answered at once and no message is taken: Probe, or a call for
\* the null process.
Answers(p) ==
  /\ Moves(p, "finished", "MPI_SUCCESS")
  /\ \/ Op(p) \in Matched \cup {"Probe"} /\ message' = message
     \/ Op(p) = "Mprobe" /\ message' = [message EXCEPT ![p][Arg(p).handle] = MPI_MESSAGE_NO_PROC]
  /\ status' = status \/ \E s \in Statuses : status' = [status EXCEPT ![p] = s]
  /\ UNCHANGED <<msgs, recvs, held, position, got>>

\* Mprobe takes a message.
Takes(p) ==
  /\ Op(p) = "Mprobe" /\ Moves(p, "finished", "MPI_SUCCESS")
  /\ \E m \in msgs : \E id \in MessageIds :
       /\ Accepts(C_MPI_PROC_NULL_DETECTOR(Arg(p).source), Arg(p).rtag, m)
       /\ \A h \in held[p] : h.id # id
       /\ msgs' = msgs \ {m}
       /\ held' = [held EXCEPT ![p] = @ \cup {[id |-> id, msg |-> m]}]
       /\ message' = [message EXCEPT ![p][Arg(p).handle] = id]
       /\ status' = IF Arg(p).status THEN [status EXCEPT ![p] = [source |-> m.src, tag |-> m.tag]]
                    ELSE status
       /\ got' = [got EXCEPT ![p][round[p]] = m]
       /\ UNCHANGED <<recvs, position>>

\* Mrecv or Imrecv collects a message that was taken.
Collects(p) ==
  /\ Op(p) \in Matched
  /\ \E h \in held[p] : \E out, wants, then :
       /\ Moves(p, then, "MPI_SUCCESS")
       /\ Op(p) \in Blocking => wants = Arg(p).status /\ then = "inside"
       /\ h.id = Message(p)
       /\ held' = [held EXCEPT ![p] = @ \ {h}]
       /\ recvs' = recvs \cup {NewReceive(p, out, {h.msg}, wants)}
       /\ UNCHANGED <<msgs, message, status, position, got>>

\* What the program, the wrapper or a collective does.
Outer(p) ==
  /\ UNCHANGED p2p_vars
  /\ \/ UNCHANGED <<pc, round, rc>>
     \/ \E code : /\ rc' = rc \/ rc' = [rc EXCEPT ![p] = code]
                  /\ \/ pc'[p] = "idle" \/ pc'[p] = "called"
                     \/ Call(p).routine # "PointToPoint" /\ round' = round

Shape(p) ==
  \/ Outer(p) \/ Refuses(p) \/ Sends(p) \/ Receives(p) \/ Copies(p) \/ Answers(p) \/ Takes(p)
  \/ Collects(p)

LEMMA PostShape ==
  ASSUME EnvelopeTypes, NEW p \in Procs, Call(p).routine = "PointToPoint",
         Op(p) # "Mprobe", Op(p) \notin Copying, NEW sends \in BOOLEAN, NEW in, NEW receives \in BOOLEAN, NEW out, NEW wants,
         NEW then \in {"inside", "finished"}, Post(p, sends, in, receives, out, wants, then)
  PROVE  Refuses(p) \/ Posts(p, receives, out, wants, then)
<1> DEFINE code == Refusal(p, sends, receives)
<1>1. pc[p] = "called" /\ UNCHANGED <<held, message, status, position, got>>
  BY DEF Post
<1>2. CASE code # "MPI_SUCCESS"
  <2>1. Moves(p, "finished", code) /\ UNCHANGED <<msgs, recvs>>
    BY <1>2 DEF Post, Moves
  <2> QED
    BY <1>1, <1>2, <2>1 DEF Refuses
<1>3. CASE code = "MPI_SUCCESS"
  <2>1. Moves(p, then, "MPI_SUCCESS")
    BY <1>3 DEF Post, Moves
  <2>2. recvs' = IF receives THEN recvs \cup {NewReceive(p, out, {}, wants)} ELSE recvs
    BY <1>3 DEF Post
  <2>3. CASE ~sends
    BY <1>1, <1>3, <2>1, <2>2, <2>3 DEF Post, Posts
  <2>4. CASE sends
    <3>1. msgs' = msgs \cup {NewMessage(p, in)}
      BY <1>3, <2>4 DEF Post
    <3>2. SendCode(Arg(p).dest, Arg(p).stag) = "MPI_SUCCESS"
      BY <1>3, <2>4 DEF Refusal
    <3>3. Arg(p).dest \in Procs /\ ~(Arg(p).stag < 0)
      BY <3>2 DEF SendCode
    <3>4. Arg(p).stag \in Int /\ round[p] \in DOMAIN program
      BY <1>1, CallIsTyped DEF EnvelopeTypes
    <3>5. Envelope(NewMessage(p, in))
      BY <3>3, <3>4 DEF Envelope, NewMessage
    <3> QED
      BY <1>1, <2>1, <2>2, <3>1, <3>5 DEF Posts
  <2> QED
    BY <2>3, <2>4
<1> QED
  BY <1>2, <1>3

LEMMA EnvelopeIsStatus ==
  ASSUME NEW m, Envelope(m)
  PROVE  [source |-> m.src, tag |-> m.tag] \in Statuses
BY Ranks DEF Envelope, Statuses

LEMMA NullStatus == [source |-> NoProcMessage.src, tag |-> NoProcMessage.tag] \in Statuses
BY ConstantsAssumption DEF NoProcMessage, NoMessage, Statuses

LEMMA ReceiveShape ==
  ASSUME EnvelopeTypes, NEW p \in Procs, Call(p).routine = "PointToPoint", Op(p) \in Matched,
         NEW out, NEW wants, NEW then \in {"inside", "finished"},
         Op(p) \in Blocking => wants = Arg(p).status /\ then = "inside",
         Receive(p, out, Message(p), wants, then)
  PROVE  Refuses(p) \/ Answers(p) \/ Collects(p)
<1>1. CASE /\ Answer(p, "MPI_SUCCESS") /\ status' = Status(p, wants, NoProcMessage)
           /\ UNCHANGED <<mem, msgs, recvs, held, message, position, got>>
  <2>1. Moves(p, "finished", "MPI_SUCCESS")
    BY <1>1 DEF Answer, Moves
  <2>2. status' = status \/ \E s \in Statuses : status' = [status EXCEPT ![p] = s]
    BY <1>1, NullStatus DEF Status
  <2> QED
    BY <1>1, <2>1, <2>2 DEF Answers
<1>2. CASE Answer(p, "MPI_ERR_REQUEST") /\ UNCHANGED <<mem, p2p_vars>>
  <2>1. Moves(p, "finished", "MPI_ERR_REQUEST")
    BY <1>2 DEF Answer, Moves
  <2> QED
    BY <1>2, <2>1 DEF Refuses, p2p_vars, Matched, Copying
<1>3. ASSUME NEW h \in held[p], h.id = Message(p), pc[p] = "called",
             pc' = [pc EXCEPT ![p] = then], rc' = [rc EXCEPT ![p] = "MPI_SUCCESS"],
             held' = [held EXCEPT ![p] = @ \ {h}],
             recvs' = recvs \cup {NewReceive(p, out, {h.msg}, wants)},
             UNCHANGED <<msgs, message, status, position, got>>
      PROVE  Collects(p)
  <2>1. Moves(p, then, "MPI_SUCCESS")
    BY <1>3 DEF Moves
  <2> QED
    BY <1>3, <2>1 DEF Collects
<1> QED
  BY <1>1, <1>2, <1>3 DEF Receive

LEMMA ProbeShape ==
  ASSUME EnvelopeTypes, NEW p \in Procs, Call(p).routine = "PointToPoint", Op(p) = "Probe",
         NEW source, NEW tag, MPI_Probe(p, source, tag, FALSE)
  PROVE  Refuses(p) \/ Answers(p)
<1>1. ASSUME NEW code, code # "MPI_SUCCESS", Answer(p, code), UNCHANGED <<mem, p2p_vars>>
      PROVE  Refuses(p)
  <2>1. Moves(p, "finished", code)
    BY <1>1 DEF Answer, Moves
  <2> QED
    BY <1>1, <2>1 DEF Refuses, p2p_vars, Copying
<1>2. ASSUME NEW m, Answer(p, "MPI_SUCCESS"), status' = Status(p, FALSE, m),
             UNCHANGED <<mem, msgs, recvs, held, message, position, got>>
      PROVE  Answers(p)
  <2>1. Moves(p, "finished", "MPI_SUCCESS") /\ status' = status
    BY <1>2 DEF Answer, Moves, Status
  <2> QED
    BY <1>2, <2>1 DEF Answers
<1> QED
  BY <1>1, <1>2 DEF MPI_Probe

LEMMA MprobeShape ==
  ASSUME EnvelopeTypes, NEW p \in Procs, Call(p).routine = "PointToPoint", Op(p) = "Mprobe",
         MPI_Mprobe(p, C_MPI_PROC_NULL_DETECTOR(Arg(p).source), Arg(p).rtag, Arg(p).status,
                    Arg(p).handle)
  PROVE  Refuses(p) \/ Answers(p) \/ Takes(p)
<1> DEFINE source == C_MPI_PROC_NULL_DETECTOR(Arg(p).source)
           tag == Arg(p).rtag
           handle == Arg(p).handle
<1>1. ASSUME source # MPI_PROC_NULL, ReceiveCode(source, tag) # "MPI_SUCCESS",
             Answer(p, ReceiveCode(source, tag)),
             \E id \in MessageIds \cup {MPI_MESSAGE_NULL} : message' = [message EXCEPT ![p][handle] = id],
             UNCHANGED <<mem, msgs, recvs, held, status, position, got>>
      PROVE  Refuses(p)
  <2>1. Moves(p, "finished", ReceiveCode(source, tag))
    BY <1>1 DEF Answer, Moves
  <2>2. ~Accepted(program, p, round[p])
    BY <1>1 DEF Accepted, Arg, Call
  <2>3. \E id \in LibraryHandles : message' = [message EXCEPT ![p][handle] = id]
    BY <1>1 DEF LibraryHandles
  <2> QED
    BY <1>1, <2>1, <2>2, <2>3 DEF Refuses, Copying
<1>2. ASSUME Answer(p, "MPI_SUCCESS"), status' = Status(p, Arg(p).status, NoProcMessage),
             message' = [message EXCEPT ![p][handle] = MPI_MESSAGE_NO_PROC],
             UNCHANGED <<mem, msgs, recvs, held, position, got>>
      PROVE  Answers(p)
  <2>1. Moves(p, "finished", "MPI_SUCCESS")
    BY <1>2 DEF Answer, Moves
  <2>2. status' = status \/ \E s \in Statuses : status' = [status EXCEPT ![p] = s]
    BY <1>2, NullStatus DEF Status
  <2> QED
    BY <1>2, <2>1, <2>2 DEF Answers
<1>3. ASSUME NEW m \in Candidates(p, source, tag), NEW id \in MessageIds,
             \A h \in held[p] : h.id # id, Answer(p, "MPI_SUCCESS"),
             msgs' = msgs \ {m}, held' = [held EXCEPT ![p] = @ \cup {[id |-> id, msg |-> m]}],
             message' = [message EXCEPT ![p][handle] = id], status' = Status(p, Arg(p).status, m),
             got' = [got EXCEPT ![p][round[p]] = m], UNCHANGED <<mem, recvs, position>>
      PROVE  Takes(p)
  <2>1. Moves(p, "finished", "MPI_SUCCESS")
    BY <1>3 DEF Answer, Moves
  <2>2. m \in msgs /\ Accepts(source, tag, m)
    BY DEF Candidates
  <2> QED
    BY <1>3, <2>1, <2>2 DEF Takes, Status
<1> QED
  BY <1>1, <1>2, <1>3 DEF MPI_Mprobe

LEMMA CopyShape ==
  ASSUME EnvelopeTypes, NEW p \in Procs, Call(p).routine = "PointToPoint", Op(p) \in Copying,
         NEW addr, NEW cell, NEW data, NEW sent, NEW room \in 0..NumCells, NEW n \in Nat,
         Cardinality(DOMAIN sent) = n, Copy(p, addr, cell, data, sent, room, n)
  PROVE  Refuses(p) \/ Copies(p)
<1>0. position \in [Procs -> 0..NumCells] /\ NumCells \in Nat
  BY CollectivesAssumption DEF EnvelopeTypes, SeenInv
<1>1. StartAt(p) \in 0..NumCells
  BY <1>0 DEF StartAt
<1>2. CASE StartAt(p) + n > room
  <2>1. Answer(p, "MPI_ERR_ARG") /\ position' = [position EXCEPT ![p] = StartAt(p)]
        /\ UNCHANGED <<msgs, recvs, held, message, status, got>>
    BY <1>2 DEF Copy
  <2>2. Moves(p, "finished", "MPI_ERR_ARG")
    BY <2>1 DEF Answer, Moves
  <2> QED
    BY <2>1, <2>2 DEF Refuses, Copying
<1>3. CASE ~(StartAt(p) + n > room)
  <2>1. /\ Answer(p, "MPI_SUCCESS") /\ position' = [position EXCEPT ![p] = StartAt(p) + n]
        /\ got' = [got EXCEPT ![p][round[p]] =
                     [NoMessage EXCEPT !.src = p, !.round = round[p], !.data = data, !.sent = sent]]
        /\ UNCHANGED <<msgs, recvs, held, message, status>>
    BY <1>3 DEF Copy, CopiedBack
  <2>2. Moves(p, "finished", "MPI_SUCCESS")
    BY <2>1 DEF Answer, Moves
  <2>3. StartAt(p) + n \in 0..NumCells
    BY <1>0, <1>1, <1>3
  <2>4. PICK m : m = [NoMessage EXCEPT !.src = p, !.round = round[p], !.data = data, !.sent = sent]
    OBVIOUS
  <2>5. m.sent = sent
    BY <2>4 DEF NoMessage
  <2> QED
    BY <2>1, <2>2, <2>3, <2>4, <2>5 DEF Copies
<1> QED
  BY <1>2, <1>3

LEMMA BadPackBufferShape ==
  ASSUME NEW p \in Procs, Call(p).routine = "PointToPoint", Op(p) \in Copying,
         BadPackBuffer(p)
  PROVE  Refuses(p)
<1>1. Moves(p, "finished", "MPI_ERR_ARG")
  BY DEF BadPackBuffer, Answer, Moves
<1> QED
  BY <1>1 DEF BadPackBuffer, Refuses, Copying

LEMMA ReturnIsOuter ==
  ASSUME MatchInv, NEW p \in Procs, NEW frees, Return(p, frees), UNCHANGED p2p_vars
  PROVE  Outer(p)
<1>1. pc'[p] = "idle"
  BY ControlFacts DEF Return
<1>2. rc' = [rc EXCEPT ![p] = C_MPI_RC_FIX(@)]
  BY DEF Return
<1> QED
  BY <1>1, <1>2 DEF Outer

LEMMA MakeTypeIsOuter ==
  ASSUME NEW p \in Procs, NEW side, MakeType(p, side), UNCHANGED p2p_vars
  PROVE  Outer(p)
BY DEF MakeType, Abort, Outer

\* A step that makes a datatype.
LEMMA OuterTypes ==
  ASSUME NEW p \in Procs, NEW side, CreateType(p, side) /\ UNCHANGED p2p_vars
  PROVE  Shape(p)
BY MakeTypeIsOuter DEF CreateType, Shape

LEMMA SendShape ==
  ASSUME EnvelopeTypes, NEW p \in Procs, Call(p).routine = "PointToPoint",
         \/ Op(p) = "Send" /\ MPI_Send(p)
         \/ Op(p) = "Isend" /\ MPI_Isend(p)
         \/ Op(p) = "Wait" /\ Post(p, FALSE, NoBlocks, FALSE, NoBlocks, FALSE, "inside")
  PROVE  Shape(p)
<1>1. /\ Op(p) \notin Selecting \cup Matched \cup Copying \cup {"Mprobe"}
      /\ \E sends \in BOOLEAN, then \in {"inside", "finished"} : \E in, out, wants :
           Post(p, sends, in, FALSE, out, wants, then)
  BY DEF MPI_Send, MPI_Isend, Selecting, Matched, Copying
<1>2. PICK sends \in BOOLEAN, then \in {"inside", "finished"} : \E in, out, wants :
        Post(p, sends, in, FALSE, out, wants, then)
  BY <1>1
<1>3. PICK in, out, wants : Post(p, sends, in, FALSE, out, wants, then)
  BY <1>2
<1>4. Op(p) # "Mprobe" /\ Op(p) \notin Copying /\ FALSE \in BOOLEAN
  BY <1>1
<1>5. Refuses(p) \/ Posts(p, FALSE, out, wants, then)
  BY <1>3, <1>4, PostShape, Zenon
<1> QED
  BY <1>1, <1>5 DEF Shape, Sends

LEMMA SelectingShape ==
  ASSUME EnvelopeTypes, NEW p \in Procs, Call(p).routine = "PointToPoint",
         \/ Op(p) = "Recv" /\ MPI_Recv(p)
         \/ Op(p) = "Irecv" /\ MPI_Irecv(p)
         \/ Op(p) = "Sendrecv" /\ \E in, out : MPI_Sendrecv(p, in, out)
  PROVE  Shape(p)
<1>1. /\ Op(p) \in Selecting /\ Op(p) # "Mprobe" /\ Op(p) \notin Copying
      /\ \E sends \in BOOLEAN, then \in {"inside", "finished"} : \E in, out, wants :
           /\ Post(p, sends, in, TRUE, out, wants, then)
           /\ Op(p) \in Blocking => wants = Arg(p).status /\ then = "inside"
  BY DEF MPI_Recv, MPI_Irecv, MPI_Sendrecv, Selecting, Blocking, Copying, StatusArgument
<1> QED
  BY <1>1, PostShape DEF Shape, Receives

LEMMA MatchedShape ==
  ASSUME EnvelopeTypes, NEW p \in Procs, Call(p).routine = "PointToPoint",
         \/ Op(p) = "Mrecv" /\ MPI_Mrecv(p, Message(p))
         \/ Op(p) = "Imrecv" /\ MPI_Imrecv(p, Message(p))
  PROVE  Shape(p)
<1>1. /\ Op(p) \in Matched
      /\ \E then \in {"inside", "finished"} : \E out, wants :
           /\ Receive(p, out, Message(p), wants, then)
           /\ Op(p) \in Blocking => wants = Arg(p).status /\ then = "inside"
  BY DEF MPI_Mrecv, MPI_Imrecv, Matched, Blocking, StatusArgument
<1> QED
  BY <1>1, ReceiveShape DEF Shape

LEMMA PackShape ==
  ASSUME EnvelopeTypes, NEW p \in Procs, Call(p).routine = "PointToPoint", pc[p] # "idle",
         \/ Op(p) = "Pack" /\ (~HaveCFI \/ ~NeedsType(p, "in")) /\ MPI_Pack(p, Passed(p, "in"))
         \/ Op(p) = "Unpack" /\ (~HaveCFI \/ ~NeedsType(p, "out")) /\ MPI_Unpack(p, Passed(p, "out"))
  PROVE  Shape(p)
<1>0. "in" \in Arrays /\ "out" \in Arrays
  BY DEF Arrays
<1>1. Section(p, "in").size \in 0..NumCells /\ Section(p, "out").size \in 0..NumCells
  BY <1>0, CallIsTyped DEF EnvelopeTypes
<1>2. ASSUME NEW side \in Arrays, ~HaveCFI \/ ~NeedsType(p, side)
      PROVE  /\ NumElements(p, side) \in Nat
             /\ Passed(p, side).count[0] * Size(Passed(p, side).type) = NumElements(p, side)
  BY <1>2, PassedSize DEF EnvelopeTypes
<1>3. ASSUME NEW n \in Nat, NEW buf, NEW first PROVE Cardinality(DOMAIN Elements(p, buf, first, n)) = n
  <2>1. DOMAIN Elements(p, buf, first, n) = 0..n-1
    BY DEF Elements
  <2> QED
    BY <2>1, NumbersBelow
<1>4. /\ Op(p) \in Copying
      /\ \E room \in 0..NumCells, n \in Nat : \E addr, cell, data, sent :
           Cardinality(DOMAIN sent) = n /\ Copy(p, addr, cell, data, sent, room, n)
  <2>1. CASE Op(p) = "Pack"
    <3>1. (~HaveCFI \/ ~NeedsType(p, "in")) /\ MPI_Pack(p, Passed(p, "in"))
      BY <2>1
    <3>2. \E addr, cell, data : Copy(p, addr, cell, data,
            Elements(p, Section(p, "in"), 0, NumElements(p, "in")), Section(p, "out").size,
            NumElements(p, "in"))
      BY <1>0, <1>2, <3>1, Zenon DEF MPI_Pack
    <3> QED
      BY <1>0, <1>1, <1>2, <1>3, <2>1, <3>1, <3>2, Zenon DEF Copying
  <2>2. CASE Op(p) # "Pack"
    <3>1. (~HaveCFI \/ ~NeedsType(p, "out")) /\ MPI_Unpack(p, Passed(p, "out")) /\ Op(p) = "Unpack"
      BY <2>2
    <3>2. \E addr, cell, data : Copy(p, addr, cell, data,
            Elements(p, Section(p, "in"), StartAt(p), NumElements(p, "out")), Section(p, "in").size,
            NumElements(p, "out"))
      BY <1>0, <1>2, <3>1, Zenon DEF MPI_Unpack
    <3> QED
      BY <1>0, <1>1, <1>2, <1>3, <3>1, <3>2, Zenon DEF Copying
  <2> QED
    BY <2>1, <2>2
<1> QED
  BY <1>4, CopyShape DEF Shape

LEMMA P2PWrapperShape ==
  ASSUME EnvelopeTypes, NEW p \in Procs, P2PWrapper(p)
  PROVE  Steps(p) /\ Shape(p)
<1>0. Steps(p)
  BY P2PWrapperStep DEF Steps
<1> SUFFICES Shape(p)
  BY <1>0
<1>1. MatchInv /\ \A frees : P2PReturn(p, frees) => Shape(p)
  BY ReturnIsOuter DEF P2PReturn, Shape, EnvelopeTypes
<1>2. CASE C_MPI_Probe(p)
  <2>1. /\ Call(p).routine = "PointToPoint" /\ Op(p) = "Probe"
        /\ P2PReturn(p, {}) \/ \E source, tag : MPI_Probe(p, source, tag, FALSE)
    BY <1>2 DEF C_MPI_Probe, P2PAt, At
  <2> QED
    BY <1>1, <2>1, ProbeShape, Zenon DEF Shape
<1>8. CASE C_MPI_Mprobe(p)
  <2>1. /\ Call(p).routine = "PointToPoint" /\ Op(p) = "Mprobe"
        /\ \/ P2PReturn(p, {})
           \/ MPI_Mprobe(p, C_MPI_PROC_NULL_DETECTOR(Arg(p).source), Arg(p).rtag, Arg(p).status,
                         Arg(p).handle)
    BY <1>8 DEF C_MPI_Mprobe, P2PAt, At, StatusArgument
  <2> QED
    BY <1>1, <2>1, MprobeShape, Zenon DEF Shape
<1>3. CASE \/ C_MPI_Send(p) \/ CFI_MPI_Send(p) \/ C_MPI_Isend(p) \/ CFI_MPI_Isend(p) \/ Waitall(p)
  BY <1>1, <1>3, SendShape, OuterTypes, Zenon
     DEF C_MPI_Send, CFI_MPI_Send, C_MPI_Isend, CFI_MPI_Isend, Waitall, P2PAt, At, WithType
<1>4. CASE \/ C_MPI_Recv(p) \/ CFI_MPI_Recv(p) \/ C_MPI_Irecv(p) \/ CFI_MPI_Irecv(p)
  BY <1>1, <1>4, SelectingShape, OuterTypes, Zenon
     DEF C_MPI_Recv, CFI_MPI_Recv, C_MPI_Irecv, CFI_MPI_Irecv, P2PAt, At, WithType
<1>5. CASE \/ C_MPI_Mrecv(p) \/ CFI_MPI_Mrecv(p) \/ C_MPI_Imrecv(p) \/ CFI_MPI_Imrecv(p)
  BY <1>1, <1>5, MatchedShape, OuterTypes, Zenon
     DEF C_MPI_Mrecv, CFI_MPI_Mrecv, C_MPI_Imrecv, CFI_MPI_Imrecv, P2PAt, At, WithType
<1>6. CASE C_MPI_Sendrecv(p) \/ CFI_MPI_Sendrecv(p)
  <2>1. Call(p).routine = "PointToPoint" /\ Op(p) = "Sendrecv"
    BY <1>6 DEF C_MPI_Sendrecv, CFI_MPI_Sendrecv, P2PAt, At
  <2>2. (\E in, out : MPI_Sendrecv(p, in, out)) => Shape(p)
    BY <2>1, SelectingShape, Zenon
  <2>3. \A side : MakeType(p, side) /\ UNCHANGED p2p_vars => Shape(p)
    BY MakeTypeIsOuter DEF Shape
  <2> QED
    BY <1>1, <1>6, <2>2, <2>3, Zenon DEF C_MPI_Sendrecv, CFI_MPI_Sendrecv
<1>7. CASE C_MPI_Pack(p) \/ CFI_MPI_Pack(p) \/ C_MPI_Unpack(p) \/ CFI_MPI_Unpack(p)
  <2>1. Call(p).routine = "PointToPoint" /\ pc[p] # "idle" /\ Op(p) \in Copying
    BY <1>7 DEF C_MPI_Pack, CFI_MPI_Pack, C_MPI_Unpack, CFI_MPI_Unpack, P2PAt, At, Copying
  <2>2. BadPackBuffer(p) => Shape(p)
    BY <2>1, BadPackBufferShape DEF Shape
  <2> QED
    BY <1>1, <1>7, <2>1, <2>2, PackShape, OuterTypes, Zenon
       DEF C_MPI_Pack, CFI_MPI_Pack, C_MPI_Unpack, CFI_MPI_Unpack, P2PAt, At, Arrays, WithType
<1> QED
  BY <1>8, <1>2, <1>3, <1>4, <1>5, <1>6, <1>7 DEF P2PWrapper

LEMMA CollectiveShape ==
  ASSUME EnvelopeTypes, NEW p \in Procs, CollectiveStep(p)
  PROVE  Steps(p) /\ Shape(p)
<1>1. Steps(p)
  BY WrapperStep DEF CollectiveStep, LeaveCollective, Steps
<1>2. UNCHANGED p2p_vars
  BY DEF CollectiveStep
<1>3. CASE Start(p)
  <2>1. pc'[p] = "called" /\ rc' = rc
    BY <1>3, ControlFacts DEF Start, EnvelopeTypes
  <2> QED
    BY <1>1, <1>2, <2>1 DEF Shape, Outer
<1>4. CASE LeaveCollective(p)
  <2>1. /\ Call(p).routine # "PointToPoint"
        /\ rc' = [rc EXCEPT ![p] = "MPI_SUCCESS"] /\ round' = round
    BY <1>4, Zenon DEF LeaveCollective, Leave
  <2> QED
    BY <1>1, <1>2, <2>1 DEF Shape, Outer
<1>5. CASE Wrapper(p)
  <2>1. \/ EnterStep(p) \/ RejectStep(p) \/ AbortStep(p) \/ CreateStep(p) \/ ReturnStep(p)
    BY <1>5, WrapperStep
  <2>2. CASE ReturnStep(p)
    BY <1>1, <1>2, <2>2, ReturnIsOuter DEF EnvelopeTypes, Shape, ReturnStep
  <2>3. CASE AbortStep(p) \/ CreateStep(p)
    BY <1>1, <1>2, <2>3 DEF AbortStep, Abort, CreateStep, Shape, Outer
  <2>4. CASE RejectStep(p)
    <3>1. /\ Call(p).routine # "PointToPoint"
          /\ rc' = [rc EXCEPT ![p] = "MPI_ERR_OP"] /\ round' = round
      BY <2>4 DEF RejectStep, Reject, Reductions
    <3> QED
      BY <1>1, <1>2, <3>1 DEF Shape, Outer
  <2>5. CASE EnterStep(p)
    <3>1. PICK in, out : Enter(p, in, out)
      BY <2>5 DEF EnterStep
    <3>2. rc' = rc \/ rc' = [rc EXCEPT ![p] = "MPI_ERR_ROOT"]
      BY <3>1, Zenon DEF Enter
    <3>3. Call(p).routine # "PointToPoint" /\ round' = round
      BY <2>5, EnterEffect DEF EnterStep
    <3> QED
      BY <1>1, <1>2, <3>2, <3>3 DEF Shape, Outer
  <2> QED
    BY <2>1, <2>2, <2>3, <2>4, <2>5
<1> QED
  BY <1>3, <1>4, <1>5 DEF CollectiveStep
-----------------------------------------------------------------------------
(* Types. *)

LEMMA InitEnvelopeTypes == ASSUME P2PInit PROVE EnvelopeTypes
<1>1. MatchInv /\ BuildInv /\ TempInv
  BY InitControl
<1>2. KeptInv
  BY DEF P2PInit, KeptInv
<1>3. SeenInv
  <2>1. NumCells \in Nat
    BY CollectivesAssumption
  <2>2. MPI_PROC_NULL \in Int /\ MPI_ANY_TAG \in Int
    BY ConstantsAssumption
  <2> QED
    BY <2>1, <2>2 DEF P2PInit, Init, SeenInv, Statuses
<1> QED
  BY <1>1, <1>2, <1>3 DEF EnvelopeTypes

LEMMA SeenStep ==
  ASSUME EnvelopeTypes, NEW p \in Procs, Shape(p)
  PROVE  SeenInv'
<1>0. KeptInv /\ SeenInv
  BY DEF EnvelopeTypes
<1>1. CASE Outer(p)
  BY <1>0, <1>1 DEF Outer, p2p_vars, SeenInv
<1>2. CASE Refuses(p)
  <2>0. NumCells \in Nat
    BY CollectivesAssumption
  <2>1. DOMAIN rc' = Procs /\ status' = status /\ position' \in [Procs -> 0..NumCells]
    BY <1>0, <1>2, <2>0 DEF Refuses, Moves, SeenInv, StartAt
  <2>2. message' = message \/ \E v : \E id \in LibraryHandles : message' = [message EXCEPT ![p][v] = id]
    BY <1>2 DEF Refuses
  <2>3. message' \in [Procs -> [HandleVars -> LibraryHandles \cup {VAPAA_MPI_MESSAGE_NULL}]]
    <3>1. CASE message' = message
      BY <1>0, <3>1 DEF SeenInv
    <3>2. ASSUME NEW v, NEW id \in LibraryHandles, message' = [message EXCEPT ![p][v] = id]
          PROVE  message' \in [Procs -> [HandleVars -> LibraryHandles \cup {VAPAA_MPI_MESSAGE_NULL}]]
      BY <1>0, <3>2 DEF SeenInv
    <3> QED
      BY <2>2, <3>1, <3>2
  <2> QED
    BY <1>0, <2>1, <2>3 DEF SeenInv
<1>3. CASE Sends(p) \/ Receives(p)
  BY <1>0, <1>3 DEF Sends, Receives, Posts, Moves, SeenInv
<1>4. CASE Copies(p)
  BY <1>0, <1>4 DEF Copies, Moves, SeenInv
<1>5. CASE Answers(p)
  BY <1>0, <1>5 DEF Answers, Moves, SeenInv, LibraryHandles
<1>6. CASE Takes(p)
  <2>1. PICK m \in msgs, id \in MessageIds :
          /\ message' = [message EXCEPT ![p][Arg(p).handle] = id]
          /\ status' = IF Arg(p).status THEN [status EXCEPT ![p] = [source |-> m.src, tag |-> m.tag]]
                       ELSE status
          /\ position' = position
    BY <1>6 DEF Takes
  <2>2. [source |-> m.src, tag |-> m.tag] \in Statuses
    BY <1>0, EnvelopeIsStatus DEF KeptInv
  <2>3. status' \in [Procs -> Statuses]
    BY <1>0, <2>1, <2>2 DEF SeenInv
  <2>4. message' \in [Procs -> [HandleVars -> LibraryHandles \cup {VAPAA_MPI_MESSAGE_NULL}]]
    BY <1>0, <2>1 DEF SeenInv, LibraryHandles
  <2> QED
    BY <1>0, <1>6, <2>1, <2>3, <2>4 DEF Takes, Moves, SeenInv
<1>7. CASE Collects(p)
  BY <1>0, <1>7 DEF Collects, Moves, SeenInv
<1> QED
  BY <1>1, <1>2, <1>3, <1>4, <1>5, <1>6, <1>7 DEF Shape

\* A receive, and what the library keeps, while nothing new is posted.
LEMMA ReceiveStays ==
  ASSUME EnvelopeTypes, ControlKept, NEW r \in recvs
  PROVE  IsReceive(r)'
<1>1. IsReceive(r)
  BY DEF EnvelopeTypes, KeptInv
<1>2. r.round \in Int
  BY <1>1, ControlFacts DEF EnvelopeTypes, IsReceive, Makes
<1> QED
  BY <1>1, <1>2 DEF ControlKept, IsReceive, Envelope, Makes

LEMMA KeptStays ==
  ASSUME EnvelopeTypes, ControlKept, \A m \in msgs' : Envelope(m), recvs' \subseteq recvs,
         DOMAIN held' = Procs, \A q \in Procs : held'[q] \subseteq held[q]
  PROVE  KeptInv'
BY ReceiveStays DEF EnvelopeTypes, ControlKept, KeptInv, Envelope

\* A process posts a receive.
LEMMA KeptPost ==
  ASSUME EnvelopeTypes, ControlKept, NEW p \in Procs, NEW then, Moves(p, then, "MPI_SUCCESS"),
         Op(p) \in Selecting \cup Matched, NEW out, NEW wants, NEW taken,
         \A m \in taken : Envelope(m), recvs' = recvs \cup {NewReceive(p, out, taken, wants)},
         round' = round, \A m \in msgs' : Envelope(m),
         DOMAIN held' = Procs, \A q \in Procs : held'[q] \subseteq held[q]
  PROVE  KeptInv'
<1>0. PICK r : r = NewReceive(p, out, taken, wants)
  OBVIOUS
<1>1. pc[p] = "called" /\ Makes(p, round[p], Selecting \cup Matched)
  BY CallIsTyped DEF Moves, EnvelopeTypes
<1>2. pc'[p] \in {"inside", "finished"}
  BY ControlFacts DEF Moves, EnvelopeTypes
<1>3. IsReceive(r)'
  BY <1>0, <1>1, <1>2 DEF ControlKept, NewReceive, IsReceive, Envelope, Makes, Called
<1>4. \A s \in recvs : ~(s.proc = p /\ s.round = round[p])
  <2>1. ~Called(p, round[p])
    BY <1>1, ControlFacts DEF Called, EnvelopeTypes
  <2> QED
    BY <2>1 DEF EnvelopeTypes, KeptInv, IsReceive
<1>5. r.proc = p /\ r.round = round[p]
  BY <1>0 DEF NewReceive
<1>6. recvs' = recvs \cup {r}
  BY <1>0
<1>7. \A s \in recvs' : IsReceive(s)'
  BY <1>3, <1>6, ReceiveStays
<1>8. \A s, t \in recvs' : s.proc = t.proc /\ s.round = t.round => s = t
  BY <1>4, <1>5, <1>6 DEF EnvelopeTypes, KeptInv
<1> QED
  BY <1>7, <1>8 DEF EnvelopeTypes, ControlKept, KeptInv, Envelope

LEMMA KeptShape ==
  ASSUME EnvelopeTypes, ControlKept, NEW p \in Procs, Steps(p), Shape(p)
  PROVE  KeptInv'
<1>0. /\ DOMAIN held = Procs /\ \A m \in msgs : Envelope(m)
      /\ \A h \in held[p] : h.id \in MessageIds /\ Envelope(h.msg)
  BY DEF EnvelopeTypes, KeptInv
<1>1. ASSUME NEW then, NEW code, Moves(p, then, code) PROVE round' = round
  BY <1>1, StepControl, ControlFacts DEF Moves, EnvelopeTypes, ReturnStep, Return, CreateStep
<1>2. CASE Outer(p) \/ Refuses(p) \/ Copies(p) \/ Answers(p)
  <2>1. UNCHANGED <<msgs, recvs, held>>
    BY <1>2 DEF Outer, Refuses, Copies, Answers, p2p_vars
  <2> QED
    BY <1>0, <2>1, KeptStays
<1>3. CASE Sends(p)
  <2>1. recvs' = recvs /\ held' = held /\ \A m \in msgs' : Envelope(m)
    BY <1>0, <1>3 DEF Sends, Posts
  <2> QED
    BY <1>0, <2>1, KeptStays
<1>4. CASE Receives(p)
  <2>1. PICK out, wants, then : Posts(p, TRUE, out, wants, then)
    BY <1>4 DEF Receives
  <2>2. /\ recvs' = recvs \cup {NewReceive(p, out, {}, wants)}
        /\ held' = held /\ \A m \in msgs' : Envelope(m)
        /\ Moves(p, then, "MPI_SUCCESS")
    BY <1>0, <2>1 DEF Posts
  <2> QED
    BY <1>0, <1>1, <1>4, <2>2, KeptPost DEF Receives
<1>5. CASE Takes(p)
  <2>1. PICK m \in msgs, id \in MessageIds :
          /\ \A h \in held[p] : h.id # id
          /\ msgs' = msgs \ {m} /\ recvs' = recvs
          /\ held' = [held EXCEPT ![p] = @ \cup {[id |-> id, msg |-> m]}]
    BY <1>5 DEF Takes
  <2>2. \A q \in Procs : held'[q] = IF q = p THEN held[p] \cup {[id |-> id, msg |-> m]} ELSE held[q]
    BY <1>0, <2>1
  <2>3. /\ DOMAIN held' = Procs
        /\ \A q \in Procs : \A h \in held'[q] : h.id \in MessageIds /\ Envelope(h.msg)
        /\ \A q \in Procs : \A h, k \in held'[q] : h.id = k.id => h = k
    BY <1>0, <2>1, <2>2 DEF EnvelopeTypes, KeptInv
  <2>4. \A m2 \in msgs' : Envelope(m2)
    BY <1>0, <2>1
  <2>5. \A r \in recvs' : IsReceive(r)'
    BY <2>1, ReceiveStays
  <2>6. \A r, s \in recvs' : r.proc = s.proc /\ r.round = s.round => r = s
    BY <2>1 DEF EnvelopeTypes, KeptInv
  <2> QED
    BY <2>3, <2>4, <2>5, <2>6 DEF ControlKept, KeptInv, Envelope
<1>6. CASE Collects(p)
  <2>1. PICK h \in held[p] : \E out, wants, then :
          /\ Moves(p, then, "MPI_SUCCESS")
          /\ held' = [held EXCEPT ![p] = @ \ {h}]
          /\ recvs' = recvs \cup {NewReceive(p, out, {h.msg}, wants)}
          /\ msgs' = msgs
    BY <1>6 DEF Collects
  <2>2. DOMAIN held' = Procs /\ \A q \in Procs : held'[q] \subseteq held[q]
    BY <1>0, <2>1
  <2>3. Envelope(h.msg) /\ \A m \in msgs' : Envelope(m)
    BY <1>0, <2>1
  <2> QED
    BY <1>1, <1>6, <2>1, <2>2, <2>3, KeptPost DEF Collects
<1> QED
  BY <1>2, <1>3, <1>4, <1>5, <1>6 DEF Shape

\* The library matches, or a call that waited returns.
LEMMA MatchedReceive ==
  ASSUME EnvelopeTypes, NEW r \in recvs, NEW m \in msgs \cup r.taken, Match(r, m)
  PROVE  /\ r.state = "posted" /\ Envelope(m)
         /\ \E new : /\ recvs' = (recvs \ {r}) \cup {new}
                     /\ new = [r EXCEPT !.state = new.state, !.msg = m]
                     /\ new.state \in {"done", "truncated"}
                     /\ got' = IF new.state = "done" THEN [got EXCEPT ![r.proc][r.round] = m] ELSE got
         /\ r.taken # {} => m \in r.taken
         /\ r.taken = {} => Accepts(r.source, r.tag, m)
         /\ UNCHANGED <<program, round, pc, rc, temp, held, message, status, position>>
         /\ msgs' \subseteq msgs
<1> DEFINE fits == DOMAIN m.data \subseteq DOMAIN CellsOf(r.buf, 0)
           state == IF fits THEN "done" ELSE "truncated"
<1>1. /\ r.state = "posted"
      /\ IF r.taken # {} THEN m \in r.taken ELSE m \in Candidates(r.proc, r.source, r.tag)
      /\ UNCHANGED <<program, round, pc, rc, temp, held, message, status, position>>
      /\ msgs' \subseteq msgs
      /\ recvs' = (recvs \ {r}) \cup {[r EXCEPT !.state = state, !.msg = m]}
      /\ got' = IF fits THEN [got EXCEPT ![r.proc][r.round] = m] ELSE got
  BY Zenon DEF Match
<1>2. Envelope(m)
  BY <1>1 DEF EnvelopeTypes, KeptInv, IsReceive
<1>3. /\ r.taken # {} => m \in r.taken
      /\ r.taken = {} => Accepts(r.source, r.tag, m)
  BY <1>1 DEF Candidates
<1>4. PICK new : new = [r EXCEPT !.state = state, !.msg = m]
  OBVIOUS
<1>5. new.state = state
  BY <1>4 DEF EnvelopeTypes, KeptInv, IsReceive
<1>6. got' = IF new.state = "done" THEN [got EXCEPT ![r.proc][r.round] = m] ELSE got
  BY <1>1, <1>5
<1>7. new.state \in {"done", "truncated"}
  BY <1>5
<1> HIDE DEF state, fits
<1> QED
  BY <1>1, <1>2, <1>3, <1>4, <1>5, <1>6, <1>7

LEMMA FinishShape ==
  ASSUME EnvelopeTypes, NEW p \in Procs, Finish(p, FALSE)
  PROVE  /\ Steps(p)
         /\ pc[p] = "inside" /\ Call(p).routine = "PointToPoint"
         /\ UNCHANGED <<program, round, msgs, held, message, position, got>>
         /\ recvs' \subseteq recvs
         /\ SeenInv'
<1>1. Steps(p)
  BY FinishMoves DEF Steps
<1>2. /\ pc[p] = "inside" /\ Call(p).routine = "PointToPoint"
      /\ UNCHANGED <<program, round, msgs, held, message, position, got>>
      /\ recvs' \subseteq recvs
  BY Zenon DEF Finish
<1>3. DOMAIN rc' = Procs
  BY DEF Finish, EnvelopeTypes, SeenInv
<1>4. status' \in [Procs -> Statuses]
  <2> DEFINE mine == {r \in recvs : r.proc = p /\ (Op(p) = "Wait" \/ r.round = round[p])}
             told == CHOOSE r \in mine : r.wants
  <2>1. /\ \A r \in mine : r.state # "posted"
        /\ status' = IF \E r \in mine : r.wants /\ r.state = "done"
                     THEN Status(p, TRUE, told.msg) ELSE status
    BY Zenon DEF Finish
  <2>2. CASE \E r \in mine : r.wants /\ r.state = "done"
    <3>1. told \in mine
      BY <2>2
    <3>2. Envelope(told.msg)
      BY <2>1, <3>1 DEF EnvelopeTypes, KeptInv, IsReceive
    <3>3. [source |-> told.msg.src, tag |-> told.msg.tag] \in Statuses
      BY <3>2, EnvelopeIsStatus
    <3> HIDE DEF told, mine
    <3> QED
      BY <2>1, <2>2, <3>3 DEF Status, EnvelopeTypes, SeenInv
  <2> HIDE DEF told, mine
  <2>3. CASE ~\E r \in mine : r.wants /\ r.state = "done"
    BY <2>1, <2>3 DEF EnvelopeTypes, SeenInv
  <2> QED
    BY <2>2, <2>3
<1> QED
  BY <1>1, <1>2, <1>3, <1>4 DEF EnvelopeTypes, SeenInv

LEMMA NextEnvelopeTypes == ASSUME EnvelopeTypes, [MPINext]_mpi_vars PROVE EnvelopeTypes'
<1>0. ControlKept
  BY StepKeepsControl DEF EnvelopeTypes
<1>1. ASSUME NEW p \in Procs, CollectiveStep(p) \/ P2PWrapper(p) PROVE EnvelopeTypes'
  <2>1. Steps(p) /\ Shape(p)
    BY <1>1, CollectiveShape, P2PWrapperShape
  <2> QED
    BY <1>0, <2>1, SeenStep, KeptShape DEF EnvelopeTypes, ControlKept
<1>2. ASSUME NEW p \in Procs, Matches(p) PROVE EnvelopeTypes'
  <2>0. PICK r \in recvs : \E m \in msgs \cup r.taken : Match(r, m)
    BY <1>2 DEF Matches
  <2>1. PICK m \in msgs \cup r.taken : Match(r, m)
    BY <2>0
  <2>2. PICK new : /\ recvs' = (recvs \ {r}) \cup {new}
                   /\ new = [r EXCEPT !.state = new.state, !.msg = m]
                   /\ new.state \in {"done", "truncated"}
    BY <2>1, MatchedReceive, Zenon
  <2>3. /\ Envelope(m) /\ msgs' \subseteq msgs
        /\ UNCHANGED <<rc, temp, held, message, status, position>>
    BY <2>1, MatchedReceive, Zenon
  <2>4. IsReceive(r)' /\ new.proc = r.proc /\ new.round = r.round
    BY <1>0, <2>2, ReceiveStays DEF EnvelopeTypes, KeptInv, IsReceive
  <2>5. IsReceive(new)'
    BY <1>0, <2>2, <2>3, <2>4 DEF IsReceive, Envelope, Makes, ControlKept
  <2>6. \A s \in recvs' : IsReceive(s)'
    BY <1>0, <2>2, <2>5, ReceiveStays
  <2>7. \A s, t \in recvs' : s.proc = t.proc /\ s.round = t.round => s = t
    BY <2>2, <2>4 DEF EnvelopeTypes, KeptInv
  <2>8. KeptInv'
    BY <1>0, <2>3, <2>6, <2>7 DEF EnvelopeTypes, KeptInv, ControlKept, Envelope
  <2> QED
    BY <1>0, <2>3, <2>8 DEF EnvelopeTypes, SeenInv, ControlKept
<1>3. ASSUME NEW p \in Procs, Finish(p, FALSE) PROVE EnvelopeTypes'
  <2>1. KeptInv'
    BY <1>0, <1>3, FinishShape, KeptStays DEF EnvelopeTypes, KeptInv
  <2> QED
    BY <1>0, <1>3, <2>1, FinishShape DEF EnvelopeTypes, ControlKept
<1>4. CASE UNCHANGED mpi_vars
  <2>1. UNCHANGED <<msgs, recvs, held, rc, temp, message, status, position>>
    BY <1>4 DEF mpi_vars, vars, p2p_vars
  <2>2. KeptInv'
    BY <1>0, <2>1, KeptStays DEF EnvelopeTypes, KeptInv
  <2> QED
    BY <1>0, <2>1, <2>2 DEF EnvelopeTypes, SeenInv, ControlKept
<1> QED
  BY <1>1, <1>2, <1>3, <1>4 DEF MPINext

LEMMA EnvelopeTypesInvariance == MPISpec => []EnvelopeTypes
BY InitEnvelopeTypes, NextEnvelopeTypes, PTL DEF MPISpec

\* What the library keeps belongs to calls that were made, receives and handles
\* are told apart by their numbers, and all the program sees is in range: the
\* position stays in the pack buffer, also after a call that failed.
THEOREM MPITypeCorrect == MPISpec => []P2PTypeOK
<1>1. EnvelopeTypes => P2PTypeOK
  <2> SUFFICES ASSUME EnvelopeTypes PROVE P2PTypeOK
    OBVIOUS
  <2>1. \A r \in recvs : r.round <= round[r.proc]
    <3> SUFFICES ASSUME NEW r \in recvs PROVE r.round <= round[r.proc]
      OBVIOUS
    <3>1. r.proc \in Procs /\ r.round \in DOMAIN program /\ Called(r.proc, r.round)
      BY DEF EnvelopeTypes, KeptInv, IsReceive, Makes
    <3>2. r.round \in Nat /\ round[r.proc] \in Nat
      BY <3>1, ControlFacts DEF EnvelopeTypes
    <3> QED
      BY <3>1, <3>2 DEF Called
  <2>2. /\ \A m \in msgs : m.src \in Procs /\ m.dst \in Procs /\ m.tag \in Nat /\ m.round \in DOMAIN program
        /\ \A r \in recvs : r.proc \in Procs /\ r.round \in DOMAIN program
                            /\ r.state \in {"posted", "done", "truncated"}
        /\ \A r, s \in recvs : r.proc = s.proc /\ r.round = s.round => r = s
        /\ \A p \in Procs : \A h, k \in held[p] : h.id \in MessageIds /\ (h.id = k.id => h = k)
    BY DEF EnvelopeTypes, KeptInv, IsReceive, Makes, Envelope
  <2>3. LibraryHandles \cup {VAPAA_MPI_MESSAGE_NULL}
          = MessageIds \cup {VAPAA_MPI_MESSAGE_NULL, MPI_MESSAGE_NULL, MPI_MESSAGE_NO_PROC}
    BY DEF LibraryHandles
  <2>4. /\ message \in [Procs -> [HandleVars -> MessageIds \cup
                  {VAPAA_MPI_MESSAGE_NULL, MPI_MESSAGE_NULL, MPI_MESSAGE_NO_PROC}]]
        /\ status \in [Procs -> [source : Int, tag : Int]]
        /\ position \in [Procs -> 0..NumCells]
    BY <2>3 DEF EnvelopeTypes, SeenInv, Statuses
  <2> QED
    BY <2>1, <2>2, <2>4 DEF P2PTypeOK
<1> QED
  BY <1>1, EnvelopeTypesInvariance, PTL
-----------------------------------------------------------------------------
(* Who receives what. *)

\* Calls by which a program gets, and uses, the message of a handle.
Probes(prog, p, k, v) ==
  prog[k].routine = "PointToPoint" /\ prog[k].arg[p].op = "Mprobe" /\ prog[k].arg[p].handle = v
Uses(prog, p, i, v) ==
  prog[i].routine = "PointToPoint" /\ prog[i].arg[p].op \in Matched /\ prog[i].arg[p].handle = v

\* The program does not name a wildcard of the library's, its own being other
\* integers, and uses a handle once after each probe into it, which succeeds.
LegalReceives ==
  \A prog \in Programs : \A p \in Procs :
    /\ \A i \in DOMAIN prog : prog[i].routine = "PointToPoint" =>
         prog[i].arg[p].source # MPI_ANY_SOURCE /\ prog[i].arg[p].rtag # MPI_ANY_TAG
    /\ \A v \in HandleVars : \A k, i \in DOMAIN prog :
         /\ k < i /\ Probes(prog, p, k, v) /\ Uses(prog, p, i, v)
         /\ \A j \in k+1..i-1 : ~Probes(prog, p, j, v)
         => Accepted(prog, p, k) /\ \A j \in k+1..i-1 : ~Uses(prog, p, j, v)

\* Handle v holds the message that call k probed for: nothing was done with it
\* since.
Live(p, k, v) ==
  /\ Called(p, k) /\ Probes(program, p, k, v) /\ Accepted(program, p, k)
  /\ \A j \in DOMAIN program : j > k /\ Called(p, j) =>
       ~Probes(program, p, j, v) /\ ~Uses(program, p, j, v)

HandlesOf(p) ==
  /\ \A v \in HandleVars :
       (\A k \in DOMAIN program : ~(Called(p, k) /\ Probes(program, p, k, v)))
       => message[p][v] = VAPAA_MPI_MESSAGE_NULL
  /\ \A v \in HandleVars : \A k \in DOMAIN program : Live(p, k, v) =>
       \/ message[p][v] = MPI_MESSAGE_NO_PROC
       \/ \E h \in held[p] : h.id = message[p][v] /\ h.msg = got[p][k]
  /\ \A v, w \in HandleVars : \A k, l \in DOMAIN program :
       Live(p, k, v) /\ Live(p, l, w) /\ v # w /\ message[p][v] # MPI_MESSAGE_NO_PROC
       => message[p][v] # message[p][w]

\* The probe whose message call i of p was given.
Probed(p, i) == Makes(p, ProbeOf(p, i), {"Mprobe"}) /\ Called(p, ProbeOf(p, i))

GotOf(p) ==
  \A i \in DOMAIN program :
    /\ ~Called(p, i) => got[p][i] = NoMessage
    /\ got[p][i] # NoMessage =>
         /\ program[i].routine = "PointToPoint"
         /\ Makes(p, i, Selecting \cup {"Mprobe"}) =>
              program[i].arg[p].source = got[p][i].src /\ program[i].arg[p].rtag = got[p][i].tag
         /\ Makes(p, i, Matched) => Probed(p, i) /\ got[p][i] = got[p][ProbeOf(p, i)]

\* A receive asks for what its call asks for, and its call waits for it.
AsksFor(r) ==
  LET a == program[r.round].arg[r.proc]
  IN  /\ r.source = a.source /\ r.tag = a.rtag
      /\ \/ a.op \in Selecting /\ r.taken = {}
         \/ /\ a.op \in Matched /\ Probed(r.proc, r.round)
            /\ r.taken = {got[r.proc][ProbeOf(r.proc, r.round)]}
      /\ r.state = "done" => got[r.proc][r.round] = r.msg
      /\ a.op \in Blocking => r.round = round[r.proc] /\ pc[r.proc] = "inside" /\ r.wants = a.status

InsideOf(p) ==
  pc[p] = "inside" /\ Call(p).routine = "PointToPoint" =>
    /\ Op(p) # "Mprobe"
    /\ Op(p) \in Blocking => \E r \in recvs : r.proc = p /\ r.round = round[p]

StatusOf(p) ==
  pc[p] = "finished" /\ rc[p] = "MPI_SUCCESS" /\ Call(p).routine = "PointToPoint"
    => LET m == got[p][round[p]]
       IN  Op(p) \in {"Recv", "Sendrecv", "Mprobe", "Mrecv"} /\ Arg(p).status /\ m # NoMessage
           => status[p] = [source |-> m.src, tag |-> m.tag]

AgreeInv ==
  /\ DOMAIN got = Procs /\ \A p \in Procs : DOMAIN got[p] = DOMAIN program
  /\ \A r \in recvs : AsksFor(r)
  /\ \A p \in Procs : HandlesOf(p) /\ GotOf(p) /\ InsideOf(p) /\ StatusOf(p)

LEMMA LastOne ==
  ASSUME NEW n \in Nat, NEW S \in SUBSET (1..n), S # {}
  PROVE  Max(S) \in S /\ \A x \in S : x <= Max(S)
<1> DEFINE T == {t \in Nat : n - t \in S}
<1>1. T \in SUBSET Nat
  OBVIOUS
<1>2. T # {}
  <2>1. PICK x \in S : TRUE
    OBVIOUS
  <2>2. n - x \in Nat /\ n - (n - x) = x
    OBVIOUS
  <2>3. n - x \in T
    BY <2>1, <2>2
  <2> QED
    BY <2>3
<1>3. PICK t \in T : \A u \in T : <<u, t>> \notin OpToRel(<, Nat)
  BY <1>1, <1>2, WFMin, NatLessThanWellFounded, Zenon
<1>4. \A u \in T : ~(u < t)
  BY <1>1, <1>3, Zenon DEF OpToRel
<1>5. \A x \in S : x <= n - t
  <2> SUFFICES ASSUME NEW x \in S, ~(x <= n - t) PROVE FALSE
    OBVIOUS
  <2>1. n - x \in Nat /\ n - (n - x) = x /\ t \in Nat
    BY <1>1
  <2>2. n - x \in T
    BY <2>1
  <2> QED
    BY <1>4, <2>1, <2>2
<1>6. \E x \in S : \A y \in S : x >= y
  <2>1. n - t \in S
    OBVIOUS
  <2>2. \A y \in S : n - t >= y
    BY <1>1, <1>5
  <2> QED
    BY <2>1, <2>2
<1>7. Max(S) \in S /\ \A y \in S : Max(S) >= y
  BY <1>6 DEF Max
<1> QED
  BY <1>7

\* The message of a handle is that of the last probe into it.
LEMMA LastProbe ==
  ASSUME MatchInv, NEW p \in Procs, NEW i \in DOMAIN program, NEW k \in DOMAIN program, k < i,
         Probes(program, p, k, program[i].arg[p].handle)
  PROVE  /\ ProbeOf(p, i) \in DOMAIN program /\ ProbeOf(p, i) < i
         /\ Probes(program, p, ProbeOf(p, i), program[i].arg[p].handle)
         /\ \A j \in ProbeOf(p, i)+1..i-1 : ~Probes(program, p, j, program[i].arg[p].handle)
<1> DEFINE v == program[i].arg[p].handle
           S == {j \in 1..i-1 : /\ program[j].routine = "PointToPoint"
                                /\ program[j].arg[p].op = "Mprobe" /\ program[j].arg[p].handle = v}
<1>1. DOMAIN program = 1..Len(program) /\ Len(program) \in Nat
  BY ControlFacts
<1>2. i - 1 \in Nat /\ S \in SUBSET (1..i-1) /\ k \in S
  BY <1>1 DEF Probes
<1>3. ProbeOf(p, i) = Max(S)
  BY DEF ProbeOf
<1>4. \A j \in 1..i-1 : j \in S <=> Probes(program, p, j, v)
  BY DEF Probes
<1> HIDE DEF S
<1>5. Max(S) \in S /\ \A x \in S : x <= Max(S)
  BY <1>2, LastOne
<1>6. \A j \in Max(S)+1..i-1 : j \notin S /\ j \in 1..i-1
  BY <1>2, <1>5
<1> QED
  BY <1>1, <1>2, <1>3, <1>4, <1>5, <1>6

LEMMA MoveFacts ==
  ASSUME EnvelopeTypes, NEW p \in Procs, Steps(p), NEW then, NEW code, Moves(p, then, code)
  PROVE  /\ program' = program /\ round' = round /\ round[p] \in DOMAIN program
         /\ pc[p] = "called" /\ pc'[p] = then /\ then \in {"inside", "finished"} /\ rc'[p] = code
         /\ \A q \in Procs : q # p => pc'[q] = pc[q] /\ rc'[q] = rc[q]
         /\ ~Called(p, round[p])
         /\ \A q \in Procs : \A i \in Int : Called(q, i)' <=> Called(q, i) \/ (q = p /\ i = round[p])
<1>0. MatchInv /\ DOMAIN rc = Procs
  BY DEF EnvelopeTypes, SeenInv
<1>1. /\ pc[p] = "called" /\ then \in {"inside", "finished"}
      /\ pc' = [pc EXCEPT ![p] = then] /\ rc' = [rc EXCEPT ![p] = code]
  BY DEF Moves
<1>2. /\ pc \in [Procs -> {"idle", "called", "inside", "finished"}] /\ round \in [Procs -> Nat \ {0}]
      /\ round[p] \in DOMAIN program
  BY <1>0, <1>1, ControlFacts
<1>3. program' = program /\ round' = round
  BY <1>0, <1>1, <1>2, StepControl DEF ReturnStep, Return, CreateStep
<1>4. /\ pc'[p] = then /\ rc'[p] = code
      /\ \A q \in Procs : q # p => pc'[q] = pc[q] /\ rc'[q] = rc[q]
  BY <1>0, <1>1, <1>2
<1>5. ~Called(p, round[p])
  BY <1>1, <1>2 DEF Called
<1>6. \A q \in Procs : \A i \in Int : Called(q, i)' <=> Called(q, i) \/ (q = p /\ i = round[p])
  BY <1>1, <1>2, <1>3, <1>4 DEF Called
<1> QED
  BY <1>1, <1>2, <1>3, <1>4, <1>5, <1>6

LEMMA RoundNumbers ==
  ASSUME EnvelopeTypes
  PROVE  /\ \A i \in DOMAIN program : i \in Int
         /\ \A p \in Procs : round[p] \in Nat
         /\ \A r \in recvs : /\ r.proc \in Procs /\ r.round \in DOMAIN program /\ r.round \in Int
                             /\ Called(r.proc, r.round) /\ Makes(r.proc, r.round, Selecting \cup Matched)
BY ControlFacts DEF EnvelopeTypes, KeptInv, IsReceive, Makes

\* Only a step of the library makes a point-to-point call.
LEMMA OuterMakes ==
  ASSUME EnvelopeTypes, NEW p \in Procs, Steps(p), Outer(p)
  PROVE  \A ops : \A k \in DOMAIN program : Makes(p, k, ops) /\ Called(p, k)' => Called(p, k)
<1> SUFFICES ASSUME NEW ops, NEW k \in DOMAIN program, Makes(p, k, ops), Called(p, k)'
             PROVE  Called(p, k)
  OBVIOUS
<1>0. /\ round[p] \in Nat /\ k \in Int /\ MatchInv
      /\ pc \in [Procs -> {"idle", "called", "inside", "finished"}]
      /\ round \in [Procs -> Nat \ {0}]
  BY RoundNumbers, ControlFacts DEF EnvelopeTypes
<1>1. CASE ReturnStep(p)
  BY <1>0, <1>1 DEF ReturnStep, Return, Called
<1>2. CASE ~ReturnStep(p) /\ (pc'[p] = "idle" \/ pc'[p] = "called")
  <2>1. round' = round
    BY <1>0, <1>2, StepControl DEF CreateStep
  <2> QED
    BY <1>0, <1>2, <2>1 DEF Called
<1>3. CASE Call(p).routine # "PointToPoint" /\ round' = round
  BY <1>0, <1>3 DEF Called, Makes, Call
<1>4. CASE UNCHANGED <<pc, round, rc>>
  BY <1>4 DEF Called
<1> QED
  BY <1>1, <1>2, <1>3, <1>4 DEF Outer

\* Handles, when no call of Mprobe and no collection is made.
LEMMA HandlesKeep ==
  ASSUME EnvelopeTypes, ControlKept, NEW p \in Procs, HandlesOf(p),
         message'[p] = message[p], held'[p] = held[p],
         \A k \in DOMAIN program : Makes(p, k, {"Mprobe"}) => got'[p][k] = got[p][k],
         \A k \in DOMAIN program : Makes(p, k, {"Mprobe"}) /\ Called(p, k)' => Called(p, k)
  PROVE  HandlesOf(p)'
<1>1. program' = program /\ \A i \in DOMAIN program : Called(p, i) => Called(p, i)'
  BY RoundNumbers DEF ControlKept
<1>2. \A v : \A k \in DOMAIN program : Live(p, k, v)' => Live(p, k, v) /\ got'[p][k] = got[p][k]
  BY <1>1 DEF Live, Probes, Uses, Makes, Accepted
<1>3. \A v \in HandleVars :
        (\A k \in DOMAIN program : ~(Called(p, k)' /\ Probes(program, p, k, v)))
        => message'[p][v] = VAPAA_MPI_MESSAGE_NULL
  BY <1>1 DEF HandlesOf
<1>4. \A v \in HandleVars : \A k \in DOMAIN program : Live(p, k, v)' =>
        \/ message'[p][v] = MPI_MESSAGE_NO_PROC
        \/ \E h \in held'[p] : h.id = message'[p][v] /\ h.msg = got'[p][k]
  BY <1>2 DEF HandlesOf
<1>5. \A v, w \in HandleVars : \A k, l \in DOMAIN program :
        Live(p, k, v)' /\ Live(p, l, w)' /\ v # w /\ message'[p][v] # MPI_MESSAGE_NO_PROC
        => message'[p][v] # message'[p][w]
  BY <1>2 DEF HandlesOf
<1> QED
  BY <1>1, <1>3, <1>4, <1>5 DEF HandlesOf, Probes, Uses

\* A probe writes its handle: no message, or one under an integer of its own.
LEMMA HandlesProbe ==
  ASSUME EnvelopeTypes, ControlKept, AgreeInv, NEW p \in Procs, Steps(p), NEW code,
         Moves(p, "finished", code), Op(p) = "Mprobe", NEW id,
         message' = [message EXCEPT ![p][Arg(p).handle] = id], held[p] \subseteq held'[p],
         \A k \in DOMAIN program : k # round[p] => got'[p][k] = got[p][k],
         \/ ~Accepted(program, p, round[p])
         \/ id = MPI_MESSAGE_NO_PROC
         \/ /\ \E h \in held'[p] : h.id = id /\ h.msg = got'[p][round[p]]
            /\ \A h \in held[p] : h.id # id
  PROVE  HandlesOf(p)'
<1> DEFINE i == round[p]
           v0 == Arg(p).handle
<1>0. HandlesOf(p) /\ message \in [Procs -> [HandleVars -> LibraryHandles \cup {VAPAA_MPI_MESSAGE_NULL}]]
  BY DEF AgreeInv, EnvelopeTypes, SeenInv
<1>1. /\ program' = program /\ round' = round /\ i \in DOMAIN program /\ ~Called(p, i)
      /\ \A k \in DOMAIN program : Called(p, k)' <=> Called(p, k) \/ k = i
  BY MoveFacts, RoundNumbers
<1>2. Probes(program, p, i, v0) /\ v0 \in HandleVars
  BY CallIsTyped DEF Moves, Probes, Op, Arg, Call, EnvelopeTypes
<1>3. \A k \in DOMAIN program : Called(p, k) => k < i
  BY <1>1, RoundNumbers DEF Called
<1>4. message'[p][v0] = id /\ \A v \in HandleVars : v # v0 => message'[p][v] = message[p][v]
  BY <1>0, <1>2
<1>5. \A v : \A k \in DOMAIN program : Live(p, k, v)' =>
        \/ k = i /\ v = v0 /\ Accepted(program, p, i)
        \/ k # i /\ v # v0 /\ Live(p, k, v)
  <2> SUFFICES ASSUME NEW v, NEW k \in DOMAIN program, Live(p, k, v)'
               PROVE  \/ k = i /\ v = v0 /\ Accepted(program, p, i)
                      \/ k # i /\ v # v0 /\ Live(p, k, v)
    OBVIOUS
  <2>1. /\ Called(p, k)' /\ Probes(program, p, k, v) /\ Accepted(program, p, k)
        /\ \A j \in DOMAIN program : j > k /\ Called(p, j)' =>
             ~Probes(program, p, j, v) /\ ~Uses(program, p, j, v)
    BY <1>1 DEF Live, Probes, Uses, Accepted
  <2>2. CASE k = i
    <3>1. v = v0
      BY <1>2, <2>1, <2>2 DEF Probes
    <3> QED
      BY <2>1, <2>2, <3>1
  <2>3. CASE k # i
    <3>1. Called(p, k) /\ i > k
      BY <1>1, <1>3, <2>1, <2>3, RoundNumbers
    <3>2. v # v0
      BY <1>1, <1>2, <2>1, <3>1
    <3>3. Live(p, k, v)
      BY <1>1, <2>1, <3>1 DEF Live
    <3> QED
      BY <2>3, <3>2, <3>3
  <2> QED
    BY <2>2, <2>3
<1>6. \A v \in HandleVars :
        (\A k \in DOMAIN program : ~(Called(p, k)' /\ Probes(program, p, k, v)))
        => message'[p][v] = VAPAA_MPI_MESSAGE_NULL
  BY <1>0, <1>1, <1>2, <1>4 DEF HandlesOf
<1>7. \A v \in HandleVars : \A k \in DOMAIN program : Live(p, k, v)' =>
        \/ message'[p][v] = MPI_MESSAGE_NO_PROC
        \/ \E h \in held'[p] : h.id = message'[p][v] /\ h.msg = got'[p][k]
  <2> SUFFICES ASSUME NEW v \in HandleVars, NEW k \in DOMAIN program, Live(p, k, v)'
               PROVE  \/ message'[p][v] = MPI_MESSAGE_NO_PROC
                      \/ \E h \in held'[p] : h.id = message'[p][v] /\ h.msg = got'[p][k]
    OBVIOUS
  <2>1. CASE k = i /\ v = v0 /\ Accepted(program, p, i)
    BY <1>4, <2>1
  <2>2. CASE k # i /\ v # v0 /\ Live(p, k, v)
    BY <1>0, <1>4, <2>2 DEF HandlesOf
  <2> QED
    BY <1>5, <2>1, <2>2
<1>8. ASSUME NEW w \in HandleVars, NEW l \in DOMAIN program, w # v0, Live(p, l, w)
      PROVE  /\ Accepted(program, p, i) /\ id # MPI_MESSAGE_NO_PROC => message[p][w] # id
             /\ message[p][w] # MPI_MESSAGE_NO_PROC /\ Accepted(program, p, i) => message[p][w] # id
  BY <1>0, <1>8 DEF HandlesOf
<1>9. \A v, w \in HandleVars : \A k, l \in DOMAIN program :
        Live(p, k, v)' /\ Live(p, l, w)' /\ v # w /\ message'[p][v] # MPI_MESSAGE_NO_PROC
        => message'[p][v] # message'[p][w]
  <2> SUFFICES ASSUME NEW v \in HandleVars, NEW w \in HandleVars, NEW k \in DOMAIN program,
                      NEW l \in DOMAIN program, Live(p, k, v)', Live(p, l, w)', v # w,
                      message'[p][v] # MPI_MESSAGE_NO_PROC
               PROVE  message'[p][v] # message'[p][w]
    OBVIOUS
  <2>1. CASE v = v0
    <3>1. w # v0 /\ Live(p, l, w) /\ Accepted(program, p, i)
      BY <1>5, <2>1
    <3> QED
      BY <1>4, <1>8, <2>1, <3>1
  <2>2. CASE w = v0
    <3>1. v # v0 /\ Live(p, k, v) /\ Accepted(program, p, i)
      BY <1>5, <2>2
    <3> QED
      BY <1>4, <1>8, <2>2, <3>1
  <2>3. CASE v # v0 /\ w # v0
    BY <1>0, <1>4, <1>5, <2>3 DEF HandlesOf
  <2> QED
    BY <2>1, <2>2, <2>3
<1> QED
  BY <1>1, <1>6, <1>7, <1>9 DEF HandlesOf, Probes

\* A collection takes the message that the last probe into its handle took.
LEMMA CollectsProbed ==
  ASSUME LegalReceives, EnvelopeTypes, AgreeInv, NEW p \in Procs, pc[p] = "called",
         Call(p).routine = "PointToPoint", Op(p) \in Matched,
         NEW h \in held[p], h.id = Message(p)
  PROVE  /\ Probed(p, round[p]) /\ Live(p, ProbeOf(p, round[p]), Arg(p).handle)
         /\ message[p][Arg(p).handle] = h.id
         /\ h.msg = got[p][ProbeOf(p, round[p])]
<1> DEFINE i == round[p]
           v == Arg(p).handle
           k == ProbeOf(p, i)
<1>0. /\ HandlesOf(p) /\ MatchInv /\ program \in Programs /\ i \in DOMAIN program
      /\ \A j \in DOMAIN program : j \in Int
      /\ Makes(p, i, Matched) /\ v \in HandleVars /\ v = program[i].arg[p].handle
  BY RoundNumbers, ControlFacts, CallIsTyped DEF AgreeInv, EnvelopeTypes, Arg, Call
<1>1. h.id \in MessageIds /\ h.id # MPI_MESSAGE_NULL /\ h.id # MPI_MESSAGE_NO_PROC
  BY ConstantsAssumption DEF EnvelopeTypes, KeptInv
<1>2. message[p][v] = h.id /\ message[p][v] # VAPAA_MPI_MESSAGE_NULL
  BY <1>1 DEF Message, C_MPI_MESSAGE_F2C
<1>3. PICK k0 \in DOMAIN program : Called(p, k0) /\ Probes(program, p, k0, v)
  BY <1>0, <1>2 DEF HandlesOf
<1>4. \A j \in DOMAIN program : Called(p, j) => j < i
  BY DEF Called
<1>5. /\ k \in DOMAIN program /\ k < i /\ Probes(program, p, k, v)
      /\ \A j \in k+1..i-1 : ~Probes(program, p, j, v)
  BY <1>0, <1>3, <1>4, LastProbe
<1>6. Uses(program, p, i, v)
  BY <1>0 DEF Makes, Uses
<1> HIDE DEF k, v, i
<1>7. Accepted(program, p, k) /\ \A j \in k+1..i-1 : ~Uses(program, p, j, v)
  BY <1>0, <1>5, <1>6 DEF LegalReceives
<1>8. Called(p, k)
  BY <1>5 DEF Called, i
<1>9. Live(p, k, v)
  <2> SUFFICES ASSUME NEW j \in DOMAIN program, j > k, Called(p, j)
               PROVE  ~Probes(program, p, j, v) /\ ~Uses(program, p, j, v)
    BY <1>5, <1>7, <1>8 DEF Live
  <2>1. j \in k+1..i-1
    <3>1. j \in Int /\ k \in Int /\ i \in Int /\ j < i
      BY <1>0, <1>4, <1>5
    <3> QED
      BY <3>1
  <2> QED
    BY <1>5, <1>7, <2>1
<1>10. PICK g \in held[p] : g.id = message[p][v] /\ g.msg = got[p][k]
  BY <1>0, <1>1, <1>2, <1>5, <1>9 DEF HandlesOf
<1>11. g = h
  BY <1>2, <1>10 DEF EnvelopeTypes, KeptInv
<1>12. Makes(p, k, {"Mprobe"})
  BY <1>5 DEF Makes, Probes
<1> QED
  BY <1>2, <1>8, <1>9, <1>10, <1>11, <1>12 DEF Probed, k, v, i

\* A collection ends the use of its handle and leaves the others theirs.
LEMMA HandlesCollect ==
  ASSUME LegalReceives, EnvelopeTypes, ControlKept, AgreeInv, NEW p \in Procs, Steps(p), NEW then,
         Moves(p, then, "MPI_SUCCESS"), Op(p) \in Matched, NEW h \in held[p], h.id = Message(p),
         held'[p] = held[p] \ {h}, message'[p] = message[p], got'[p] = got[p]
  PROVE  HandlesOf(p)'
<1> DEFINE i == round[p]
           v0 == Arg(p).handle
           l == ProbeOf(p, i)
<1>0. /\ program' = program /\ i \in DOMAIN program /\ HandlesOf(p)
      /\ pc[p] = "called" /\ Call(p).routine = "PointToPoint"
      /\ \A k \in DOMAIN program : Called(p, k)' <=> Called(p, k) \/ k = i
      /\ \A k \in DOMAIN program : Called(p, k) => k < i
  BY MoveFacts, RoundNumbers DEF AgreeInv, Moves, Called
<1>1. /\ Makes(p, l, {"Mprobe"}) /\ Live(p, l, v0) /\ message[p][v0] = h.id
  BY <1>0, CollectsProbed DEF Probed
<1>2. v0 \in HandleVars /\ Uses(program, p, i, v0) /\ \A v : ~Probes(program, p, i, v)
  BY <1>0, CallIsTyped DEF EnvelopeTypes, Uses, Probes, Op, Arg, Call, Matched
<1>3. h.id # MPI_MESSAGE_NO_PROC
  BY ConstantsAssumption DEF EnvelopeTypes, KeptInv
<1>4. \A v : \A k \in DOMAIN program : Live(p, k, v)' => Live(p, k, v) /\ v # v0
  <2> SUFFICES ASSUME NEW v, NEW k \in DOMAIN program, Live(p, k, v)'
               PROVE  Live(p, k, v) /\ v # v0
    OBVIOUS
  <2>1. /\ Called(p, k)' /\ Probes(program, p, k, v) /\ Accepted(program, p, k)
        /\ \A j \in DOMAIN program : j > k /\ Called(p, j)' =>
             ~Probes(program, p, j, v) /\ ~Uses(program, p, j, v)
    BY <1>0 DEF Live, Probes, Uses, Accepted
  <2>2. Called(p, k) /\ i > k
    BY <1>0, <1>2, <2>1, RoundNumbers
  <2>3. v # v0
    BY <1>0, <1>2, <2>1, <2>2
  <2>4. Live(p, k, v)
    BY <1>0, <2>1, <2>2 DEF Live
  <2> QED
    BY <2>3, <2>4
<1>5. \A v \in HandleVars :
        (\A k \in DOMAIN program : ~(Called(p, k)' /\ Probes(program, p, k, v)))
        => message'[p][v] = VAPAA_MPI_MESSAGE_NULL
  BY <1>0 DEF HandlesOf
<1>6. \A v \in HandleVars : \A k \in DOMAIN program : Live(p, k, v)' =>
        \/ message'[p][v] = MPI_MESSAGE_NO_PROC
        \/ \E g \in held'[p] : g.id = message'[p][v] /\ g.msg = got'[p][k]
  <2> SUFFICES ASSUME NEW v \in HandleVars, NEW k \in DOMAIN program, Live(p, k, v)',
                      message[p][v] # MPI_MESSAGE_NO_PROC
               PROVE  \E g \in held'[p] : g.id = message[p][v] /\ g.msg = got[p][k]
    OBVIOUS
  <2>1. Live(p, k, v) /\ v # v0
    BY <1>4
  <2>2. PICK g \in held[p] : g.id = message[p][v] /\ g.msg = got[p][k]
    BY <1>0, <2>1 DEF HandlesOf
  <2>3. message[p][v] # message[p][v0]
    BY <1>0, <1>1, <1>2, <2>1 DEF HandlesOf, Makes
  <2>4. g # h
    BY <1>1, <2>2, <2>3
  <2> QED
    BY <2>2, <2>4
<1>7. \A v, w \in HandleVars : \A k, m \in DOMAIN program :
        Live(p, k, v)' /\ Live(p, m, w)' /\ v # w /\ message'[p][v] # MPI_MESSAGE_NO_PROC
        => message'[p][v] # message'[p][w]
  BY <1>0, <1>4 DEF HandlesOf
<1> QED
  BY <1>0, <1>5, <1>6, <1>7 DEF HandlesOf, Probes
LEMMA ProbeOfKept == ASSUME program' = program PROVE \A p, i : ProbeOf(p, i)' = ProbeOf(p, i)
BY DEF ProbeOf

LEMMA ProbedKept ==
  ASSUME EnvelopeTypes, ControlKept, NEW p \in Procs, NEW i, Probed(p, i)
  PROVE  Probed(p, i)'
<1>0. PICK k : k = ProbeOf(p, i)
  OBVIOUS
<1>1. program' = program /\ ProbeOf(p, i)' = k
  BY <1>0, ProbeOfKept DEF ControlKept
<1>2. Makes(p, k, {"Mprobe"}) /\ k \in DOMAIN program /\ Called(p, k)
  BY <1>0 DEF Probed, Makes
<1>3. Called(p, k)'
  BY <1>2, RoundNumbers DEF ControlKept
<1> QED
  BY <1>1, <1>2, <1>3 DEF Probed, Makes

LEMMA GotKeep ==
  ASSUME EnvelopeTypes, ControlKept, AgreeInv, NEW p \in Procs, got'[p] = got[p]
  PROVE  GotOf(p)'
<1>0. GotOf(p) /\ program' = program
  BY DEF AgreeInv, ControlKept
<1>2. \A i : Probed(p, i) => Probed(p, i)' /\ ProbeOf(p, i)' = ProbeOf(p, i)
  BY <1>0, ProbedKept, ProbeOfKept
<1>3. \A i \in DOMAIN program : Called(p, i) => Called(p, i)'
  BY RoundNumbers DEF ControlKept
<1> QED
  BY <1>0, <1>2, <1>3 DEF GotOf, Makes

\* What is known of a process holds on while it does nothing.
LEMMA ProcessKeeps ==
  ASSUME EnvelopeTypes, ControlKept, AgreeInv, NEW q \in Procs,
         pc'[q] = pc[q], round'[q] = round[q], rc'[q] = rc[q], message'[q] = message[q],
         held'[q] = held[q], status'[q] = status[q], got'[q] = got[q],
         \A r \in recvs : r.proc = q => r \in recvs'
  PROVE  HandlesOf(q)' /\ GotOf(q)' /\ InsideOf(q)' /\ StatusOf(q)'
<1>0. HandlesOf(q) /\ GotOf(q) /\ InsideOf(q) /\ StatusOf(q) /\ program' = program
  BY DEF AgreeInv, ControlKept
<1>1. \A i : Called(q, i)' <=> Called(q, i)
  BY DEF Called
<1>2. HandlesOf(q)'
  BY <1>0, <1>1, HandlesKeep
<1>3. GotOf(q)'
  BY GotKeep
<1>4. InsideOf(q)'
  BY <1>0 DEF InsideOf, Call, Op, Arg
<1>5. StatusOf(q)'
  BY <1>0 DEF StatusOf, Call, Op, Arg
<1> QED
  BY <1>2, <1>3, <1>4, <1>5

\* What a receive asks for, while it is not matched.
LEMMA AsksKeep ==
  ASSUME EnvelopeTypes, ControlKept, NEW r \in recvs, AsksFor(r),
         \A i \in DOMAIN program : i = r.round \/ Makes(r.proc, i, {"Mprobe"}) =>
           got'[r.proc][i] = got[r.proc][i] \/ ~Called(r.proc, i),
         pc[r.proc] = "inside" /\ r.round = round[r.proc] =>
           pc'[r.proc] = "inside" /\ round'[r.proc] = round[r.proc]
  PROVE  AsksFor(r)'
<1> DEFINE a == program[r.round].arg[r.proc]
           k == ProbeOf(r.proc, r.round)
<1>0. /\ r.proc \in Procs /\ r.round \in DOMAIN program /\ Called(r.proc, r.round)
      /\ program' = program
  BY RoundNumbers DEF ControlKept
<1>1. got'[r.proc][r.round] = got[r.proc][r.round]
  BY <1>0
<1>2. CASE a.op \in Selecting /\ r.taken = {}
  BY <1>0, <1>1, <1>2 DEF AsksFor
<1>3. CASE a.op \in Matched /\ Probed(r.proc, r.round) /\ r.taken = {got[r.proc][k]}
  <2>1. Probed(r.proc, r.round)' /\ ProbeOf(r.proc, r.round)' = k
    BY <1>0, <1>3, ProbedKept, ProbeOfKept
  <2>2. got'[r.proc][k] = got[r.proc][k]
    BY <1>3 DEF Probed, Makes
  <2> HIDE DEF k
  <2> QED
    BY <1>0, <1>1, <1>3, <2>1, <2>2 DEF AsksFor
<1> QED
  BY <1>2, <1>3 DEF AsksFor

\* A message for call j of p.
LEMMA GotChange ==
  ASSUME EnvelopeTypes, ControlKept, AgreeInv, NEW p \in Procs, NEW j \in DOMAIN program, NEW m,
         got'[p] = [got[p] EXCEPT ![j] = m], Called(p, j)', program[j].routine = "PointToPoint",
         ~Called(p, j) \/ ~Makes(p, j, {"Mprobe"}),
         Makes(p, j, Selecting \cup {"Mprobe"}) =>
           program[j].arg[p].source = m.src /\ program[j].arg[p].rtag = m.tag,
         Makes(p, j, Matched) => Probed(p, j) /\ m = got[p][ProbeOf(p, j)]
  PROVE  GotOf(p)'
<1>0. GotOf(p) /\ DOMAIN got[p] = DOMAIN program /\ program' = program
  BY DEF AgreeInv, ControlKept
<1>1. got'[p][j] = m /\ \A i \in DOMAIN program : i # j => got'[p][i] = got[p][i]
  BY <1>0
<1>2. \A i : Probed(p, i) => /\ Probed(p, i)' /\ ProbeOf(p, i)' = ProbeOf(p, i)
                             /\ got'[p][ProbeOf(p, i)] = got[p][ProbeOf(p, i)]
  BY <1>0, <1>1, ProbedKept, ProbeOfKept DEF Probed, Makes
<1>3. \A i \in DOMAIN program : Called(p, i) => Called(p, i)'
  BY RoundNumbers DEF ControlKept
<1> SUFFICES ASSUME NEW i \in DOMAIN program
             PROVE  /\ ~Called(p, i)' => got'[p][i] = NoMessage
                    /\ got'[p][i] # NoMessage =>
                         /\ program[i].routine = "PointToPoint"
                         /\ Makes(p, i, Selecting \cup {"Mprobe"}) =>
                              /\ program[i].arg[p].source = got'[p][i].src
                              /\ program[i].arg[p].rtag = got'[p][i].tag
                         /\ Makes(p, i, Matched) =>
                              Probed(p, i)' /\ got'[p][i] = got'[p][ProbeOf(p, i)']
  BY <1>0 DEF GotOf, Makes
<1>4. CASE i = j
  BY <1>1, <1>2, <1>4
<1>5. CASE i # j
  <2>1. got'[p][i] = got[p][i]
    BY <1>1, <1>5
  <2>2. /\ ~Called(p, i) => got[p][i] = NoMessage
        /\ got[p][i] # NoMessage =>
             /\ program[i].routine = "PointToPoint"
             /\ Makes(p, i, Selecting \cup {"Mprobe"}) =>
                  program[i].arg[p].source = got[p][i].src /\ program[i].arg[p].rtag = got[p][i].tag
             /\ Makes(p, i, Matched) => Probed(p, i) /\ got[p][i] = got[p][ProbeOf(p, i)]
    BY <1>0 DEF GotOf
  <2>3. ~Called(p, i)' => got'[p][i] = NoMessage
    BY <1>3, <2>1, <2>2
  <2>4. Makes(p, i, Matched) /\ got'[p][i] # NoMessage
        => Probed(p, i)' /\ got'[p][i] = got'[p][ProbeOf(p, i)']
    BY <1>2, <2>1, <2>2, Zenon
  <2> QED
    BY <2>1, <2>2, <2>3, <2>4
<1> QED
  BY <1>4, <1>5
\* What the process that makes a call knows after it.
OwnInv(p) == HandlesOf(p) /\ GotOf(p) /\ InsideOf(p) /\ StatusOf(p)

LEMMA CallFacts ==
  ASSUME EnvelopeTypes, AgreeInv, NEW p \in Procs, Steps(p), NEW then, NEW code, Moves(p, then, code)
  PROVE  /\ Call(p)' = Call(p) /\ Arg(p)' = Arg(p) /\ Op(p)' = Op(p)
         /\ Call(p).routine = "PointToPoint"
         /\ \A ops : Op(p) \in ops <=> Makes(p, round[p], ops)
         /\ got[p][round[p]] = NoMessage
         /\ \A k \in DOMAIN program :
              (Makes(p, k, {"Mprobe"}) /\ Called(p, k)' => Called(p, k)) \/ k = round[p]
<1>1. /\ program' = program /\ round' = round /\ round[p] \in DOMAIN program
      /\ pc[p] = "called" /\ ~Called(p, round[p])
      /\ \A q \in Procs : \A i \in Int : Called(q, i)' <=> Called(q, i) \/ (q = p /\ i = round[p])
  BY MoveFacts
<1>2. Call(p).routine = "PointToPoint"
  BY DEF Moves
<1>3. \A ops : Op(p) \in ops <=> Makes(p, round[p], ops)
  BY <1>1, <1>2 DEF Makes, Op, Arg, Call
<1>4. got[p][round[p]] = NoMessage
  BY <1>1 DEF AgreeInv, GotOf
<1> QED
  BY <1>1, <1>2, <1>3, <1>4, RoundNumbers DEF Op, Arg, Call

\* A call that receives nothing at once and leaves the handles alone.
LEMMA OwnPlain ==
  ASSUME EnvelopeTypes, ControlKept, AgreeInv, NEW p \in Procs, Steps(p), NEW then, NEW code,
         Moves(p, then, code), Op(p) # "Mprobe",
         message'[p] = message[p], held'[p] = held[p], got'[p] = got[p],
         then = "inside" /\ Op(p) \in Blocking =>
           \E r \in recvs' : r.proc = p /\ r.round = round[p]
  PROVE  OwnInv(p)'
<1>1. /\ Call(p)' = Call(p) /\ Arg(p)' = Arg(p) /\ Op(p)' = Op(p) /\ round' = round
      /\ got[p][round[p]] = NoMessage /\ pc'[p] = then
  BY CallFacts, MoveFacts
<1>2. \A k \in DOMAIN program : Makes(p, k, {"Mprobe"}) /\ Called(p, k)' => Called(p, k)
  BY CallFacts DEF Makes, Op, Arg, Call
<1>3. HandlesOf(p)'
  BY <1>2, HandlesKeep DEF AgreeInv
<1>4. GotOf(p)'
  BY GotKeep
<1>5. InsideOf(p)' /\ StatusOf(p)'
  BY <1>1 DEF InsideOf, StatusOf
<1> QED
  BY <1>3, <1>4, <1>5 DEF OwnInv

LEMMA OwnOuter ==
  ASSUME EnvelopeTypes, ControlKept, AgreeInv, NEW p \in Procs, Steps(p), Outer(p)
  PROVE  OwnInv(p)'
<1>0. /\ HandlesOf(p) /\ InsideOf(p) /\ StatusOf(p) /\ program' = program
      /\ UNCHANGED <<msgs, recvs, held, message, status, position, got>>
  BY DEF AgreeInv, ControlKept, Outer, p2p_vars
<1>1. GotOf(p)'
  BY <1>0, GotKeep
<1>2. CASE UNCHANGED <<pc, round, rc>>
  BY <1>0, <1>2, ProcessKeeps DEF OwnInv
<1>3. CASE /\ ~UNCHANGED <<pc, round, rc>>
           /\ \/ pc'[p] = "idle" \/ pc'[p] = "called"
              \/ Call(p).routine # "PointToPoint" /\ round' = round
  <2>1. \A k \in DOMAIN program : Makes(p, k, {"Mprobe"}) /\ Called(p, k)' => Called(p, k)
    BY OuterMakes
  <2>2. HandlesOf(p)'
    BY <1>0, <2>1, HandlesKeep
  <2>3. CASE pc'[p] = "idle" \/ pc'[p] = "called"
    BY <1>1, <2>2, <2>3 DEF OwnInv, InsideOf, StatusOf
  <2>4. CASE Call(p).routine # "PointToPoint" /\ round' = round
    BY <1>0, <1>1, <2>2, <2>4 DEF OwnInv, InsideOf, StatusOf, Call
  <2> QED
    BY <1>3, <2>3, <2>4
<1> QED
  BY <1>2, <1>3 DEF Outer

\* Mprobe takes a message that its call asks for.
LEMMA TakesAgree ==
  ASSUME LegalReceives, EnvelopeTypes, NEW p \in Procs, pc[p] # "idle",
         Call(p).routine = "PointToPoint", NEW m \in msgs,
         Accepts(C_MPI_PROC_NULL_DETECTOR(Arg(p).source), Arg(p).rtag, m)
  PROVE  Arg(p).source = m.src /\ Arg(p).rtag = m.tag
<1>1. m.src \in Nat
  BY Ranks DEF EnvelopeTypes, KeptInv, Envelope
<1>2. Arg(p).source # MPI_ANY_SOURCE /\ Arg(p).rtag # MPI_ANY_TAG
  BY ControlFacts DEF LegalReceives, EnvelopeTypes, Arg, Call
<1>3. MPI_PROC_NULL \notin Nat /\ MPI_PROC_NULL # MPI_ANY_SOURCE
  BY ConstantsAssumption
<1> QED
  BY <1>1, <1>2, <1>3 DEF Accepts, C_MPI_PROC_NULL_DETECTOR

LEMMA OwnTakes ==
  ASSUME LegalReceives, EnvelopeTypes, ControlKept, AgreeInv, NEW p \in Procs, Steps(p), Takes(p)
  PROVE  OwnInv(p)'
<1> DEFINE i == round[p]
<1>0. PICK m \in msgs, id \in MessageIds :
        /\ Accepts(C_MPI_PROC_NULL_DETECTOR(Arg(p).source), Arg(p).rtag, m)
        /\ \A h \in held[p] : h.id # id
        /\ held' = [held EXCEPT ![p] = @ \cup {[id |-> id, msg |-> m]}]
        /\ message' = [message EXCEPT ![p][Arg(p).handle] = id]
        /\ status' = IF Arg(p).status THEN [status EXCEPT ![p] = [source |-> m.src, tag |-> m.tag]]
                     ELSE status
        /\ got' = [got EXCEPT ![p][i] = m]
  BY DEF Takes
<1>1. Moves(p, "finished", "MPI_SUCCESS") /\ Op(p) = "Mprobe"
  BY DEF Takes
<1>2. /\ Call(p)' = Call(p) /\ Arg(p)' = Arg(p) /\ Op(p)' = Op(p)
      /\ program' = program /\ round' = round /\ i \in DOMAIN program /\ ~Called(p, i) /\ pc[p] = "called"
      /\ pc'[p] = "finished" /\ Call(p).routine = "PointToPoint"
      /\ Makes(p, i, {"Mprobe"}) /\ ~Makes(p, i, Matched)
  BY <1>1, CallFacts, MoveFacts DEF Matched
<1>3. Arg(p).source = m.src /\ Arg(p).rtag = m.tag
  BY <1>0, <1>2, TakesAgree
<1>4. /\ DOMAIN got = Procs /\ DOMAIN got[p] = DOMAIN program /\ DOMAIN held = Procs
      /\ status \in [Procs -> Statuses]
  BY DEF AgreeInv, EnvelopeTypes, KeptInv, SeenInv
<1>5. got'[p] = [got[p] EXCEPT ![i] = m] /\ held'[p] = held[p] \cup {[id |-> id, msg |-> m]}
  BY <1>0, <1>4
<1>6. Called(p, i)'
  BY <1>1, <1>2, MoveFacts, RoundNumbers
<1>7. GotOf(p)'
  BY <1>2, <1>3, <1>5, <1>6, GotChange DEF Arg, Call
<1>8. HandlesOf(p)'
  <2>1. \A k \in DOMAIN program : k # i => got'[p][k] = got[p][k]
    BY <1>2, <1>4, <1>5
  <2>2. \E h \in held'[p] : h.id = id /\ h.msg = got'[p][i]
    <3>1. PICK h : h = [id |-> id, msg |-> m]
      OBVIOUS
    <3>2. h.id = id /\ h.msg = m /\ h \in held'[p]
      BY <1>5, <3>1
    <3>3. got'[p][i] = m
      BY <1>2, <1>4, <1>5
    <3> QED
      BY <3>2, <3>3
  <2>3. held[p] \subseteq held'[p]
    BY <1>5
  <2> QED
    BY <1>0, <1>1, <2>1, <2>2, <2>3, HandlesProbe
<1>9. InsideOf(p)' /\ StatusOf(p)'
  BY <1>0, <1>2, <1>4, <1>5 DEF InsideOf, StatusOf
<1> QED
  BY <1>7, <1>8, <1>9 DEF OwnInv
\* A new receive, of the call that p makes.
LEMMA NewAsks ==
  ASSUME EnvelopeTypes, ControlKept, AgreeInv, NEW p \in Procs, Steps(p), NEW then,
         Moves(p, then, "MPI_SUCCESS"), NEW out, NEW taken, NEW wants,
         got'[p] = got[p],
         Op(p) \in Blocking => wants = Arg(p).status /\ then = "inside",
         \/ Op(p) \in Selecting /\ taken = {}
         \/ /\ Op(p) \in Matched /\ Probed(p, round[p])
            /\ taken = {got[p][ProbeOf(p, round[p])]},
         NEW r, r = NewReceive(p, out, taken, wants)
  PROVE  AsksFor(r)'
<1> DEFINE k == ProbeOf(p, round[p])
<1>1. /\ r.proc = p /\ r.round = round[p] /\ r.source = Arg(p).source /\ r.tag = Arg(p).rtag
      /\ r.taken = taken /\ r.wants = wants /\ r.state = "posted"
  BY DEF NewReceive
<1>2. /\ program' = program /\ round' = round /\ pc'[p] = then
      /\ Arg(p) = program[round[p]].arg[p] /\ Op(p) = Arg(p).op
  BY MoveFacts DEF Arg, Op, Call
<1>3. CASE Op(p) \in Selecting /\ taken = {}
  BY <1>1, <1>2, <1>3 DEF AsksFor
<1>4. CASE Op(p) \in Matched /\ Probed(p, round[p]) /\ taken = {got[p][k]}
  <2>1. Probed(p, round[p])' /\ ProbeOf(p, round[p])' = k
    BY <1>2, <1>4, ProbedKept, ProbeOfKept
  <2> HIDE DEF k
  <2> QED
    BY <1>1, <1>2, <1>4, <2>1 DEF AsksFor
<1> QED
  BY <1>3, <1>4

\* After a step of p, nothing that other receives ask for has changed.
LEMMA OldAsks ==
  ASSUME EnvelopeTypes, ControlKept, AgreeInv, NEW p \in Procs, Steps(p),
         \A q \in Procs : q # p => got'[q] = got[q],
         \A i \in DOMAIN program : Called(p, i) => got'[p][i] = got[p][i],
         pc[p] = "inside" /\ Call(p).routine = "PointToPoint" => pc'[p] = "inside" /\ round' = round,
         NEW r \in recvs
  PROVE  AsksFor(r)'
<1>0. AsksFor(r) /\ r.proc \in Procs /\ Makes(r.proc, r.round, Selecting \cup Matched) /\ MatchInv
  BY RoundNumbers DEF AgreeInv, EnvelopeTypes
<1>1. CASE r.proc # p
  <2>1. pc'[r.proc] = pc[r.proc] /\ round'[r.proc] = round[r.proc] /\ got'[r.proc] = got[r.proc]
    BY <1>0, <1>1, StepControl
  <2> QED
    BY <1>0, <2>1, AsksKeep
<1>2. CASE r.proc = p
  <2>1. r.round = round[p] => Call(p).routine = "PointToPoint"
    BY <1>0, <1>2 DEF Makes, Call
  <2> QED
    BY <1>0, <1>2, <2>1, AsksKeep
<1> QED
  BY <1>1, <1>2

\* The other processes.
LEMMA OthersKeep ==
  ASSUME EnvelopeTypes, ControlKept, AgreeInv, NEW p \in Procs, Steps(p), NEW q \in Procs, q # p,
         rc'[q] = rc[q], message'[q] = message[q],
         held'[q] = held[q], status'[q] = status[q], got'[q] = got[q],
         \A r \in recvs : r.proc = q => r \in recvs'
  PROVE  OwnInv(q)'
BY StepControl, ProcessKeeps DEF EnvelopeTypes, OwnInv

\* What a call changes of other processes, whatever its shape.
LEMMA ShapeFrame ==
  ASSUME EnvelopeTypes, AgreeInv, NEW p \in Procs, Steps(p), Shape(p)
  PROVE  /\ \A q \in Procs : q # p => /\ rc'[q] = rc[q] /\ message'[q] = message[q]
                                      /\ held'[q] = held[q] /\ status'[q] = status[q]
                                      /\ got'[q] = got[q]
         /\ recvs \subseteq recvs'
         /\ DOMAIN got' = Procs /\ \A q \in Procs : DOMAIN got'[q] = DOMAIN program
         /\ \A i \in DOMAIN program : Called(p, i) => got'[p][i] = got[p][i]
<1>0. /\ DOMAIN got = Procs /\ \A q \in Procs : DOMAIN got[q] = DOMAIN program
      /\ DOMAIN rc = Procs /\ DOMAIN message = Procs /\ DOMAIN held = Procs /\ DOMAIN status = Procs
  BY DEF AgreeInv, EnvelopeTypes, SeenInv, KeptInv
<1>1. ASSUME NEW then, NEW code, Moves(p, then, code)
      PROVE  /\ ~Called(p, round[p]) /\ \A q \in Procs : q # p => rc'[q] = rc[q]
  BY <1>1, MoveFacts
<1>2. CASE Outer(p)
  BY <1>0, <1>2 DEF Outer, p2p_vars
<1>3. CASE Refuses(p)
  <2>1. /\ \A q \in Procs : q # p => message'[q] = message[q]
        /\ UNCHANGED <<recvs, held, status, got>>
    BY <1>0, <1>3 DEF Refuses
  <2> QED
    BY <1>0, <1>1, <1>3, <2>1 DEF Refuses
<1>4. CASE Sends(p) \/ Receives(p)
  <2>1. UNCHANGED <<held, message, status, got>> /\ recvs \subseteq recvs'
    BY <1>4 DEF Sends, Receives, Posts
  <2>2. \E then : Moves(p, then, "MPI_SUCCESS")
    BY <1>4 DEF Sends, Receives, Posts
  <2> QED
    BY <1>0, <1>1, <2>1, <2>2
<1>5. CASE Copies(p)
  <2>1. PICK m : got' = [got EXCEPT ![p][round[p]] = m]
    BY <1>5 DEF Copies
  <2>2. /\ DOMAIN got' = Procs /\ \A q \in Procs : DOMAIN got'[q] = DOMAIN program
        /\ \A q \in Procs : q # p => got'[q] = got[q]
        /\ \A i \in DOMAIN program : i # round[p] => got'[p][i] = got[p][i]
    BY <1>0, <2>1
  <2> QED
    BY <1>1, <1>5, <2>2 DEF Copies
<1>6. CASE Answers(p)
  <2>1. /\ \A q \in Procs : q # p => message'[q] = message[q] /\ status'[q] = status[q]
        /\ UNCHANGED <<recvs, held, got>>
    BY <1>0, <1>6 DEF Answers
  <2> QED
    BY <1>0, <1>1, <1>6, <2>1 DEF Answers
<1>7. CASE Takes(p)
  <2>1. PICK m, id :
          /\ held' = [held EXCEPT ![p] = @ \cup {[id |-> id, msg |-> m]}]
          /\ message' = [message EXCEPT ![p][Arg(p).handle] = id]
          /\ status' = IF Arg(p).status THEN [status EXCEPT ![p] = [source |-> m.src, tag |-> m.tag]]
                       ELSE status
          /\ got' = [got EXCEPT ![p][round[p]] = m]
          /\ recvs' = recvs
    BY <1>7 DEF Takes
  <2>2. /\ DOMAIN got' = Procs /\ \A q \in Procs : DOMAIN got'[q] = DOMAIN program
        /\ \A q \in Procs : q # p => got'[q] = got[q]
        /\ \A i \in DOMAIN program : i # round[p] => got'[p][i] = got[p][i]
    BY <1>0, <2>1
  <2>3. \A q \in Procs : q # p => message'[q] = message[q] /\ held'[q] = held[q] /\ status'[q] = status[q]
    BY <1>0, <2>1
  <2> QED
    BY <1>1, <1>7, <2>1, <2>2, <2>3 DEF Takes
<1>8. CASE Collects(p)
  <2>1. PICK h \in held[p] : \E out, wants, then :
          /\ Moves(p, then, "MPI_SUCCESS")
          /\ held' = [held EXCEPT ![p] = @ \ {h}]
          /\ recvs' = recvs \cup {NewReceive(p, out, {h.msg}, wants)}
          /\ UNCHANGED <<message, status, got>>
    BY <1>8 DEF Collects
  <2> QED
    BY <1>0, <1>1, <2>1
<1> QED
  BY <1>2, <1>3, <1>4, <1>5, <1>6, <1>7, <1>8 DEF Shape
LEMMA OwnRefuses ==
  ASSUME EnvelopeTypes, ControlKept, AgreeInv, NEW p \in Procs, Steps(p), Refuses(p)
  PROVE  OwnInv(p)'
<1>1. PICK code : code # "MPI_SUCCESS" /\ Moves(p, "finished", code)
  BY DEF Refuses
<1>2. UNCHANGED <<msgs, recvs, held, status, got>>
  BY DEF Refuses
<1>3. CASE Op(p) # "Mprobe" /\ message' = message
  BY <1>1, <1>2, <1>3, OwnPlain
<1>4. CASE /\ Op(p) = "Mprobe" /\ ~Accepted(program, p, round[p])
           /\ \E id \in LibraryHandles : message' = [message EXCEPT ![p][Arg(p).handle] = id]
  <2>1. HandlesOf(p)'
    BY <1>1, <1>2, <1>4, HandlesProbe
  <2>2. GotOf(p)'
    BY <1>2, GotKeep
  <2>3. pc'[p] = "finished" /\ rc'[p] # "MPI_SUCCESS"
    BY <1>1, MoveFacts
  <2>4. InsideOf(p)' /\ StatusOf(p)'
    BY <2>3 DEF InsideOf, StatusOf
  <2> QED
    BY <2>1, <2>2, <2>4 DEF OwnInv
<1> QED
  BY <1>3, <1>4 DEF Refuses

LEMMA OwnAnswers ==
  ASSUME EnvelopeTypes, ControlKept, AgreeInv, NEW p \in Procs, Steps(p), Answers(p)
  PROVE  OwnInv(p)'
<1>1. Moves(p, "finished", "MPI_SUCCESS") /\ UNCHANGED <<msgs, recvs, held, position, got>>
  BY DEF Answers
<1>2. CASE Op(p) \in Matched \cup {"Probe"} /\ message' = message
  <2>1. Op(p) # "Mprobe"
    BY <1>2 DEF Matched
  <2> QED
    BY <1>1, <1>2, <2>1, OwnPlain
<1>3. CASE Op(p) = "Mprobe" /\ message' = [message EXCEPT ![p][Arg(p).handle] = MPI_MESSAGE_NO_PROC]
  <2>1. HandlesOf(p)'
    BY <1>1, <1>3, HandlesProbe
  <2>2. GotOf(p)'
    BY <1>1, GotKeep
  <2>3. pc'[p] = "finished" /\ got'[p][round'[p]] = NoMessage
    BY <1>1, MoveFacts, CallFacts
  <2>4. InsideOf(p)' /\ StatusOf(p)'
    BY <2>3 DEF InsideOf, StatusOf
  <2> QED
    BY <2>1, <2>2, <2>4 DEF OwnInv
<1> QED
  BY <1>2, <1>3 DEF Answers

LEMMA OwnCopies ==
  ASSUME EnvelopeTypes, ControlKept, AgreeInv, NEW p \in Procs, Steps(p), Copies(p)
  PROVE  OwnInv(p)'
<1>0. PICK i : i = round[p]
  OBVIOUS
<1>1. /\ Moves(p, "finished", "MPI_SUCCESS") /\ Op(p) \in Copying
      /\ UNCHANGED <<msgs, recvs, held, message, status>>
  BY DEF Copies
<1>2. PICK m : got' = [got EXCEPT ![p][i] = m]
  BY <1>0 DEF Copies
<1>3. /\ program' = program /\ i \in DOMAIN program /\ ~Called(p, i) /\ Called(p, i)'
      /\ pc'[p] = "finished" /\ Op(p)' = Op(p) /\ program[i].routine = "PointToPoint"
      /\ ~Makes(p, i, {"Mprobe"}) /\ ~Makes(p, i, Selecting \cup {"Mprobe"}) /\ ~Makes(p, i, Matched)
  <2>1. Op(p) \notin Selecting \cup {"Mprobe"} /\ Op(p) \notin Matched
    BY <1>1 DEF Selecting, Matched, Copying
  <2> QED
    BY <1>0, <1>1, <2>1, MoveFacts, CallFacts, RoundNumbers DEF Call
<1>4. DOMAIN got = Procs /\ DOMAIN got[p] = DOMAIN program
  BY DEF AgreeInv
<1>5. got'[p] = [got[p] EXCEPT ![i] = m]
  BY <1>2, <1>4
<1>6. GotOf(p)'
  BY <1>3, <1>5, GotChange
<1>7. HandlesOf(p)'
  <2>1. \A k \in DOMAIN program : Makes(p, k, {"Mprobe"}) => k # i
    BY <1>3
  <2>2. \A k \in DOMAIN program : Makes(p, k, {"Mprobe"}) => got'[p][k] = got[p][k]
    BY <1>5, <2>1
  <2>3. \A k \in DOMAIN program : Makes(p, k, {"Mprobe"}) /\ Called(p, k)' => Called(p, k)
    BY <1>0, <1>1, <2>1, CallFacts
  <2> QED
    BY <1>1, <2>2, <2>3, HandlesKeep DEF AgreeInv
<1>8. InsideOf(p)' /\ StatusOf(p)'
  BY <1>1, <1>3 DEF InsideOf, StatusOf, Copying
<1> QED
  BY <1>6, <1>7, <1>8 DEF OwnInv

LEMMA OwnCollects ==
  ASSUME LegalReceives, EnvelopeTypes, ControlKept, AgreeInv, NEW p \in Procs, Steps(p), Collects(p)
  PROVE  OwnInv(p)' /\ \A r \in recvs' : r \in recvs \/ AsksFor(r)'
<1>0. PICK h \in held[p] : \E out, wants, then :
        /\ Moves(p, then, "MPI_SUCCESS")
        /\ Op(p) \in Blocking => wants = Arg(p).status /\ then = "inside"
        /\ h.id = Message(p)
        /\ held' = [held EXCEPT ![p] = @ \ {h}]
        /\ recvs' = recvs \cup {NewReceive(p, out, {h.msg}, wants)}
        /\ UNCHANGED <<msgs, message, status, position, got>>
  BY DEF Collects
<1>1. PICK out, wants, then :
        /\ Moves(p, then, "MPI_SUCCESS")
        /\ Op(p) \in Blocking => wants = Arg(p).status /\ then = "inside"
        /\ h.id = Message(p)
        /\ held' = [held EXCEPT ![p] = @ \ {h}]
        /\ recvs' = recvs \cup {NewReceive(p, out, {h.msg}, wants)}
        /\ UNCHANGED <<msgs, message, status, position, got>>
  BY <1>0
<1>2. PICK r : r = NewReceive(p, out, {h.msg}, wants)
  OBVIOUS
<1>3. /\ Op(p) \in Matched /\ pc[p] = "called" /\ Call(p).routine = "PointToPoint"
      /\ held'[p] = held[p] \ {h}
  BY <1>1 DEF Collects, Moves, EnvelopeTypes, KeptInv
<1>4. Probed(p, round[p]) /\ h.msg = got[p][ProbeOf(p, round[p])]
  BY <1>1, <1>3, CollectsProbed
<1>5. AsksFor(r)'
  BY <1>1, <1>2, <1>3, <1>4, NewAsks
<1>6. HandlesOf(p)'
  BY <1>1, <1>3, HandlesCollect
<1>7. GotOf(p)'
  BY <1>1, GotKeep
<1>8. /\ r \in recvs' /\ r.proc = p /\ r.round = round'[p] /\ pc'[p] = then /\ Op(p)' = Op(p)
      /\ got'[p][round'[p]] = NoMessage
  BY <1>1, <1>2, MoveFacts, CallFacts DEF NewReceive
<1>9. InsideOf(p)' /\ StatusOf(p)'
  BY <1>3, <1>8 DEF InsideOf, StatusOf, Matched
<1> QED
  BY <1>1, <1>2, <1>5, <1>6, <1>7, <1>9 DEF OwnInv

LEMMA OwnReceives ==
  ASSUME EnvelopeTypes, ControlKept, AgreeInv, NEW p \in Procs, Steps(p), Receives(p)
  PROVE  OwnInv(p)' /\ \A r \in recvs' : r \in recvs \/ AsksFor(r)'
<1>1. PICK out, wants, then :
        /\ Posts(p, TRUE, out, wants, then)
        /\ Op(p) \in Blocking => wants = Arg(p).status /\ then = "inside"
  BY DEF Receives
<1>2. PICK r : r = NewReceive(p, out, {}, wants)
  OBVIOUS
<1>3. /\ Moves(p, then, "MPI_SUCCESS") /\ recvs' = recvs \cup {r}
      /\ UNCHANGED <<held, message, status, position, got>>
      /\ Op(p) \in Selecting /\ Op(p) # "Mprobe"
  BY <1>1, <1>2 DEF Posts, Receives, Selecting
<1>4. r \in recvs' /\ r.proc = p /\ r.round = round[p]
  BY <1>2, <1>3 DEF NewReceive
<1>5. AsksFor(r)'
  BY <1>1, <1>2, <1>3, NewAsks
<1>6. OwnInv(p)'
  BY <1>3, <1>4, OwnPlain
<1> QED
  BY <1>3, <1>5, <1>6

LEMMA ShapeAgree ==
  ASSUME LegalReceives, EnvelopeTypes, ControlKept, AgreeInv, NEW p \in Procs, Steps(p), Shape(p)
  PROVE  AgreeInv'
<1>1. OwnInv(p)' /\ \A r \in recvs' : r \in recvs \/ AsksFor(r)'
  <2>1. CASE Outer(p)
    BY <2>1, OwnOuter DEF Outer, p2p_vars
  <2>2. CASE Refuses(p)
    BY <2>2, OwnRefuses DEF Refuses
  <2>3. CASE Sends(p)
    <3>1. PICK out, wants, then : Posts(p, FALSE, out, wants, then)
      BY <2>3 DEF Sends
    <3>2. /\ Moves(p, then, "MPI_SUCCESS") /\ recvs' = recvs
          /\ UNCHANGED <<held, message, status, position, got>>
          /\ Op(p) # "Mprobe" /\ Op(p) \notin Blocking
      BY <2>3, <3>1 DEF Posts, Sends, Selecting, Matched, Blocking
    <3>3. OwnInv(p)'
      BY <3>2, OwnPlain
    <3> QED
      BY <3>2, <3>3
  <2>4. CASE Receives(p)
    BY <2>4, OwnReceives
  <2>5. CASE Copies(p)
    BY <2>5, OwnCopies DEF Copies
  <2>6. CASE Answers(p)
    BY <2>6, OwnAnswers DEF Answers
  <2>7. CASE Takes(p)
    BY <2>7, OwnTakes DEF Takes
  <2>8. CASE Collects(p)
    BY <2>8, OwnCollects
  <2> QED
    BY <2>1, <2>2, <2>3, <2>4, <2>5, <2>6, <2>7, <2>8 DEF Shape
<1>2. /\ \A q \in Procs : q # p => /\ rc'[q] = rc[q] /\ message'[q] = message[q]
                                   /\ held'[q] = held[q] /\ status'[q] = status[q]
                                   /\ got'[q] = got[q]
      /\ recvs \subseteq recvs'
      /\ DOMAIN got' = Procs /\ \A q \in Procs : DOMAIN got'[q] = DOMAIN program
      /\ \A i \in DOMAIN program : Called(p, i) => got'[p][i] = got[p][i]
  BY ShapeFrame
<1>3. \A q \in Procs : q # p => OwnInv(q)'
  BY <1>2, OthersKeep
<1>4. pc[p] = "inside" /\ Call(p).routine = "PointToPoint" => pc'[p] = "inside" /\ round' = round
  <2> SUFFICES ASSUME pc[p] = "inside", Call(p).routine = "PointToPoint"
               PROVE  pc'[p] = "inside" /\ round' = round
    OBVIOUS
  <2>1. \A then, code : ~Moves(p, then, code)
    BY DEF Moves
  <2>2. Outer(p)
    BY <2>1 DEF Shape, Refuses, Sends, Receives, Posts, Copies, Answers, Takes, Collects
  <2>3. ~ReturnStep(p) /\ ~CreateStep(p)
    BY DEF ReturnStep, Return, CreateStep
  <2>4. UNCHANGED round /\ (pc' = pc \/ pc'[p] = "finished")
    BY <2>3, StepControl DEF EnvelopeTypes
  <2> QED
    BY <2>2, <2>4 DEF Outer
<1>5. \A r \in recvs' : AsksFor(r)'
  BY <1>1, <1>2, <1>4, OldAsks
<1>6. program' = program
  BY DEF ControlKept
<1> QED
  BY <1>1, <1>2, <1>3, <1>5, <1>6 DEF AgreeInv, OwnInv
\* The library gives a receive what it asks for.
LEMMA MatchAgree ==
  ASSUME LegalReceives, EnvelopeTypes, ControlKept, AgreeInv, NEW r \in recvs,
         NEW m \in msgs \cup r.taken, Match(r, m)
  PROVE  AgreeInv'
<1> DEFINE p == r.proc
           i == r.round
<1>1. PICK new : /\ recvs' = (recvs \ {r}) \cup {new}
                 /\ new = [r EXCEPT !.state = new.state, !.msg = m]
                 /\ new.state \in {"done", "truncated"}
                 /\ got' = IF new.state = "done" THEN [got EXCEPT ![p][i] = m] ELSE got
  BY MatchedReceive, Zenon
<1>2. /\ r.state = "posted" /\ Envelope(m)
      /\ r.taken # {} => m \in r.taken
      /\ r.taken = {} => Accepts(r.source, r.tag, m)
      /\ UNCHANGED <<program, round, pc, rc, temp, held, message, status, position>>
  BY MatchedReceive, Zenon
<1>3. /\ p \in Procs /\ i \in DOMAIN program /\ Called(p, i) /\ Makes(p, i, Selecting \cup Matched)
      /\ ~Makes(p, i, {"Mprobe"}) /\ AsksFor(r)
  BY RoundNumbers DEF AgreeInv, Makes, Selecting, Matched
<1>4. \A q, j : Called(q, j)' <=> Called(q, j)
  BY <1>2 DEF Called
<1>5. /\ DOMAIN got = Procs /\ \A q \in Procs : DOMAIN got[q] = DOMAIN program
      /\ \A q \in Procs : HandlesOf(q) /\ GotOf(q) /\ InsideOf(q) /\ StatusOf(q)
      /\ \A s \in recvs : AsksFor(s)
  BY DEF AgreeInv
<1>6. /\ DOMAIN got' = Procs /\ \A q \in Procs : DOMAIN got'[q] = DOMAIN program
      /\ \A q \in Procs : q # p => got'[q] = got[q]
      /\ \A j \in DOMAIN program : j # i => got'[p][j] = got[p][j]
      /\ new.state = "done" => got'[p] = [got[p] EXCEPT ![i] = m] /\ got'[p][i] = m
      /\ new.state # "done" => got' = got
  BY <1>1, <1>3, <1>5
<1>7. /\ new.proc = p /\ new.round = i /\ new.source = r.source /\ new.tag = r.tag
      /\ new.taken = r.taken /\ new.wants = r.wants /\ new.msg = m
  BY <1>1 DEF EnvelopeTypes, KeptInv, IsReceive
<1>8. /\ program[i].arg[p].op \in Selecting =>
           program[i].arg[p].source = m.src /\ program[i].arg[p].rtag = m.tag
      /\ program[i].arg[p].op \in Matched => Probed(p, i) /\ m = got[p][ProbeOf(p, i)]
  <2>1. program[i].routine = "PointToPoint" /\ program \in Programs
    BY <1>3, ControlFacts DEF Makes, EnvelopeTypes
  <2>2. program[i].arg[p].source # MPI_ANY_SOURCE /\ program[i].arg[p].rtag # MPI_ANY_TAG
    BY <1>3, <2>1 DEF LegalReceives
  <2>3. Selecting \cap Matched = {}
    BY DEF Selecting, Matched
  <2> QED
    BY <1>2, <1>3, <2>2, <2>3 DEF AsksFor, Accepts
<1> HIDE DEF p, i
<1>9. GotOf(p)'
  <2>1. CASE new.state # "done"
    BY <1>3, <1>6, <2>1, GotKeep
  <2>2. CASE new.state = "done"
    <3>1. /\ Makes(p, i, Selecting \cup {"Mprobe"}) =>
               program[i].arg[p].source = m.src /\ program[i].arg[p].rtag = m.tag
          /\ Makes(p, i, Matched) => Probed(p, i) /\ m = got[p][ProbeOf(p, i)]
      BY <1>3, <1>8 DEF Makes
    <3>2. PICK q, j : q = p /\ j = i
      OBVIOUS
    <3>3. Called(q, j)'
      BY <1>3, <1>4, <3>2
    <3>4. GotOf(q)'
      BY <1>3, <1>6, <2>2, <3>1, <3>2, <3>3, GotChange DEF Makes
    <3> QED
      BY <3>2, <3>4 DEF p
  <2> QED
    BY <2>1, <2>2
<1>10. AsksFor(new)'
  <2>1. got'[p][ProbeOf(p, i)] = got[p][ProbeOf(p, i)] \/ ~Probed(p, i)
    BY <1>3, <1>6 DEF Probed, Makes
  <2>2. Probed(p, i) => Probed(p, i)' /\ ProbeOf(p, i)' = ProbeOf(p, i)
    BY <1>2, <1>3, ProbedKept, ProbeOfKept
  <2>3. new.state = "done" => got'[p][i] = new.msg
    BY <1>6, <1>7
  <2> QED
    BY <1>2, <1>3, <1>7, <2>1, <2>2, <2>3 DEF AsksFor, p, i
<1>11. \A s \in recvs : s # r => AsksFor(s)'
  <2> SUFFICES ASSUME NEW s \in recvs, s # r PROVE AsksFor(s)'
    OBVIOUS
  <2>1. s.proc \in Procs /\ (s.proc = p => s.round # i)
    BY RoundNumbers DEF EnvelopeTypes, KeptInv, p, i
  <2>2. \A j \in DOMAIN program : j = s.round \/ Makes(s.proc, j, {"Mprobe"}) =>
          got'[s.proc][j] = got[s.proc][j]
    BY <1>3, <1>6, <2>1
  <2> QED
    BY <1>2, <1>5, <2>2, AsksKeep
<1>12. \A s \in recvs' : AsksFor(s)'
  BY <1>1, <1>10, <1>11
<1>13. ASSUME NEW q \in Procs PROVE HandlesOf(q)'
  <2>1. \A k \in DOMAIN program : Makes(q, k, {"Mprobe"}) => got'[q][k] = got[q][k]
    BY <1>3, <1>6
  <2> QED
    BY <1>2, <1>4, <1>5, <2>1, HandlesKeep
<1>14. ASSUME NEW q \in Procs PROVE InsideOf(q)'
  <2>1. Call(q)' = Call(q) /\ Op(q)' = Op(q) /\ pc' = pc /\ round' = round
    BY <1>2 DEF Call, Op, Arg
  <2>2. \A s \in recvs : s = r \/ s \in recvs'
    BY <1>1
  <2>3. new \in recvs' /\ new.proc = r.proc /\ new.round = r.round
    BY <1>1, <1>7 DEF p, i
  <2> QED
    BY <1>5, <2>1, <2>2, <2>3 DEF InsideOf
<1>15. ASSUME NEW q \in Procs PROVE StatusOf(q)'
  <2> SUFFICES ASSUME pc[q] = "finished", rc[q] = "MPI_SUCCESS", Call(q).routine = "PointToPoint",
                      Op(q) \in {"Recv", "Sendrecv", "Mprobe", "Mrecv"}
               PROVE  got'[q][round[q]] = got[q][round[q]]
    BY <1>2, <1>5 DEF StatusOf, Call, Op, Arg
  <2>1. round[q] \in DOMAIN program
    BY ControlFacts DEF EnvelopeTypes
  <2>2. ASSUME q = p, round[q] = i PROVE FALSE
    <3>1. Op(q) = program[i].arg[p].op
      BY <2>2 DEF Op, Arg, Call
    <3>2. Op(q) \in Blocking
      BY <1>3, <3>1 DEF Makes, Blocking
    <3> QED
      BY <1>3, <2>2, <3>1, <3>2 DEF AsksFor, p, i
  <2> QED
    BY <1>6, <2>1, <2>2
<1>16. \A q \in Procs : GotOf(q)'
  <2> SUFFICES ASSUME NEW q \in Procs, q # p PROVE GotOf(q)'
    BY <1>9 DEF p
  <2> QED
    BY <1>6, GotKeep
<1> QED
  BY <1>2, <1>6, <1>12, <1>13, <1>14, <1>15, <1>16 DEF AgreeInv
\* A call that waited for its receive returns with the status of what it got.
LEMMA FinishStatus ==
  ASSUME EnvelopeTypes, AgreeInv, NEW p \in Procs, Finish(p, FALSE)
  PROVE  StatusOf(p)'
<1> DEFINE mine == {r \in recvs : r.proc = p /\ (Op(p) = "Wait" \/ r.round = round[p])}
           told == CHOOSE r \in mine : r.wants
           bad  == \E r \in mine : r.state = "truncated"
<1>1. /\ pc[p] = "inside" /\ Call(p).routine = "PointToPoint"
      /\ \A r \in mine : r.state # "posted"
      /\ rc' = [rc EXCEPT ![p] = CASE ~bad -> "MPI_SUCCESS"
                                   [] bad /\ Op(p) = "Wait" -> "MPI_ERR_IN_STATUS"
                                   [] OTHER -> "MPI_ERR_TRUNCATE"]
      /\ status' = IF \E r \in mine : r.wants /\ r.state = "done"
                   THEN Status(p, TRUE, told.msg) ELSE status
      /\ UNCHANGED <<program, round, got>>
  BY Zenon DEF Finish
<1>2. DOMAIN rc = Procs /\ status \in [Procs -> Statuses] /\ InsideOf(p)
  BY DEF EnvelopeTypes, SeenInv, AgreeInv
<1>3. Call(p)' = Call(p) /\ Arg(p)' = Arg(p) /\ Op(p)' = Op(p) /\ round' = round /\ got' = got
  BY <1>1 DEF Call, Arg, Op
<1> HIDE DEF bad
<1>4. SUFFICES ASSUME rc'[p] = "MPI_SUCCESS", Op(p) \in {"Recv", "Sendrecv", "Mprobe", "Mrecv"},
                      Arg(p).status
               PROVE  status'[p] = [source |-> got[p][round[p]].src, tag |-> got[p][round[p]].tag]
  BY <1>3 DEF StatusOf
<1>5. ~bad
  BY <1>1, <1>2, <1>4
<1>6. Op(p) \in Blocking /\ Op(p) # "Wait"
  BY <1>1, <1>2, <1>4 DEF InsideOf, Blocking
<1>7. PICK r \in recvs : r.proc = p /\ r.round = round[p]
  BY <1>1, <1>2, <1>6 DEF InsideOf
<1>8. \A s : s \in mine <=> s = r
  BY <1>6, <1>7 DEF EnvelopeTypes, KeptInv
<1>9. /\ r.state = "done" /\ AsksFor(r) /\ program[r.round].arg[r.proc] = Arg(p)
  <2>1. r.state # "posted" /\ r.state # "truncated"
    BY <1>1, <1>5, <1>8 DEF bad
  <2> QED
    BY <1>7, <2>1 DEF EnvelopeTypes, KeptInv, IsReceive, AgreeInv, Arg, Call
<1>10. r.wants /\ r.msg = got[p][round[p]]
  BY <1>4, <1>6, <1>7, <1>9 DEF AsksFor, Op
<1>11. told = r
  BY <1>8, <1>10
<1>12. status' = [status EXCEPT ![p] = [source |-> r.msg.src, tag |-> r.msg.tag]]
  BY <1>1, <1>8, <1>9, <1>10, <1>11 DEF Status
<1> QED
  BY <1>2, <1>10, <1>12

LEMMA FinishAgree ==
  ASSUME EnvelopeTypes, ControlKept, AgreeInv, NEW p \in Procs, Finish(p, FALSE)
  PROVE  AgreeInv'
<1>1. /\ Steps(p) /\ pc[p] = "inside" /\ Call(p).routine = "PointToPoint"
      /\ UNCHANGED <<program, round, msgs, held, message, position, got>>
      /\ recvs' = recvs \ {r \in recvs : r.proc = p /\ (Op(p) = "Wait" \/ r.round = round[p])}
      /\ pc' = [pc EXCEPT ![p] = "finished"]
      /\ \E code : rc' = [rc EXCEPT ![p] = code]
      /\ status' = status \/ \E s : status' = [status EXCEPT ![p] = s]
  BY FinishShape, Zenon DEF Finish, Status
<1>2. /\ DOMAIN rc = Procs /\ DOMAIN status = Procs /\ DOMAIN pc = Procs
      /\ round \in [Procs -> Nat \ {0}]
  BY ControlFacts DEF EnvelopeTypes, SeenInv
<1>3. pc'[p] = "finished" /\ \A q \in Procs : q # p =>
        pc'[q] = pc[q] /\ rc'[q] = rc[q] /\ status'[q] = status[q]
  BY <1>1, <1>2
<1>4. \A q \in Procs : q # p => OwnInv(q)'
  <2> SUFFICES ASSUME NEW q \in Procs, q # p PROVE OwnInv(q)'
    OBVIOUS
  <2>1. \A r \in recvs : r.proc = q => r \in recvs'
    BY <1>1
  <2> QED
    BY <1>1, <1>3, <2>1, OthersKeep
<1>5. \A q \in Procs : \A i \in Int : Called(q, i)' <=> Called(q, i)
  BY <1>1, <1>3 DEF Called
<1>6. HandlesOf(p)'
  BY <1>1, <1>5, RoundNumbers, HandlesKeep DEF AgreeInv
<1>7. GotOf(p)'
  BY <1>1, GotKeep
<1>8. InsideOf(p)' /\ StatusOf(p)'
  BY <1>3, FinishStatus DEF InsideOf
<1>9. \A r \in recvs' : AsksFor(r)'
  <2> SUFFICES ASSUME NEW r \in recvs' PROVE AsksFor(r)'
    OBVIOUS
  <2>1. r \in recvs /\ AsksFor(r) /\ r.proc \in Procs
    BY <1>1, RoundNumbers DEF AgreeInv
  <2>2. r.proc = p => r.round # round[p]
    BY <1>1
  <2> QED
    BY <1>1, <1>3, <2>1, <2>2, AsksKeep
<1> QED
  BY <1>1, <1>4, <1>6, <1>7, <1>8, <1>9 DEF AgreeInv, OwnInv

LEMMA InitAgree == ASSUME P2PInit PROVE AgreeInv
<1>1. /\ got = [p \in Procs |-> [i \in DOMAIN program |-> NoMessage]]
      /\ recvs = {} /\ message = [p \in Procs |-> [v \in HandleVars |-> VAPAA_MPI_MESSAGE_NULL]]
      /\ pc = [p \in Procs |-> "idle"] /\ round = [p \in Procs |-> 1]
  BY DEF P2PInit, Init
<1>2. \A i \in DOMAIN program : i \in Nat /\ ~(i < 1)
  BY InitEnvelopeTypes, ControlFacts DEF EnvelopeTypes
<1>3. \A p \in Procs : \A i \in DOMAIN program : ~Called(p, i)
  BY <1>1, <1>2 DEF Called
<1>4. ASSUME NEW p \in Procs PROVE HandlesOf(p) /\ GotOf(p) /\ InsideOf(p) /\ StatusOf(p)
  BY <1>1, <1>3 DEF HandlesOf, Live, GotOf, InsideOf, StatusOf
<1> QED
  BY <1>1, <1>4 DEF AgreeInv

LEMMA NextAgree ==
  ASSUME LegalReceives, EnvelopeTypes, AgreeInv, [MPINext]_mpi_vars
  PROVE  AgreeInv'
<1>0. ControlKept
  BY StepKeepsControl DEF EnvelopeTypes
<1>1. ASSUME NEW p \in Procs, CollectiveStep(p) \/ P2PWrapper(p) PROVE AgreeInv'
  BY <1>0, <1>1, CollectiveShape, P2PWrapperShape, ShapeAgree
<1>2. ASSUME NEW p \in Procs, Matches(p) PROVE AgreeInv'
  <2>1. PICK r \in recvs : \E m \in msgs \cup r.taken : Match(r, m)
    BY <1>2 DEF Matches
  <2> QED
    BY <1>0, <2>1, MatchAgree
<1>3. ASSUME NEW p \in Procs, Finish(p, FALSE) PROVE AgreeInv'
  BY <1>0, <1>3, FinishAgree
<1>4. CASE UNCHANGED mpi_vars
  <2>1. UNCHANGED <<program, pc, round, rc, msgs, recvs, held, message, status, position, got>>
    BY <1>4 DEF mpi_vars, vars, p2p_vars
  <2>2. \A q \in Procs : HandlesOf(q)' /\ GotOf(q)' /\ InsideOf(q)' /\ StatusOf(q)'
    BY <1>0, <2>1, ProcessKeeps
  <2>3. \A r \in recvs : AsksFor(r)'
    BY <1>0, <2>1, AsksKeep DEF AgreeInv
  <2> QED
    BY <2>1, <2>2, <2>3 DEF AgreeInv
<1> QED
  BY <1>1, <1>2, <1>3, <1>4 DEF MPINext

\* A receive by rank and tag gets a message from that rank and with that tag, a
\* receive by handle gets the message its handle was probed for, also when the
\* library gives the same handle to one message after the other, and the status
\* that the program sees names the sender and the tag.
THEOREM ReceivesAgree == LegalReceives => (MPISpec => []EnvelopesAgree)
<1> SUFFICES ASSUME LegalReceives PROVE MPISpec => []EnvelopesAgree
  OBVIOUS
<1>1. EnvelopeTypes /\ AgreeInv => EnvelopesAgree
  <2> SUFFICES ASSUME EnvelopeTypes, AgreeInv, NEW p \in Procs
               PROVE  /\ \A i \in DOMAIN program :
                           LET m == got[p][i]
                               a == program[i].arg[p]
                           IN  m # NoMessage =>
                                 /\ a.op \in {"Recv", "Irecv", "Sendrecv", "Mprobe"} =>
                                      a.source = m.src /\ a.rtag = m.tag
                                 /\ a.op \in {"Mrecv", "Imrecv"} => m = got[p][ProbeOf(p, i)]
                      /\ StatusOf(p)
    BY DEF EnvelopesAgree, StatusOf
  <2>1. GotOf(p) /\ StatusOf(p)
    BY DEF AgreeInv
  <2> QED
    BY <2>1 DEF GotOf, Makes, Selecting, Matched
<1> QED
  BY <1>1, InitAgree, NextAgree, EnvelopeTypesInvariance, PTL DEF MPISpec
-----------------------------------------------------------------------------
(* The position of a process in its pack buffers. *)

CopiesOf(p) == {j \in DOMAIN program : Makes(p, j, Copying) /\ Called(p, j)}

\* The calls since the one that went back to the start, and with it.
SinceStart(p) == {j \in CopiesOf(p) : \A k \in CopiesOf(p) : k > j => ~program[k].arg[p].restart}

CopiedBy(p) == [j \in SinceStart(p) |-> Cardinality(DOMAIN got[p][j].sent)]

CountOf(p) ==
  /\ \A j \in DOMAIN program : ~Called(p, j) => got[p][j] = NoMessage
  /\ \A j \in SinceStart(p) : CopiedBy(p)[j] \in Int
  /\ position[p] = SumFunctionOnSet(CopiedBy(p), SinceStart(p))

CountInv ==
  /\ DOMAIN got = Procs /\ \A p \in Procs : DOMAIN got[p] = DOMAIN program
  /\ \A p \in Procs : CountOf(p)

\* No call that packs or unpacks is made.
LEMMA CountKeep ==
  ASSUME EnvelopeTypes, ControlKept, NEW p \in Procs, CountOf(p), position'[p] = position[p],
         \A j \in DOMAIN program : Makes(p, j, Copying) /\ Called(p, j)' => Called(p, j),
         \A j \in DOMAIN program : Makes(p, j, Copying) \/ ~Called(p, j)' => got'[p][j] = got[p][j]
  PROVE  CountOf(p)'
<1>1. program' = program /\ \A j \in DOMAIN program : Called(p, j) => Called(p, j)'
  BY RoundNumbers DEF ControlKept
<1>2. CopiesOf(p)' = CopiesOf(p)
  BY <1>1 DEF CopiesOf, Makes
<1>3. SinceStart(p)' = SinceStart(p)
  BY <1>1, <1>2 DEF SinceStart
<1>4. \A j \in SinceStart(p) : got'[p][j] = got[p][j]
  BY DEF SinceStart, CopiesOf
<1>5. CopiedBy(p)' = CopiedBy(p)
  BY <1>3, <1>4 DEF CopiedBy
<1>6. \A j \in DOMAIN program : ~Called(p, j)' => got'[p][j] = NoMessage
  BY <1>1 DEF CountOf
<1> QED
  BY <1>1, <1>3, <1>5, <1>6 DEF CountOf

\* A call that packs or unpacks n elements, none when it is refused.
LEMMA CountCopy ==
  ASSUME EnvelopeTypes, ControlKept, NEW p \in Procs, CountOf(p), NEW i, i = round[p],
         Makes(p, i, Copying), ~Called(p, i),
         \A j \in DOMAIN program : Called(p, j)' <=> Called(p, j) \/ j = i,
         \A j \in DOMAIN program : j # i => got'[p][j] = got[p][j],
         NEW n \in Nat, Cardinality(DOMAIN got'[p][i].sent) = n, position'[p] = StartAt(p) + n
  PROVE  CountOf(p)'
<1> DEFINE restart == program[i].arg[p].restart
           before  == IF restart THEN {} ELSE SinceStart(p)
           f == CopiedBy(p)
           g == CopiedBy(p)'
<1>1. /\ program' = program /\ i \in DOMAIN program /\ StartAt(p) = IF restart THEN 0 ELSE position[p]
      /\ DOMAIN program = 1..Len(program) /\ Len(program) \in Nat
  BY ControlFacts DEF EnvelopeTypes, ControlKept, StartAt, Arg, Call, Makes
<1>2. CopiesOf(p)' = CopiesOf(p) \cup {i}
  BY <1>1 DEF CopiesOf, Makes
<1>3. \A j \in CopiesOf(p) : j \in DOMAIN program /\ j < i
  <2>1. round[p] \in Nat /\ \A j \in DOMAIN program : j \in Int
    BY RoundNumbers
  <2> QED
    BY <2>1 DEF CopiesOf, Called
<1>4. SinceStart(p)' = before \cup {i} /\ i \notin before
  <2>1. \A j \in CopiesOf(p) : i > j /\ ~(j > i)
    BY <1>1, <1>3
  <2>2. ~(i > i)
    BY <1>1
  <2>3. \A j : j \in SinceStart(p)' <=>
          j \in CopiesOf(p) \cup {i} /\ \A k \in CopiesOf(p) \cup {i} : k > j => ~program[k].arg[p].restart
    BY <1>1, <1>2 DEF SinceStart
  <2>4. i \in SinceStart(p)'
    BY <2>1, <2>2, <2>3
  <2>5. \A j \in CopiesOf(p) : j \in SinceStart(p)' <=> j \in before
    BY <2>1, <2>3 DEF SinceStart
  <2> QED
    BY <2>1, <2>2, <2>3, <2>4, <2>5 DEF SinceStart
<1>5. /\ DOMAIN g = before \cup {i} /\ g[i] = n
      /\ \A j \in before : g[j] = f[j] /\ f[j] \in Int
  <2>1. \A j \in before : j \in SinceStart(p) /\ j \in DOMAIN program /\ j # i
    BY <1>3, <1>4 DEF SinceStart
  <2> QED
    BY <1>4, <2>1 DEF CopiedBy, CountOf
<1>6. IsFiniteSet(before \cup {i}) /\ IsFiniteSet(before)
  <2>1. before \cup {i} \subseteq 1..Len(program) /\ before \subseteq 1..Len(program)
    BY <1>1, <1>3 DEF SinceStart
  <2>2. IsFiniteSet(1..Len(program))
    <3>1. 1 \in Int /\ Len(program) \in Int
      BY <1>1
    <3> QED
      BY <3>1, FS_Interval
  <2> QED
    BY <2>1, <2>2, FS_Subset
<1> HIDE DEF f, g
<1>7. SumFunctionOnSet(f, before) = SumFunctionOnSet(g, before)
  <2> HIDE DEF before
  <2> QED
    BY <1>5, <1>6, SumEqual
<1>8. SumFunctionOnSet(f, before) = StartAt(p) /\ StartAt(p) \in Int
  <2>1. CASE restart
    BY <1>1, <2>1, SumEmpty
  <2>2. CASE ~restart
    BY <1>1, <1>5, <1>6, <2>2, SumInt DEF CountOf, f
  <2> QED
    BY <2>1, <2>2
<1>9. SumFunctionOnSet(g, before \cup {i}) = n + SumFunctionOnSet(g, before)
  <2>1. \A j \in before \cup {i} : g[j] \in Int
    BY <1>5
  <2>2. (before \cup {i}) \ {i} = before
    BY <1>4
  <2> HIDE DEF before
  <2>3. SumFunctionOnSet(g, before \cup {i}) = g[i] + SumFunctionOnSet(g, (before \cup {i}) \ {i})
    BY <1>6, <2>1, SumOut
  <2> QED
    BY <1>5, <2>2, <2>3
<1>10. position'[p] = SumFunctionOnSet(g, SinceStart(p)')
  BY <1>4, <1>7, <1>8, <1>9
<1>11. \A j \in DOMAIN program : ~Called(p, j)' => got'[p][j] = NoMessage
  BY DEF CountOf
<1> QED
  BY <1>1, <1>4, <1>5, <1>10, <1>11 DEF CountOf, g

\* A call of the library that neither packs nor unpacks.
LEMMA CountOther ==
  ASSUME EnvelopeTypes, ControlKept, CountInv, NEW p \in Procs, Steps(p), NEW then, NEW code,
         Moves(p, then, code), Op(p) \notin Copying, position'[p] = position[p],
         got' = got \/ \E m : got' = [got EXCEPT ![p][round[p]] = m]
  PROVE  CountOf(p)'
<1>0. CountOf(p) /\ DOMAIN got = Procs /\ DOMAIN got[p] = DOMAIN program
  BY DEF CountInv
<1>1. /\ round[p] \in DOMAIN program /\ ~Makes(p, round[p], Copying)
      /\ \A j \in DOMAIN program : Called(p, j)' <=> Called(p, j) \/ j = round[p]
  BY MoveFacts, RoundNumbers DEF Makes, Op, Arg, Call
<1>2. \A j \in DOMAIN program : j # round[p] => got'[p][j] = got[p][j]
  BY <1>0
<1> QED
  BY <1>0, <1>1, <1>2, CountKeep

LEMMA OwnCount ==
  ASSUME EnvelopeTypes, ControlKept, CountInv, NEW p \in Procs, Steps(p), Shape(p)
  PROVE  CountOf(p)'
<1>0. /\ CountOf(p) /\ DOMAIN got = Procs /\ DOMAIN got[p] = DOMAIN program /\ DOMAIN position = Procs
      /\ \A j \in DOMAIN program : j \in Int
      /\ position[p] \in Int
  <2>1. position \in [Procs -> 0..NumCells] /\ NumCells \in Nat
    BY CollectivesAssumption DEF EnvelopeTypes, SeenInv
  <2> QED
    BY <2>1, RoundNumbers DEF CountInv
<1>1. CASE Outer(p)
  BY <1>0, <1>1, OuterMakes, CountKeep DEF Outer, p2p_vars
<1>2. CASE Sends(p) \/ Receives(p) \/ Answers(p) \/ Takes(p) \/ Collects(p)
  <2>1. /\ \E then, code : Moves(p, then, code)
        /\ position' = position
        /\ Op(p) \notin Copying
        /\ got' = got \/ \E m : got' = [got EXCEPT ![p][round[p]] = m]
    <3>1. CASE Sends(p)
      BY <3>1 DEF Sends, Posts
    <3>2. CASE Receives(p)
      BY <3>2 DEF Receives, Posts, Selecting, Copying
    <3>3. CASE Answers(p)
      BY <3>3 DEF Answers, Matched, Copying
    <3>4. CASE Takes(p)
      BY <3>4 DEF Takes, Copying
    <3>5. CASE Collects(p)
      BY <3>5 DEF Collects, Matched, Copying
    <3> QED
      BY <1>2, <3>1, <3>2, <3>3, <3>4, <3>5
  <2> QED
    BY <2>1, CountOther
<1>3. ASSUME Op(p) \in Copying, NEW code, Moves(p, "finished", code), NEW n \in Nat,
             \/ n = 0 /\ got' = got
             \/ \E m : Cardinality(DOMAIN m.sent) = n /\ got' = [got EXCEPT ![p][round[p]] = m],
             position' = [position EXCEPT ![p] = StartAt(p) + n]
      PROVE  CountOf(p)'
  <2> DEFINE i == round[p]
  <2>1. /\ i \in DOMAIN program /\ ~Called(p, i) /\ Makes(p, i, Copying)
        /\ \A j \in DOMAIN program : Called(p, j)' <=> Called(p, j) \/ j = i
    BY <1>0, <1>3, MoveFacts DEF Moves, Makes, Op, Arg, Call
  <2>2. \A j \in DOMAIN program : j # i => got'[p][j] = got[p][j]
    BY <1>0, <1>3
  <2>3. Cardinality(DOMAIN got'[p][i].sent) = n
    <3>1. CASE n = 0 /\ got' = got
      <4>1. got'[p][i] = NoMessage
        BY <1>0, <2>1, <3>1 DEF CountOf
      <4>2. DOMAIN NoMessage.sent = {}
        BY DEF NoMessage
      <4> QED
        BY <3>1, <4>1, <4>2, FS_EmptySet
    <3>2. ASSUME NEW m, Cardinality(DOMAIN m.sent) = n, got' = [got EXCEPT ![p][round[p]] = m]
          PROVE  Cardinality(DOMAIN got'[p][i].sent) = n
      <4>1. got'[p][i] = m
        BY <1>0, <2>1, <3>2
      <4> QED
        BY <3>2, <4>1
    <3> QED
      BY <1>3, <3>1, <3>2
  <2>4. position'[p] = StartAt(p) + n
    BY <1>0, <1>3
  <2> QED
    BY <1>0, <2>1, <2>2, <2>3, <2>4, CountCopy
<1>4. CASE Copies(p)
  <2>1. PICK m, n : /\ n \in Nat /\ Cardinality(DOMAIN m.sent) = n
                    /\ got' = [got EXCEPT ![p][round[p]] = m]
                    /\ position' = [position EXCEPT ![p] = StartAt(p) + n]
    BY <1>4 DEF Copies
  <2> QED
    BY <1>3, <1>4, <2>1 DEF Copies
<1>5. CASE Refuses(p) /\ Op(p) \in Copying
  <2>1. PICK code : Moves(p, "finished", code)
    BY <1>5 DEF Refuses
  <2>2. StartAt(p) + 0 = StartAt(p)
    BY <1>0 DEF StartAt
  <2> QED
    BY <1>3, <1>5, <2>1, <2>2 DEF Refuses
<1>6. CASE Refuses(p) /\ Op(p) \notin Copying
  BY <1>6, CountOther DEF Refuses
<1> QED
  BY <1>1, <1>2, <1>4, <1>5, <1>6 DEF Shape

LEMMA ShapeCount ==
  ASSUME EnvelopeTypes, ControlKept, CountInv, NEW p \in Procs, Steps(p), Shape(p)
  PROVE  CountInv'
<1>1. /\ program' = program
      /\ \A q \in Procs : q # p => pc'[q] = pc[q] /\ round'[q] = round[q]
  BY StepControl DEF EnvelopeTypes, ControlKept
<1>2. /\ got' = got \/ \E m : got' = [got EXCEPT ![p][round[p]] = m]
      /\ position' = position \/ \E x : position' = [position EXCEPT ![p] = x]
  <2>1. CASE Outer(p)
    BY <2>1 DEF Outer, p2p_vars
  <2>2. CASE Refuses(p)
    BY <2>2 DEF Refuses
  <2>3. CASE Sends(p) \/ Receives(p)
    BY <2>3 DEF Sends, Receives, Posts
  <2>4. CASE Copies(p)
    BY <2>4 DEF Copies
  <2>5. CASE Answers(p)
    BY <2>5 DEF Answers
  <2>6. CASE Takes(p)
    BY <2>6 DEF Takes
  <2>7. CASE Collects(p)
    BY <2>7 DEF Collects
  <2> QED
    BY <2>1, <2>2, <2>3, <2>4, <2>5, <2>6, <2>7 DEF Shape
<1>3. /\ DOMAIN got = Procs /\ DOMAIN position = Procs
      /\ \A q \in Procs : DOMAIN got[q] = DOMAIN program
  BY DEF CountInv, EnvelopeTypes, SeenInv
<1>4. /\ DOMAIN got' = Procs /\ \A q \in Procs : DOMAIN got'[q] = DOMAIN program
      /\ \A q \in Procs : q # p => got'[q] = got[q] /\ position'[q] = position[q]
  BY <1>2, <1>3
<1>5. ASSUME NEW q \in Procs, q # p PROVE CountOf(q)'
  <2>1. \A j : Called(q, j)' <=> Called(q, j)
    BY <1>1, <1>5 DEF Called
  <2> QED
    BY <1>4, <1>5, <2>1, CountKeep DEF CountInv
<1> QED
  BY <1>1, <1>4, <1>5, OwnCount DEF CountInv

LEMMA NextCount ==
  ASSUME EnvelopeTypes, CountInv, [MPINext]_mpi_vars
  PROVE  CountInv'
<1>0. ControlKept
  BY StepKeepsControl DEF EnvelopeTypes
<1>1. ASSUME NEW p \in Procs, CollectiveStep(p) \/ P2PWrapper(p) PROVE CountInv'
  BY <1>0, <1>1, CollectiveShape, P2PWrapperShape, ShapeCount
<1>2. ASSUME NEW p \in Procs, Matches(p) PROVE CountInv'
  <2>1. PICK r \in recvs : \E m \in msgs \cup r.taken : Match(r, m)
    BY <1>2 DEF Matches
  <2>2. PICK m \in msgs \cup r.taken : Match(r, m)
    BY <2>1
  <2>3. /\ UNCHANGED <<program, round, pc, position>>
        /\ got' = got \/ got' = [got EXCEPT ![r.proc][r.round] = m]
    BY <2>2 DEF Match
  <2>4. /\ r.proc \in Procs /\ r.round \in DOMAIN program /\ Called(r.proc, r.round)
        /\ ~Makes(r.proc, r.round, Copying)
    BY RoundNumbers DEF Makes, Selecting, Matched, Copying
  <2>5. /\ DOMAIN got = Procs /\ \A q \in Procs : DOMAIN got[q] = DOMAIN program
    BY DEF CountInv
  <2>6. /\ DOMAIN got' = Procs /\ \A q \in Procs : DOMAIN got'[q] = DOMAIN program
        /\ \A q \in Procs : \A j \in DOMAIN program :
             (q = r.proc /\ j = r.round) \/ got'[q][j] = got[q][j]
    BY <2>3, <2>4, <2>5
  <2>7. \A q, j : Called(q, j)' <=> Called(q, j)
    BY <2>3 DEF Called
  <2>8. ASSUME NEW q \in Procs PROVE CountOf(q)'
    BY <1>0, <2>3, <2>4, <2>6, <2>7, CountKeep DEF CountInv
  <2> QED
    BY <2>3, <2>6, <2>8 DEF CountInv
<1>3. ASSUME UNCHANGED <<program, got, position>>,
             \A q \in Procs : \A j \in Int : Called(q, j)' <=> Called(q, j)
      PROVE  CountInv'
  <2>1. ASSUME NEW q \in Procs PROVE CountOf(q)'
    BY <1>0, <1>3, RoundNumbers, CountKeep DEF CountInv
  <2> QED
    BY <1>3, <2>1 DEF CountInv
<1>4. ASSUME NEW p \in Procs, Finish(p, FALSE) PROVE CountInv'
  <2>1. /\ pc[p] = "inside" /\ pc' = [pc EXCEPT ![p] = "finished"]
        /\ UNCHANGED <<program, round, got, position>>
    BY <1>4 DEF Finish
  <2>2. \A q \in Procs : \A j \in Int : Called(q, j)' <=> Called(q, j)
    BY <2>1, ControlFacts DEF EnvelopeTypes, Called
  <2> QED
    BY <1>3, <2>1, <2>2
<1>5. CASE UNCHANGED mpi_vars
  <2>1. UNCHANGED <<program, round, pc, got, position>>
    BY <1>5 DEF mpi_vars, vars, p2p_vars
  <2> QED
    BY <1>3, <2>1 DEF Called
<1> QED
  BY <1>1, <1>2, <1>4, <1>5 DEF MPINext

LEMMA InitCount == ASSUME P2PInit PROVE CountInv
<1>1. /\ got = [p \in Procs |-> [i \in DOMAIN program |-> NoMessage]]
      /\ position = [p \in Procs |-> 0]
      /\ pc = [p \in Procs |-> "idle"] /\ round = [p \in Procs |-> 1]
  BY DEF P2PInit, Init
<1>2. \A i \in DOMAIN program : i \in Nat /\ ~(i < 1)
  BY InitEnvelopeTypes, ControlFacts DEF EnvelopeTypes
<1>3. \A p \in Procs : \A i \in DOMAIN program : ~Called(p, i)
  BY <1>1, <1>2 DEF Called
<1>4. ASSUME NEW p \in Procs PROVE CountOf(p)
  <2>1. SinceStart(p) = {}
    BY <1>3 DEF SinceStart, CopiesOf
  <2> QED
    BY <1>1, <2>1, SumEmpty DEF CountOf
<1> QED
  BY <1>1, <1>4 DEF CountInv

\* A pack or unpack goes on where the one before it ended: the position that the
\* program has after a call is the number of elements copied since it last went
\* back to the start, whether a call is refused or its buffer is a section.
THEOREM PositionsCount == MPISpec => []PositionCounts
<1>1. EnvelopeTypes /\ CountInv => PositionCounts
  <2> SUFFICES ASSUME EnvelopeTypes, CountInv, NEW p \in Procs, pc[p] = "finished",
                      Call(p).routine = "PointToPoint"
               PROVE  position[p] = Copied(p, round[p])
    BY DEF PositionCounts
  <2> DEFINE copies == {j \in 1..round[p] : /\ program[j].routine = "PointToPoint"
                                            /\ program[j].arg[p].op \in {"Pack", "Unpack"}}
             since  == {j \in copies : \A k \in copies : k > j => ~program[k].arg[p].restart}
  <2>1. round[p] \in DOMAIN program /\ DOMAIN program = 1..Len(program) /\ Len(program) \in Nat
    BY ControlFacts DEF EnvelopeTypes
  <2>2. copies = CopiesOf(p)
    BY <2>1 DEF CopiesOf, Makes, Called, Copying
  <2>3. since = SinceStart(p)
    BY <2>2 DEF SinceStart
  <2>4. Copied(p, round[p]) = SumFunction([j \in since |-> Cardinality(DOMAIN got[p][j].sent)])
    BY Zenon DEF Copied
  <2>5. Copied(p, round[p]) = SumFunction(CopiedBy(p))
    BY <2>3, <2>4 DEF CopiedBy
  <2>6. SumFunction(CopiedBy(p)) = SumFunctionOnSet(CopiedBy(p), SinceStart(p))
    BY DEF SumFunction, CopiedBy
  <2> QED
    BY <2>5, <2>6 DEF CountInv, CountOf
<1> QED
  BY <1>1, InitCount, NextCount, EnvelopeTypesInvariance, PTL DEF MPISpec
=============================================================================
