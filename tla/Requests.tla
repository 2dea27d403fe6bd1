------------------------------ MODULE Requests ------------------------------
(***************************************************************************)
(* Request handles between a Fortran program and the MPI library.          *)
(*                                                                         *)
(* The program keeps an array of request variables.  A call of one of the  *)
(* completion routines goes through three steps that other threads and the *)
(* library's own progress interleave with:                                 *)
(*   1. the C wrapper allocates an array and converts the Fortran integers *)
(*      of the passed section to C handles                    ("called"),  *)
(*   2. the MPI library completes operations, frees their request objects  *)
(*      and nulls the C handles                             ("finished"),  *)
(*   3. the wrapper converts the C handles back, copies the outputs, frees *)
(*      the array, and the Fortran wrapper adjusts the outputs             *)
(*                                                          ("returned").  *)
(* The program then reads the outputs (Resume).  A request object freed in *)
(* step 2 may be handed out again to another thread before step 3.         *)
(***************************************************************************)
EXTENDS Integers, FiniteSets

CONSTANTS
  Threads,           \* threads of the program that call MPI
  NoThread,          \* the holder of a slot that is in no call
  Routines,          \* the routines the program uses
  NumSlots,          \* length of the program's array of requests
  Lib,               \* request objects of the MPI library, which it recycles
  MPI_REQUEST_NULL,  \* the library's null request
  ReqInt,            \* MPI_Request_c2f as a function on C handles
  Ops, NoOp,         \* the nonblocking operations, and none
  MayFail,           \* the operations that may complete with an error
  EmptyStatus,       \* the status the library returns for a null request
  Unset,             \* content of an output variable that was not written
  LibUndefined,      \* MPI_UNDEFINED of the library
  LibStatusWords,    \* size of the library's MPI_Status, in C ints
  LibSourceWord,     \* word of MPI_SOURCE in the library's MPI_Status
  MaxLost            \* bound on the temporary arrays that may be lost

Slots == 1..NumSlots
CReq  == Lib \cup {MPI_REQUEST_NULL}

\* vapaa_constants.h
VAPAA_MPI_REQUEST_NULL == -17

ASSUME RequestsAssumption ==
  /\ NumSlots \in Nat \ {0}
  /\ NoThread \notin Threads
  /\ NoOp \notin Ops
  /\ MayFail \subseteq Ops
  /\ MPI_REQUEST_NULL \notin Lib
  \* The library's integers for its requests are distinct and avoid Vapaa's null.
  /\ ReqInt \in [CReq -> Int]
  /\ \A a, b \in CReq : ReqInt[a] = ReqInt[b] => a = b
  /\ \A a \in CReq : ReqInt[a] # VAPAA_MPI_REQUEST_NULL
  /\ MaxLost \in Nat

ASSUME OutputAssumption ==
  /\ LibUndefined \in Int /\ LibUndefined < 0
  /\ EmptyStatus \notin Ops /\ Unset \notin Ops
  /\ LibStatusWords \in Nat \ {0}
  /\ LibSourceWord \in 0..LibStatusWords-1
-----------------------------------------------------------------------------
(* Handle conversions (convert_handles.h). *)

MPI_Request_c2f(r) == ReqInt[r]
MPI_Request_f2c(v) == CHOOSE r \in CReq : ReqInt[r] = v

C_MPI_REQUEST_F2C(v) ==
  IF v = VAPAA_MPI_REQUEST_NULL THEN MPI_REQUEST_NULL ELSE MPI_Request_f2c(v)

FHandles == {VAPAA_MPI_REQUEST_NULL} \cup {ReqInt[r] : r \in CReq}

(* Return codes: the library's error classes and Vapaa's use different     *)
(* integers; MPI_SUCCESS is the same in both.                              *)
MPI_SUCCESS    == <<"any", "SUCCESS">>
MPI_ERR_OTHER  == <<"C", "OTHER">>
LibError       == <<"C", "FAILED">>   \* any error class an operation completes with
C_MPI_RC_FIX(rc) == IF rc = MPI_SUCCESS THEN rc ELSE <<"F", rc[2]>>
-----------------------------------------------------------------------------
VARIABLES
  requests,   \* requests(i) % MPI_VAL of the program
  creq,       \* C copy of a slot's handle, for the slots of a call in progress
  holder,     \* the thread whose call a slot was passed to
  pc, fn, lo, \* per thread: step of the call, routine, first slot passed
  io,         \* per thread: the output arguments of the call
  request_op, \* the library's request objects: the operation each stands for
  done,       \* operations the library has completed
  failed,     \* those of them that completed with an error
  origin,     \* history: the slot each operation was started into, 0 if none
  lost        \* temporary C arrays that nothing will ever free

progVars == <<requests, holder, pc, fn, lo, io>>
libVars  == <<request_op, done, failed, origin>>
vars     == <<progVars, creq, libVars, lost>>

Args(t)  == {s \in Slots : holder[s] = t}
Count(t) == Cardinality(Args(t))

At(t, step, f) == pc[t] = step /\ fn[t] = f

NoOut == [ierror |-> MPI_SUCCESS, index |-> Unset, flag |-> Unset,
          outcount |-> Unset, indices |-> <<>>, statuses |-> <<>>]

Init ==
  /\ requests   = [s \in Slots |-> VAPAA_MPI_REQUEST_NULL]
  /\ creq       = [s \in Slots |-> MPI_REQUEST_NULL]
  /\ holder     = [s \in Slots |-> NoThread]
  /\ pc         = [t \in Threads |-> "idle"]
  /\ fn         = [t \in Threads |-> "none"]
  /\ lo         = [t \in Threads |-> 1]
  /\ io         = [t \in Threads |-> NoOut]
  /\ request_op = [r \in Lib |-> NoOp]
  /\ origin     = [o \in Ops |-> 0]
  /\ done = {} /\ failed = {} /\ lost = 0
-----------------------------------------------------------------------------
(* The MPI library: what the wrappers rely on. *)

Live(t)    == {s \in Args(t) : creq[s] # MPI_REQUEST_NULL}
Arrived(t) == {s \in Live(t) : request_op[creq[s]] \in done}

Outcome(S) ==
  IF \E s \in S : request_op[creq[s]] \in failed THEN LibError ELSE MPI_SUCCESS

StatusOf(s) ==
  IF creq[s] = MPI_REQUEST_NULL THEN EmptyStatus ELSE request_op[creq[s]]

\* The statuses of all passed requests, where only those of S were completed.
StatusesOf(t, S) ==
  [k \in 1..Count(t) |->
     LET s == lo[t] + k - 1 IN IF s \in Live(t) \ S THEN Unset ELSE StatusOf(s)]

\* The library frees the request objects of the slots S and nulls their handles.
FreeRequests(S) ==
  /\ request_op' = [r \in Lib |-> IF \E s \in S : creq[s] = r THEN NoOp ELSE request_op[r]]
  /\ creq' = [s \in Slots |-> IF s \in S THEN MPI_REQUEST_NULL ELSE creq[s]]

LibReturns(t, out) ==
  /\ pc' = [pc EXCEPT ![t] = "finished"]
  /\ io' = [io EXCEPT ![t] = out]
  /\ UNCHANGED <<requests, holder, fn, lo, done, failed, origin, lost>>

\* The peer does its part and the library completes the operation.
Complete(o) ==
  /\ o \notin done /\ \E r \in Lib : request_op[r] = o
  /\ done' = done \cup {o}
  /\ \/ UNCHANGED failed
     \/ o \in MayFail /\ failed' = failed \cup {o}
  /\ UNCHANGED <<progVars, creq, request_op, origin, lost>>

MPI_Wait(t) ==
  /\ Live(t) = Arrived(t)
  /\ FreeRequests(Live(t))
  /\ LibReturns(t, [NoOut EXCEPT !.ierror = Outcome(Live(t)),
                                 !.statuses = StatusesOf(t, Live(t))])

MPI_Test(t) ==
  \/ /\ Live(t) = Arrived(t)
     /\ FreeRequests(Live(t))
     /\ LibReturns(t, [NoOut EXCEPT !.ierror = Outcome(Live(t)), !.flag = TRUE,
                                    !.statuses = StatusesOf(t, Live(t))])
  \/ /\ Live(t) # Arrived(t)
     /\ LibReturns(t, [NoOut EXCEPT !.flag = FALSE, !.statuses = StatusesOf(t, {})])
     /\ UNCHANGED <<request_op, creq>>

MPI_Testall(t) == MPI_Test(t)

\* MPI_Waitall may give up early when one of its operations has failed.
MPI_Waitall(t, ignored) ==
  /\ \/ Live(t) = Arrived(t)
     \/ Outcome(Arrived(t)) # MPI_SUCCESS
  /\ FreeRequests(Arrived(t))
  /\ LibReturns(t, [NoOut EXCEPT !.ierror = Outcome(Arrived(t)),
        !.statuses = IF ignored THEN <<>> ELSE StatusesOf(t, Arrived(t))])

OneCompletes(t) ==
  \E s \in Arrived(t) :
     /\ FreeRequests({s})
     /\ LibReturns(t, [NoOut EXCEPT !.ierror = Outcome({s}), !.index = s - lo[t],
                                    !.flag = TRUE, !.statuses = <<StatusOf(s)>>])

\* None of the passed requests is active.
NoneActive(t, out) ==
  /\ Live(t) = {}
  /\ LibReturns(t, out)
  /\ UNCHANGED <<request_op, creq>>

MPI_Waitany(t) ==
  \/ OneCompletes(t)
  \/ NoneActive(t, [NoOut EXCEPT !.index = LibUndefined, !.statuses = <<EmptyStatus>>])

MPI_Testany(t) ==
  \/ OneCompletes(t)
  \/ NoneActive(t, [NoOut EXCEPT !.index = LibUndefined, !.flag = TRUE,
                                 !.statuses = <<EmptyStatus>>])
  \/ /\ Live(t) # {} /\ Arrived(t) = {}
     /\ LibReturns(t, [NoOut EXCEPT !.index = LibUndefined, !.flag = FALSE])
     /\ UNCHANGED <<request_op, creq>>

\* The elements of S in increasing order.
Ordered(S) ==
  CHOOSE f \in [1..Cardinality(S) -> S] :
     \A i, j \in 1..Cardinality(S) : i < j => f[i] < f[j]

SomeComplete(t, S) ==
  /\ FreeRequests(S)
  /\ LibReturns(t,
       [NoOut EXCEPT !.ierror = Outcome(S), !.outcount = Cardinality(S),
          !.indices  = [i \in 1..Cardinality(S) |-> Ordered(S)[i] - lo[t]],
          !.statuses = [i \in 1..Cardinality(S) |-> StatusOf(Ordered(S)[i])]])

MPI_Waitsome(t) ==
  \/ \E S \in SUBSET Arrived(t) : S # {} /\ SomeComplete(t, S)
  \/ NoneActive(t, [NoOut EXCEPT !.outcount = LibUndefined])

MPI_Testsome(t) == MPI_Waitsome(t) \/ (Live(t) # {} /\ Arrived(t) = {} /\ SomeComplete(t, {}))

\* MPI_Isend and MPI_Irecv: a free request object, or an error and no request.
MPI_Start(t) ==
  \/ \E s \in Args(t), o \in Ops, r \in Lib :
       /\ origin[o] = 0 /\ request_op[r] = NoOp
       /\ request_op' = [request_op EXCEPT ![r] = o]
       /\ creq'   = [creq EXCEPT ![s] = r]
       /\ origin' = [origin EXCEPT ![o] = s]
       /\ pc' = [pc EXCEPT ![t] = "finished"]
       /\ io' = [io EXCEPT ![t] = NoOut]
       /\ UNCHANGED <<requests, holder, fn, lo, done, failed, lost>>
  \/ /\ LibReturns(t, [NoOut EXCEPT !.ierror = LibError])
     /\ UNCHANGED <<request_op, creq>>
-----------------------------------------------------------------------------
(* The three steps every wrapper shares. *)

\* A section of the request array that no call in progress was given.
Section(l, k) == l..(l + k - 1)

Passes(t, f, l, k) ==
  /\ pc[t] = "idle" /\ f \in Routines
  /\ Section(l, k) \subseteq Slots
  /\ \A s \in Section(l, k) : holder[s] = NoThread
  /\ holder' = [s \in Slots |-> IF s \in Section(l, k) THEN t ELSE holder[s]]
  /\ fn' = [fn EXCEPT ![t] = f]
  /\ lo' = [lo EXCEPT ![t] = l]
  /\ UNCHANGED <<requests, libVars, lost>>

Convert(t, f, l, k) ==
  /\ Passes(t, f, l, k)
  /\ pc' = [pc EXCEPT ![t] = "called"]
  /\ creq' = [s \in Slots |->
       IF s \in Section(l, k) THEN C_MPI_REQUEST_F2C(requests[s]) ELSE creq[s]]
  /\ UNCHANGED io

\* malloc fails: the C outputs stay uninitialised, `out' is what Fortran makes of them.
NoMemory(t, f, l, k, out) ==
  /\ Passes(t, f, l, k)
  /\ pc' = [pc EXCEPT ![t] = "returned"]
  /\ io' = [io EXCEPT ![t] = out]
  /\ UNCHANGED creq

\* The C array goes away (freed, or out of reach when it is lost).
DropArray(t) ==
  creq' = [s \in Slots |-> IF s \in Args(t) THEN MPI_REQUEST_NULL ELSE creq[s]]

\* Mutants of WriteBack: the C handle is stored unconverted, the handles are
\* stored only when the library succeeded, never, or all but the last one, and
\* every slot of the call is nulled.
WriteBackOf(t, out, stored) ==
  /\ requests' = stored
  /\ DropArray(t)
  /\ pc' = [pc EXCEPT ![t] = "returned"]
  /\ io' = [io EXCEPT ![t] = out]
  /\ UNCHANGED <<holder, fn, lo, libVars, lost>>

WriteBackUnconverted(t, out) == WriteBackOf(t, out,
  [s \in Slots |-> IF s \in Args(t) THEN creq[s] ELSE requests[s]])

WriteBackOnSuccess(t, out) == WriteBackOf(t, out,
  [s \in Slots |-> IF s \in Args(t) /\ out.ierror = MPI_SUCCESS
                   THEN MPI_Request_c2f(creq[s]) ELSE requests[s]])

WriteBackForgotten(t, out) == WriteBackOf(t, out, requests)

WriteBackAllButLast(t, out) == WriteBackOf(t, out,
  [s \in Slots |-> IF s \in Args(t) /\ (Count(t) = 1 \/ s < lo[t] + Count(t) - 1)
                   THEN MPI_Request_c2f(creq[s]) ELSE requests[s]])

WriteBackNull(t, out) == WriteBackOf(t, out,
  [s \in Slots |-> IF s \in Args(t) /\ fn[t] \notin {"Isend", "Irecv"}
                   THEN VAPAA_MPI_REQUEST_NULL ELSE requests[s]])

WriteBack(t, out) ==
  /\ requests' = [s \in Slots |->
       IF s \in Args(t) THEN MPI_Request_c2f(creq[s]) ELSE requests[s]]
  /\ DropArray(t)
  /\ pc' = [pc EXCEPT ![t] = "returned"]
  /\ io' = [io EXCEPT ![t] = out]
  /\ UNCHANGED <<holder, fn, lo, libVars, lost>>

OtherError == [NoOut EXCEPT !.ierror = C_MPI_RC_FIX(MPI_ERR_OTHER)]

\* What a C int that was never assigned may hold.
Uninit == {-1, 0}

Fixed(out) == [out EXCEPT !.ierror = C_MPI_RC_FIX(@)]
-----------------------------------------------------------------------------
(* Statuses.  Wherever C_MPI_STATUS_C2F is not called, the library writes  *)
(* its own MPI_Status into the words of the Fortran variable, and Fortran  *)
(* reads MPI_SOURCE of statuses(k) at word 8*(k-1)+2.                      *)

F_StatusWords == 8
F_SourceWord  == 2

Overlay(c) ==
  [k \in DOMAIN c |->
     LET hits == {j \in DOMAIN c : F_StatusWords*(k-1) + F_SourceWord
                                     = LibStatusWords*(j-1) + LibSourceWord}
     IN IF hits = {} THEN Unset ELSE c[CHOOSE j \in hits : TRUE]]

\* Mutant: every iteration converts the first status.
C_MPI_STATUS_C2F_First(c) == [k \in DOMAIN c |-> c[1]]

\* C_MPI_STATUS_C2F copies the named members, one status at a time.
C_MPI_STATUS_C2F(c) == [k \in DOMAIN c |-> c[k]]
-----------------------------------------------------------------------------
(* Fortran wrappers (mpi_p2p_f.F90): the outputs the program sees. *)

MPI_Wait_f08(out)     == [out EXCEPT !.statuses = Overlay(@)]
MPI_Test_f08(out)     == [out EXCEPT !.statuses = Overlay(@)]
MPI_Waitall_f08(out)  == [out EXCEPT !.statuses = C_MPI_STATUS_C2F(@)]
MPI_Testall_f08(out)  == [out EXCEPT !.statuses = Overlay(@)]

\* Mutant: the C index is not counted from one.
MPI_Waitany_f08_ZeroBased(out) ==
  [out EXCEPT !.index = IF @ >= 0 THEN @ ELSE Unset, !.statuses = Overlay(@)]

\* index is assigned only when the C index is not negative
MPI_Waitany_f08(out) ==
  [out EXCEPT !.index = IF @ >= 0 THEN @ + 1 ELSE Unset, !.statuses = Overlay(@)]
MPI_Testany_f08(out) ==
  [out EXCEPT !.index = IF @ >= 0 THEN @ + 1 ELSE Unset, !.statuses = Overlay(@)]

\* the C indices are stored in the program's array as they are
MPI_Waitsome_f08(out) == [out EXCEPT !.statuses = Overlay(@)]
MPI_Testsome_f08(out) == [out EXCEPT !.statuses = Overlay(@)]
-----------------------------------------------------------------------------
(* The C wrappers, each with all its steps. *)

C_MPI_Wait(t) ==
  \/ \E s \in Slots : Convert(t, "Wait", s, 1)
  \/ At(t, "called", "Wait") /\ MPI_Wait(t)
  \/ At(t, "finished", "Wait") /\ WriteBack(t, Fixed(MPI_Wait_f08(io[t])))

C_MPI_Test(t) ==
  \/ \E s \in Slots : Convert(t, "Test", s, 1)
  \/ At(t, "called", "Test") /\ MPI_Test(t)
  \/ At(t, "finished", "Test") /\ WriteBack(t, Fixed(MPI_Test_f08(io[t])))

C_MPI_Testall(t) ==
  \/ \E l \in Slots, k \in 0..NumSlots :
       \/ Convert(t, "Testall", l, k)
       \/ \E b \in BOOLEAN : NoMemory(t, "Testall", l, k, [OtherError EXCEPT !.flag = b])
  \/ At(t, "called", "Testall") /\ MPI_Testall(t)
  \/ At(t, "finished", "Testall") /\ WriteBack(t, Fixed(MPI_Testall_f08(io[t])))

C_MPI_Testsome(t) ==
  \/ \E l \in Slots, k \in 0..NumSlots :
       \/ Convert(t, "Testsome", l, k)
       \/ \E c \in Uninit : NoMemory(t, "Testsome", l, k, [OtherError EXCEPT !.outcount = c])
  \/ At(t, "called", "Testsome") /\ MPI_Testsome(t)
  \/ At(t, "finished", "Testsome") /\ WriteBack(t, Fixed(MPI_Testsome_f08(io[t])))

\* This one returns the library's error code unconverted.
C_MPI_Testany(t) ==
  \/ \E l \in Slots, k \in 0..NumSlots :
       \/ Convert(t, "Testany", l, k)
       \/ \E c \in Uninit, b \in BOOLEAN : NoMemory(t, "Testany", l, k,
            MPI_Testany_f08([OtherError EXCEPT !.index = c, !.flag = b]))
  \/ At(t, "called", "Testany") /\ MPI_Testany(t)
  \/ At(t, "finished", "Testany") /\ WriteBack(t, MPI_Testany_f08(io[t]))

\* The array of C statuses is allocated after the handles were converted; when
\* that fails the requests array is not freed and the library is not called.
C_MPI_Waitall(t) ==
  \/ \E l \in Slots, k \in 0..NumSlots :
       Convert(t, "Waitall", l, k) \/ NoMemory(t, "Waitall", l, k, OtherError)
  \/ At(t, "called", "Waitall") /\ \E ignored \in BOOLEAN : MPI_Waitall(t, ignored)
  \/ /\ At(t, "called", "Waitall") /\ lost < MaxLost
     /\ lost' = lost + 1
     /\ DropArray(t)
     /\ pc' = [pc EXCEPT ![t] = "returned"]
     /\ io' = [io EXCEPT ![t] = OtherError]
     /\ UNCHANGED <<requests, holder, fn, lo, libVars>>
  \/ At(t, "finished", "Waitall") /\ WriteBack(t, Fixed(MPI_Waitall_f08(io[t])))

C_MPI_Waitsome(t) ==
  \/ \E l \in Slots, k \in 0..NumSlots :
       \/ Convert(t, "Waitsome", l, k)
       \/ \E c \in Uninit : NoMemory(t, "Waitsome", l, k, [OtherError EXCEPT !.outcount = c])
  \/ At(t, "called", "Waitsome") /\ MPI_Waitsome(t)
  \/ At(t, "finished", "Waitsome") /\ WriteBack(t, Fixed(MPI_Waitsome_f08(io[t])))

C_MPI_Waitany(t) ==
  \/ \E l \in Slots, k \in 0..NumSlots :
       \/ Convert(t, "Waitany", l, k)
       \/ \E c \in Uninit :
            NoMemory(t, "Waitany", l, k, MPI_Waitany_f08([OtherError EXCEPT !.index = c]))
  \/ At(t, "called", "Waitany") /\ MPI_Waitany(t)
  \/ At(t, "finished", "Waitany") /\ WriteBack(t, Fixed(MPI_Waitany_f08(io[t])))

\* The program starts an operation only into a slot whose request is null; the
\* wrapper does not read the slot but begins with MPI_REQUEST_NULL.
NewRequest(t, f, s) ==
  /\ C_MPI_REQUEST_F2C(requests[s]) = MPI_REQUEST_NULL
  /\ Passes(t, f, s, 1)
  /\ pc' = [pc EXCEPT ![t] = "called"]
  /\ creq' = [creq EXCEPT ![s] = MPI_REQUEST_NULL]
  /\ UNCHANGED io

C_MPI_Isend(t) ==
  \/ \E s \in Slots : NewRequest(t, "Isend", s)
  \/ At(t, "called", "Isend") /\ MPI_Start(t)
  \/ At(t, "finished", "Isend") /\ WriteBack(t, Fixed(io[t]))

C_MPI_Irecv(t) ==
  \/ \E s \in Slots : NewRequest(t, "Irecv", s)
  \/ At(t, "called", "Irecv") /\ MPI_Start(t)
  \/ At(t, "finished", "Irecv") /\ WriteBack(t, Fixed(io[t]))

\* The program looks at the outputs and goes on.
Resume(t) ==
  /\ pc[t] = "returned"
  /\ pc' = [pc EXCEPT ![t] = "idle"]
  /\ fn' = [fn EXCEPT ![t] = "none"]
  /\ lo' = [lo EXCEPT ![t] = 1]
  /\ io' = [io EXCEPT ![t] = NoOut]
  /\ holder' = [s \in Slots |-> IF holder[s] = t THEN NoThread ELSE holder[s]]
  /\ UNCHANGED <<requests, creq, libVars, lost>>

Calls(t) ==
  \/ C_MPI_Wait(t) \/ C_MPI_Waitall(t) \/ C_MPI_Waitany(t) \/ C_MPI_Waitsome(t)
  \/ C_MPI_Test(t) \/ C_MPI_Testall(t) \/ C_MPI_Testany(t) \/ C_MPI_Testsome(t)
  \/ C_MPI_Isend(t) \/ C_MPI_Irecv(t)

Next == (\E t \in Threads : Calls(t) \/ Resume(t)) \/ (\E o \in Ops : Complete(o))

Spec == Init /\ [][Next]_vars

(* The library makes progress on every started operation, and a thread     *)
(* inside a call goes on as soon as it can: nothing in the wrappers blocks *)
(* except the library's waits.                                             *)
InCall(t) == pc[t] \in {"called", "finished"}

Fairness ==
  /\ \A o \in Ops : WF_vars(Complete(o))
  /\ \A t \in Threads : WF_vars(InCall(t) /\ Calls(t))

FairSpec == Spec /\ Fairness
-----------------------------------------------------------------------------
(* Properties. *)

TypeOK ==
  /\ requests \in [Slots -> FHandles]
  /\ creq \in [Slots -> CReq]
  /\ holder \in [Slots -> Threads \cup {NoThread}]
  /\ pc \in [Threads -> {"idle", "called", "finished", "returned"}]
  /\ fn \in [Threads -> Routines \cup {"none"}]
  /\ lo \in [Threads -> Slots]
  /\ request_op \in [Lib -> Ops \cup {NoOp}]
  /\ origin \in [Ops -> 0..NumSlots]
  /\ done \subseteq Ops /\ failed \subseteq done
  /\ lost \in 0..MaxLost

\* The library request a slot stands for at this moment: while its call is
\* between the two conversions the C copy counts, otherwise the Fortran one.
Names(s) ==
  IF holder[s] # NoThread /\ InCall(holder[s])
  THEN creq[s] ELSE C_MPI_REQUEST_F2C(requests[s])

\* A slot never dangles and never names a recycled request object: what it
\* names is live in the library and is the operation started into this slot
\* (the F2C/c2f pairs around every call in mpi_p2p.c).
HandlesOwnOperation ==
  \A s \in Slots : Names(s) \in Lib =>
    /\ request_op[Names(s)] \in Ops
    /\ origin[request_op[Names(s)]] = s

\* No request of the library gets lost: each one is named by a slot, also
\* after a failed allocation or an early error return.
NoOrphanRequest ==
  \A r \in Lib : request_op[r] # NoOp => \E s \in Slots : Names(s) = r

\* However Waitall returns, each operation of the section is completed or still
\* named by its own slot, and statuses(k) is about the operation of the k-th
\* slot, unwritten only where that is still pending.  When it returns success all
\* slots are null; when it returns an error of the library, one of the section's
\* operations has failed (mpi_p2p.c: C_MPI_Waitall, also without memory).
WaitallCompletesAll ==
  \A t \in Threads : At(t, "returned", "Waitall") =>
    /\ \A o \in Ops : origin[o] \in Args(t) =>
         o \in done \/ \E r \in Lib : request_op[r] = o /\ Names(origin[o]) = r
    /\ io[t].ierror = MPI_SUCCESS => \A s \in Args(t) : Names(s) = MPI_REQUEST_NULL
    /\ io[t].ierror = C_MPI_RC_FIX(LibError) => \E o \in failed : origin[o] \in Args(t)
    /\ \A k \in DOMAIN io[t].statuses :
         LET o == io[t].statuses[k]
             s == lo[t] + k - 1
         IN  \/ o = EmptyStatus
             \/ o \in Ops /\ origin[o] = s
             \/ o = Unset /\ Names(s) \in Lib

\* The request the program finds in a slot.
Found(s) == C_MPI_REQUEST_F2C(requests[s])

\* A step that returns with the operations of the section completed and their
\* slots null, and one that returns with every slot as the program passed it.
TakesAll(t) ==
  /\ \A s \in Args(t)' : Found(s)' = MPI_REQUEST_NULL
  /\ \A o \in Ops : origin'[o] \in Args(t)' => o \in done'

KeepsAll(t) == \A s \in Args(t)' : Found(s)' = Found(s)

\* Testall takes all requests of the section or leaves every slot as it was, and
\* the program can tell which: TRUE when it took them, FALSE when it left them
\* and one is live; without memory it leaves them, and only an error of the
\* library takes them without a flag to rely on (mpi_p2p.c: C_MPI_Testall).
TestallAllOrNothing ==
  [][\A t \in Threads : pc[t] # "returned" /\ At(t, "returned", "Testall")' =>
       \/ TakesAll(t) /\ (io'[t].ierror = MPI_SUCCESS => io'[t].flag)
       \/ /\ KeepsAll(t) /\ \E s \in Args(t)' : Found(s)' # MPI_REQUEST_NULL
          /\ io'[t].ierror = MPI_SUCCESS /\ ~io'[t].flag
       \/ KeepsAll(t) /\ io'[t].ierror = OtherError.ierror]_vars

\* When Waitany or Testany reports an operation, index is the one-based place
\* of its slot in the section passed, and the slot is null.
AnyIndexNamesCompleted ==
  \A t \in Threads : \A o \in Ops :
    /\ At(t, "returned", "Waitany") \/ At(t, "returned", "Testany")
    /\ io[t].statuses = <<o>>
    => /\ origin[o] = lo[t] + io[t].index - 1
       /\ Names(origin[o]) = MPI_REQUEST_NULL

\* Strengthening that makes the two invariants above inductive.
\* The C copy agrees with the Fortran slot until the library has run (which is
\* why Waitall may return without writing back when its second malloc fails).
CopiesAgree ==
  \A s \in Slots : holder[s] # NoThread /\ pc[holder[s]] = "called" =>
    creq[s] = C_MPI_REQUEST_F2C(requests[s])

\* Only a thread inside a wrapper or at its return holds slots.
HoldersAreCalling == \A s \in Slots : holder[s] # NoThread => pc[holder[s]] # "idle"

\* An operation is started with a null C request.
StartsFromNull ==
  \A s \in Slots :
    /\ holder[s] # NoThread
    /\ pc[holder[s]] = "called" /\ fn[holder[s]] \in {"Isend", "Irecv"}
    => creq[s] = MPI_REQUEST_NULL

BookInv == TypeOK /\ CopiesAgree /\ HoldersAreCalling /\ StartsFromNull
IInv    == BookInv /\ HandlesOwnOperation /\ NoOrphanRequest

(* Claims of the repository's own tests and comments that the code does    *)
(* not meet (runs that expect a violation).                                *)

\* tests/mpich/pt2pt/utilsf08.f90: rq_check compares a request with
\* MPI_REQUEST_NULL after it was waited for.
WaitLeavesRequestNull ==
  \A t \in Threads : At(t, "returned", "Wait") /\ io[t].ierror = MPI_SUCCESS =>
    \A s \in Args(t) : requests[s] = VAPAA_MPI_REQUEST_NULL

\* tests/mpich/pt2pt/prsendf08.f90: the indices of Waitsome count from one.
WaitsomeIndicesInRange ==
  \A t \in Threads : At(t, "returned", "Waitsome") /\ io[t].ierror = MPI_SUCCESS =>
    \A i \in DOMAIN io[t].indices : io[t].indices[i] \in 1..Count(t)

\* mpi_p2p.c, design note: statuses need no conversion because of how the
\* Fortran type is defined.  For Testall that means statuses(k) is about slot k.
StatusesNeedNoConversion ==
  \A t \in Threads :
    At(t, "returned", "Testall") /\ io[t].ierror = MPI_SUCCESS /\ io[t].flag =>
      \A k \in DOMAIN io[t].statuses : LET o == io[t].statuses[k] IN
        o = EmptyStatus \/ (o \in Ops /\ origin[o] = lo[t] + k - 1)
-----------------------------------------------------------------------------
\* The specification of RequestSet is implemented: an operation leaves its
\* slot once, after it completed, and through no call but one it was passed to.
Abstract == INSTANCE RequestSet WITH
  held     <- [s \in Slots |-> IF Names(s) \in Lib THEN request_op[Names(s)] ELSE NoOp],
  started  <- {o \in Ops : origin[o] # 0},
  finished <- done
ImplementsRequestSet == Abstract!AbsSpec

\* Every call returns: no wait outlives the completion of its operations.
CallsReturn == \A t \in Threads : InCall(t) ~> pc[t] = "returned"

\* A program that keeps testing a slot gets its operation completed.
PollingCompletes ==
  \A s \in Slots :
    ([]<>(\E t \in Threads : At(t, "called", "Test") /\ s \in Args(t)))
      => []<>(Names(s) \notin Lib)
=============================================================================
