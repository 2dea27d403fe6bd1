--------------------------- MODULE RequestsProofs ---------------------------
(***************************************************************************)
(* Proofs about Requests, for every number of threads, slots, library      *)
(* requests and operations.  Each step of the system has one of four       *)
(* shapes as seen through Names (the request a slot stands for): it        *)
(* changes nothing (Silent), frees the requests of completed slots         *)
(* (Frees), starts an operation (Starts) or completes one (Completes).     *)
(* The lemmas of the first half put every step of a wrapper or of the      *)
(* library into a shape; the second half proves the invariants and the     *)
(* refinement from the shapes alone.  The last part is about what the      *)
(* calls report: there a step of one thread is local to it.                *)
(***************************************************************************)
EXTENDS Requests, FiniteSetTheorems, TLAPS

Silent ==
  /\ \A s \in Slots : Names(s)' = Names(s)
  /\ UNCHANGED <<request_op, done, origin>>

Frees(S) ==
  /\ \A s \in S : Names(s) \in Lib /\ request_op[Names(s)] \in done
  /\ \A s \in Slots : Names(s)' = IF s \in S THEN MPI_REQUEST_NULL ELSE Names(s)
  /\ request_op' = [r \in Lib |-> IF \E s \in S : Names(s) = r THEN NoOp ELSE request_op[r]]
  /\ UNCHANGED <<done, origin>>

Starts(s, o, r) ==
  /\ Names(s) = MPI_REQUEST_NULL /\ request_op[r] = NoOp /\ origin[o] = 0
  /\ \A u \in Slots : Names(u)' = IF u = s THEN r ELSE Names(u)
  /\ request_op' = [request_op EXCEPT ![r] = o]
  /\ origin' = [origin EXCEPT ![o] = s]
  /\ UNCHANGED done

Completes(o) ==
  /\ o \notin done /\ \E r \in Lib : request_op[r] = o
  /\ \A s \in Slots : Names(s)' = Names(s)
  /\ done' = done \cup {o}
  /\ UNCHANGED <<request_op, origin>>

Shape ==
  \/ Silent
  \/ \E S \in SUBSET Slots : Frees(S)
  \/ \E s \in Slots, o \in Ops, r \in Lib : Starts(s, o, r)
  \/ \E o \in Ops : Completes(o)
-----------------------------------------------------------------------------
(* The conversions of convert_handles.h. *)

\* Converting a C request to Fortran and back gives the request again.
LEMMA RoundTrip ==
  \A r \in CReq : /\ MPI_Request_c2f(r) \in FHandles
                  /\ C_MPI_REQUEST_F2C(MPI_Request_c2f(r)) = r
<1> TAKE r \in CReq
<1>1. MPI_Request_c2f(r) \in FHandles
  BY DEF MPI_Request_c2f, FHandles
<1>2. MPI_Request_c2f(r) # VAPAA_MPI_REQUEST_NULL
  BY RequestsAssumption DEF MPI_Request_c2f
<1>3. MPI_Request_f2c(MPI_Request_c2f(r)) = r
  BY RequestsAssumption DEF MPI_Request_f2c, MPI_Request_c2f
<1> QED BY <1>1, <1>2, <1>3 DEF C_MPI_REQUEST_F2C

\* Every Fortran handle a slot can hold converts to a C request.
LEMMA F2CType == \A v \in FHandles : C_MPI_REQUEST_F2C(v) \in CReq
<1> TAKE v \in FHandles
<1>1. CASE v = VAPAA_MPI_REQUEST_NULL
  BY <1>1 DEF C_MPI_REQUEST_F2C, CReq
<1>2. CASE v # VAPAA_MPI_REQUEST_NULL
  <2>1. PICK r \in CReq : v = ReqInt[r]
    BY <1>2 DEF FHandles
  <2> QED BY <2>1, RoundTrip DEF MPI_Request_c2f
<1> QED BY <1>1, <1>2
-----------------------------------------------------------------------------
(* One lemma for each step a wrapper is made of. *)

LEMMA ConvertStep ==
  ASSUME NEW t \in Threads, NEW f, NEW l, NEW k, l \in Slots,
         f \notin {"Isend", "Irecv"}, BookInv, Convert(t, f, l, k)
  PROVE  BookInv' /\ Silent
<1> USE DEF Convert, Passes, libVars
<1>1. TypeOK'
  BY F2CType DEF BookInv, TypeOK
<1>2. CopiesAgree'
  BY RequestsAssumption DEF BookInv, TypeOK, CopiesAgree, HoldersAreCalling
<1>3. HoldersAreCalling'
  BY DEF BookInv, TypeOK, HoldersAreCalling
<1>4. StartsFromNull'
  BY DEF BookInv, TypeOK, StartsFromNull, HoldersAreCalling
<1>5. Silent
  BY RequestsAssumption DEF BookInv, TypeOK, HoldersAreCalling, Silent, Names, InCall
<1> QED BY <1>1, <1>2, <1>3, <1>4, <1>5 DEF BookInv

LEMMA NewRequestStep ==
  ASSUME NEW t \in Threads, NEW f, NEW s \in Slots, BookInv, NewRequest(t, f, s)
  PROVE  BookInv' /\ Silent
<1>0. Section(s, 1) = {s}
  BY DEF Section, Slots
<1> USE <1>0 DEF NewRequest, Passes, libVars
<1>a. \A u \in Slots : /\ holder'[u] = IF u = s THEN t ELSE holder[u]
                       /\ creq'[u] = IF u = s THEN MPI_REQUEST_NULL ELSE creq[u]
                       /\ holder[s] = NoThread
  BY DEF BookInv, TypeOK
<1>b. \A u \in Slots : holder[u] # t
  BY RequestsAssumption DEF BookInv, TypeOK, HoldersAreCalling
<1>1. TypeOK'
  BY DEF BookInv, TypeOK, CReq
<1>2. CopiesAgree'
  BY <1>a, <1>b, RequestsAssumption DEF BookInv, TypeOK, CopiesAgree, HoldersAreCalling
<1>3. HoldersAreCalling'
  BY DEF BookInv, TypeOK, HoldersAreCalling
<1>4. StartsFromNull'
  BY <1>a, <1>b DEF BookInv, TypeOK, StartsFromNull, HoldersAreCalling
<1>5. Silent
  BY <1>a, <1>b, RequestsAssumption DEF BookInv, TypeOK, HoldersAreCalling, Silent, Names, InCall
<1> QED BY <1>1, <1>2, <1>3, <1>4, <1>5 DEF BookInv

LEMMA NoMemoryStep ==
  ASSUME NEW t \in Threads, NEW f, NEW l, NEW k, l \in Slots, NEW out,
         BookInv, NoMemory(t, f, l, k, out)
  PROVE  BookInv' /\ Silent
<1> USE DEF NoMemory, Passes, libVars
<1>1. TypeOK'
  BY DEF BookInv, TypeOK
<1>2. CopiesAgree'
  BY RequestsAssumption DEF BookInv, TypeOK, CopiesAgree, HoldersAreCalling
<1>3. HoldersAreCalling'
  BY DEF BookInv, TypeOK, HoldersAreCalling
<1>4. StartsFromNull'
  BY DEF BookInv, TypeOK, StartsFromNull, HoldersAreCalling
<1>5. Silent
  BY RequestsAssumption DEF BookInv, TypeOK, HoldersAreCalling, Silent, Names, InCall
<1> QED BY <1>1, <1>2, <1>3, <1>4, <1>5 DEF BookInv

LEMMA WriteBackStep ==
  ASSUME NEW t \in Threads, NEW out, BookInv, pc[t] = "finished", WriteBack(t, out)
  PROVE  BookInv' /\ Silent
<1> USE DEF WriteBack, DropArray, Args, libVars
<1>1. TypeOK'
  BY RoundTrip DEF BookInv, TypeOK, CReq
<1>2. CopiesAgree'
  BY DEF BookInv, TypeOK, CopiesAgree
<1>3. HoldersAreCalling'
  BY DEF BookInv, TypeOK, HoldersAreCalling
<1>4. StartsFromNull'
  BY DEF BookInv, TypeOK, StartsFromNull
<1>5. Silent
  BY RequestsAssumption, RoundTrip DEF BookInv, TypeOK, Silent, Names, InCall
<1> QED BY <1>1, <1>2, <1>3, <1>4, <1>5 DEF BookInv

\* Waitall without memory for the statuses: the handles are not written back.
LEMMA LostStep ==
  ASSUME NEW t \in Threads, NEW out, BookInv, pc[t] = "called",
         lost < MaxLost, lost' = lost + 1, DropArray(t),
         pc' = [pc EXCEPT ![t] = "returned"],
         UNCHANGED <<requests, holder, fn, lo, libVars>>
  PROVE  BookInv' /\ Silent
<1> USE DEF DropArray, Args, libVars
<1>1. TypeOK'
  BY RequestsAssumption DEF BookInv, TypeOK, CReq
<1>2. CopiesAgree'
  BY DEF BookInv, TypeOK, CopiesAgree
<1>3. HoldersAreCalling'
  BY DEF BookInv, TypeOK, HoldersAreCalling
<1>4. StartsFromNull'
  BY DEF BookInv, TypeOK, StartsFromNull
<1>5. Silent
  BY RequestsAssumption DEF BookInv, TypeOK, CopiesAgree, Silent, Names, InCall
<1> QED BY <1>1, <1>2, <1>3, <1>4, <1>5 DEF BookInv

LEMMA ResumeStep ==
  ASSUME NEW t \in Threads, BookInv, Resume(t)
  PROVE  BookInv' /\ Silent
<1> USE DEF Resume, libVars
<1>1. TypeOK'
  BY RequestsAssumption DEF BookInv, TypeOK, Slots
<1>2. CopiesAgree'
  BY RequestsAssumption DEF BookInv, TypeOK, CopiesAgree
<1>3. HoldersAreCalling'
  BY RequestsAssumption DEF BookInv, TypeOK, HoldersAreCalling
<1>4. StartsFromNull'
  BY RequestsAssumption DEF BookInv, TypeOK, StartsFromNull
<1>5. Silent
  BY RequestsAssumption DEF BookInv, TypeOK, Silent, Names, InCall
<1> QED BY <1>1, <1>2, <1>3, <1>4, <1>5 DEF BookInv

\* The library answers without completing anything.
LEMMA AnswerStep ==
  ASSUME NEW t \in Threads, NEW out, BookInv, pc[t] = "called",
         LibReturns(t, out), UNCHANGED <<request_op, creq>>
  PROVE  BookInv' /\ Silent
<1> USE DEF LibReturns
<1>1. TypeOK'
  BY DEF BookInv, TypeOK
<1>2. CopiesAgree'
  BY DEF BookInv, TypeOK, CopiesAgree
<1>3. HoldersAreCalling'
  BY DEF BookInv, TypeOK, HoldersAreCalling
<1>4. StartsFromNull'
  BY DEF BookInv, TypeOK, StartsFromNull
<1>5. Silent
  BY DEF BookInv, TypeOK, Silent, Names, InCall
<1> QED BY <1>1, <1>2, <1>3, <1>4, <1>5 DEF BookInv

\* The library completes the requests of the slots S of the call.
LEMMA FreeStep ==
  ASSUME NEW t \in Threads, NEW out, NEW S \in SUBSET Arrived(t), BookInv,
         pc[t] = "called", FreeRequests(S), LibReturns(t, out)
  PROVE  BookInv' /\ Frees(S) /\ S \in SUBSET Slots
<1> USE DEF LibReturns, FreeRequests, Arrived, Live, Args
<1>0. S \in SUBSET Slots
  OBVIOUS
<1>1. TypeOK'
  BY DEF BookInv, TypeOK, CReq
<1>2. CopiesAgree'
  BY DEF BookInv, TypeOK, CopiesAgree
<1>3. HoldersAreCalling'
  BY DEF BookInv, TypeOK, HoldersAreCalling
<1>4. StartsFromNull'
  BY DEF BookInv, TypeOK, StartsFromNull
<1>5. \A s \in S : s \in Slots /\ Names(s) = creq[s] /\ creq[s] \in Lib /\ request_op[creq[s]] \in done
  BY RequestsAssumption DEF BookInv, TypeOK, Names, InCall, CReq
<1>6. \A s \in Slots : Names(s)' = IF s \in S THEN MPI_REQUEST_NULL ELSE Names(s)
  BY RequestsAssumption DEF BookInv, TypeOK, Names, InCall
<1>7. Frees(S)
  BY <1>5, <1>6 DEF Frees
<1> QED BY <1>0, <1>1, <1>2, <1>3, <1>4, <1>7 DEF BookInv

\* The library starts an operation or refuses to.
LEMMA StartStep ==
  ASSUME NEW t \in Threads, BookInv, pc[t] = "called",
         fn[t] \in {"Isend", "Irecv"}, MPI_Start(t)
  PROVE  BookInv' /\ Shape
<1>1. CASE \E out : LibReturns(t, out) /\ UNCHANGED <<request_op, creq>>
  BY <1>1, AnswerStep DEF Shape
<1>2. ASSUME NEW s \in Args(t), NEW o \in Ops, NEW r \in Lib,
             origin[o] = 0, request_op[r] = NoOp,
             request_op' = [request_op EXCEPT ![r] = o],
             creq' = [creq EXCEPT ![s] = r],
             origin' = [origin EXCEPT ![o] = s],
             pc' = [pc EXCEPT ![t] = "finished"],
             UNCHANGED <<requests, holder, fn, lo, done, failed, lost>>
      PROVE  BookInv' /\ Shape
  <2>0. s \in Slots /\ holder[s] = t
    BY DEF Args
  <2>1. TypeOK'
    BY <1>2, <2>0 DEF BookInv, TypeOK, CReq, Slots
  <2>2. CopiesAgree'
    BY <1>2, <2>0 DEF BookInv, TypeOK, CopiesAgree
  <2>3. HoldersAreCalling'
    BY <1>2, <2>0 DEF BookInv, TypeOK, HoldersAreCalling
  <2>4. StartsFromNull'
    BY <1>2, <2>0 DEF BookInv, TypeOK, StartsFromNull
  <2>5. Names(s) = MPI_REQUEST_NULL
    BY <2>0, RequestsAssumption DEF BookInv, StartsFromNull, Names, InCall
  <2>6. \A u \in Slots : Names(u)' = IF u = s THEN r ELSE Names(u)
    BY <1>2, <2>0, RequestsAssumption DEF BookInv, TypeOK, Names, InCall
  <2>7. Starts(s, o, r)
    BY <1>2, <2>5, <2>6 DEF Starts
  <2> QED BY <2>0, <2>1, <2>2, <2>3, <2>4, <2>7 DEF BookInv, Shape
<1> QED BY <1>1, <1>2 DEF MPI_Start

LEMMA CompleteStep ==
  ASSUME NEW o \in Ops, BookInv, Complete(o)
  PROVE  BookInv' /\ Completes(o)
<1> USE DEF Complete, progVars
<1>1. TypeOK'
  BY DEF BookInv, TypeOK
<1>2. CopiesAgree' /\ HoldersAreCalling' /\ StartsFromNull'
  BY DEF BookInv, CopiesAgree, HoldersAreCalling, StartsFromNull
<1>3. Completes(o)
  BY DEF Completes, Names, InCall
<1> QED BY <1>1, <1>2, <1>3 DEF BookInv
-----------------------------------------------------------------------------
(* Every step of the system has a shape. *)

LEMMA LibStep ==
  ASSUME NEW t \in Threads, BookInv, pc[t] = "called",
         \/ MPI_Wait(t) \/ MPI_Test(t) \/ MPI_Waitany(t) \/ MPI_Testany(t)
         \/ MPI_Waitsome(t) \/ MPI_Testsome(t) \/ \E b \in BOOLEAN : MPI_Waitall(t, b)
  PROVE  BookInv' /\ Shape
<1>1. ASSUME NEW S \in SUBSET Arrived(t), NEW out, FreeRequests(S), LibReturns(t, out)
      PROVE  BookInv' /\ Shape
  BY <1>1, FreeStep DEF Shape
<1>2. ASSUME NEW out, LibReturns(t, out), UNCHANGED <<request_op, creq>>
      PROVE  BookInv' /\ Shape
  BY <1>2, AnswerStep DEF Shape
<1>3. CASE MPI_Wait(t)
  BY <1>3, <1>1 DEF MPI_Wait
<1>4. CASE MPI_Test(t)
  BY <1>4, <1>1, <1>2 DEF MPI_Test
<1>5. ASSUME OneCompletes(t) PROVE BookInv' /\ Shape
  <2>1. PICK s \in Arrived(t) :
          FreeRequests({s}) /\ \E out : LibReturns(t, out)
    BY <1>5 DEF OneCompletes
  <2> QED BY <2>1, <1>1
<1>6. ASSUME NEW out, NoneActive(t, out) PROVE BookInv' /\ Shape
  BY <1>6, <1>2 DEF NoneActive
<1>7. CASE MPI_Waitany(t)
  BY <1>7, <1>5, <1>6 DEF MPI_Waitany
<1>8. CASE MPI_Testany(t)
  BY <1>8, <1>5, <1>6, <1>2 DEF MPI_Testany
<1>9. ASSUME NEW S \in SUBSET Arrived(t), SomeComplete(t, S) PROVE BookInv' /\ Shape
  BY <1>9, <1>1 DEF SomeComplete
<1>10. CASE MPI_Waitsome(t)
  BY <1>10, <1>9, <1>6 DEF MPI_Waitsome
<1>11. CASE MPI_Testsome(t)
  BY <1>11, <1>10, <1>9 DEF MPI_Testsome
<1>12. CASE \E b \in BOOLEAN : MPI_Waitall(t, b)
  BY <1>12, <1>1 DEF MPI_Waitall
<1> QED BY <1>3, <1>4, <1>7, <1>8, <1>10, <1>11, <1>12

LEMMA CallStep ==
  ASSUME NEW t \in Threads, BookInv, Calls(t)
  PROVE  BookInv' /\ Shape
<1>1. ASSUME NEW f \in {"Wait", "Test", "Waitall", "Testall", "Waitany", "Testany",
                        "Waitsome", "Testsome"},
             NEW l \in Slots, NEW k, Convert(t, f, l, k)
      PROVE  BookInv' /\ Shape
  BY <1>1, ConvertStep DEF Shape
<1>2. ASSUME NEW f, NEW l \in Slots, NEW k, NEW out, NoMemory(t, f, l, k, out)
      PROVE  BookInv' /\ Shape
  BY <1>2, NoMemoryStep DEF Shape
<1>3. ASSUME NEW f, NEW out, At(t, "finished", f), WriteBack(t, out)
      PROVE  BookInv' /\ Shape
  BY <1>3, WriteBackStep DEF Shape, At
<1>4. ASSUME NEW f, At(t, "called", f),
             \/ MPI_Wait(t) \/ MPI_Test(t) \/ MPI_Waitany(t) \/ MPI_Testany(t)
             \/ MPI_Waitsome(t) \/ MPI_Testsome(t) \/ \E b \in BOOLEAN : MPI_Waitall(t, b)
      PROVE  BookInv' /\ Shape
  BY <1>4, LibStep DEF At
<1>5. ASSUME NEW f \in {"Isend", "Irecv"}, NEW s \in Slots, NewRequest(t, f, s)
      PROVE  BookInv' /\ Shape
  BY <1>5, NewRequestStep DEF Shape
<1>6. ASSUME NEW f \in {"Isend", "Irecv"}, At(t, "called", f), MPI_Start(t)
      PROVE  BookInv' /\ Shape
  BY <1>6, StartStep DEF At
<1>7. CASE C_MPI_Wait(t)
  BY <1>7, <1>1, <1>3, <1>4 DEF C_MPI_Wait
<1>8. CASE C_MPI_Test(t)
  BY <1>8, <1>1, <1>3, <1>4 DEF C_MPI_Test
<1>9. CASE C_MPI_Testall(t)
  BY <1>9, <1>1, <1>2, <1>3, <1>4 DEF C_MPI_Testall, MPI_Testall
<1>10. CASE C_MPI_Testsome(t)
  BY <1>10, <1>1, <1>2, <1>3, <1>4 DEF C_MPI_Testsome
<1>11. CASE C_MPI_Testany(t)
  BY <1>11, <1>1, <1>2, <1>3, <1>4 DEF C_MPI_Testany
<1>12. CASE C_MPI_Waitall(t)
  <2>1. CASE /\ At(t, "called", "Waitall") /\ lost < MaxLost
             /\ lost' = lost + 1
             /\ DropArray(t)
             /\ pc' = [pc EXCEPT ![t] = "returned"]
             /\ io' = [io EXCEPT ![t] = OtherError]
             /\ UNCHANGED <<requests, holder, fn, lo, libVars>>
    BY <2>1, LostStep DEF At, Shape
  <2> QED BY <1>12, <2>1, <1>1, <1>2, <1>3, <1>4 DEF C_MPI_Waitall
<1>13. CASE C_MPI_Waitsome(t)
  BY <1>13, <1>1, <1>2, <1>3, <1>4 DEF C_MPI_Waitsome
<1>14. CASE C_MPI_Waitany(t)
  BY <1>14, <1>1, <1>2, <1>3, <1>4 DEF C_MPI_Waitany
<1>15. CASE C_MPI_Isend(t)
  BY <1>15, <1>5, <1>3, <1>6 DEF C_MPI_Isend
<1>16. CASE C_MPI_Irecv(t)
  BY <1>16, <1>5, <1>3, <1>6 DEF C_MPI_Irecv
<1> QED
  BY <1>7, <1>8, <1>9, <1>10, <1>11, <1>12, <1>13, <1>14, <1>15, <1>16 DEF Calls

LEMMA NextStep ==
  ASSUME BookInv, [Next]_vars
  PROVE  BookInv' /\ Shape
<1>1. CASE UNCHANGED vars
  <2> USE <1>1 DEF vars, progVars, libVars
  <2>1. TypeOK'
    BY DEF BookInv, TypeOK
  <2>2. CopiesAgree' /\ HoldersAreCalling' /\ StartsFromNull'
    BY DEF BookInv, CopiesAgree, HoldersAreCalling, StartsFromNull
  <2>3. Silent
    BY DEF Silent, Names, InCall
  <2> QED BY <2>1, <2>2, <2>3 DEF BookInv, Shape
<1>2. ASSUME NEW t \in Threads, Calls(t) PROVE BookInv' /\ Shape
  BY <1>2, CallStep
<1>3. ASSUME NEW t \in Threads, Resume(t) PROVE BookInv' /\ Shape
  BY <1>3, ResumeStep DEF Shape
<1>4. ASSUME NEW o \in Ops, Complete(o) PROVE BookInv' /\ Shape
  BY <1>4, CompleteStep DEF Shape
<1> QED BY <1>1, <1>2, <1>3, <1>4 DEF Next
-----------------------------------------------------------------------------
(* The invariants. *)

LEMMA NamesType == ASSUME TypeOK, NEW s \in Slots PROVE Names(s) \in CReq
BY F2CType DEF TypeOK, Names

LEMMA InitInv == Init => IInv
<1> SUFFICES ASSUME Init PROVE IInv
  OBVIOUS
<1> USE DEF Init
<1>1. TypeOK
  BY RequestsAssumption DEF TypeOK, FHandles, CReq, Slots
<1>2. CopiesAgree /\ HoldersAreCalling /\ StartsFromNull
  BY DEF CopiesAgree, HoldersAreCalling, StartsFromNull
<1>3. \A s \in Slots : Names(s) = MPI_REQUEST_NULL
  BY DEF Names, C_MPI_REQUEST_F2C
<1>4. HandlesOwnOperation /\ NoOrphanRequest
  BY <1>3, RequestsAssumption DEF HandlesOwnOperation, NoOrphanRequest
<1> QED BY <1>1, <1>2, <1>4 DEF IInv, BookInv

LEMMA ShapeInv ==
  ASSUME IInv, BookInv', Shape
  PROVE  HandlesOwnOperation' /\ NoOrphanRequest'
<1> USE RequestsAssumption DEF IInv, BookInv
<1>0. \A s \in Slots : Names(s) \in CReq
  BY NamesType
<1>1. CASE Silent
  BY <1>1 DEF Silent, HandlesOwnOperation, NoOrphanRequest
<1>2. ASSUME NEW S \in SUBSET Slots, Frees(S)
      PROVE  HandlesOwnOperation' /\ NoOrphanRequest'
  <2>1. \A s \in Slots, u \in S : Names(s) = Names(u) => s = u
    BY <1>2 DEF Frees, HandlesOwnOperation
  <2>2. HandlesOwnOperation'
    BY <1>2, <2>1, <1>0 DEF Frees, HandlesOwnOperation, TypeOK
  <2>3. NoOrphanRequest'
    BY <1>2 DEF Frees, NoOrphanRequest
  <2> QED BY <2>2, <2>3
<1>3. ASSUME NEW s \in Slots, NEW o \in Ops, NEW r \in Lib, Starts(s, o, r)
      PROVE  HandlesOwnOperation' /\ NoOrphanRequest'
  <2>1. \A u \in Slots : Names(u) # r
    BY <1>3 DEF Starts, HandlesOwnOperation
  <2>2. \A u \in Slots : Names(u) \in Lib => request_op[Names(u)] # o
    BY <1>3 DEF Starts, HandlesOwnOperation, Slots
  <2>3. HandlesOwnOperation'
    BY <1>3, <2>1, <2>2 DEF Starts, HandlesOwnOperation, TypeOK
  <2>4. NoOrphanRequest'
    BY <1>3, <2>1 DEF Starts, NoOrphanRequest, TypeOK
  <2> QED BY <2>3, <2>4
<1>4. ASSUME NEW o \in Ops, Completes(o)
      PROVE  HandlesOwnOperation' /\ NoOrphanRequest'
  BY <1>4 DEF Completes, HandlesOwnOperation, NoOrphanRequest
<1> QED BY <1>1, <1>2, <1>3, <1>4 DEF Shape

\* The inductive invariant of the specification: types, the agreement of the C
\* copies with the Fortran slots, and the two properties below.
THEOREM Invariance == Spec => []IInv
<1>1. IInv /\ [Next]_vars => IInv'
  <2> SUFFICES ASSUME IInv, [Next]_vars PROVE IInv'
    OBVIOUS
  <2>1. BookInv' /\ Shape
    BY NextStep DEF IInv
  <2> QED BY <2>1, ShapeInv DEF IInv
<1> QED BY InitInv, <1>1, PTL DEF Spec

\* Every variable keeps its type, whatever the interleaving of calls.
THEOREM TypeCorrect == Spec => []TypeOK
<1>1. IInv => TypeOK
  BY DEF IInv, BookInv
<1> QED BY Invariance, <1>1, PTL

\* No slot of the program dangles or names a recycled request, for any number
\* of threads: the conversions in mpi_p2p.c keep slot and operation together.
THEOREM HandleSafety == Spec => []HandlesOwnOperation
<1>1. IInv => HandlesOwnOperation
  BY DEF IInv
<1> QED BY Invariance, <1>1, PTL

\* No request of the library is lost by a wrapper, in no failure path.
THEOREM NoRequestLost == Spec => []NoOrphanRequest
<1>1. IInv => NoOrphanRequest
  BY DEF IInv
<1> QED BY Invariance, <1>1, PTL
-----------------------------------------------------------------------------
(* The refinement. *)

\* The operation a slot stands for, and the operations started so far: the
\* substitution of Abstract, named so that the proof can speak about it.
Held    == [s \in Slots |-> IF Names(s) \in Lib THEN request_op[Names(s)] ELSE NoOp]
Started == {o \in Ops : origin[o] # 0}

LEMMA AbstractInit == Init => Abstract!AbsInit
<1> SUFFICES ASSUME Init PROVE Abstract!AbsInit
  OBVIOUS
<1>1. \A s \in Slots : Names(s) = MPI_REQUEST_NULL
  BY DEF Init, Names, C_MPI_REQUEST_F2C
<1> QED BY <1>1, RequestsAssumption DEF Init, Abstract!AbsInit

\* No two slots name one request: the operation remembers its slot.
LEMMA NamesDiffer ==
  ASSUME HandlesOwnOperation, NEW s \in Slots, NEW u \in Slots,
         Names(s) \in Lib, Names(s) = Names(u)
  PROVE  s = u
BY DEF HandlesOwnOperation

LEMMA AbstractStep ==
  ASSUME IInv, Shape
  PROVE  [Abstract!AbsNext]_(Abstract!absVars)
<1> USE RequestsAssumption DEF IInv, BookInv
<1>1. CASE Silent
  <2>1. Held' = Held /\ Started' = Started /\ done' = done
    BY <1>1 DEF Silent, Held, Started
  <2> QED BY <2>1 DEF Abstract!absVars, Held, Started
<1>2. ASSUME NEW S \in SUBSET Slots, Frees(S) PROVE Abstract!AbsNext
  <2>1. \A s \in S : Held[s] \in done
    BY <1>2 DEF Frees, Held
  <2>2. Started' = Started /\ done' = done
    BY <1>2 DEF Frees, Started
  <2>3. ASSUME NEW s \in Slots PROVE Held'[s] = IF s \in S THEN NoOp ELSE Held[s]
    <3>1. CASE s \in S
      BY <1>2, <3>1 DEF Frees, Held
    <3>2. CASE s \notin S
      <4>1. Names(s)' = Names(s)
        BY <1>2, <3>2 DEF Frees
      <4>2. Names(s) \in Lib => request_op'[Names(s)] = request_op[Names(s)]
        BY <1>2, <3>2, NamesDiffer DEF Frees
      <4> QED BY <3>2, <4>1, <4>2 DEF Held
    <3> QED BY <3>1, <3>2
  <2>4. Held' = [s \in Slots |-> IF s \in S THEN NoOp ELSE Held[s]]
    BY <2>3 DEF Held
  <2>5. Abstract!Collect(S)
    BY <2>1, <2>2, <2>4 DEF Abstract!Collect, Held, Started
  <2> QED BY <2>5 DEF Abstract!AbsNext
<1>3. ASSUME NEW s \in Slots, NEW o \in Ops, NEW r \in Lib, Starts(s, o, r)
      PROVE  Abstract!AbsNext
  <2>1. Held[s] = NoOp /\ o \in Ops \ Started
    BY <1>3 DEF Starts, Held, Started
  <2>2. Started' = Started \cup {o} /\ done' = done
    BY <1>3 DEF Starts, Started, TypeOK, Slots
  <2>3. ASSUME NEW u \in Slots PROVE Held'[u] = IF u = s THEN o ELSE Held[u]
    <3>1. CASE u = s
      BY <1>3, <3>1 DEF Starts, Held, TypeOK
    <3>2. CASE u # s
      <4>1. Names(u) # r
        BY <1>3 DEF Starts, HandlesOwnOperation
      <4> QED BY <1>3, <3>2, <4>1 DEF Starts, Held, TypeOK
    <3> QED BY <3>1, <3>2
  <2>4. Held' = [Held EXCEPT ![s] = o]
    BY <2>3 DEF Held
  <2>5. Abstract!StartOp(s, o)
    BY <2>1, <2>2, <2>4 DEF Abstract!StartOp, Held, Started
  <2> QED BY <2>5 DEF Abstract!AbsNext
<1>4. ASSUME NEW o \in Ops, Completes(o) PROVE Abstract!AbsNext
  <2>1. PICK r \in Lib : request_op[r] = o
    BY <1>4 DEF Completes
  <2>2. PICK s \in Slots : Names(s) = r
    BY <2>1 DEF NoOrphanRequest
  <2>3. o \in Started \ done
    BY <1>4, <2>1, <2>2 DEF Completes, HandlesOwnOperation, Started, Slots
  <2>4. Held' = Held /\ Started' = Started /\ done' = done \cup {o}
    BY <1>4 DEF Completes, Held, Started
  <2>5. Abstract!FinishOp(o)
    BY <2>3, <2>4 DEF Abstract!FinishOp, Held, Started
  <2> QED BY <2>5 DEF Abstract!AbsNext
<1> QED BY <1>1, <1>2, <1>3, <1>4 DEF Shape

\* The bindings keep the promise of RequestSet: an operation is started into
\* one slot, and leaves it once, after the library completed it.
THEOREM Refinement == Spec => ImplementsRequestSet
<1>1. IInv /\ [Next]_vars => [Abstract!AbsNext]_(Abstract!absVars)
  <2> SUFFICES ASSUME IInv, [Next]_vars PROVE [Abstract!AbsNext]_(Abstract!absVars)
    OBVIOUS
  <2>1. Shape
    BY NextStep DEF IInv
  <2> QED BY <2>1, AbstractStep
<1> QED
  BY AbstractInit, <1>1, Invariance, PTL DEF Spec, ImplementsRequestSet, Abstract!AbsSpec
-----------------------------------------------------------------------------
(* What the calls report.  The section passed to a call stays together, an *)
(* operation that was started and is not finished has a request, and the   *)
(* outputs of a call tell what it did to the slots, from the moment the    *)
(* library returns until the program resumes.                              *)

Answered(t) == pc[t] \in {"finished", "returned"}

\* The outputs are a record with these fields.
Fields == {"ierror", "index", "flag", "outcount", "indices", "statuses"}
IsOutput(out) == out = [f \in Fields |-> out[f]]

SectionsInv ==
  \A t \in Threads : pc[t] # "idle" => \E k \in 0..NumSlots : Args(t) = Section(lo[t], k)

PendingInv ==
  \A o \in Ops : origin[o] # 0 /\ o \notin done => \E r \in Lib : request_op[r] = o

IoInv == /\ io = [t \in Threads |-> io[t]]
         /\ \A t \in Threads : IsOutput(io[t])

Emptied(t) == \A s \in Args(t) : Names(s) = MPI_REQUEST_NULL

\* A status is about the operation of its slot, or unwritten and the slot is live.
StatusRight(o, s, t) ==
  \/ o = EmptyStatus
  \/ o \in Ops /\ origin[o] = s /\ origin[o] # 0
  \/ o = Unset /\ s \in Args(t) /\ Names(s) \in Lib

StatusesRight(t, statuses) ==
  \A k \in DOMAIN statuses : StatusRight(statuses[k], lo[t] + k - 1, t)

\* An operation of the section has failed.
SectionFailed(t) == \E o \in failed : origin[o] \in Args(t)

LibErrors == {LibError, C_MPI_RC_FIX(LibError)}

WaitallInv(t) ==
  fn[t] = "Waitall" /\ Answered(t) =>
    /\ pc[t] = "finished" => io[t].ierror \in {MPI_SUCCESS, LibError}
    /\ io[t].ierror = MPI_SUCCESS => Emptied(t)
    /\ io[t].ierror \in LibErrors => SectionFailed(t)
    /\ StatusesRight(t, io[t].statuses)

\* The C copies are those of the slots as the program passed them.
Untouched(t) == \A s \in Args(t) : creq[s] = Found(s)

TestallInv(t) ==
  fn[t] = "Testall" /\ pc[t] = "finished" =>
    \/ Emptied(t) /\ io[t].flag = TRUE
    \/ /\ Untouched(t) /\ \E s \in Args(t) : creq[s] # MPI_REQUEST_NULL
       /\ io[t].ierror = MPI_SUCCESS /\ io[t].flag = FALSE

\* The library counts from zero, the program from one.
FirstIndex(t) == IF pc[t] = "finished" THEN 0 ELSE 1

AnyInv(t) ==
  fn[t] \in {"Waitany", "Testany"} /\ Answered(t) =>
    \A o \in Ops : DOMAIN io[t].statuses = {1} /\ io[t].statuses[1] = o =>
      /\ io[t].index \in Int /\ io[t].index >= FirstIndex(t)
      /\ origin[o] = lo[t] + io[t].index - FirstIndex(t)
      /\ origin[o] \in Args(t) /\ Names(origin[o]) = MPI_REQUEST_NULL

ReportsInv(t) == WaitallInv(t) /\ TestallInv(t) /\ AnyInv(t)

OutputInv == SectionsInv /\ PendingInv /\ IoInv /\ \A t \in Threads : ReportsInv(t)
-----------------------------------------------------------------------------
(* A call leaves the slots, the outputs and the place of other threads     *)
(* alone, and the operation that was started into a slot is remembered.    *)

Local(t) ==
  /\ \A u \in Threads \ {t} : /\ pc'[u] = pc[u] /\ fn'[u] = fn[u]
                              /\ lo'[u] = lo[u] /\ io'[u] = io[u]
  /\ \A u \in Threads \ {t}, s \in Slots : holder'[s] = u <=> holder[s] = u
  /\ \A s \in Slots : holder[s] \in Threads \ {t} =>
                        requests'[s] = requests[s] /\ creq'[s] = creq[s]
  /\ \A o \in Ops : origin[o] # 0 => origin'[o] = origin[o]
  /\ failed \subseteq failed'

\* The part of OutputInv that a thread's own step has to establish.
OwnInv(t) ==
  /\ pc[t] # "idle" => \E k \in 0..NumSlots : Args(t) = Section(lo[t], k)
  /\ IsOutput(io[t])
  /\ ReportsInv(t)

IoKept == io' = [t \in Threads |-> io'[t]]

LEMMA ConvertReports ==
  ASSUME NEW t \in Threads, NEW f, NEW l \in Slots, NEW k \in 0..NumSlots,
         BookInv, OutputInv, Convert(t, f, l, k)
  PROVE  Local(t) /\ IoKept /\ OwnInv(t)'
<1> USE DEF Convert, Passes, libVars
<1>1. Local(t)
  BY RequestsAssumption DEF Local, BookInv, TypeOK, HoldersAreCalling
<1>2. IoKept /\ IsOutput(io'[t])
  BY DEF IoKept, OutputInv, IoInv
<1>3. pc'[t] = "called" /\ lo'[t] = l
  BY DEF BookInv, TypeOK
<1>4. Args(t)' = Section(l, k)
  BY RequestsAssumption DEF BookInv, TypeOK, HoldersAreCalling, Args
<1>5. ReportsInv(t)'
  BY <1>3 DEF ReportsInv, WaitallInv, TestallInv, AnyInv, Answered
<1> QED BY <1>1, <1>2, <1>3, <1>4, <1>5 DEF OwnInv, IsOutput

LEMMA NewRequestReports ==
  ASSUME NEW t \in Threads, NEW f, NEW s \in Slots,
         BookInv, OutputInv, NewRequest(t, f, s)
  PROVE  Local(t) /\ IoKept /\ OwnInv(t)'
<1> USE DEF NewRequest, Passes, libVars
<1>0. Section(s, 1) = {s} /\ 1 \in 0..NumSlots
  BY RequestsAssumption DEF Section, Slots
<1>1. Local(t)
  BY <1>0, RequestsAssumption DEF Local, BookInv, TypeOK, HoldersAreCalling
<1>2. IoKept /\ IsOutput(io'[t])
  BY DEF IoKept, OutputInv, IoInv
<1>3. pc'[t] = "called" /\ lo'[t] = s
  BY DEF BookInv, TypeOK
<1>4. Args(t)' = Section(s, 1)
  BY RequestsAssumption DEF BookInv, TypeOK, HoldersAreCalling, Args
<1>5. ReportsInv(t)'
  BY <1>3 DEF ReportsInv, WaitallInv, TestallInv, AnyInv, Answered
<1> QED BY <1>0, <1>1, <1>2, <1>3, <1>4, <1>5 DEF OwnInv, IsOutput

\* An output that reports an error of the wrapper's, and no status.
Failure(out) ==
  IsOutput(out) /\ out.ierror = C_MPI_RC_FIX(MPI_ERR_OTHER) /\ DOMAIN out.statuses = {}

LEMMA FailureCode ==
  C_MPI_RC_FIX(MPI_ERR_OTHER) # MPI_SUCCESS /\ C_MPI_RC_FIX(MPI_ERR_OTHER) \notin LibErrors
BY DEF C_MPI_RC_FIX, MPI_ERR_OTHER, MPI_SUCCESS, LibErrors, LibError

LEMMA FailureReports ==
  ASSUME NEW t \in Threads, BookInv, OutputInv, pc'[t] = "returned",
         NEW out, Failure(out), io' = [io EXCEPT ![t] = out]
  PROVE  IoKept /\ IsOutput(io'[t]) /\ ReportsInv(t)'
<1>1. io'[t] = out /\ IoKept
  BY DEF OutputInv, IoInv, IoKept
<1>2. ReportsInv(t)'
  <2>1. WaitallInv(t)'
    BY <1>1, FailureCode DEF Failure, WaitallInv, StatusesRight, LibErrors
  <2>2. TestallInv(t)' /\ AnyInv(t)'
    BY <1>1 DEF Failure, TestallInv, AnyInv
  <2> QED BY <2>1, <2>2 DEF ReportsInv
<1> QED BY <1>1, <1>2 DEF Failure

LEMMA NoMemoryReports ==
  ASSUME NEW t \in Threads, NEW f, NEW l \in Slots, NEW k \in 0..NumSlots, NEW out,
         BookInv, OutputInv, NoMemory(t, f, l, k, out), Failure(out)
  PROVE  Local(t) /\ IoKept /\ OwnInv(t)'
<1> USE DEF NoMemory, Passes, libVars
<1>1. Local(t)
  BY RequestsAssumption DEF Local, BookInv, TypeOK, HoldersAreCalling, OutputInv, IoInv
<1>2. pc'[t] = "returned" /\ lo'[t] = l
  BY DEF BookInv, TypeOK
<1>3. IoKept /\ IsOutput(io'[t]) /\ ReportsInv(t)'
  BY <1>2, FailureReports
<1>4. Args(t)' = Section(l, k)
  BY RequestsAssumption DEF BookInv, TypeOK, HoldersAreCalling, Args
<1> QED BY <1>1, <1>2, <1>3, <1>4 DEF OwnInv, IsOutput

LEMMA LostReports ==
  ASSUME NEW t \in Threads, NEW out, BookInv, OutputInv, pc[t] = "called", Failure(out),
         DropArray(t), pc' = [pc EXCEPT ![t] = "returned"], io' = [io EXCEPT ![t] = out],
         UNCHANGED <<requests, holder, fn, lo, libVars>>
  PROVE  Local(t) /\ IoKept /\ OwnInv(t)'
<1> USE DEF DropArray, Args, libVars
<1>1. Local(t)
  BY RequestsAssumption DEF Local, BookInv, TypeOK, OutputInv, IoInv
<1>2. pc'[t] = "returned" /\ lo'[t] = lo[t]
  BY DEF BookInv, TypeOK
<1>3. IoKept /\ IsOutput(io'[t]) /\ ReportsInv(t)'
  BY <1>2, FailureReports
<1>4. Args(t)' = Args(t)
  OBVIOUS
<1> QED BY <1>1, <1>2, <1>3, <1>4 DEF OwnInv, IsOutput, OutputInv, SectionsInv

LEMMA ResumeReports ==
  ASSUME NEW t \in Threads, BookInv, OutputInv, Resume(t)
  PROVE  Local(t) /\ IoKept /\ OwnInv(t)'
<1> USE DEF Resume, libVars
<1>1. Local(t)
  BY RequestsAssumption DEF Local, BookInv, TypeOK, OutputInv, IoInv
<1>2. pc'[t] = "idle"
  BY DEF BookInv, TypeOK
<1>3. io'[t] = NoOut /\ IoKept
  BY DEF OutputInv, IoInv, IoKept
<1>4. IsOutput(NoOut)
  BY DEF IsOutput, Fields, NoOut
<1>5. ReportsInv(t)'
  BY <1>2 DEF ReportsInv, WaitallInv, TestallInv, AnyInv, Answered
<1> QED BY <1>1, <1>2, <1>3, <1>4, <1>5 DEF OwnInv, IsOutput

\* The library returns, with some of the requests of the call freed.
LEMMA ReturnLocal ==
  ASSUME NEW t \in Threads, NEW out, NEW S \in SUBSET Args(t), BookInv, OutputInv,
         pc[t] = "called", IsOutput(out), LibReturns(t, out),
         creq' = [s \in Slots |-> IF s \in S THEN MPI_REQUEST_NULL ELSE creq[s]]
  PROVE  /\ Local(t) /\ IoKept
         /\ ReportsInv(t)' => OwnInv(t)'
         /\ pc'[t] = "finished" /\ fn'[t] = fn[t] /\ lo'[t] = lo[t] /\ io'[t] = out
         /\ Args(t)' = Args(t)
         /\ \A s \in Args(t) : Names(s)' = creq'[s] /\ Names(s) = creq[s]
<1> USE DEF LibReturns, Args
<1>1. Local(t)
  BY RequestsAssumption DEF Local, BookInv, TypeOK, OutputInv, IoInv
<1>2. /\ pc'[t] = "finished" /\ fn'[t] = fn[t] /\ lo'[t] = lo[t] /\ Args(t)' = Args(t)
  BY DEF BookInv, TypeOK
<1>3. io'[t] = out /\ IoKept
  BY DEF OutputInv, IoInv, IoKept
<1>4. \A s \in Args(t) : Names(s)' = creq'[s] /\ Names(s) = creq[s]
  BY <1>2, RequestsAssumption DEF Names, InCall
<1>5. ReportsInv(t)' => OwnInv(t)'
  BY <1>2, <1>3 DEF OwnInv, OutputInv, SectionsInv, IsOutput
<1> QED BY <1>1, <1>2, <1>3, <1>4, <1>5

LEMMA StartReports ==
  ASSUME NEW t \in Threads, BookInv, OutputInv, pc[t] = "called",
         fn[t] \in {"Isend", "Irecv"}, MPI_Start(t)
  PROVE  Local(t) /\ IoKept /\ OwnInv(t)'
<1>1. IsOutput(NoOut) /\ IsOutput([NoOut EXCEPT !.ierror = LibError])
  BY DEF IsOutput, Fields, NoOut
<1>2. CASE LibReturns(t, [NoOut EXCEPT !.ierror = LibError]) /\ UNCHANGED <<request_op, creq>>
  <2>1. creq' = [s \in Slots |-> IF s \in {} THEN MPI_REQUEST_NULL ELSE creq[s]]
    BY <1>2 DEF BookInv, TypeOK
  <2> DEFINE out == [NoOut EXCEPT !.ierror = LibError]
  <2>2. Local(t) /\ IoKept /\ (ReportsInv(t)' => OwnInv(t)') /\ fn'[t] = fn[t]
    <3>1. {} \in SUBSET Args(t) /\ LibReturns(t, out) /\ IsOutput(out)
      BY <1>1, <1>2
    <3> HIDE DEF out
    <3> QED BY <3>1, <2>1, ReturnLocal
  <2>3. ReportsInv(t)'
    BY <2>2 DEF ReportsInv, WaitallInv, TestallInv, AnyInv
  <2> QED BY <2>2, <2>3
<1>3. ASSUME NEW s \in Args(t), NEW o \in Ops, NEW r \in Lib,
             origin[o] = 0, request_op[r] = NoOp,
             request_op' = [request_op EXCEPT ![r] = o],
             creq' = [creq EXCEPT ![s] = r],
             origin' = [origin EXCEPT ![o] = s],
             pc' = [pc EXCEPT ![t] = "finished"], io' = [io EXCEPT ![t] = NoOut],
             UNCHANGED <<requests, holder, fn, lo, done, failed, lost>>
      PROVE  Local(t) /\ IoKept /\ OwnInv(t)'
  <2>1. Local(t)
    BY <1>3, RequestsAssumption DEF Local, BookInv, TypeOK, OutputInv, IoInv, Args
  <2>2. fn'[t] = fn[t] /\ lo'[t] = lo[t] /\ Args(t)' = Args(t)
    BY <1>3 DEF Args
  <2>3. io'[t] = NoOut /\ IoKept
    BY <1>3 DEF OutputInv, IoInv, IoKept
  <2>4. ReportsInv(t)'
    BY <2>2 DEF ReportsInv, WaitallInv, TestallInv, AnyInv
  <2> QED BY <1>1, <2>1, <2>2, <2>3, <2>4 DEF OwnInv, IsOutput, OutputInv, SectionsInv
<1> QED BY <1>2, <1>3 DEF MPI_Start

LEMMA WriteBackLocal ==
  ASSUME NEW t \in Threads, NEW out, BookInv, OutputInv, pc[t] = "finished",
         IsOutput(out), WriteBack(t, out)
  PROVE  /\ Local(t) /\ IoKept
         /\ ReportsInv(t)' => OwnInv(t)'
         /\ pc'[t] = "returned" /\ fn'[t] = fn[t] /\ lo'[t] = lo[t] /\ io'[t] = out
         /\ Args(t)' = Args(t) /\ origin' = origin
         /\ \A s \in Slots : Names(s)' = Names(s)
<1> USE DEF WriteBack, DropArray, libVars
<1>1. Local(t)
  BY RequestsAssumption DEF Local, BookInv, TypeOK, OutputInv, IoInv, Args
<1>2. /\ pc'[t] = "returned" /\ fn'[t] = fn[t] /\ lo'[t] = lo[t]
      /\ Args(t)' = Args(t) /\ origin' = origin
  BY DEF BookInv, TypeOK, Args
<1>3. io'[t] = out /\ IoKept
  BY DEF OutputInv, IoInv, IoKept
<1>4. \A s \in Slots : Names(s)' = Names(s)
  BY WriteBackStep DEF Silent
<1>5. ReportsInv(t)' => OwnInv(t)'
  BY <1>2, <1>3 DEF OwnInv, OutputInv, SectionsInv, IsOutput
<1> QED BY <1>1, <1>2, <1>3, <1>4, <1>5
-----------------------------------------------------------------------------
(* What each routine reports. *)

LEMMA OnlySuccessIsFixed ==
  ASSUME NEW rc, C_MPI_RC_FIX(rc) = MPI_SUCCESS PROVE rc = MPI_SUCCESS
BY DEF C_MPI_RC_FIX, MPI_SUCCESS

\* What is converted to an error of the library was one.
LEMMA FixedLibErrors ==
  ASSUME NEW rc, rc \in {MPI_SUCCESS, LibError}, C_MPI_RC_FIX(rc) \in LibErrors
  PROVE  rc \in LibErrors
BY DEF C_MPI_RC_FIX, LibErrors, LibError, MPI_SUCCESS

\* The slots of a call, by their place in the section passed.
LEMMA SlotsOfCall ==
  ASSUME NEW t \in Threads, BookInv, SectionsInv, pc[t] # "idle"
  PROVE  /\ \A s \in Args(t) : s \in Slots /\ lo[t] \in Slots /\ s >= lo[t]
         /\ \A k \in 1..Count(t) : lo[t] + k - 1 \in Args(t)
<1>1. PICK n \in 0..NumSlots : Args(t) = Section(lo[t], n)
  BY DEF SectionsInv
<1>2. lo[t] \in Slots /\ lo[t] \in Int /\ n \in Int
  BY <1>1, RequestsAssumption DEF BookInv, TypeOK, Slots
<1>3. Count(t) = n
  <2> DEFINE b == lo[t] + n - 1
  <2>1. b \in Int /\ (lo[t] > b => n = 0) /\ (~(lo[t] > b) => b - lo[t] + 1 = n)
    BY <1>2
  <2>2. Count(t) = Cardinality(lo[t]..b)
    BY <1>1 DEF Count, Section
  <2> HIDE DEF b
  <2>3. Cardinality(lo[t]..b) = IF lo[t] > b THEN 0 ELSE b - lo[t] + 1
    BY <1>2, <2>1, FS_Interval
  <2> QED BY <2>1, <2>2, <2>3
<1>4. \A s \in Args(t) : s \in Slots
  BY DEF Args
<1> QED BY <1>1, <1>2, <1>3, <1>4 DEF Section, Slots

\* A status of a slot that is not left pending is about the slot's operation.
LEMMA StatusOfSlot ==
  ASSUME NEW t \in Threads, IInv, pc[t] = "called", NEW s \in Args(t)
  PROVE  \/ creq[s] = MPI_REQUEST_NULL /\ StatusOf(s) = EmptyStatus
         \/ creq[s] # MPI_REQUEST_NULL /\ StatusOf(s) \in Ops /\ origin[StatusOf(s)] = s
<1>1. Names(s) = creq[s] /\ creq[s] \in CReq
  BY RequestsAssumption DEF IInv, BookInv, TypeOK, Args, Names, InCall
<1> QED BY <1>1 DEF IInv, HandlesOwnOperation, StatusOf, CReq, Args

\* When only the requests of S are freed, the statuses left unwritten are those of
\* the other live slots.
LEMMA StatusesOfSlots ==
  ASSUME NEW t \in Threads, IInv, OutputInv, pc[t] = "called", NEW S \in SUBSET Live(t),
         FreeRequests(S), Args(t)' = Args(t), lo'[t] = lo[t], origin' = origin,
         \A s \in Args(t) : Names(s)' = creq'[s],
         NEW statuses, statuses = StatusesOf(t, S)
  PROVE  StatusesRight(t, statuses)'
<1>1. ASSUME NEW k \in 1..Count(t)
      PROVE  StatusRight(statuses[k], lo[t] + k - 1, t)'
  <2>0. PICK s : s = lo[t] + k - 1
    OBVIOUS
  <2>1. s \in Args(t) /\ s \in Slots /\ s = lo'[t] + k - 1
    BY <2>0, SlotsOfCall DEF IInv, OutputInv
  <2>2. statuses[k] = IF s \in Live(t) \ S THEN Unset ELSE StatusOf(s)
    BY <2>0 DEF StatusesOf
  <2> SUFFICES StatusRight(statuses[k], s, t)'
    BY <2>1
  <2>3. CASE s \in Live(t) \ S
    <3>1. creq'[s] = creq[s]
      BY <2>1, <2>3 DEF FreeRequests
    <3>2. creq[s] \in Lib
      BY <2>1, <2>3 DEF Live, IInv, BookInv, TypeOK, CReq
    <3> QED BY <2>1, <2>2, <2>3, <3>1, <3>2 DEF StatusRight
  <2>4. CASE s \notin Live(t) \ S
    <3>1. statuses[k] = StatusOf(s) /\ s # 0
      BY <2>1, <2>2, <2>4 DEF Slots
    <3>2. StatusOf(s) = EmptyStatus \/ (StatusOf(s) \in Ops /\ origin[StatusOf(s)] = s)
      BY <2>1, StatusOfSlot
    <3> QED BY <3>1, <3>2 DEF StatusRight
  <2> QED BY <2>3, <2>4
<1>2. DOMAIN statuses = 1..Count(t)
  BY DEF StatusesOf
<1> QED BY <1>1, <1>2 DEF StatusesRight

\* Freeing the requests of all live slots leaves the section empty.
LEMMA FreeingEmpties ==
  ASSUME NEW t \in Threads, BookInv, FreeRequests(Live(t)), Args(t)' = Args(t),
         \A s \in Args(t) : Names(s)' = creq'[s]
  PROVE  Emptied(t)'
BY DEF Emptied, FreeRequests, Live, Args

LEMMA WaitallReturns ==
  ASSUME NEW t \in Threads, IInv, OutputInv, At(t, "called", "Waitall"),
         NEW ignored \in BOOLEAN, MPI_Waitall(t, ignored)
  PROVE  Local(t) /\ IoKept /\ OwnInv(t)'
<1>0. PICK out : out = [NoOut EXCEPT !.ierror = Outcome(Arrived(t)),
             !.statuses = IF ignored THEN <<>> ELSE StatusesOf(t, Arrived(t))]
  OBVIOUS
<1>1. /\ IsOutput(out) /\ out.ierror = Outcome(Arrived(t))
      /\ out.statuses = IF ignored THEN <<>> ELSE StatusesOf(t, Arrived(t))
  BY <1>0 DEF IsOutput, Fields, NoOut
<1>2. /\ Live(t) = Arrived(t) \/ Outcome(Arrived(t)) # MPI_SUCCESS
      /\ FreeRequests(Arrived(t)) /\ LibReturns(t, out)
  BY <1>0 DEF MPI_Waitall
<1>3. /\ Local(t) /\ IoKept /\ (ReportsInv(t)' => OwnInv(t)')
      /\ pc'[t] = "finished" /\ fn'[t] = fn[t] /\ lo'[t] = lo[t] /\ io'[t] = out
      /\ Args(t)' = Args(t) /\ \A s \in Args(t) : Names(s)' = creq'[s]
  BY <1>1, <1>2, ReturnLocal DEF FreeRequests, Arrived, Live, At, IInv
<1>4. ASSUME out.ierror = MPI_SUCCESS PROVE Emptied(t)'
  <2>1. Live(t) = Arrived(t)
    BY <1>1, <1>2, <1>4
  <2> QED BY <1>2, <1>3, <2>1, FreeingEmpties DEF IInv
<1>5. ASSUME out.ierror \in LibErrors PROVE SectionFailed(t)'
  <2>1. Outcome(Arrived(t)) # MPI_SUCCESS
    BY <1>1, <1>5 DEF LibErrors, LibError, C_MPI_RC_FIX, MPI_SUCCESS
  <2>2. PICK s \in Arrived(t) : request_op[creq[s]] \in failed
    BY <2>1 DEF Outcome
  <2>3. s \in Args(t) /\ creq[s] # MPI_REQUEST_NULL
    BY DEF Arrived, Live
  <2>4. origin[request_op[creq[s]]] = s
    BY <2>3, StatusOfSlot DEF StatusOf, At
  <2>5. origin' = origin /\ failed' = failed
    BY <1>2 DEF LibReturns
  <2> QED BY <1>3, <2>2, <2>3, <2>4, <2>5 DEF SectionFailed
<1>6. StatusesRight(t, out.statuses)'
  <2>1. CASE ignored
    BY <1>1, <2>1 DEF StatusesRight
  <2>2. CASE ~ignored
    <3>1. Arrived(t) \in SUBSET Live(t) /\ origin' = origin /\ pc[t] = "called"
      BY <1>2 DEF Arrived, LibReturns, At
    <3>2. out.statuses = StatusesOf(t, Arrived(t))
      BY <1>1, <2>2
    <3> QED BY <1>2, <1>3, <3>1, <3>2, StatusesOfSlots
  <2> QED BY <2>1, <2>2
<1>7. ReportsInv(t)'
  <2>1. WaitallInv(t)'
    BY <1>1, <1>3, <1>4, <1>5, <1>6 DEF WaitallInv, Outcome
  <2>2. TestallInv(t)' /\ AnyInv(t)'
    BY <1>3 DEF At, TestallInv, AnyInv
  <2> QED BY <2>1, <2>2 DEF ReportsInv
<1> QED BY <1>3, <1>7

LEMMA TestallReturns ==
  ASSUME NEW t \in Threads, IInv, OutputInv, At(t, "called", "Testall"), MPI_Testall(t)
  PROVE  Local(t) /\ IoKept /\ OwnInv(t)'
<1>1. CASE Live(t) = Arrived(t)
  <2> DEFINE out == [NoOut EXCEPT !.ierror = Outcome(Live(t)), !.flag = TRUE,
                                  !.statuses = StatusesOf(t, Live(t))]
  <2>1. IsOutput(out) /\ out.flag = TRUE
    BY DEF IsOutput, Fields, NoOut
  <2>2. FreeRequests(Live(t)) /\ LibReturns(t, out)
    BY <1>1 DEF MPI_Testall, MPI_Test
  <2> HIDE DEF out
  <2>3. /\ Local(t) /\ IoKept /\ (ReportsInv(t)' => OwnInv(t)')
        /\ pc'[t] = "finished" /\ fn'[t] = fn[t] /\ lo'[t] = lo[t] /\ io'[t] = out
        /\ Args(t)' = Args(t) /\ \A s \in Args(t) : Names(s)' = creq'[s]
    BY <2>1, <2>2, ReturnLocal DEF FreeRequests, Live, At, IInv
  <2>4. Emptied(t)'
    BY <2>2, <2>3, FreeingEmpties DEF IInv
  <2>5. ReportsInv(t)'
    BY <2>1, <2>3, <2>4 DEF At, ReportsInv, WaitallInv, TestallInv, AnyInv
  <2> QED BY <2>3, <2>5
<1>2. CASE Live(t) # Arrived(t)
  <2> DEFINE out == [NoOut EXCEPT !.flag = FALSE, !.statuses = StatusesOf(t, {})]
  <2>1. IsOutput(out) /\ out.flag = FALSE /\ out.ierror = MPI_SUCCESS
    BY DEF IsOutput, Fields, NoOut
  <2>2. LibReturns(t, out) /\ UNCHANGED <<request_op, creq>>
    BY <1>2 DEF MPI_Testall, MPI_Test
  <2> HIDE DEF out
  <2>3. creq' = [s \in Slots |-> IF s \in {} THEN MPI_REQUEST_NULL ELSE creq[s]]
    BY <2>2 DEF IInv, BookInv, TypeOK
  <2>4. /\ Local(t) /\ IoKept /\ (ReportsInv(t)' => OwnInv(t)')
        /\ pc'[t] = "finished" /\ fn'[t] = fn[t] /\ lo'[t] = lo[t] /\ io'[t] = out
        /\ Args(t)' = Args(t) /\ \A s \in Args(t) : Names(s)' = creq'[s]
    <3>1. {} \in SUBSET Args(t) /\ pc[t] = "called" /\ BookInv
      BY DEF At, IInv
    <3> QED BY <3>1, <2>1, <2>2, <2>3, ReturnLocal
  <2>5. Untouched(t)' /\ \E s \in Args(t)' : creq'[s] # MPI_REQUEST_NULL
    <3>1. PICK s \in Live(t) : TRUE
      BY <1>2 DEF Arrived
    <3>2. Untouched(t)
      BY RequestsAssumption DEF Untouched, Found, Args, At, IInv, BookInv, CopiesAgree
    <3>3. creq' = creq /\ requests' = requests
      BY <2>2 DEF LibReturns
    <3> QED BY <3>1, <3>2, <3>3, <2>4 DEF Live, Untouched, Found
  <2>6. ReportsInv(t)'
    BY <2>1, <2>4, <2>5 DEF At, ReportsInv, WaitallInv, TestallInv, AnyInv
  <2> QED BY <2>4, <2>6
<1> QED BY <1>1, <1>2

\* Waitany and Testany complete one request, or answer without a status of one.
LEMMA OneCompletesReports ==
  ASSUME NEW t \in Threads, IInv, OutputInv, pc[t] = "called",
         fn[t] \in {"Waitany", "Testany"}, OneCompletes(t)
  PROVE  Local(t) /\ IoKept /\ OwnInv(t)'
<1>0. PICK s \in Arrived(t) :
        /\ FreeRequests({s})
        /\ LibReturns(t, [NoOut EXCEPT !.ierror = Outcome({s}), !.index = s - lo[t],
                                       !.flag = TRUE, !.statuses = <<StatusOf(s)>>])
  BY DEF OneCompletes
<1> DEFINE out == [NoOut EXCEPT !.ierror = Outcome({s}), !.index = s - lo[t],
                                !.flag = TRUE, !.statuses = <<StatusOf(s)>>]
<1>1. IsOutput(out) /\ out.index = s - lo[t] /\ out.statuses = <<StatusOf(s)>>
  BY DEF IsOutput, Fields, NoOut
<1>2. FreeRequests({s}) /\ LibReturns(t, out)
  BY <1>0
<1> HIDE DEF out
<1>3. s \in Args(t) /\ s \in Slots /\ lo[t] \in Slots /\ s >= lo[t] /\ creq[s] # MPI_REQUEST_NULL
  BY SlotsOfCall DEF Arrived, Live, IInv, OutputInv
<1>4. /\ Local(t) /\ IoKept /\ (ReportsInv(t)' => OwnInv(t)')
      /\ pc'[t] = "finished" /\ fn'[t] = fn[t] /\ lo'[t] = lo[t] /\ io'[t] = out
      /\ Args(t)' = Args(t) /\ \A u \in Args(t) : Names(u)' = creq'[u]
  BY <1>1, <1>2, <1>3, ReturnLocal DEF FreeRequests, IInv
<1>5. origin[StatusOf(s)] = s
  BY <1>3, StatusOfSlot
<1>6. Names(s)' = MPI_REQUEST_NULL /\ origin' = origin
  BY <1>2, <1>3, <1>4 DEF FreeRequests, LibReturns
<1>7. AnyInv(t)'
  BY <1>1, <1>3, <1>4, <1>5, <1>6 DEF AnyInv, FirstIndex, Slots
<1>8. ReportsInv(t)'
  BY <1>4, <1>7 DEF ReportsInv, WaitallInv, TestallInv
<1> QED BY <1>4, <1>8

LEMMA NoneReports ==
  ASSUME NEW t \in Threads, IInv, OutputInv, pc[t] = "called",
         fn[t] \in {"Waitany", "Testany"}, NEW out, IsOutput(out),
         out.statuses = <<>> \/ out.statuses = <<EmptyStatus>>,
         LibReturns(t, out), UNCHANGED <<request_op, creq>>
  PROVE  Local(t) /\ IoKept /\ OwnInv(t)'
<1>1. creq' = [s \in Slots |-> IF s \in {} THEN MPI_REQUEST_NULL ELSE creq[s]]
  BY DEF IInv, BookInv, TypeOK
<1>2. /\ Local(t) /\ IoKept /\ (ReportsInv(t)' => OwnInv(t)')
      /\ pc'[t] = "finished" /\ fn'[t] = fn[t] /\ io'[t] = out
  <2>1. {} \in SUBSET Args(t) /\ BookInv
    BY DEF IInv
  <2> QED BY <1>1, <2>1, ReturnLocal
<1>3. AnyInv(t)'
  BY <1>2, OutputAssumption DEF AnyInv
<1>4. ReportsInv(t)'
  BY <1>2, <1>3 DEF ReportsInv, WaitallInv, TestallInv
<1> QED BY <1>2, <1>4

LEMMA AnyReturns ==
  ASSUME NEW t \in Threads, IInv, OutputInv,
         \/ At(t, "called", "Waitany") /\ MPI_Waitany(t)
         \/ At(t, "called", "Testany") /\ MPI_Testany(t)
  PROVE  Local(t) /\ IoKept /\ OwnInv(t)'
<1>1. pc[t] = "called" /\ fn[t] \in {"Waitany", "Testany"}
  BY DEF At
<1>2. CASE OneCompletes(t)
  BY <1>1, <1>2, OneCompletesReports
<1>3. ASSUME NEW out, IsOutput(out), out.statuses = <<>> \/ out.statuses = <<EmptyStatus>>,
             LibReturns(t, out), UNCHANGED <<request_op, creq>>
      PROVE  Local(t) /\ IoKept /\ OwnInv(t)'
  BY <1>1, <1>3, NoneReports
<1> DEFINE o1 == [NoOut EXCEPT !.index = LibUndefined, !.statuses = <<EmptyStatus>>]
           o2 == [NoOut EXCEPT !.index = LibUndefined, !.flag = TRUE, !.statuses = <<EmptyStatus>>]
           o3 == [NoOut EXCEPT !.index = LibUndefined, !.flag = FALSE]
<1>4. /\ IsOutput(o1) /\ o1.statuses = <<EmptyStatus>>
      /\ IsOutput(o2) /\ o2.statuses = <<EmptyStatus>>
      /\ IsOutput(o3) /\ o3.statuses = <<>>
  BY DEF IsOutput, Fields, NoOut
<1>5. \/ OneCompletes(t)
      \/ LibReturns(t, o1) /\ UNCHANGED <<request_op, creq>>
      \/ LibReturns(t, o2) /\ UNCHANGED <<request_op, creq>>
      \/ LibReturns(t, o3) /\ UNCHANGED <<request_op, creq>>
  BY DEF MPI_Waitany, MPI_Testany, NoneActive
<1> HIDE DEF o1, o2, o3
<1> QED BY <1>2, <1>3, <1>4, <1>5

\* The library returns to another routine.
LEMMA OtherReturns ==
  ASSUME NEW t \in Threads, NEW out, NEW S \in SUBSET Args(t), BookInv, OutputInv,
         pc[t] = "called", fn[t] \notin {"Waitall", "Testall", "Waitany", "Testany"},
         IsOutput(out), LibReturns(t, out),
         creq' = [s \in Slots |-> IF s \in S THEN MPI_REQUEST_NULL ELSE creq[s]]
  PROVE  Local(t) /\ IoKept /\ OwnInv(t)'
<1>1. Local(t) /\ IoKept /\ (ReportsInv(t)' => OwnInv(t)') /\ fn'[t] = fn[t]
  BY ReturnLocal
<1>2. ReportsInv(t)'
  BY <1>1 DEF ReportsInv, WaitallInv, TestallInv, AnyInv
<1> QED BY <1>1, <1>2
-----------------------------------------------------------------------------
(* What the Fortran wrappers make of the outputs. *)

LEMMA WaitallWritesBack ==
  ASSUME NEW t \in Threads, IInv, OutputInv, At(t, "finished", "Waitall"),
         WriteBack(t, Fixed(MPI_Waitall_f08(io[t])))
  PROVE  Local(t) /\ IoKept /\ OwnInv(t)'
<1>0. PICK out, statuses : out = Fixed(MPI_Waitall_f08(io[t])) /\ statuses = io[t].statuses
  OBVIOUS
<1>1. /\ IsOutput(out) /\ out.ierror = C_MPI_RC_FIX(io[t].ierror)
      /\ out.statuses = C_MPI_STATUS_C2F(statuses)
  BY <1>0 DEF OutputInv, IoInv, IsOutput, Fields, Fixed, MPI_Waitall_f08
<1>2. /\ Local(t) /\ IoKept /\ (ReportsInv(t)' => OwnInv(t)')
      /\ pc'[t] = "returned" /\ fn'[t] = fn[t] /\ lo'[t] = lo[t] /\ io'[t] = out
      /\ Args(t)' = Args(t) /\ origin' = origin /\ \A s \in Slots : Names(s)' = Names(s)
  <2>1. pc[t] = "finished" /\ BookInv /\ WriteBack(t, out)
    BY <1>0 DEF At, IInv
  <2> QED BY <2>1, <1>1, WriteBackLocal
<1>3. /\ io[t].ierror \in {MPI_SUCCESS, LibError}
      /\ io[t].ierror = MPI_SUCCESS => Emptied(t)
      /\ io[t].ierror \in LibErrors => SectionFailed(t)
      /\ StatusesRight(t, statuses)
  BY <1>0 DEF OutputInv, ReportsInv, WaitallInv, At, Answered
<1>4. ASSUME out.ierror = MPI_SUCCESS PROVE Emptied(t)'
  <2>1. Emptied(t)
    BY <1>1, <1>3, <1>4, OnlySuccessIsFixed
  <2> QED BY <1>2, <2>1 DEF Emptied, Args
<1>5. ASSUME out.ierror \in LibErrors PROVE SectionFailed(t)'
  <2>1. io[t].ierror \in LibErrors
    BY <1>1, <1>3, <1>5, FixedLibErrors
  <2>2. failed' = failed
    BY DEF WriteBack, libVars
  <2> QED BY <1>2, <1>3, <2>1, <2>2 DEF SectionFailed
<1>6. StatusesRight(t, out.statuses)'
  <2>1. ASSUME NEW k \in DOMAIN statuses
        PROVE  StatusRight(statuses[k], lo[t] + k - 1, t)'
    <3>1. StatusRight(statuses[k], lo[t] + k - 1, t)
      BY <1>3 DEF StatusesRight
    <3>2. \A s \in Args(t) : Names(s)' = Names(s)
      BY <1>2 DEF Args
    <3> QED BY <1>2, <3>1, <3>2 DEF StatusRight
  <2> QED BY <1>1, <1>2, <2>1 DEF StatusesRight, C_MPI_STATUS_C2F
<1>7. ReportsInv(t)'
  <2>1. WaitallInv(t)'
    BY <1>2, <1>4, <1>5, <1>6 DEF WaitallInv
  <2>2. TestallInv(t)' /\ AnyInv(t)'
    BY <1>2 DEF At, TestallInv, AnyInv
  <2> QED BY <2>1, <2>2 DEF ReportsInv
<1> QED BY <1>2, <1>7

LEMMA TestallWritesBack ==
  ASSUME NEW t \in Threads, IInv, OutputInv, At(t, "finished", "Testall"),
         WriteBack(t, Fixed(MPI_Testall_f08(io[t])))
  PROVE  Local(t) /\ IoKept /\ OwnInv(t)'
<1> DEFINE out == Fixed(MPI_Testall_f08(io[t]))
<1>1. /\ IsOutput(out) /\ out.ierror = C_MPI_RC_FIX(io[t].ierror) /\ out.flag = io[t].flag
  BY DEF OutputInv, IoInv, IsOutput, Fields, Fixed, MPI_Testall_f08
<1> HIDE DEF out
<1>2. /\ Local(t) /\ IoKept /\ (ReportsInv(t)' => OwnInv(t)')
      /\ pc'[t] = "returned" /\ fn'[t] = fn[t] /\ io'[t] = out
      /\ Args(t)' = Args(t) /\ \A s \in Slots : Names(s)' = Names(s)
  <2>1. pc[t] = "finished" /\ BookInv /\ WriteBack(t, out)
    BY DEF At, IInv, out
  <2> QED BY <2>1, <1>1, WriteBackLocal
<1>3. ReportsInv(t)'
  BY <1>2 DEF At, ReportsInv, WaitallInv, TestallInv, AnyInv
<1> QED BY <1>2, <1>3

\* Of one status of the library's the program sees this one or nothing.
LEMMA OverlayOfOne ==
  ASSUME NEW c, DOMAIN Overlay(c) = {1}, NEW o \in Ops, Overlay(c)[1] = o
  PROVE  DOMAIN c = {1} /\ c[1] = o
<1>1. DOMAIN c = {1}
  BY DEF Overlay
<1> DEFINE hits == {j \in DOMAIN c : F_StatusWords*(1-1) + F_SourceWord
                                       = LibStatusWords*(j-1) + LibSourceWord}
<1>2. Overlay(c)[1] = IF hits = {} THEN Unset ELSE c[CHOOSE j \in hits : TRUE]
  BY <1>1 DEF Overlay
<1>3. hits # {}
  BY <1>2, OutputAssumption
<1>4. hits \subseteq {1}
  BY <1>1
<1> QED BY <1>1, <1>2, <1>3, <1>4

LEMMA AnyWritesBack ==
  ASSUME NEW t \in Threads, IInv, OutputInv,
         \/ At(t, "finished", "Waitany") /\ WriteBack(t, Fixed(MPI_Waitany_f08(io[t])))
         \/ At(t, "finished", "Testany") /\ WriteBack(t, MPI_Testany_f08(io[t]))
  PROVE  Local(t) /\ IoKept /\ OwnInv(t)'
<1>1. pc[t] = "finished" /\ fn[t] \in {"Waitany", "Testany"}
  BY DEF At
<1>2. PICK out : /\ WriteBack(t, out)
                 /\ IsOutput(out) /\ out.statuses = Overlay(io[t].statuses)
                 /\ out.index = IF io[t].index >= 0 THEN io[t].index + 1 ELSE Unset
  <2>1. IsOutput(io[t])
    BY DEF OutputInv, IoInv
  <2> DEFINE w == Fixed(MPI_Waitany_f08(io[t]))
             u == MPI_Testany_f08(io[t])
  <2>2. /\ IsOutput(w) /\ w.statuses = Overlay(io[t].statuses)
        /\ w.index = IF io[t].index >= 0 THEN io[t].index + 1 ELSE Unset
    BY <2>1 DEF IsOutput, Fields, Fixed, MPI_Waitany_f08
  <2>3. /\ IsOutput(u) /\ u.statuses = Overlay(io[t].statuses)
        /\ u.index = IF io[t].index >= 0 THEN io[t].index + 1 ELSE Unset
    BY <2>1 DEF IsOutput, Fields, MPI_Testany_f08
  <2>4. WriteBack(t, w) \/ WriteBack(t, u)
    OBVIOUS
  <2> HIDE DEF w, u
  <2> QED BY <2>2, <2>3, <2>4
<1>3. /\ Local(t) /\ IoKept /\ (ReportsInv(t)' => OwnInv(t)')
      /\ pc'[t] = "returned" /\ fn'[t] = fn[t] /\ lo'[t] = lo[t] /\ io'[t] = out
      /\ Args(t)' = Args(t) /\ origin' = origin /\ \A s \in Slots : Names(s)' = Names(s)
  BY <1>1, <1>2, WriteBackLocal DEF IInv
<1>4. AnyInv(t)'
  <2> SUFFICES ASSUME NEW o \in Ops, DOMAIN out.statuses = {1}, out.statuses[1] = o
               PROVE  /\ out.index \in Int /\ out.index >= 1
                      /\ origin[o] = lo[t] + out.index - 1
                      /\ origin[o] \in Args(t) /\ Names(origin[o])' = MPI_REQUEST_NULL
    BY <1>3 DEF AnyInv, FirstIndex
  <2>1. DOMAIN io[t].statuses = {1} /\ io[t].statuses[1] = o
    BY <1>2, OverlayOfOne
  <2>2. /\ io[t].index \in Int /\ io[t].index >= 0
        /\ origin[o] = lo[t] + io[t].index - 0
        /\ origin[o] \in Args(t) /\ Names(origin[o]) = MPI_REQUEST_NULL
    BY <1>1, <2>1 DEF OutputInv, ReportsInv, AnyInv, FirstIndex, Answered
  <2>3. lo[t] \in Int
    BY DEF IInv, BookInv, TypeOK, Slots
  <2>4. Names(origin[o])' = MPI_REQUEST_NULL
    BY <1>3, <2>2 DEF Args
  <2> QED BY <1>2, <2>2, <2>3, <2>4
<1>5. ReportsInv(t)'
  BY <1>1, <1>3, <1>4 DEF ReportsInv, WaitallInv, TestallInv
<1> QED BY <1>3, <1>5

\* The other routines.
LEMMA OtherWritesBack ==
  ASSUME NEW t \in Threads, NEW out, BookInv, OutputInv, pc[t] = "finished",
         fn[t] \notin {"Waitall", "Testall", "Waitany", "Testany"},
         IsOutput(out), WriteBack(t, out)
  PROVE  Local(t) /\ IoKept /\ OwnInv(t)'
<1>1. Local(t) /\ IoKept /\ (ReportsInv(t)' => OwnInv(t)') /\ fn'[t] = fn[t]
  BY WriteBackLocal
<1>2. ReportsInv(t)'
  BY <1>1 DEF ReportsInv, WaitallInv, TestallInv, AnyInv
<1> QED BY <1>1, <1>2
-----------------------------------------------------------------------------
(* All steps of a thread. *)

\* The routines that report on requests one by one, or start an operation.
LEMMA OtherLibraryCalls ==
  ASSUME NEW t \in Threads, IInv, OutputInv, pc[t] = "called",
         fn[t] \notin {"Waitall", "Testall", "Waitany", "Testany"},
         \/ MPI_Wait(t) \/ MPI_Test(t) \/ MPI_Waitsome(t) \/ MPI_Testsome(t)
  PROVE  Local(t) /\ IoKept /\ OwnInv(t)'
<1>0. BookInv
  BY DEF IInv
<1>1. ASSUME NEW S \in SUBSET Arrived(t), NEW out, IsOutput(out),
             FreeRequests(S), LibReturns(t, out)
      PROVE  Local(t) /\ IoKept /\ OwnInv(t)'
  <2>1. S \in SUBSET Args(t)
    BY DEF Arrived, Live
  <2> QED BY <1>0, <1>1, <2>1, OtherReturns DEF FreeRequests
<1>2. ASSUME NEW out, IsOutput(out), LibReturns(t, out), UNCHANGED <<request_op, creq>>
      PROVE  Local(t) /\ IoKept /\ OwnInv(t)'
  <2>1. creq' = [s \in Slots |-> IF s \in {} THEN MPI_REQUEST_NULL ELSE creq[s]]
    BY <1>2 DEF IInv, BookInv, TypeOK
  <2>2. {} \in SUBSET Args(t)
    OBVIOUS
  <2> QED BY <1>0, <1>2, <2>1, <2>2, OtherReturns
<1>3. CASE MPI_Wait(t)
  <2> DEFINE out == [NoOut EXCEPT !.ierror = Outcome(Live(t)),
                                  !.statuses = StatusesOf(t, Live(t))]
  <2>1. IsOutput(out)
    BY DEF IsOutput, Fields, NoOut
  <2>2. Live(t) \in SUBSET Arrived(t) /\ FreeRequests(Live(t)) /\ LibReturns(t, out)
    BY <1>3 DEF MPI_Wait
  <2> HIDE DEF out
  <2> QED BY <2>1, <2>2, <1>1
<1>4. CASE MPI_Test(t)
  <2> DEFINE yes == [NoOut EXCEPT !.ierror = Outcome(Live(t)), !.flag = TRUE,
                                  !.statuses = StatusesOf(t, Live(t))]
             no  == [NoOut EXCEPT !.flag = FALSE, !.statuses = StatusesOf(t, {})]
  <2>1. IsOutput(yes) /\ IsOutput(no)
    BY DEF IsOutput, Fields, NoOut
  <2>2. \/ Live(t) \in SUBSET Arrived(t) /\ FreeRequests(Live(t)) /\ LibReturns(t, yes)
        \/ LibReturns(t, no) /\ UNCHANGED <<request_op, creq>>
    BY <1>4 DEF MPI_Test
  <2> HIDE DEF yes, no
  <2> QED BY <2>1, <2>2, <1>1, <1>2
<1>5. ASSUME NEW S \in SUBSET Arrived(t), SomeComplete(t, S)
      PROVE  Local(t) /\ IoKept /\ OwnInv(t)'
  <2> DEFINE out ==
        [NoOut EXCEPT !.ierror = Outcome(S), !.outcount = Cardinality(S),
           !.indices  = [i \in 1..Cardinality(S) |-> Ordered(S)[i] - lo[t]],
           !.statuses = [i \in 1..Cardinality(S) |-> StatusOf(Ordered(S)[i])]]
  <2>1. IsOutput(out)
    BY DEF IsOutput, Fields, NoOut
  <2>2. FreeRequests(S) /\ LibReturns(t, out)
    BY <1>5 DEF SomeComplete
  <2> HIDE DEF out
  <2> QED BY <2>1, <2>2, <1>1
<1>6. CASE MPI_Waitsome(t)
  <2> DEFINE out == [NoOut EXCEPT !.outcount = LibUndefined]
  <2>1. IsOutput(out)
    BY DEF IsOutput, Fields, NoOut
  <2>2. \/ \E S \in SUBSET Arrived(t) : SomeComplete(t, S)
        \/ LibReturns(t, out) /\ UNCHANGED <<request_op, creq>>
    BY <1>6 DEF MPI_Waitsome, NoneActive
  <2> HIDE DEF out
  <2> QED BY <2>1, <2>2, <1>5, <1>2
<1>7. CASE MPI_Testsome(t)
  <2>1. {} \in SUBSET Arrived(t)
    OBVIOUS
  <2> QED BY <1>5, <1>6, <1>7, <2>1 DEF MPI_Testsome
<1> QED BY <1>3, <1>4, <1>6, <1>7
-----------------------------------------------------------------------------
(* Every step of a thread keeps its own reports and leaves those of the    *)
(* others alone.                                                           *)

\* What the Fortran wrappers return when a wrapper in C had no memory.
LEMMA NoMemoryOutputs ==
  /\ Failure(OtherError)
  /\ \A b : Failure([OtherError EXCEPT !.flag = b])
  /\ \A c : Failure([OtherError EXCEPT !.outcount = c])
  /\ \A c, b : Failure(MPI_Testany_f08([OtherError EXCEPT !.index = c, !.flag = b]))
  /\ \A c : Failure(MPI_Waitany_f08([OtherError EXCEPT !.index = c]))
<1>2. DOMAIN Overlay(<<>>) = {} /\ DOMAIN <<>> = {}
  BY DEF Overlay
<1>3. ASSUME NEW out, IsOutput(out), out.ierror = C_MPI_RC_FIX(MPI_ERR_OTHER),
             DOMAIN out.statuses = {}
      PROVE  Failure(out)
  BY <1>3 DEF Failure
<1>4. Failure(OtherError)
  <2> DEFINE out == OtherError
  <2>1. IsOutput(out) /\ out.ierror = C_MPI_RC_FIX(MPI_ERR_OTHER) /\ out.statuses = <<>>
    BY DEF OtherError, NoOut, IsOutput, Fields
  <2> HIDE DEF out
  <2>2. Failure(out)
    BY <1>2, <1>3, <2>1
  <2> QED BY <2>2 DEF out
<1>5. ASSUME NEW b PROVE Failure([OtherError EXCEPT !.flag = b])
  <2> DEFINE out == [OtherError EXCEPT !.flag = b]
  <2>1. IsOutput(out) /\ out.ierror = C_MPI_RC_FIX(MPI_ERR_OTHER) /\ out.statuses = <<>>
    BY DEF OtherError, NoOut, IsOutput, Fields
  <2> HIDE DEF out
  <2>2. Failure(out)
    BY <1>2, <1>3, <2>1
  <2> QED BY <2>2 DEF out
<1>6. ASSUME NEW c PROVE Failure([OtherError EXCEPT !.outcount = c])
  <2> DEFINE out == [OtherError EXCEPT !.outcount = c]
  <2>1. IsOutput(out) /\ out.ierror = C_MPI_RC_FIX(MPI_ERR_OTHER) /\ out.statuses = <<>>
    BY DEF OtherError, NoOut, IsOutput, Fields
  <2> HIDE DEF out
  <2>2. Failure(out)
    BY <1>2, <1>3, <2>1
  <2> QED BY <2>2 DEF out
<1>7. ASSUME NEW c, NEW b
      PROVE  Failure(MPI_Testany_f08([OtherError EXCEPT !.index = c, !.flag = b]))
  <2> DEFINE out == MPI_Testany_f08([OtherError EXCEPT !.index = c, !.flag = b])
  <2>1. /\ IsOutput(out) /\ out.ierror = C_MPI_RC_FIX(MPI_ERR_OTHER)
        /\ out.statuses = Overlay(<<>>)
    BY DEF OtherError, NoOut, IsOutput, Fields, MPI_Testany_f08
  <2> HIDE DEF out
  <2>2. Failure(out)
    BY <1>2, <1>3, <2>1
  <2> QED BY <2>2 DEF out
<1>8. ASSUME NEW c PROVE Failure(MPI_Waitany_f08([OtherError EXCEPT !.index = c]))
  <2> DEFINE out == MPI_Waitany_f08([OtherError EXCEPT !.index = c])
  <2>1. /\ IsOutput(out) /\ out.ierror = C_MPI_RC_FIX(MPI_ERR_OTHER)
        /\ out.statuses = Overlay(<<>>)
    BY DEF OtherError, NoOut, IsOutput, Fields, MPI_Waitany_f08
  <2> HIDE DEF out
  <2>2. Failure(out)
    BY <1>2, <1>3, <2>1
  <2> QED BY <2>2 DEF out
<1> QED BY <1>4, <1>5, <1>6, <1>7, <1>8

\* A conversion of the outputs gives outputs again.
LEMMA FixedOutputs ==
  ASSUME NEW out, IsOutput(out)
  PROVE  /\ IsOutput(Fixed(out))
         /\ IsOutput(Fixed(MPI_Wait_f08(out))) /\ IsOutput(Fixed(MPI_Test_f08(out)))
         /\ IsOutput(Fixed(MPI_Waitsome_f08(out))) /\ IsOutput(Fixed(MPI_Testsome_f08(out)))
<1> USE DEF IsOutput, Fields, Fixed
<1>1. IsOutput(Fixed(out))
  OBVIOUS
<1>2. IsOutput(Fixed(MPI_Wait_f08(out))) /\ IsOutput(Fixed(MPI_Test_f08(out)))
  BY DEF MPI_Wait_f08, MPI_Test_f08
<1>3. IsOutput(Fixed(MPI_Waitsome_f08(out))) /\ IsOutput(Fixed(MPI_Testsome_f08(out)))
  BY DEF MPI_Waitsome_f08, MPI_Testsome_f08
<1> QED BY <1>1, <1>2, <1>3

LEMMA CallReports ==
  ASSUME NEW t \in Threads, IInv, OutputInv, Calls(t)
  PROVE  Local(t) /\ IoKept /\ OwnInv(t)'
<1>0. BookInv /\ IsOutput(io[t]) /\ 1 \in 0..NumSlots
  BY RequestsAssumption DEF IInv, OutputInv, IoInv
<1>1. ASSUME NEW f, NEW l \in Slots, NEW k \in 0..NumSlots, Convert(t, f, l, k)
      PROVE  Local(t) /\ IoKept /\ OwnInv(t)'
  BY <1>0, <1>1, ConvertReports
<1>2. ASSUME NEW f, NEW l \in Slots, NEW k \in 0..NumSlots, NEW out,
             NoMemory(t, f, l, k, out), Failure(out)
      PROVE  Local(t) /\ IoKept /\ OwnInv(t)'
  BY <1>0, <1>2, NoMemoryReports
<1>3. ASSUME NEW f \in {"Wait", "Test", "Waitsome", "Testsome"}, At(t, "called", f),
             MPI_Wait(t) \/ MPI_Test(t) \/ MPI_Waitsome(t) \/ MPI_Testsome(t)
      PROVE  Local(t) /\ IoKept /\ OwnInv(t)'
  BY <1>3, OtherLibraryCalls DEF At
<1>4. ASSUME NEW f \in {"Wait", "Test", "Waitsome", "Testsome", "Isend", "Irecv"}, NEW out,
             At(t, "finished", f), IsOutput(out), WriteBack(t, out)
      PROVE  Local(t) /\ IoKept /\ OwnInv(t)'
  BY <1>0, <1>4, OtherWritesBack DEF At
<1>5. ASSUME NEW f \in {"Isend", "Irecv"},
             \/ \E s \in Slots : NewRequest(t, f, s)
             \/ At(t, "called", f) /\ MPI_Start(t)
      PROVE  Local(t) /\ IoKept /\ OwnInv(t)'
  BY <1>0, <1>5, NewRequestReports, StartReports DEF At
<1>6. CASE C_MPI_Wait(t)
  BY <1>0, <1>6, <1>1, <1>3, <1>4, FixedOutputs DEF C_MPI_Wait
<1>7. CASE C_MPI_Test(t)
  BY <1>0, <1>7, <1>1, <1>3, <1>4, FixedOutputs DEF C_MPI_Test
<1>8. CASE C_MPI_Testall(t)
  BY <1>8, <1>1, <1>2, NoMemoryOutputs, TestallReturns, TestallWritesBack DEF C_MPI_Testall
<1>9. CASE C_MPI_Testsome(t)
  BY <1>0, <1>9, <1>1, <1>2, <1>3, <1>4, NoMemoryOutputs, FixedOutputs DEF C_MPI_Testsome
<1>10. CASE C_MPI_Testany(t)
  BY <1>10, <1>1, <1>2, NoMemoryOutputs, AnyReturns, AnyWritesBack DEF C_MPI_Testany
<1>11. CASE C_MPI_Waitall(t)
  <2>1. CASE /\ At(t, "called", "Waitall")
             /\ DropArray(t)
             /\ pc' = [pc EXCEPT ![t] = "returned"]
             /\ io' = [io EXCEPT ![t] = OtherError]
             /\ UNCHANGED <<requests, holder, fn, lo, libVars>>
    BY <1>0, <2>1, LostReports, NoMemoryOutputs DEF At
  <2> QED
    BY <1>11, <2>1, <1>1, <1>2, NoMemoryOutputs, WaitallReturns, WaitallWritesBack
       DEF C_MPI_Waitall
<1>12. CASE C_MPI_Waitsome(t)
  BY <1>0, <1>12, <1>1, <1>2, <1>3, <1>4, NoMemoryOutputs, FixedOutputs DEF C_MPI_Waitsome
<1>13. CASE C_MPI_Waitany(t)
  BY <1>13, <1>1, <1>2, NoMemoryOutputs, AnyReturns, AnyWritesBack DEF C_MPI_Waitany
<1>14. CASE C_MPI_Isend(t)
  BY <1>0, <1>14, <1>4, <1>5, FixedOutputs DEF C_MPI_Isend
<1>15. CASE C_MPI_Irecv(t)
  BY <1>0, <1>15, <1>4, <1>5, FixedOutputs DEF C_MPI_Irecv
<1> QED
  BY <1>6, <1>7, <1>8, <1>9, <1>10, <1>11, <1>12, <1>13, <1>14, <1>15 DEF Calls

\* An operation that is not finished keeps its request.
LEMMA PendingKept ==
  ASSUME IInv, PendingInv, BookInv', Shape
  PROVE  PendingInv'
<1> SUFFICES ASSUME NEW o \in Ops, origin'[o] # 0, o \notin done'
             PROVE  \E r \in Lib : request_op'[r] = o
  BY DEF PendingInv
<1>1. CASE Silent
  BY <1>1 DEF Silent, PendingInv
<1>2. ASSUME NEW S \in SUBSET Slots, Frees(S) PROVE \E r \in Lib : request_op'[r] = o
  BY <1>2 DEF Frees, PendingInv
<1>3. ASSUME NEW s \in Slots, NEW p \in Ops, NEW r \in Lib, Starts(s, p, r)
      PROVE  \E q \in Lib : request_op'[q] = o
  <2>1. request_op \in [Lib -> Ops \cup {NoOp}] /\ origin \in [Ops -> 0..NumSlots]
    BY DEF IInv, BookInv, TypeOK
  <2>2. CASE o = p
    BY <1>3, <2>1, <2>2 DEF Starts
  <2>3. CASE o # p
    <3>1. PICK q \in Lib : request_op[q] = o
      BY <1>3, <2>1, <2>3 DEF Starts, PendingInv
    <3> QED BY <1>3, <2>1, <3>1, RequestsAssumption DEF Starts
  <2> QED BY <2>2, <2>3
<1>4. ASSUME NEW p \in Ops, Completes(p) PROVE \E r \in Lib : request_op'[r] = o
  BY <1>4 DEF Completes, PendingInv
<1> QED BY <1>1, <1>2, <1>3, <1>4 DEF Shape

\* A thread's reports survive the steps of the others.
LEMMA OthersKeep ==
  ASSUME NEW t, IInv, OutputInv, Local(t), NEW u \in Threads \ {t}
  PROVE  OwnInv(u)'
<1>1. /\ pc'[u] = pc[u] /\ fn'[u] = fn[u] /\ lo'[u] = lo[u] /\ io'[u] = io[u]
      /\ Args(u)' = Args(u)
  BY DEF Local, Args
<1>2. \A s \in Args(u) : Names(s)' = Names(s)
  <2> SUFFICES ASSUME NEW s \in Args(u) PROVE Names(s)' = Names(s)
    OBVIOUS
  <2>1. s \in Slots /\ holder[s] = u /\ holder'[s] = u
    BY DEF Local, Args
  <2>2. requests'[s] = requests[s] /\ creq'[s] = creq[s]
    BY <2>1 DEF Local
  <2> QED BY <1>1, <2>1, <2>2, RequestsAssumption DEF Names, InCall
<1>3. \A o \in Ops : origin[o] # 0 => origin'[o] = origin[o]
  BY DEF Local
<1>4. /\ pc[u] # "idle" => \E k \in 0..NumSlots : Args(u) = Section(lo[u], k)
      /\ IsOutput(io[u]) /\ ReportsInv(u)
  BY DEF OutputInv, SectionsInv, IoInv
<1>5. WaitallInv(u)'
  <2>1. ASSUME NEW o, NEW s, StatusRight(o, s, u) PROVE StatusRight(o, s, u)'
    BY <1>1, <1>2, <1>3, <2>1 DEF StatusRight
  <2>2. SectionFailed(u) => SectionFailed(u)'
    <3> SUFFICES ASSUME NEW o \in failed, origin[o] \in Args(u) PROVE SectionFailed(u)'
      BY DEF SectionFailed
    <3>1. o \in Ops /\ o \in failed' /\ origin'[o] = origin[o]
      BY <1>3 DEF IInv, BookInv, TypeOK, Args, Slots, Local
    <3> QED BY <1>1, <3>1 DEF SectionFailed
  <2>3. StatusesRight(u, io[u].statuses) => StatusesRight(u, io[u].statuses)'
    BY <1>1, <2>1 DEF StatusesRight
  <2>4. Emptied(u) => Emptied(u)'
    BY <1>1, <1>2 DEF Emptied
  <2> QED BY <1>1, <1>4, <2>2, <2>3, <2>4 DEF ReportsInv, WaitallInv, Answered
<1>6. TestallInv(u)'
  <2>1. \A s \in Args(u) : creq'[s] = creq[s] /\ requests'[s] = requests[s]
    BY DEF Local, Args
  <2>2. Untouched(u) => Untouched(u)'
    BY <1>1, <2>1 DEF Untouched, Found
  <2>3. Emptied(u) => Emptied(u)'
    BY <1>1, <1>2 DEF Emptied
  <2> QED BY <1>1, <1>4, <2>1, <2>2, <2>3 DEF ReportsInv, TestallInv
<1>7. AnyInv(u)'
  <2>1. ASSUME NEW o \in Ops, origin[o] \in Args(u) PROVE origin'[o] = origin[o]
    BY <1>3, <2>1 DEF Args, Slots
  <2> QED BY <1>1, <1>2, <1>4, <2>1 DEF ReportsInv, AnyInv, Answered, FirstIndex
<1> QED BY <1>1, <1>4, <1>5, <1>6, <1>7 DEF OwnInv, IsOutput, ReportsInv

LEMMA OutputStep ==
  ASSUME IInv, OutputInv, [Next]_vars
  PROVE  OutputInv'
<1>1. BookInv' /\ Shape
  BY NextStep DEF IInv
<1>2. PendingInv'
  BY <1>1, PendingKept DEF OutputInv
<1>3. ASSUME NEW t \in Threads, Local(t), IoKept, OwnInv(t)' PROVE OutputInv'
  <2>1. \A u \in Threads : OwnInv(u)'
    BY <1>3, OthersKeep
  <2> QED BY <1>2, <1>3, <2>1 DEF OwnInv, OutputInv, SectionsInv, IoInv, IoKept
<1>4. ASSUME NEW t \in Threads, Calls(t) PROVE OutputInv'
  BY <1>3, <1>4, CallReports
<1>5. ASSUME NEW t \in Threads, Resume(t) PROVE OutputInv'
  BY <1>3, <1>5, ResumeReports DEF IInv
<1>6. ASSUME UNCHANGED <<progVars, creq, origin>>, failed \subseteq failed' PROVE OutputInv'
  <2>1. Local(NoThread) /\ IoKept
    BY <1>6, RequestsAssumption DEF Local, IoKept, progVars, OutputInv, IoInv
  <2>2. \A u \in Threads : OwnInv(u)'
    BY <2>1, OthersKeep, RequestsAssumption
  <2> QED BY <1>2, <2>1, <2>2 DEF OwnInv, OutputInv, SectionsInv, IoInv, IoKept
<1>7. ASSUME NEW o \in Ops, Complete(o) PROVE OutputInv'
  BY <1>6, <1>7 DEF Complete
<1>8. CASE UNCHANGED vars
  BY <1>6, <1>8 DEF vars, libVars
<1> QED BY <1>4, <1>5, <1>7, <1>8 DEF Next

LEMMA InitOutput == Init => OutputInv
<1> SUFFICES ASSUME Init PROVE OutputInv
  OBVIOUS
<1>1. SectionsInv /\ PendingInv
  BY DEF Init, SectionsInv, PendingInv
<1>2. IoInv
  BY DEF Init, IoInv, IsOutput, Fields, NoOut
<1>3. \A t \in Threads : ReportsInv(t)
  BY DEF Init, ReportsInv, WaitallInv, TestallInv, AnyInv, Answered
<1> QED BY <1>1, <1>2, <1>3 DEF OutputInv

\* Together with IInv the reports are inductive: what a call reports is true
\* from the library's answer until the program resumes, whatever the other
\* threads and the library do meanwhile.
THEOREM ReportsInvariance == Spec => [](IInv /\ OutputInv)
<1>1. IInv /\ OutputInv /\ [Next]_vars => OutputInv'
  BY OutputStep
<1> QED BY InitOutput, Invariance, <1>1, PTL DEF Spec

\* An operation that was started is completed, or its slot names its request.
LEMMA DoneOrNamed ==
  ASSUME IInv, OutputInv, NEW o \in Ops, origin[o] # 0
  PROVE  o \in done \/ \E r \in Lib : request_op[r] = o /\ Names(origin[o]) = r
<1> SUFFICES ASSUME o \notin done
             PROVE  \E r \in Lib : request_op[r] = o /\ Names(origin[o]) = r
  OBVIOUS
<1>1. PICK r \in Lib : request_op[r] = o
  BY DEF OutputInv, PendingInv
<1>2. PICK s \in Slots : Names(s) = r
  BY <1>1, RequestsAssumption DEF IInv, NoOrphanRequest
<1>3. s = origin[o]
  BY <1>1, <1>2 DEF IInv, HandlesOwnOperation
<1> QED BY <1>1, <1>2, <1>3

\* However MPI_Waitall returns, it has lost no operation of its section, its
\* statuses are those of the slots in order, unwritten only for pending ones, and
\* its code says whether all are completed or one failed, for every length of the
\* array and every number of threads.
THEOREM WaitallCompletes == Spec => []WaitallCompletesAll
<1>1. IInv /\ OutputInv => WaitallCompletesAll
  <2> SUFFICES ASSUME IInv, OutputInv, NEW t \in Threads, At(t, "returned", "Waitall")
               PROVE  /\ \A o \in Ops : origin[o] \in Args(t) =>
                           o \in done \/ \E r \in Lib : request_op[r] = o /\ Names(origin[o]) = r
                      /\ io[t].ierror = MPI_SUCCESS => Emptied(t)
                      /\ io[t].ierror = C_MPI_RC_FIX(LibError) => SectionFailed(t)
                      /\ StatusesRight(t, io[t].statuses)
    BY DEF WaitallCompletesAll, Emptied, SectionFailed, StatusesRight, StatusRight
  <2>1. \A o \in Ops : origin[o] \in Args(t) => origin[o] # 0
    BY DEF Args, Slots
  <2>2. WaitallInv(t)
    BY DEF OutputInv, ReportsInv
  <2> QED BY <2>1, <2>2, DoneOrNamed DEF WaitallInv, At, Answered, LibErrors
<1> QED BY ReportsInvariance, <1>1, PTL

\* The step in which Testall returns, without memory or after the library.
LEMMA TestallSteps ==
  ASSUME IInv, OutputInv, NEW t \in Threads, [Next]_vars,
         pc[t] # "returned", At(t, "returned", "Testall")'
  PROVE  \/ \E l \in Slots, k \in 0..NumSlots, b \in BOOLEAN :
              NoMemory(t, "Testall", l, k, [OtherError EXCEPT !.flag = b])
         \/ At(t, "finished", "Testall") /\ WriteBack(t, Fixed(MPI_Testall_f08(io[t])))
<1>0. /\ pc \in [Threads -> {"idle", "called", "finished", "returned"}]
      /\ fn \in [Threads -> Routines \cup {"none"}]
      /\ pc'[t] = "returned" /\ fn'[t] = "Testall"
  BY DEF IInv, BookInv, TypeOK, At
<1>1. Calls(t)
  <2>1. ASSUME NEW u \in Threads, u # t, Calls(u) \/ Resume(u) PROVE pc'[t] = pc[t]
    <3>1. Local(u)
      BY <2>1, CallReports, ResumeReports DEF IInv
    <3> QED BY <2>1, <3>1 DEF Local
  <2>2. ~Resume(t)
    BY DEF Resume
  <2>3. ASSUME NEW o \in Ops, Complete(o) PROVE FALSE
    BY <1>0, <2>3 DEF Complete, progVars
  <2>4. ~(UNCHANGED vars)
    BY <1>0 DEF vars, progVars
  <2> QED BY <1>0, <2>1, <2>2, <2>3, <2>4 DEF Next
<1>2. ASSUME NEW f, NEW l, NEW k, Convert(t, f, l, k) PROVE FALSE
  BY <1>0, <1>2 DEF Convert
<1>3. ASSUME NEW f, NEW s, NewRequest(t, f, s) PROVE FALSE
  BY <1>0, <1>3 DEF NewRequest
<1>4. ASSUME NEW f, f # "Testall", NEW l, NEW k, NEW out, NoMemory(t, f, l, k, out)
      PROVE  FALSE
  BY <1>0, <1>4 DEF NoMemory, Passes
<1>5. ASSUME NEW step, NEW f, f # "Testall", At(t, step, f), fn' = fn PROVE FALSE
  BY <1>0, <1>5 DEF At
<1>6. ASSUME NEW out, LibReturns(t, out) PROVE fn' = fn /\ pc'[t] # "returned"
  BY <1>0, <1>6 DEF LibReturns
<1>7. ASSUME NEW out, WriteBack(t, out) PROVE fn' = fn
  BY <1>7 DEF WriteBack
<1>8. ASSUME NEW S, SomeComplete(t, S) PROVE fn' = fn
  BY <1>6, <1>8 DEF SomeComplete
<1>9. OneCompletes(t) => fn' = fn
  BY <1>6 DEF OneCompletes
<1>10. ASSUME NEW out, NoneActive(t, out) PROVE fn' = fn
  BY <1>6, <1>10 DEF NoneActive
<1>11. ~C_MPI_Wait(t) /\ ~C_MPI_Test(t)
  <2>1. (MPI_Wait(t) => fn' = fn) /\ (MPI_Test(t) => fn' = fn)
    BY <1>6 DEF MPI_Wait, MPI_Test
  <2> QED BY <1>2, <1>5, <1>7, <2>1 DEF C_MPI_Wait, C_MPI_Test
<1>12. ~C_MPI_Testsome(t) /\ ~C_MPI_Waitsome(t)
  <2>1. (MPI_Waitsome(t) => fn' = fn) /\ (MPI_Testsome(t) => fn' = fn)
    BY <1>8, <1>10 DEF MPI_Waitsome, MPI_Testsome
  <2> QED BY <1>2, <1>4, <1>5, <1>7, <2>1 DEF C_MPI_Testsome, C_MPI_Waitsome
<1>13. ~C_MPI_Testany(t) /\ ~C_MPI_Waitany(t)
  <2>1. (MPI_Waitany(t) => fn' = fn) /\ (MPI_Testany(t) => fn' = fn)
    BY <1>6, <1>9, <1>10 DEF MPI_Waitany, MPI_Testany
  <2> QED BY <1>2, <1>4, <1>5, <1>7, <2>1 DEF C_MPI_Testany, C_MPI_Waitany
<1>14. ~C_MPI_Waitall(t)
  <2>1. ASSUME NEW ignored, MPI_Waitall(t, ignored) PROVE fn' = fn
    BY <1>6, <2>1 DEF MPI_Waitall
  <2> QED BY <1>2, <1>4, <1>5, <1>7, <2>1 DEF C_MPI_Waitall
<1>15. ~C_MPI_Isend(t) /\ ~C_MPI_Irecv(t)
  <2>1. MPI_Start(t) => fn' = fn
    BY <1>6 DEF MPI_Start
  <2> QED BY <1>3, <1>5, <1>7, <2>1 DEF C_MPI_Isend, C_MPI_Irecv
<1>16. C_MPI_Testall(t)
  BY <1>1, <1>11, <1>12, <1>13, <1>14, <1>15 DEF Calls
<1>17. ~MPI_Testall(t)
  BY <1>0, <1>6 DEF MPI_Testall, MPI_Test
<1> QED BY <1>2, <1>16, <1>17 DEF C_MPI_Testall

\* Without memory every slot is kept, and the code is the wrapper's.
LEMMA TestallWithoutMemory ==
  ASSUME IInv, OutputInv, NEW t \in Threads, NEW l \in Slots, NEW k \in 0..NumSlots,
         NEW b \in BOOLEAN, NoMemory(t, "Testall", l, k, [OtherError EXCEPT !.flag = b])
  PROVE  KeepsAll(t) /\ io'[t].ierror = OtherError.ierror
<1>1. requests' = requests
  BY DEF NoMemory, Passes
<1>2. io'[t] = [OtherError EXCEPT !.flag = b]
  BY DEF NoMemory, OutputInv, IoInv
<1>3. io'[t].ierror = OtherError.ierror
  BY <1>2 DEF OtherError, NoOut
<1> QED BY <1>1, <1>3 DEF KeepsAll, Found

\* After the library the requests written back are those of the C array.
LEMMA TestallAnswers ==
  ASSUME IInv, OutputInv, IInv', OutputInv', NEW t \in Threads,
         At(t, "finished", "Testall"), WriteBack(t, Fixed(MPI_Testall_f08(io[t])))
  PROVE  \/ TakesAll(t) /\ (io'[t].ierror = MPI_SUCCESS => io'[t].flag)
         \/ /\ KeepsAll(t) /\ \E s \in Args(t)' : Found(s)' # MPI_REQUEST_NULL
            /\ io'[t].ierror = MPI_SUCCESS /\ ~io'[t].flag
<1>1. Args(t)' = Args(t) /\ fn'[t] = fn[t]
  BY DEF WriteBack, Args
<1>2. \A s \in Args(t) : creq[s] \in CReq /\ Found(s)' = creq[s]
  BY RoundTrip DEF WriteBack, Args, Found, IInv, BookInv, TypeOK
<1>3. io'[t].flag = io[t].flag /\ io'[t].ierror = C_MPI_RC_FIX(io[t].ierror)
  <2>1. io'[t] = Fixed(MPI_Testall_f08(io[t]))
    BY DEF WriteBack, OutputInv, IoInv
  <2> QED BY <2>1 DEF OutputInv, IoInv, IsOutput, Fields, Fixed, MPI_Testall_f08
<1>4. \A s \in Args(t) : Names(s) = creq[s] /\ Names(s)' = Found(s)'
  <2>1. pc[t] = "finished" /\ pc'[t] = "returned" /\ holder' = holder
    BY DEF At, WriteBack, IInv, BookInv, TypeOK
  <2> QED BY <2>1, RequestsAssumption DEF Names, InCall, Args, Found
<1>5. TestallInv(t) /\ fn[t] = "Testall" /\ pc[t] = "finished"
  BY DEF OutputInv, ReportsInv, At
<1>6. CASE Emptied(t) /\ io[t].flag = TRUE
  <2>1. \A s \in Args(t)' : Found(s)' = MPI_REQUEST_NULL
    BY <1>1, <1>2, <1>4, <1>6 DEF Emptied
  <2>2. ASSUME NEW o \in Ops, origin'[o] \in Args(t)' PROVE o \in done'
    <3>1. origin' = origin /\ done' = done
      BY DEF WriteBack, libVars
    <3>2. origin[o] # 0 /\ Names(origin[o]) = MPI_REQUEST_NULL
      BY <1>1, <1>6, <2>2, <3>1 DEF Emptied, Args, Slots
    <3>3. \A r \in Lib : r # MPI_REQUEST_NULL
      BY RequestsAssumption
    <3> QED BY <3>1, <3>2, <3>3, DoneOrNamed
  <2> QED BY <1>3, <1>6, <2>1, <2>2 DEF TakesAll
<1>7. CASE /\ Untouched(t) /\ \E s \in Args(t) : creq[s] # MPI_REQUEST_NULL
           /\ io[t].ierror = MPI_SUCCESS /\ io[t].flag = FALSE
  <2>1. KeepsAll(t) /\ \E s \in Args(t)' : Found(s)' # MPI_REQUEST_NULL
    BY <1>1, <1>2, <1>7 DEF KeepsAll, Untouched
  <2>2. io'[t].ierror = MPI_SUCCESS /\ ~io'[t].flag
    BY <1>3, <1>7 DEF C_MPI_RC_FIX
  <2> QED BY <2>1, <2>2
<1> QED BY <1>5, <1>6, <1>7 DEF TestallInv

\* However MPI_Testall returns, it has taken all requests of its section, with
\* their operations completed, or left every slot as the program passed it, and
\* the code and the flag tell which, for every length of the array, every number
\* of threads and every state of the library.
THEOREM TestallTakesAllOrNothing == Spec => TestallAllOrNothing
<1> DEFINE Returns(t) ==
      pc[t] # "returned" /\ At(t, "returned", "Testall")' =>
        \/ TakesAll(t) /\ (io'[t].ierror = MPI_SUCCESS => io'[t].flag)
        \/ /\ KeepsAll(t) /\ \E s \in Args(t)' : Found(s)' # MPI_REQUEST_NULL
           /\ io'[t].ierror = MPI_SUCCESS /\ ~io'[t].flag
        \/ KeepsAll(t) /\ io'[t].ierror = OtherError.ierror
<1>1. IInv /\ OutputInv /\ (IInv /\ OutputInv)' /\ [Next]_vars => \A t \in Threads : Returns(t)
  <2> SUFFICES ASSUME IInv, OutputInv, IInv', OutputInv', [Next]_vars, NEW t \in Threads,
                      pc[t] # "returned", At(t, "returned", "Testall")'
               PROVE  Returns(t)
    OBVIOUS
  <2>1. CASE \E l \in Slots, k \in 0..NumSlots, b \in BOOLEAN :
               NoMemory(t, "Testall", l, k, [OtherError EXCEPT !.flag = b])
    BY <2>1, TestallWithoutMemory
  <2>2. CASE At(t, "finished", "Testall") /\ WriteBack(t, Fixed(MPI_Testall_f08(io[t])))
    BY <2>2, TestallAnswers
  <2> QED BY <2>1, <2>2, TestallSteps
<1>2. IInv /\ OutputInv /\ (IInv /\ OutputInv)' /\ [Next]_vars
        => [\A t \in Threads : Returns(t)]_vars
  BY <1>1
<1>3. TestallAllOrNothing <=> [][\A t \in Threads : Returns(t)]_vars
  BY DEF TestallAllOrNothing
<1> HIDE DEF Returns
<1> QED BY ReportsInvariance, <1>2, <1>3, PTL DEF Spec

\* The index of MPI_Waitany and MPI_Testany is the one-based place of the slot
\* whose operation they report, and that slot is null.
THEOREM AnyNamesCompleted == Spec => []AnyIndexNamesCompleted
<1>1. IInv /\ OutputInv => AnyIndexNamesCompleted
  <2> SUFFICES ASSUME IInv, OutputInv, NEW t \in Threads, NEW o \in Ops,
                      At(t, "returned", "Waitany") \/ At(t, "returned", "Testany"),
                      io[t].statuses = <<o>>
               PROVE  /\ origin[o] = lo[t] + io[t].index - 1
                      /\ Names(origin[o]) = MPI_REQUEST_NULL
    BY DEF AnyIndexNamesCompleted
  <2>1. DOMAIN io[t].statuses = {1} /\ io[t].statuses[1] = o
    OBVIOUS
  <2> QED BY <2>1 DEF OutputInv, ReportsInv, AnyInv, At, Answered, FirstIndex
<1> QED BY ReportsInvariance, <1>1, PTL
=============================================================================
