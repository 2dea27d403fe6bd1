-------------------------- MODULE ObjectCallsProofs --------------------------
(***************************************************************************)
(* Every routine of ObjectCalls keeps its handles and its error codes       *)
(* right, for any variables, programs, integers and numbers of the library. *)
(* What a call reports and what it does to objects and variables are         *)
(* treated apart, by one lemma for each of the patterns of module Objects.   *)
(***************************************************************************)
EXTENDS ObjectCalls, TLAPS

\* An object of the library's: a file has the mode that the program asked for.
Known == {o \in Object : o.mode = o.asked}

\* A library that numbers thread levels and results of comparisons as the
\* program does: mpi_core.c and mpi_group.c convert them the wrong way round,
\* from the program's numbers to the library's.
NumbersAlike == MPI_THREAD = VAPAA_MPI_THREAD /\ MPI_COMPARE = VAPAA_MPI_COMPARE

\* The program's code for a cause: for one without a name it is MPI_ERR_UNKNOWN.
CodeOf(cause) == IF cause = "SUCCESS" THEN VAPAA_MPI_SUCCESS
                 ELSE IF cause \in DOMAIN VAPAA_MPI_ERR THEN VAPAA_MPI_ERR[cause]
                 ELSE VAPAA_MPI_ERR.UNKNOWN

\* The code that a program which runs on has is that of its last call, and what
\* that call told it is true.
AnswerOK == /\ phase # "aborted" => rc = CodeOf(last.cause)
            /\ NumbersAlike => AnswersTrue

ReportOK ==
  /\ HaveCFI \in BOOLEAN /\ program \in Programs
  /\ phase \in {"before", "running", "after", "aborted"}
  /\ starter \in {"none", "Init", "Init_thread"}
  /\ rc \in Codes
  /\ last \in [cause : Causes, right : BOOLEAN, told : Int, truth : Int]
  /\ RefusedOnlyInvalid /\ ErrorsReachProgram /\ AnswerOK
  /\ phase = "before" => starter = "none"
  /\ phase \in {"running", "after"} => starter # "none"

\* Communicators made after MPI_Init inherit an error handler that returns.
Inherits(object) == starter = "Init" /\ object.class = "Comm" => object.errors = "return"

ErrorsHandled ==
  /\ starter = "none" => \A id \in Ids : objects[id] = NoObject
  /\ starter = "Init" => \A c \in {MPI_COMM_WORLD, MPI_COMM_SELF} : handler[c] = "return"
  /\ \A id \in Ids : Inherits(objects[id])

StateOK ==
  /\ level \in DOMAIN MPI_THREAD
  /\ handler \in [{MPI_COMM_WORLD, MPI_COMM_SELF} -> {"fatal", "return"}]
  /\ objects \in [Ids -> Known]
  /\ var \in [Vars -> Int] /\ holds \in [Vars -> {"object", "null", "unknown"}]
  /\ HandlesOwnObject /\ NoObjectLost /\ ErrorsHandled

\* The inductive invariant.
IInv == ReportOK /\ StateOK

UseSet == [class : Classes, handle : Int] \cup {FileName}
\* What may stop a program that MPI_Init started.
Reasons == {"abort", "argument", "contiguity", "result"}
HandleErrors == {NameOfClass[k] : k \in Classes} \cup {"ACCESS", "AMODE"}

-----------------------------------------------------------------------------
(* What a call reports. *)

LEMMA CodesReturned == ASSUME NEW code PROVE C_MPI_RC_FIX(code) \in Codes
<1>1. \A n \in DOMAIN VAPAA_MPI_ERR : VAPAA_MPI_ERR[n] \in Codes
  BY DEF Codes
<1>2. VAPAA_MPI_ERR.UNKNOWN \in Codes
  BY DEF Codes, VAPAA_MPI_ERR
<1>3. C_MPI_ERROR_CODE_C2F(code) \in Codes
  <2>1. CASE \E n \in DOMAIN VAPAA_MPI_ERR : code = MPI_ERR[n]
    BY <1>1, <2>1 DEF C_MPI_ERROR_CODE_C2F
  <2>2. CASE ~\E n \in DOMAIN VAPAA_MPI_ERR : code = MPI_ERR[n]
    BY <1>2, <2>2 DEF C_MPI_ERROR_CODE_C2F
  <2> QED BY <2>1, <2>2
<1> QED BY <1>3 DEF C_MPI_RC_FIX, Codes, MPI_SUCCESS, VAPAA_MPI_SUCCESS

\* The numbers of the program differ.
LEMMA CodesDiffer ==
  /\ \A m, n \in DOMAIN VAPAA_MPI_ERR : VAPAA_MPI_ERR[m] = VAPAA_MPI_ERR[n] => m = n
  /\ \A n \in DOMAIN VAPAA_MPI_ERR : VAPAA_MPI_ERR[n] # VAPAA_MPI_SUCCESS
  /\ "SUCCESS" \notin DOMAIN VAPAA_MPI_ERR /\ "UNKNOWN" \in DOMAIN VAPAA_MPI_ERR
BY DEF VAPAA_MPI_ERR, VAPAA_MPI_SUCCESS

\* C_MPI_RC_FIX names the error, or says that it has no name.
LEMMA CodesNamed ==
  /\ C_MPI_RC_FIX(MPI_SUCCESS) = CodeOf("SUCCESS")
  /\ \A cause \in DOMAIN VAPAA_MPI_ERR \cup Failures : C_MPI_RC_FIX(MPI_ERR[cause]) = CodeOf(cause)
<1>1. C_MPI_RC_FIX(MPI_SUCCESS) = CodeOf("SUCCESS")
  BY DEF C_MPI_RC_FIX, CodeOf, MPI_SUCCESS, VAPAA_MPI_SUCCESS
<1>2. ASSUME NEW cause \in DOMAIN VAPAA_MPI_ERR \cup Failures
      PROVE  C_MPI_RC_FIX(MPI_ERR[cause]) = CodeOf(cause)
  <2>1. cause \in DOMAIN MPI_ERR /\ DOMAIN VAPAA_MPI_ERR \subseteq DOMAIN MPI_ERR
    <3>1. "NO_MEM" \in DOMAIN VAPAA_MPI_ERR
      BY DEF VAPAA_MPI_ERR
    <3> QED BY <3>1, NumbersAssumption DEF Failures
  <2>2. MPI_ERR[cause] # MPI_SUCCESS
    BY <2>1, NumbersAssumption
  <2>3. \A n \in DOMAIN VAPAA_MPI_ERR : MPI_ERR[cause] = MPI_ERR[n] <=> n = cause
    BY <2>1, NumbersAssumption
  <2>4. cause # "SUCCESS"
    BY CodesDiffer DEF Failures
  <2>5. CASE cause \in DOMAIN VAPAA_MPI_ERR
    BY <2>2, <2>3, <2>4, <2>5 DEF C_MPI_RC_FIX, C_MPI_ERROR_CODE_C2F, CodeOf
  <2>6. CASE cause \notin DOMAIN VAPAA_MPI_ERR
    BY <2>2, <2>3, <2>4, <2>6 DEF C_MPI_RC_FIX, C_MPI_ERROR_CODE_C2F, CodeOf
  <2> QED BY <2>5, <2>6
<1> QED BY <1>1, <1>2

\* The text asked for is the one of the library's error.
LEMMA CodesAsked == C_MPI_ERROR_CODE_F2C(CodeOf(last.cause)) = Asked
<1>1. CASE last.cause = "SUCCESS"
  BY <1>1, CodesDiffer DEF C_MPI_ERROR_CODE_F2C, CodeOf, Asked, MPI_SUCCESS, VAPAA_MPI_SUCCESS
<1>2. ASSUME NEW n \in DOMAIN VAPAA_MPI_ERR
      PROVE  C_MPI_ERROR_CODE_F2C(VAPAA_MPI_ERR[n]) = MPI_ERR[n]
  <2>1. VAPAA_MPI_ERR[n] # VAPAA_MPI_SUCCESS
    BY CodesDiffer
  <2>2. \A m \in DOMAIN VAPAA_MPI_ERR : VAPAA_MPI_ERR[n] = VAPAA_MPI_ERR[m] <=> m = n
    BY CodesDiffer
  <2> QED BY <2>1, <2>2 DEF C_MPI_ERROR_CODE_F2C
<1>3. CASE last.cause # "SUCCESS" /\ last.cause \in DOMAIN VAPAA_MPI_ERR
  BY <1>2, <1>3 DEF CodeOf, Asked
<1>4. CASE last.cause # "SUCCESS" /\ last.cause \notin DOMAIN VAPAA_MPI_ERR
  BY <1>2, <1>4, CodesDiffer DEF CodeOf, Asked
<1> QED BY <1>1, <1>3, <1>4

LEMMA ReturnReports ==
  ASSUME ReportOK, Running, NEW cause \in Causes, NEW code, NEW right \in BOOLEAN, NEW told \in Int,
         NEW truth \in Int, cause \in HandleErrors => ~right \/ predefined' # "none",
         C_MPI_RC_FIX(code) = CodeOf(cause), NumbersAlike => told = truth,
         ReturnsCode(cause, code, right, told, truth)
  PROVE  ReportOK' /\ starter' = starter
<1>1. rc' \in Codes
  BY CodesReturned DEF ReturnsCode
<1>2. last' \in [cause : Causes, right : BOOLEAN, told : Int, truth : Int] /\ RefusedOnlyInvalid'
  BY DEF ReturnsCode, RefusedOnlyInvalid, HandleErrors
<1>3. UNCHANGED <<HaveCFI, program, phase, starter>>
  BY DEF ReturnsCode
<1>4. ErrorsReachProgram'
  BY <1>3 DEF ErrorsReachProgram, Running
<1>5. AnswerOK'
  BY DEF ReturnsCode, AnswerOK, AnswersTrue, CodeOf, NumbersAlike
<1> QED BY <1>1, <1>2, <1>3, <1>4, <1>5 DEF ReportOK, Codes

LEMMA AcceptanceReports ==
  ASSUME ReportOK, Running, NEW right \in BOOLEAN, Accepted(right)
  PROVE  ReportOK' /\ starter' = starter
<1>1. "SUCCESS" \notin HandleErrors
  BY DEF HandleErrors, NameOfClass, Classes
<1>2. "SUCCESS" \in Causes /\ 0 \in Int
  BY DEF Causes
<1>3. ReturnsCode("SUCCESS", MPI_SUCCESS, right, 0, 0)
  BY DEF Accepted
<1> QED BY <1>1, <1>2, <1>3, CodesNamed, ReturnReports, Zenon

LEMMA StopReports ==
  ASSUME ReportOK, Running, NEW cause \in Causes, NEW right \in BOOLEAN,
         cause \in HandleErrors => ~right \/ predefined' # "none", starter = "Init" => cause \in Reasons,
         Stopped(cause, right)
  PROVE  ReportOK' /\ starter' = starter
<1>1. last' = [cause |-> cause, right |-> right, told |-> 0, truth |-> 0]
  BY DEF Stopped, NoCall
<1>2. last' \in [cause : Causes, right : BOOLEAN, told : Int, truth : Int] /\ RefusedOnlyInvalid'
  BY <1>1 DEF RefusedOnlyInvalid, HandleErrors
<1>3. ErrorsReachProgram' /\ starter' = starter
  BY <1>1 DEF ErrorsReachProgram, Stopped, Reasons
<1>4. AnswerOK'
  <2>1. last'.told = last'.truth
    BY <1>1
  <2>2. phase' = "aborted"
    BY DEF Stopped
  <2> QED BY <2>1, <2>2, Zenon DEF AnswerOK, AnswersTrue
<1> QED BY <1>2, <1>3, <1>4 DEF ReportOK, Stopped, Codes

\* After MPI_Init, every communicator and every call returns its errors.
LEMMA ValidErrors ==
  ASSUME StateOK, starter = "Init", NEW c, Valid("Comm", c)
  PROVE  ErrorsOf(c) = "return"
<1>1. CASE c \in Ids
  <2>1. c \notin {MPI_COMM_WORLD, MPI_COMM_SELF}
    BY <1>1, HandlesAssumption DEF LibraryPredefined
  <2>2. objects[c].class = "Comm"
    BY <2>1 DEF Valid, Predefined, Live
  <2>3. objects[c].errors = "return"
    BY <1>1, <2>2 DEF StateOK, ErrorsHandled, Inherits
  <2> QED BY <1>1, <2>3 DEF ErrorsOf
<1>2. CASE c \notin Ids
  <2>1. c \in {MPI_COMM_WORLD, MPI_COMM_SELF}
    BY <1>2 DEF Valid, Predefined, Live
  <2> QED BY <1>2, <2>1 DEF ErrorsOf, StateOK, ErrorsHandled
<1> QED BY <1>1, <1>2

LEMMA HandlersReturn ==
  ASSUME StateOK, starter = "Init", NEW uses, NEW h \in Handlers(uses)
  PROVE  h = "return"
<1>1. \A c \in DOMAIN handler : handler[c] = "return"
  BY DEF StateOK, ErrorsHandled
<1>2. \A c : Valid("Comm", c) => ErrorsOf(c) = "return"
  BY ValidErrors
<1>3. \A u \in uses : u.class = "Comm" /\ ~Invalid(u) => Valid("Comm", u.handle)
  BY DEF Invalid
<1>4. h = "return" \/ (\E u \in uses : u.class = "Comm" /\ ~Invalid(u) /\ h = ErrorsOf(u.handle))
      \/ (\E c \in DOMAIN handler : h = handler[c])
  BY DEF Handlers
<1> QED BY <1>1, <1>2, <1>3, <1>4

LEMMA RefusedReports ==
  ASSUME IInv, Running, NEW cause \in DOMAIN VAPAA_MPI_ERR \cup Failures, NEW right \in BOOLEAN,
         cause \in HandleErrors => ~right \/ predefined' # "none", NEW uses, Refused(cause, right, uses)
  PROVE  ReportOK' /\ starter' = starter
<1>0. cause \in Causes
  BY DEF Causes
<1>1. PICK h \in Handlers(uses) :
        IF h = "fatal" THEN Stopped(cause, right) ELSE ReturnsCode(cause, MPI_ERR[cause], right, 0, 0)
  BY DEF Refused
<1>2. CASE h = "fatal"
  <2>1. starter # "Init"
    BY <1>2, HandlersReturn DEF IInv
  <2> QED BY <1>0, <1>1, <1>2, <2>1, StopReports DEF IInv
<1>3. CASE h # "fatal"
  BY <1>0, <1>1, <1>3, CodesNamed, ReturnReports DEF IInv
<1> QED BY <1>2, <1>3

LEMMA RefusalReports ==
  ASSUME IInv, Running, NEW right \in BOOLEAN, NEW uses \in SUBSET UseSet,
         right /\ predefined' = "none" => AllValid(uses), Refusal(right, uses)
  PROVE  ReportOK' /\ starter' = starter
<1>1. CASE RefusedAsInvalid(right, uses)
  <2>1. PICK u \in uses : Invalid(u) /\ Refused(NameOfClass[u.class], right, uses)
    BY <1>1 DEF RefusedAsInvalid
  <2>2. u.class \in Classes
    BY <2>1 DEF UseSet, Invalid, Valid, FileName, Use, Predefined
  <2>3. NameOfClass[u.class] \in DOMAIN VAPAA_MPI_ERR
    BY <2>2 DEF NameOfClass, Classes, VAPAA_MPI_ERR
  <2>4. ~right \/ predefined' # "none"
    BY <2>1 DEF AllValid
  <2> QED BY <2>1, <2>3, <2>4, RefusedReports
<1>2. CASE AllValid(uses) /\ \E f \in Failures : Refused(f, right, uses)
  <2>1. PICK f \in Failures : Refused(f, right, uses)
    BY <1>2
  <2>2. f \in {"NO_MEM", "PROC_FAILED"}
    BY DEF Failures
  <2>3. f \in DOMAIN VAPAA_MPI_ERR \cup Failures
    BY <2>1
  <2>4. f \notin HandleErrors
    BY <2>2 DEF HandleErrors, NameOfClass, Classes
  <2> QED BY <2>1, <2>3, <2>4, RefusedReports
<1> QED BY <1>1, <1>2 DEF Refusal
-----------------------------------------------------------------------------
(* What a call does to objects and variables. *)

LEMMA NullIsNoId ==
  ASSUME NEW k \in Classes PROVE Null[k] \in Int /\ Null[k] \notin Ids
BY HandlesAssumption DEF LibraryNull

LEMMA ClassNames == "none" \notin Classes /\ "none" \notin Vars
BY HandlesAssumption DEF Classes

LEMMA NothingIsNoObject ==
  /\ NoObject \in Known
  /\ NoObject.class = "none" /\ NoObject.owner = "none" /\ NoObject.request = "none"
BY DEF NoObject, Known, Object

LEMMA StateUnchanged ==
  ASSUME StateOK, UNCHANGED <<library, var, holds>>, starter' = starter PROVE StateOK'
BY DEF StateOK, library, HandlesOwnObject, NoObjectLost, ErrorsHandled, Inherits

\* A variable that names no object may be given another handle.
LEMMA StoreSafe ==
  ASSUME StateOK, NEW v \in Vars, holds[v] # "object", NEW handle \in Int, NEW kind \in {"null", "unknown"},
         kind = "null" => handle \notin Ids, Store(v, handle, kind), UNCHANGED library, starter' = starter
  PROVE  StateOK'
<1>1. var' = [var EXCEPT ![v] = handle] /\ holds' = [holds EXCEPT ![v] = kind]
  BY DEF Store
<1>2. level' = level /\ handler' = handler /\ objects' = objects
  BY DEF library
<1>3. var' \in [Vars -> Int] /\ holds' \in [Vars -> {"object", "null", "unknown"}]
  BY <1>1 DEF StateOK
<1>4. HandlesOwnObject'
  <2> SUFFICES ASSUME NEW w \in Vars
               PROVE  /\ holds'[w] = "object" =>
                           var'[w] \in Ids /\ objects[var'[w]].class = ClassOf[w] /\ objects[var'[w]].owner = w
                      /\ holds'[w] = "null" => var'[w] \notin Ids
    BY <1>2 DEF HandlesOwnObject
  <2>1. CASE w = v
    BY <1>1, <2>1 DEF StateOK
  <2>2. CASE w # v
    BY <1>1, <2>2 DEF StateOK, HandlesOwnObject
  <2> QED BY <2>1, <2>2
<1>5. NoObjectLost'
  BY <1>1, <1>2 DEF StateOK, NoObjectLost
<1>6. ErrorsHandled'
  BY <1>2 DEF StateOK, ErrorsHandled, Inherits
<1> QED BY <1>2, <1>3, <1>4, <1>5, <1>6 DEF StateOK

LEMMA GivesNothingSafe ==
  ASSUME StateOK, NEW v \in Vars, holds[v] # "object", GivesNothing(v), starter' = starter
  PROVE  StateOK'
<1>1. ClassOf[v] \in Classes
  BY HandlesAssumption
<1>2. Store(v, Null[ClassOf[v]], "null") /\ UNCHANGED library
  BY DEF GivesNothing
<1> QED BY <1>1, <1>2, NullIsNoId, StoreSafe

LEMMA GivesObjectSafe ==
  ASSUME StateOK, NEW v \in Vars, holds[v] # "object", NEW object \in Known,
         object.class = ClassOf[v], object.owner = v, Inherits(object), GivesObject(v, object),
         starter # "none", starter' = starter
  PROVE  StateOK'
<1>1. PICK id \in Ids : /\ objects[id] = NoObject /\ objects' = [objects EXCEPT ![id] = object]
                        /\ Store(v, NewHandle(id, ClassOf[v]), "object")
                        /\ UNCHANGED <<handler, level>>
  BY DEF GivesObject
<1>2. var' = [var EXCEPT ![v] = id] /\ holds' = [holds EXCEPT ![v] = "object"]
  BY <1>1 DEF Store, NewHandle
<1>3. id \in Int
  BY HandlesAssumption
<1>4. /\ objects' \in [Ids -> Known] /\ var' \in [Vars -> Int]
      /\ holds' \in [Vars -> {"object", "null", "unknown"}]
  BY <1>1, <1>2, <1>3 DEF StateOK
<1>5. HandlesOwnObject'
  <2> SUFFICES ASSUME NEW w \in Vars
               PROVE  /\ holds'[w] = "object" =>
                           var'[w] \in Ids /\ objects'[var'[w]].class = ClassOf[w] /\ objects'[var'[w]].owner = w
                      /\ holds'[w] = "null" => var'[w] \notin Ids
    BY DEF HandlesOwnObject
  <2>1. CASE w = v
    BY <1>1, <1>2, <2>1 DEF StateOK
  <2>2. CASE w # v
    <3>1. var'[w] = var[w] /\ holds'[w] = holds[w]
      BY <1>2, <2>2 DEF StateOK
    <3>2. ASSUME holds[w] = "object" PROVE var[w] # id
      BY <1>1, <3>2, ClassNames, NothingIsNoObject DEF StateOK, HandlesOwnObject
    <3> QED BY <1>1, <3>1, <3>2 DEF StateOK, HandlesOwnObject
  <2> QED BY <2>1, <2>2
<1>6. NoObjectLost'
  <2> SUFFICES ASSUME NEW j \in Ids, objects'[j] # NoObject
               PROVE  /\ objects'[j].owner \in Vars
                      /\ holds'[objects'[j].owner] = "object" /\ var'[objects'[j].owner] = j
    BY DEF NoObjectLost
  <2>1. CASE j = id
    BY <1>1, <1>2, <2>1 DEF StateOK
  <2>2. CASE j # id
    BY <1>1, <1>2, <2>2 DEF StateOK, NoObjectLost
  <2> QED BY <2>1, <2>2
<1>7. ErrorsHandled'
  <2>1. \A j \in Ids : objects'[j] = objects[j] \/ objects'[j] = object
    BY <1>1 DEF StateOK
  <2> QED BY <1>1, <2>1 DEF StateOK, ErrorsHandled, Inherits
<1> QED BY <1>1, <1>4, <1>5, <1>6, <1>7 DEF StateOK

\* A handle of the C variable that Free works on: the object's own, or none.
LEMMA FreeStateSafe ==
  ASSUME StateOK, NEW v \in Vars, holds[v] # "unknown", NEW handle \in Int,
         holds[v] = "object" => handle = var[v], holds[v] = "null" => handle \notin Ids,
         Free(v, handle), starter' = starter
  PROVE  StateOK'
<1>1. CASE var' = [var EXCEPT ![v] = handle] /\ UNCHANGED <<library, holds>>
  <2>1. CASE holds[v] = "object"
    <3>1. var' = var
      BY <1>1, <2>1 DEF StateOK
    <3> QED BY <1>1, <3>1, StateUnchanged DEF library
  <2>2. CASE holds[v] = "null"
    <3>1. holds' = [holds EXCEPT ![v] = "null"]
      BY <1>1, <2>2 DEF StateOK
    <3> QED BY <1>1, <2>2, <3>1, StoreSafe DEF Store
  <2> QED BY <2>1, <2>2 DEF StateOK
<1>2. CASE /\ Live(ClassOf[v], handle) /\ objects' = [objects EXCEPT ![handle] = NoObject]
           /\ Store(v, FreedHandle(handle, ClassOf[v]), "null") /\ UNCHANGED <<handler, level>>
  <2>1. /\ var' = [var EXCEPT ![v] = Null[ClassOf[v]]] /\ holds' = [holds EXCEPT ![v] = "null"]
        /\ ClassOf[v] \in Classes
    BY <1>2, HandlesAssumption DEF Store, FreedHandle
  <2>2. handle \in Ids /\ holds[v] = "object" /\ handle = var[v]
    BY <1>2 DEF Live, StateOK
  <2>3. /\ objects' \in [Ids -> Known] /\ var' \in [Vars -> Int]
        /\ holds' \in [Vars -> {"object", "null", "unknown"}]
    BY <1>2, <2>1, NullIsNoId, NothingIsNoObject DEF StateOK
  <2>4. HandlesOwnObject'
    <3> SUFFICES ASSUME NEW w \in Vars
                 PROVE  /\ holds'[w] = "object" =>
                             var'[w] \in Ids /\ objects'[var'[w]].class = ClassOf[w] /\ objects'[var'[w]].owner = w
                        /\ holds'[w] = "null" => var'[w] \notin Ids
      BY DEF HandlesOwnObject
    <3>1. CASE w = v
      BY <2>1, <3>1, NullIsNoId DEF StateOK
    <3>2. CASE w # v
      BY <1>2, <2>1, <2>2, <3>2 DEF StateOK, HandlesOwnObject
    <3> QED BY <3>1, <3>2
  <2>5. NoObjectLost'
    <3> SUFFICES ASSUME NEW j \in Ids, objects'[j] # NoObject
                 PROVE  /\ objects'[j].owner \in Vars
                        /\ holds'[objects'[j].owner] = "object" /\ var'[objects'[j].owner] = j
      BY DEF NoObjectLost
    <3>1. j # handle
      BY <1>2, <2>2 DEF StateOK
    <3>2. objects'[j] = objects[j]
      BY <1>2, <3>1 DEF StateOK
    <3>3. objects[j].owner # v
      BY <2>2, <3>1, <3>2 DEF StateOK, NoObjectLost
    <3> QED BY <2>1, <3>2, <3>3 DEF StateOK, NoObjectLost
  <2>6. ErrorsHandled'
    <3>1. \A j \in Ids : objects'[j] = objects[j] \/ objects'[j] = NoObject
      BY <1>2 DEF StateOK
    <3>2. NoObject.class # "Comm"
      BY DEF NoObject
    <3> QED BY <1>2, <3>1, <3>2 DEF StateOK, ErrorsHandled, Inherits
  <2> QED BY <1>2, <2>3, <2>4, <2>5, <2>6 DEF StateOK
<1> QED BY <1>1, <1>2 DEF Free
-----------------------------------------------------------------------------
(* The patterns. *)

LEMMA CreateSafe ==
  ASSUME IInv, NEW v \in Vars, holds[v] # "object", NEW uses \in SUBSET UseSet, NEW right \in BOOLEAN,
         right => AllValid(uses), NEW object,
         AllValid(uses) => /\ object \in Known /\ object.class = ClassOf[v] /\ object.owner = v
                           /\ Inherits(object),
         Create(v, uses, right, object)
  PROVE  IInv'
<1>1. Running /\ starter # "none"
  BY DEF Create, Running, IInv, ReportOK
<1>2. CASE Refusal(right, uses) /\ GivesNothing(v)
  BY <1>1, <1>2, RefusalReports, GivesNothingSafe DEF IInv
<1>3. CASE AllValid(uses) /\ Accepted(right) /\ GivesObject(v, object)
  BY <1>1, <1>3, AcceptanceReports, GivesObjectSafe DEF IInv
<1> QED BY <1>2, <1>3 DEF Create

LEMMA CreateMaybeSafe ==
  ASSUME IInv, NEW v \in Vars, holds[v] # "object", NEW uses \in SUBSET UseSet, NEW right \in BOOLEAN,
         right => AllValid(uses), NEW object,
         AllValid(uses) => /\ object \in Known /\ object.class = ClassOf[v] /\ object.owner = v
                           /\ Inherits(object),
         CreateMaybe(v, uses, right, object)
  PROVE  IInv'
<1>1. CASE Create(v, uses, right, object)
  BY <1>1, CreateSafe
<1>2. CASE Running /\ Accepted(right) /\ GivesNothing(v)
  BY <1>2, AcceptanceReports, GivesNothingSafe DEF IInv
<1> QED BY <1>1, <1>2 DEF CreateMaybe

LEMMA QuerySafe ==
  ASSUME IInv, NEW uses \in SUBSET UseSet, NEW right \in BOOLEAN,
         right /\ predefined' = "none" => AllValid(uses), Query(uses, right)
  PROVE  IInv'
<1>1. ReportOK' /\ starter' = starter
  BY RefusalReports, AcceptanceReports DEF IInv, Query
<1> QED BY <1>1, StateUnchanged DEF IInv, Query

LEMMA StopSafe ==
  ASSUME IInv, Running, NEW cause \in Reasons, NEW right \in BOOLEAN,
         Stopped(cause, right), UNCHANGED <<library, var, holds>>
  PROVE  IInv'
<1>1. cause \in Causes /\ cause \notin HandleErrors
  BY DEF Causes, HandleErrors, NameOfClass, Classes, Reasons
<1> QED BY <1>1, StopReports, StateUnchanged DEF IInv

-----------------------------------------------------------------------------
(* Arguments: the handle of an object of the program's reaches the library  *)
(* as it is, and so do its predefined ones.                                  *)

LEMMA Conversions ==
  /\ \A h \in Int : /\ C_MPI_COMM_F2C(h) \in Int /\ C_MPI_GROUP_F2C(h) \in Int /\ C_MPI_TYPE_F2C(h) \in Int
                    /\ C_MPI_INFO_F2C(h) \in Int /\ C_MPI_FILE_F2C(h) \in Int
  /\ \A h \in Ids : /\ C_MPI_COMM_F2C(h) = h /\ C_MPI_GROUP_F2C(h) = h /\ C_MPI_TYPE_F2C(h) = h
                    /\ C_MPI_INFO_F2C(h) = h /\ C_MPI_FILE_F2C(h) = h
  /\ \A h \in Int \ Ids :
       /\ C_MPI_COMM_F2C(h) \notin Ids /\ C_MPI_GROUP_F2C(h) \notin Ids /\ C_MPI_TYPE_F2C(h) \notin Ids
       /\ C_MPI_INFO_F2C(h) \notin Ids /\ C_MPI_FILE_F2C(h) \notin Ids
<1>1. \A k \in Classes : Null[k] \in Int /\ Null[k] \notin Ids
  BY NullIsNoId
<1>2. {"Comm", "Group", "Type", "Info", "File"} \subseteq Classes
  BY DEF Classes
<1>3. /\ MPI_COMM_WORLD \in Int /\ MPI_COMM_SELF \in Int /\ MPI_INTEGER \in Int
      /\ MPI_COMM_WORLD \notin Ids /\ MPI_COMM_SELF \notin Ids /\ MPI_INTEGER \notin Ids
  BY HandlesAssumption DEF LibraryPredefined
<1>4. \A h \in VapaaHandles : h \notin Ids
  BY HandlesAssumption
<1>5. /\ {VAPAA_MPI_COMM_WORLD, VAPAA_MPI_COMM_SELF, VAPAA_MPI_INTEGER} \subseteq VapaaHandles
      /\ \A k \in Classes : VapaaNull[k] \in VapaaHandles
  BY DEF VapaaHandles
<1>6. /\ VapaaNull["Comm"] = VAPAA_MPI_COMM_NULL /\ VapaaNull["Group"] = VAPAA_MPI_GROUP_NULL
      /\ VapaaNull["Type"] = VAPAA_MPI_DATATYPE_NULL /\ VapaaNull["Info"] = VAPAA_MPI_INFO_NULL
      /\ VapaaNull["File"] = VAPAA_MPI_FILE_NULL
  BY DEF VapaaNull
<1>7. /\ {VAPAA_MPI_COMM_WORLD, VAPAA_MPI_COMM_SELF, VAPAA_MPI_INTEGER, VAPAA_MPI_COMM_NULL,
          VAPAA_MPI_GROUP_NULL, VAPAA_MPI_DATATYPE_NULL, VAPAA_MPI_INFO_NULL, VAPAA_MPI_FILE_NULL}
         \cap Ids = {}
  BY <1>2, <1>4, <1>5, <1>6
<1>8. {Null["Comm"], Null["Group"], Null["Type"], Null["Info"], Null["File"]} \subseteq Int \ Ids
  BY <1>1, <1>2
<1> QED BY <1>3, <1>7, <1>8
        DEF C_MPI_COMM_F2C, C_MPI_GROUP_F2C, C_MPI_TYPE_F2C, C_MPI_INFO_F2C, C_MPI_FILE_F2C

LEMMA ArgsAreKnown ==
  ASSUME IInv, NEW k \in Classes, NEW a \in Args(k)
  PROVE  /\ HandleOf(a) \in Int
         /\ a \in Vars => ClassOf[a] = k /\ HandleOf(a) = var[a] /\ holds[a] # "unknown"
         /\ a \notin Vars => a \in ConstantsOf(k) /\ HandleOf(a) = Constants[a]
<1>1. program \subseteq Vars
  BY HandlesAssumption DEF IInv, ReportOK
<1>2. CASE a \in Usable(k)
  BY <1>1, <1>2 DEF Usable, HandleOf, IInv, StateOK
<1>3. CASE a \in ConstantsOf(k)
  <2>1. a \in DOMAIN Constants /\ Constants[a] \in Int
    BY <1>3 DEF ConstantsOf, Constants, VAPAA_MPI_COMM_WORLD, VAPAA_MPI_COMM_SELF, VAPAA_MPI_INTEGER,
                VAPAA_MPI_INFO_NULL
  <2>2. a \notin Vars
    BY <2>1, HandlesAssumption
  <2> QED BY <1>3, <2>1, <2>2 DEF HandleOf
<1> QED BY <1>2, <1>3 DEF Args

LEMMA UsableAreArgs ==
  ASSUME IInv, NEW k, NEW a \in Usable(k)
  PROVE  a \in Args(k) /\ a \in Vars
BY HandlesAssumption DEF Args, Usable, IInv, ReportOK

LEMMA TargetsAreFree ==
  ASSUME IInv, NEW k, NEW v \in Targets(k)
  PROVE  v \in Vars /\ ClassOf[v] = k /\ holds[v] # "object"
BY HandlesAssumption DEF Targets, IInv, ReportOK

\* The handle of an own object.
LEMMA OwnIsLive ==
  ASSUME IInv, NEW k \in Classes, NEW a \in Args(k), a \in Vars, holds[a] = "object"
  PROVE  HandleOf(a) \in Ids /\ Valid(k, HandleOf(a))
BY ArgsAreKnown DEF IInv, StateOK, HandlesOwnObject, Valid, Live

LEMMA RightIsBoolean == ASSUME NEW args PROVE Right(args) \in BOOLEAN
BY DEF Right

LEMMA CommArgument ==
  ASSUME IInv, NEW a \in Args("Comm")
  PROVE  /\ Use("Comm", Comm(a)) \in UseSet
         /\ Right({a}) => Valid("Comm", Comm(a))
<1>1. "Comm" \in Classes
  BY DEF Classes
<1>2. Comm(a) \in Int
  BY <1>1, ArgsAreKnown, Conversions DEF Comm
<1>3. ASSUME Right({a}), a \in Vars PROVE Valid("Comm", Comm(a))
  BY <1>1, <1>3, OwnIsLive, Conversions DEF Right, Comm
<1>4. ASSUME a \notin Vars PROVE Valid("Comm", Comm(a))
  <2>1. a \in {"MPI_COMM_WORLD", "MPI_COMM_SELF"} /\ HandleOf(a) = Constants[a]
    BY <1>1, <1>4, ArgsAreKnown DEF ConstantsOf
  <2> QED BY <2>1 DEF Comm, Constants, C_MPI_COMM_F2C, Valid, Predefined, VAPAA_MPI_COMM_WORLD,
                      VAPAA_MPI_COMM_SELF, VAPAA_MPI_COMM_NULL
<1> QED BY <1>1, <1>2, <1>3, <1>4 DEF Use, UseSet

LEMMA TypeArgument ==
  ASSUME IInv, NEW a \in Args("Type")
  PROVE  /\ Use("Type", Type(a)) \in UseSet
         /\ Right({a}) => Valid("Type", Type(a))
<1>1. "Type" \in Classes
  BY DEF Classes
<1>2. Type(a) \in Int
  BY <1>1, ArgsAreKnown, Conversions DEF Type
<1>3. ASSUME Right({a}), a \in Vars PROVE Valid("Type", Type(a))
  BY <1>1, <1>3, OwnIsLive, Conversions DEF Right, Type
<1>4. ASSUME a \notin Vars PROVE Valid("Type", Type(a))
  <2>1. a = "MPI_INTEGER" /\ HandleOf(a) = Constants[a]
    BY <1>1, <1>4, ArgsAreKnown DEF ConstantsOf
  <2> QED BY <2>1 DEF Type, Constants, C_MPI_TYPE_F2C, Valid, Predefined, VAPAA_MPI_INTEGER,
                      VAPAA_MPI_DATATYPE_NULL
<1> QED BY <1>1, <1>2, <1>3, <1>4 DEF Use, UseSet

\* A datatype whose integer the code takes for the library's: right unless it is
\* a predefined one.
LEMMA IntegerArgument ==
  ASSUME IInv, NEW a \in Args("Type"), NEW routine, routine # "none", TakesInteger(routine, a)
  PROVE  /\ Use("Type", HandleOf(a)) \in UseSet
         /\ Right({a}) /\ predefined' = "none" => Valid("Type", HandleOf(a))
<1>1. "Type" \in Classes
  BY DEF Classes
<1>2. HandleOf(a) \in Int
  BY <1>1, ArgsAreKnown
<1>3. ASSUME Right({a}), predefined' = "none" PROVE Valid("Type", HandleOf(a))
  BY <1>1, <1>3, OwnIsLive DEF TakesInteger, Right
<1> QED BY <1>1, <1>2, <1>3 DEF Use, UseSet

LEMMA GroupArgument ==
  ASSUME IInv, NEW a \in Args("Group")
  PROVE  /\ Use("Group", Group(a)) \in UseSet
         /\ Right({a}) => Valid("Group", Group(a))
<1>1. "Group" \in Classes /\ a \in Vars
  <2>1. "Group" \in Classes /\ ConstantsOf("Group") = {}
    BY DEF Classes, ConstantsOf
  <2> QED BY <2>1, ArgsAreKnown
<1>2. Group(a) \in Int
  BY <1>1, ArgsAreKnown, Conversions DEF Group
<1>3. ASSUME Right({a}) PROVE Valid("Group", Group(a))
  BY <1>1, <1>3, OwnIsLive, Conversions DEF Right, Group
<1> QED BY <1>1, <1>2, <1>3 DEF Use, UseSet

LEMMA InfoArgument ==
  ASSUME IInv, NEW a \in Args("Info")
  PROVE  /\ Use("Info", Info(a)) \in UseSet
         /\ Right({a}) /\ a \in Vars => Valid("Info", Info(a))
         /\ a \notin Vars => Info(a) = Null["Info"]
<1>1. "Info" \in Classes
  BY DEF Classes
<1>2. Info(a) \in Int
  BY <1>1, ArgsAreKnown, Conversions DEF Info
<1>3. ASSUME Right({a}), a \in Vars PROVE Valid("Info", Info(a))
  BY <1>1, <1>3, OwnIsLive, Conversions DEF Right, Info
<1>4. ASSUME a \notin Vars PROVE Info(a) = Null["Info"]
  <2>1. a = "MPI_INFO_NULL" /\ HandleOf(a) = Constants[a]
    BY <1>1, <1>4, ArgsAreKnown DEF ConstantsOf
  <2> QED BY <2>1 DEF Info, Constants, C_MPI_INFO_F2C
<1> QED BY <1>1, <1>2, <1>3, <1>4 DEF Use, UseSet

LEMMA FileArgument ==
  ASSUME IInv, NEW a \in Usable("File")
  PROVE  /\ Use("File", File(a)) \in UseSet
         /\ Right({a}) => Valid("File", File(a))
<1>1. "File" \in Classes /\ a \in Vars /\ a \in Args("File")
  BY UsableAreArgs DEF Classes
<1>2. File(a) \in Int
  BY <1>1, ArgsAreKnown, Conversions DEF File
<1>3. ASSUME Right({a}) PROVE Valid("File", File(a))
  BY <1>1, <1>3, OwnIsLive, Conversions DEF Right, File
<1> QED BY <1>1, <1>2, <1>3 DEF Use, UseSet

LEMMA OptionalArgument ==
  ASSUME IInv, NEW a \in Args("Info")
  PROVE  /\ OptionalInfo(a) \in SUBSET UseSet
         /\ Right(Optional(a)) => AllValid(OptionalInfo(a))
<1>1. CASE Info(a) = Null["Info"]
  BY <1>1 DEF OptionalInfo, AllValid
<1>2. CASE Info(a) # Null["Info"]
  <2>1. a \in Vars /\ OptionalInfo(a) = {Use("Info", Info(a))} /\ Optional(a) = {a}
    BY <1>2, InfoArgument DEF OptionalInfo, Optional
  <2>2. Use("Info", Info(a)) \in UseSet /\ (Right({a}) => Valid("Info", Info(a)))
    BY <2>1, InfoArgument
  <2> QED BY <2>1, <2>2 DEF AllValid, Invalid, Use
<1> QED BY <1>1, <1>2

\* Sets of arguments and of what they give the library.
LEMMA RightOfUnion == ASSUME NEW A, NEW B PROVE Right(A \cup B) <=> Right(A) /\ Right(B)
BY DEF Right
LEMMA ValidUnion == ASSUME NEW A, NEW B PROVE AllValid(A \cup B) <=> AllValid(A) /\ AllValid(B)
BY DEF AllValid
LEMMA ValidUse == ASSUME NEW k, NEW h PROVE AllValid({Use(k, h)}) <=> Valid(k, h)
BY DEF AllValid, Invalid, Use

LEMMA NewObject ==
  ASSUME NEW v \in Vars
  PROVE  New(v) \in Known /\ New(v).class = ClassOf[v] /\ New(v).owner = v /\ New(v).request = "none"
BY HandlesAssumption DEF New, NoObject, Known, Object

LEMMA NewCommObject ==
  ASSUME IInv, NEW v \in Vars, NEW comm, Valid("Comm", Comm(comm))
  PROVE  /\ NewComm(v, comm) \in Known /\ NewComm(v, comm).class = ClassOf[v]
         /\ NewComm(v, comm).owner = v /\ Inherits(NewComm(v, comm))
<1>1. ErrorsOf(Comm(comm)) \in {"fatal", "return", "none"}
  <2>1. CASE Comm(comm) \in Ids
    BY <2>1 DEF ErrorsOf, IInv, StateOK, Known, Object
  <2>2. CASE Comm(comm) \notin Ids
    BY <2>2 DEF ErrorsOf, IInv, StateOK, Valid, Live, Predefined
  <2> QED BY <2>1, <2>2
<1>2. starter = "Init" => ErrorsOf(Comm(comm)) = "return"
  BY ValidErrors DEF IInv
<1>3. NewComm(v, comm).errors = ErrorsOf(Comm(comm))
  BY NewObject DEF NewComm, Known, Object
<1> QED BY <1>1, <1>2, <1>3, NewObject DEF NewComm, Known, Object, Inherits

\* A new object that is not a communicator.
LEMMA NewSafe ==
  ASSUME IInv, NEW k, k # "Comm", NEW v \in Targets(k), NEW uses \in SUBSET UseSet, NEW right \in BOOLEAN,
         right => AllValid(uses), Create(v, uses, right, New(v))
  PROVE  IInv'
<1>1. v \in Vars /\ holds[v] # "object" /\ ClassOf[v] # "Comm"
  BY TargetsAreFree
<1>2. New(v) \in Known /\ New(v).class = ClassOf[v] /\ New(v).owner = v /\ Inherits(New(v))
  BY <1>1, NewObject DEF Inherits
<1> QED BY <1>1, <1>2, CreateSafe

-----------------------------------------------------------------------------
(* The routines. *)

\* The program is told the level that the library has.
LEMMA LevelsAlike ==
  ASSUME NumbersAlike, NEW l \in DOMAIN MPI_THREAD
  PROVE  C_MPI_THREAD_LEVEL_F2C(MPI_THREAD[l]) = VAPAA_MPI_THREAD[l]
<1>1. \A m \in DOMAIN VAPAA_MPI_THREAD : VAPAA_MPI_THREAD[m] = VAPAA_MPI_THREAD[l] <=> m = l
  BY DEF NumbersAlike, VAPAA_MPI_THREAD
<1> QED BY <1>1 DEF NumbersAlike, C_MPI_THREAD_LEVEL_F2C

LEMMA CoreSafe == ASSUME IInv, CoreNext PROVE IInv'
<1>1. ASSUME NEW told \in Int, NEW truth \in Int
      PROVE  /\ Told(told, truth) \in [cause : Causes, right : BOOLEAN, told : Int, truth : Int]
             /\ Told(told, truth).cause = "SUCCESS" /\ "SUCCESS" \notin HandleErrors
             /\ Told(told, truth).told = told /\ Told(told, truth).truth = truth
  <2>1. Told(told, truth) = [cause |-> "SUCCESS", right |-> TRUE, told |-> told, truth |-> truth]
    BY DEF Told
  <2>2. "SUCCESS" \in Causes /\ "SUCCESS" \notin HandleErrors
    BY DEF Causes, HandleErrors, NameOfClass, Classes
  <2> QED BY <2>1, <2>2
<1>2. NoCall \in [cause : Causes, right : BOOLEAN, told : Int, truth : Int]
      /\ NoCall.cause = "SUCCESS" /\ "SUCCESS" \notin HandleErrors
      /\ NoCall.told = NoCall.truth
  BY DEF NoCall, Causes, HandleErrors, NameOfClass, Classes
<1>3. VAPAA_MPI_SUCCESS \in Codes /\ "SINGLE" \in DOMAIN MPI_THREAD
      /\ \A l \in DOMAIN MPI_THREAD : MPI_THREAD[l] \in Int /\ VAPAA_MPI_THREAD[l] \in Int
  BY NumbersAssumption DEF Codes, VAPAA_MPI_THREAD
<1>4. \A c \in Int : C_MPI_THREAD_LEVEL_F2C(c) \in Int
  BY <1>3, NumbersAssumption DEF C_MPI_THREAD_LEVEL_F2C, VAPAA_MPI_THREAD
<1>5. ASSUME NEW b PROVE Flag(b) \in Int
  BY DEF Flag
<1>6. ASSUME /\ last' \in [cause : Causes, right : BOOLEAN, told : Int, truth : Int]
             /\ last'.cause = "SUCCESS" /\ "SUCCESS" \notin HandleErrors
             /\ NumbersAlike => last'.told = last'.truth
             /\ rc' = VAPAA_MPI_SUCCESS /\ Unchanged
             /\ phase' \in {"before", "running", "after", "aborted"}
             /\ starter' \in {"none", "Init", "Init_thread"}
             /\ level' \in DOMAIN MPI_THREAD
             /\ handler' \in [{MPI_COMM_WORLD, MPI_COMM_SELF} -> {"fatal", "return"}]
             /\ phase' # "aborted"
             /\ phase' = "before" => starter' = "none"
             /\ phase' \in {"running", "after"} => starter' # "none"
             /\ ErrorsHandled'
      PROVE  IInv'
  <2>3. AnswerOK'
    BY <1>6 DEF AnswerOK, AnswersTrue, CodeOf, NumbersAlike
  <2>1. ReportOK'
    BY <1>3, <1>6, <2>3 DEF IInv, ReportOK, Unchanged, RefusedOnlyInvalid, HandleErrors, Codes,
                            ErrorsReachProgram
  <2>2. StateOK'
    BY <1>6 DEF IInv, StateOK, Unchanged, HandlesOwnObject, NoObjectLost
  <2> QED BY <2>1, <2>2 DEF IInv
<1>0. ASSUME starter' = starter, handler' = handler, objects' = objects PROVE ErrorsHandled'
  BY <1>0 DEF IInv, StateOK, ErrorsHandled, Inherits
<1>14. ASSUME phase = "before", objects' = objects, starter' # "none",
              starter' = "Init" => \A c \in {MPI_COMM_WORLD, MPI_COMM_SELF} : handler'[c] = "return"
       PROVE  ErrorsHandled'
  <2>1. \A id \in Ids : objects'[id].class # "Comm"
    BY <1>14 DEF IInv, ReportOK, StateOK, ErrorsHandled, NoObject
  <2> QED BY <1>14, <2>1 DEF ErrorsHandled, Inherits
<1>7. CASE MPI_Init_f08
  <2>1. ErrorsHandled'
    BY <1>7, <1>14 DEF MPI_Init_f08, C_MPI_Init, ErrorsReturn, Unchanged, IInv, StateOK
  <2> QED BY <1>2, <1>3, <1>6, <1>7, <2>1 DEF MPI_Init_f08, C_MPI_Init, ErrorsReturn, IInv, StateOK
<1>8. CASE MPI_Init_thread_f08
  <2>1. PICK l \in DOMAIN MPI_THREAD :
          /\ level' = l
          /\ last' = Told(C_MPI_THREAD_LEVEL_F2C(MPI_THREAD[l]), VAPAA_MPI_THREAD[l])
    BY <1>8 DEF MPI_Init_thread_f08, C_MPI_Init_thread
  <2>2. ErrorsHandled'
    BY <1>8, <1>14 DEF MPI_Init_thread_f08, Unchanged
  <2>3. NumbersAlike => last'.told = last'.truth
    BY <1>1, <1>3, <1>4, <2>1, LevelsAlike
  <2>4. /\ last' \in [cause : Causes, right : BOOLEAN, told : Int, truth : Int]
        /\ last'.cause = "SUCCESS" /\ "SUCCESS" \notin HandleErrors
    BY <1>1, <1>3, <1>4, <2>1
  <2> QED BY <1>3, <1>6, <1>8, <2>1, <2>2, <2>3, <2>4
          DEF MPI_Init_thread_f08, C_MPI_Init_thread, IInv, StateOK
<1>9. CASE MPI_Query_thread_f08
  <2>1. ErrorsHandled'
    BY <1>0, <1>9 DEF MPI_Query_thread_f08, Unchanged
  <2>2. level \in DOMAIN MPI_THREAD
    BY DEF IInv, StateOK
  <2>3. last' = Told(C_MPI_THREAD_LEVEL_F2C(MPI_THREAD[level]), VAPAA_MPI_THREAD[level])
    BY <1>9 DEF MPI_Query_thread_f08, C_MPI_Query_thread
  <2>4. NumbersAlike => last'.told = last'.truth
    BY <1>1, <1>3, <1>4, <2>2, <2>3, LevelsAlike
  <2>5. /\ last' \in [cause : Causes, right : BOOLEAN, told : Int, truth : Int]
        /\ last'.cause = "SUCCESS" /\ "SUCCESS" \notin HandleErrors
    BY <1>1, <1>3, <1>4, <2>2, <2>3
  <2> QED BY <2>1, <2>4, <2>5, <1>6, <1>9 DEF MPI_Query_thread_f08, Running, IInv, StateOK, ReportOK
<1>10. CASE MPI_Initialized_f08
  <2>1. ErrorsHandled'
    BY <1>0, <1>10 DEF MPI_Initialized_f08, Unchanged
  <2>2. (phase # "before") <=> (starter # "none")
    BY <1>10 DEF MPI_Initialized_f08, IInv, ReportOK
  <2>3. Flag(phase # "before") = Flag(starter # "none")
    BY <2>2 DEF Flag
  <2>4. last'.told = last'.truth
    BY <1>1, <1>5, <1>10, <2>3 DEF MPI_Initialized_f08, C_MPI_Initialized
  <2> QED BY <2>1, <2>4, <1>1, <1>5, <1>6, <1>10 DEF MPI_Initialized_f08, C_MPI_Initialized, Running, IInv, StateOK, ReportOK
<1>11. CASE MPI_Finalized_f08
  <2>1. ErrorsHandled'
    BY <1>0, <1>11 DEF MPI_Finalized_f08, Unchanged
  <2>2. (phase = "after") <=> (starter # "none" /\ ~Running)
    BY <1>11 DEF MPI_Finalized_f08, IInv, ReportOK, Running
  <2>3. Flag(phase = "after") = Flag(starter # "none" /\ ~Running)
    BY <2>2 DEF Flag
  <2>4. last'.told = last'.truth
    BY <1>1, <1>5, <1>11, <2>3 DEF MPI_Finalized_f08, C_MPI_Finalized
  <2> QED BY <2>1, <2>4, <1>1, <1>5, <1>6, <1>11 DEF MPI_Finalized_f08, C_MPI_Finalized, Running, IInv, StateOK, ReportOK
<1>12. CASE MPI_Finalize_f08
  <2>1. ErrorsHandled'
    BY <1>0, <1>12 DEF MPI_Finalize_f08, Unchanged
  <2> QED BY <2>1, <1>2, <1>6, <1>12 DEF MPI_Finalize_f08, C_MPI_Finalize, Running, IInv, StateOK, ReportOK
<1>13. CASE MPI_Abort_f08
  BY <1>13, StopSafe, RightIsBoolean DEF MPI_Abort_f08, C_MPI_Abort, Reasons
<1> QED BY <1>7, <1>8, <1>9, <1>10, <1>11, <1>12, <1>13 DEF CoreNext

\* Calls on one object.
LEMMA OnCommSafe == ASSUME IInv, NEW comm \in Args("Comm"), OnComm(comm) PROVE IInv'
BY CommArgument, RightIsBoolean, QuerySafe, ValidUse DEF OnComm
LEMMA OnGroupSafe == ASSUME IInv, NEW group \in Args("Group"), OnGroup(group) PROVE IInv'
BY GroupArgument, RightIsBoolean, QuerySafe, ValidUse DEF OnGroup
LEMMA OnInfoSafe == ASSUME IInv, NEW info \in Usable("Info"), OnInfo(info) PROVE IInv'
BY InfoArgument, UsableAreArgs, RightIsBoolean, QuerySafe, ValidUse DEF OnInfo
LEMMA OnFileSafe == ASSUME IInv, NEW file \in Usable("File"), OnFile(file) PROVE IInv'
BY FileArgument, RightIsBoolean, QuerySafe, ValidUse DEF OnFile

\* What frees an object: a handle converted, or taken as it is.
LEMMA FreeSafe ==
  ASSUME IInv, NEW k \in Classes, NEW v \in Usable(k), NEW handle \in Int,
         var[v] \in Ids => handle = var[v], var[v] \notin Ids => handle \notin Ids,
         Free(v, handle)
  PROVE  IInv'
<1>1. v \in Vars /\ v \in Args(k) /\ ClassOf[v] = k /\ holds[v] # "unknown"
  BY UsableAreArgs, ArgsAreKnown
<1>2. /\ holds[v] = "object" => var[v] \in Ids /\ Valid(k, var[v])
      /\ holds[v] = "null" => var[v] \notin Ids
  BY <1>1 DEF IInv, StateOK, HandlesOwnObject, Valid, Live
<1>4. Right({v}) => holds[v] = "object"
  BY <1>1 DEF Right
<1>5. {Use(k, handle)} \in SUBSET UseSet /\ (Right({v}) => AllValid({Use(k, handle)}))
  BY <1>2, <1>4, ValidUse DEF Use, UseSet
<1>6. ReportOK' /\ starter' = starter
  <2>0. Running
    BY DEF Free
  <2>1. CASE Refusal(Right({v}), {Use(k, handle)})
    BY <1>5, <2>0, <2>1, RefusalReports, RightIsBoolean DEF IInv
  <2>2. CASE Accepted(Right({v}))
    BY <2>0, <2>2, AcceptanceReports, RightIsBoolean DEF IInv
  <2> QED BY <1>1, <2>1, <2>2 DEF Free
<1>7. StateOK'
  BY <1>1, <1>2, <1>6, FreeStateSafe DEF IInv
<1> QED BY <1>6, <1>7 DEF IInv

-----------------------------------------------------------------------------
(* Communicators. *)

LEMMA CommUse ==
  ASSUME IInv, NEW a \in Args("Comm")
  PROVE  /\ {Use("Comm", Comm(a))} \in SUBSET UseSet
         /\ Right({a}) \in BOOLEAN
         /\ Right({a}) => AllValid({Use("Comm", Comm(a))})
         /\ AllValid({Use("Comm", Comm(a))}) => Valid("Comm", Comm(a))
BY CommArgument, ValidUse, RightIsBoolean

LEMMA CommInfoUse ==
  ASSUME IInv, NEW a \in Args("Comm"), NEW info \in Args("Info")
  PROVE  /\ CommWithInfo(a, info) \in SUBSET UseSet
         /\ Right({a} \cup Optional(info)) \in BOOLEAN
         /\ Right({a} \cup Optional(info)) => AllValid(CommWithInfo(a, info))
         /\ AllValid(CommWithInfo(a, info)) => Valid("Comm", Comm(a))
<1>1. Right({a} \cup Optional(info)) \in BOOLEAN
  BY RightIsBoolean
<1>2. Right({a} \cup Optional(info)) <=> Right({a}) /\ Right(Optional(info))
  BY RightOfUnion
<1>3. AllValid(CommWithInfo(a, info)) <=> AllValid({Use("Comm", Comm(a))}) /\ AllValid(OptionalInfo(info))
  BY ValidUnion DEF CommWithInfo
<1> QED BY <1>1, <1>2, <1>3, CommUse, OptionalArgument DEF CommWithInfo

LEMMA CommGroupUse ==
  ASSUME IInv, NEW a \in Args("Comm"), NEW group \in Args("Group")
  PROVE  /\ CommWithGroup(a, group) \in SUBSET UseSet
         /\ Right({a, group}) \in BOOLEAN
         /\ Right({a, group}) => AllValid(CommWithGroup(a, group))
         /\ AllValid(CommWithGroup(a, group)) => Valid("Comm", Comm(a))
<1>1. /\ {a, group} = {a} \cup {group}
      /\ CommWithGroup(a, group) = {Use("Comm", Comm(a))} \cup {Use("Group", Group(group))}
  BY DEF CommWithGroup
<1>2. Right({a, group}) <=> Right({a}) /\ Right({group})
  BY <1>1, RightOfUnion
<1>3. AllValid(CommWithGroup(a, group))
        <=> AllValid({Use("Comm", Comm(a))}) /\ AllValid({Use("Group", Group(group))})
  BY <1>1, ValidUnion
<1>4. Right({a, group}) \in BOOLEAN
  BY RightIsBoolean
<1> QED BY <1>1, <1>2, <1>3, <1>4, CommUse, GroupArgument, ValidUse

LEMMA CommOfSafe ==
  ASSUME IInv, NEW comm \in Args("Comm"), NEW newcomm \in Targets("Comm"), CommOf(comm, newcomm)
  PROVE  IInv'
<1> DEFINE uses == {Use("Comm", Comm(comm))}
           object == NewComm(newcomm, comm)
<1>1. newcomm \in Vars /\ holds[newcomm] # "object" /\ ClassOf[newcomm] = "Comm"
  BY TargetsAreFree
<1>2. uses \in SUBSET UseSet /\ Right({comm}) \in BOOLEAN /\ (Right({comm}) => AllValid(uses))
  BY CommUse
<1>3. AllValid(uses) => /\ object \in Known /\ object.class = ClassOf[newcomm]
                        /\ object.owner = newcomm /\ Inherits(object)
  BY <1>1, CommUse, NewCommObject
<1>4. Create(newcomm, uses, Right({comm}), object)
  BY DEF CommOf
<1> HIDE DEF uses, object
<1> QED BY <1>1, <1>2, <1>3, <1>4, CreateSafe

\* The ways a comparison of two objects ends.
LEMMA ComparedSafe ==
  ASSUME IInv, Running, NEW right \in BOOLEAN, NEW uses \in SUBSET UseSet, right => AllValid(uses),
         NEW n \in DOMAIN MPI_COMPARE, NEW result \in Int,
         NumbersAlike => result = VAPAA_MPI_COMPARE[n],
         \/ Refusal(right, uses)
         \/ Stopped("result", right)
         \/ ReturnsCode("SUCCESS", MPI_SUCCESS, right, result, VAPAA_MPI_COMPARE[n]),
         UNCHANGED <<library, var, holds>>
  PROVE  IInv'
<1>1. CASE Refusal(right, uses)
  BY <1>1, RefusalReports, StateUnchanged DEF IInv
<1>2. CASE Stopped("result", right)
  BY <1>2, StopSafe DEF Reasons
<1>3. CASE ReturnsCode("SUCCESS", MPI_SUCCESS, right, result, VAPAA_MPI_COMPARE[n])
  <2>1. VAPAA_MPI_COMPARE[n] \in Int
    BY NumbersAssumption DEF VAPAA_MPI_COMPARE
  <2>2. "SUCCESS" \in Causes /\ "SUCCESS" \notin HandleErrors
    BY DEF Causes, HandleErrors, NameOfClass, Classes
  <2>3. ReportOK' /\ starter' = starter
    BY <1>3, <2>1, <2>2, CodesNamed, ReturnReports, Zenon DEF IInv
  <2> QED BY <2>3, StateUnchanged DEF IInv
<1> QED BY <1>1, <1>2, <1>3

\* With the library's numbers alike, a result is the same in both directions.
LEMMA ResultsAlike ==
  ASSUME NumbersAlike, NEW n \in DOMAIN MPI_COMPARE
  PROVE  /\ C_MPI_COMPARE_RESULT_C2F(MPI_COMPARE[n]) = VAPAA_MPI_COMPARE[n]
         /\ C_MPI_COMPARE_RESULT_F2C(MPI_COMPARE[n]) = VAPAA_MPI_COMPARE[n]
<1>1. \A m \in DOMAIN VAPAA_MPI_COMPARE : VAPAA_MPI_COMPARE[m] = VAPAA_MPI_COMPARE[n] <=> m = n
  BY DEF NumbersAlike, VAPAA_MPI_COMPARE
<1> QED BY <1>1 DEF NumbersAlike, C_MPI_COMPARE_RESULT_C2F, C_MPI_COMPARE_RESULT_F2C

LEMMA ResultsAreNumbers ==
  \A c \in Int : C_MPI_COMPARE_RESULT_C2F(c) \in Int /\ C_MPI_COMPARE_RESULT_F2C(c) \in Int
<1>1. \A n \in DOMAIN MPI_COMPARE : VAPAA_MPI_COMPARE[n] \in Int /\ MPI_COMPARE[n] \in Int
  BY NumbersAssumption DEF VAPAA_MPI_COMPARE
<1> QED BY <1>1 DEF C_MPI_COMPARE_RESULT_C2F, C_MPI_COMPARE_RESULT_F2C, NoValue

LEMMA CompareSafe == ASSUME IInv, MPI_Comm_compare_f08 PROVE IInv'
<1>1. PICK comm1, comm2 \in Args("Comm") : C_MPI_Comm_compare(comm1, comm2)
  BY DEF MPI_Comm_compare_f08
<1> DEFINE uses == {Use("Comm", Comm(comm1)), Use("Comm", Comm(comm2))}
           right == Right({comm1, comm2})
           result(n) == C_MPI_COMPARE_RESULT_C2F(MPI_COMPARE[n])
<1>2. uses \in SUBSET UseSet /\ (right => AllValid(uses)) /\ right \in BOOLEAN
  <2>1. uses = {Use("Comm", Comm(comm1))} \cup {Use("Comm", Comm(comm2))}
    OBVIOUS
  <2>2. {comm1, comm2} = {comm1} \cup {comm2}
    OBVIOUS
  <2>3. uses \in SUBSET UseSet
    BY <2>1, CommUse
  <2>4. right <=> Right({comm1}) /\ Right({comm2})
    BY <2>2, RightOfUnion
  <2>5. AllValid(uses) <=> AllValid({Use("Comm", Comm(comm1))}) /\ AllValid({Use("Comm", Comm(comm2))})
    BY <2>1, ValidUnion
  <2> HIDE DEF uses
  <2> QED BY <2>3, <2>4, <2>5, CommUse, RightIsBoolean
<1>3. \A n \in DOMAIN MPI_COMPARE : result(n) \in Int
  BY ResultsAreNumbers, NumbersAssumption
<1>6. NumbersAlike => \A n \in DOMAIN MPI_COMPARE : result(n) = VAPAA_MPI_COMPARE[n]
  BY ResultsAlike
<1>4. Running /\ UNCHANGED <<library, var, holds>>
  BY <1>1 DEF C_MPI_Comm_compare, Comparison
<1>5. \E n \in DOMAIN MPI_COMPARE :
        \/ Refusal(right, uses)
        \/ Stopped("result", right)
        \/ ReturnsCode("SUCCESS", MPI_SUCCESS, right, result(n), VAPAA_MPI_COMPARE[n])
  <2>1. DOMAIN MPI_COMPARE # {}
    BY NumbersAssumption DEF VAPAA_MPI_COMPARE
  <2> QED BY <1>1, <2>1 DEF C_MPI_Comm_compare, Comparison
<1> HIDE DEF uses, right, result
<1> QED BY <1>2, <1>3, <1>4, <1>5, <1>6, ComparedSafe

\* A nonblocking duplication stores two handles.
LEMMA IdupSafe ==
  ASSUME IInv, NEW comm, NEW c \in Targets("Comm"), NEW r \in Targets("Request"),
         NEW uses \in SUBSET UseSet, NEW right \in BOOLEAN, right => AllValid(uses),
         AllValid(uses) => Valid("Comm", Comm(comm)), Idup(comm, uses, right, c, r)
  PROVE  IInv'
<1>0. Running /\ starter # "none"
  BY DEF Idup, Running, IInv, ReportOK
<1>1. /\ c \in Vars /\ r \in Vars /\ ClassOf[c] = "Comm" /\ ClassOf[r] = "Request" /\ c # r
      /\ holds[c] # "object" /\ holds[r] # "object"
  BY TargetsAreFree
<1>2. "Comm" \in Classes /\ "Request" \in Classes
  BY DEF Classes
<1>3. CASE /\ Refusal(right, uses)
           /\ var' = [var EXCEPT ![c] = Null["Comm"], ![r] = Null["Request"]]
           /\ holds' = [holds EXCEPT ![c] = "null", ![r] = "null"]
           /\ UNCHANGED library
  <2>1. /\ Null["Comm"] \in Int /\ Null["Comm"] \notin Ids
        /\ Null["Request"] \in Int /\ Null["Request"] \notin Ids
    BY <1>2, NullIsNoId
  <2>2. var' \in [Vars -> Int] /\ holds' \in [Vars -> {"object", "null", "unknown"}]
    BY <1>1, <1>3, <2>1 DEF IInv, StateOK
  <2>3. /\ \A w \in Vars \ {c, r} : var'[w] = var[w] /\ holds'[w] = holds[w]
        /\ holds'[c] = "null" /\ holds'[r] = "null" /\ var'[c] \notin Ids /\ var'[r] \notin Ids
    BY <1>1, <1>3, <2>1 DEF IInv, StateOK
  <2>4. UNCHANGED <<objects, handler, level>>
    BY <1>3 DEF library
  <2>5. HandlesOwnObject'
    BY <2>3, <2>4 DEF IInv, StateOK, HandlesOwnObject
  <2>6. NoObjectLost'
    BY <1>1, <2>3, <2>4 DEF IInv, StateOK, NoObjectLost
  <2>7. ReportOK' /\ starter' = starter
    BY <1>0, <1>3, RefusalReports DEF IInv
  <2>8. ErrorsHandled'
    BY <2>4, <2>7 DEF IInv, StateOK, ErrorsHandled, Inherits
  <2> QED BY <2>2, <2>4, <2>5, <2>6, <2>7, <2>8 DEF IInv, StateOK
<1>4. ASSUME AllValid(uses), Accepted(right),
             NEW i \in Ids, NEW j \in Ids, objects[i] = NoObject, objects[j] = NoObject, i # j,
             objects' = [objects EXCEPT ![i] = [NewComm(c, comm) EXCEPT !.request = r], ![j] = New(r)],
             var' = [var EXCEPT ![c] = NewHandle(i, "Comm"), ![r] = NewHandle(j, "Request")],
             holds' = [holds EXCEPT ![c] = "object", ![r] = "object"],
             UNCHANGED <<handler, level>>
      PROVE  IInv'
  <2> DEFINE o == [NewComm(c, comm) EXCEPT !.request = r]
  <2>1. o \in Known /\ o.class = "Comm" /\ o.owner = c /\ Inherits(o)
    BY <1>1, <1>4, NewCommObject DEF Known, Object, Inherits
  <2>2. New(r) \in Known /\ New(r).class = "Request" /\ New(r).owner = r
    BY <1>1, NewObject
  <2>3. i \in Int /\ j \in Int
    BY HandlesAssumption
  <2>4. objects' = [objects EXCEPT ![i] = o, ![j] = New(r)]
    BY <1>4
  <2>5. var' = [var EXCEPT ![c] = i, ![r] = j]
    BY <1>4 DEF NewHandle
  <2> HIDE DEF o
  <2>6. /\ objects' \in [Ids -> Known] /\ var' \in [Vars -> Int]
        /\ holds' \in [Vars -> {"object", "null", "unknown"}]
    BY <1>1, <1>4, <2>1, <2>2, <2>3, <2>4, <2>5 DEF IInv, StateOK
  <2>7. /\ objects'[i] = o /\ objects'[j] = New(r) /\ var'[c] = i /\ var'[r] = j
        /\ holds'[c] = "object" /\ holds'[r] = "object"
        /\ \A w \in Vars \ {c, r} : var'[w] = var[w] /\ holds'[w] = holds[w]
        /\ \A id \in Ids \ {i, j} : objects'[id] = objects[id]
    BY <1>1, <1>4, <2>4, <2>5 DEF IInv, StateOK
  <2>8. \A w \in Vars : holds[w] = "object" => var[w] \notin {i, j}
    BY <1>4, ClassNames, NothingIsNoObject DEF IInv, StateOK, HandlesOwnObject
  <2>9. HandlesOwnObject'
    <3> SUFFICES ASSUME NEW w \in Vars
                 PROVE  /\ holds'[w] = "object" =>
                             var'[w] \in Ids /\ objects'[var'[w]].class = ClassOf[w] /\ objects'[var'[w]].owner = w
                        /\ holds'[w] = "null" => var'[w] \notin Ids
      BY DEF HandlesOwnObject
    <3>1. CASE w \in {c, r}
      BY <1>1, <2>1, <2>2, <2>7, <3>1
    <3>2. CASE w \notin {c, r}
      BY <2>7, <2>8, <3>2 DEF IInv, StateOK, HandlesOwnObject
    <3> QED BY <3>1, <3>2
  <2>10. NoObjectLost'
    <3> SUFFICES ASSUME NEW id \in Ids, objects'[id] # NoObject
                 PROVE  /\ objects'[id].owner \in Vars
                        /\ holds'[objects'[id].owner] = "object" /\ var'[objects'[id].owner] = id
      BY DEF NoObjectLost
    <3>1. CASE id \in {i, j}
      BY <1>1, <2>1, <2>2, <2>7, <3>1
    <3>2. CASE id \notin {i, j}
      BY <1>1, <2>7, <3>2 DEF IInv, StateOK, NoObjectLost
    <3> QED BY <3>1, <3>2
  <2>11. ReportOK' /\ starter' = starter
    BY <1>0, <1>4, AcceptanceReports DEF IInv
  <2>12. ErrorsHandled'
    <3>1. \A id \in Ids : Inherits(objects'[id])
      BY <2>1, <2>2, <2>7 DEF IInv, StateOK, ErrorsHandled, Inherits
    <3> QED BY <1>0, <1>4, <2>11, <3>1 DEF IInv, StateOK, ErrorsHandled, Inherits
  <2> QED BY <1>4, <2>6, <2>9, <2>10, <2>11, <2>12 DEF IInv, StateOK
<1> QED BY <1>3, <1>4 DEF Idup

\* Waiting for it frees the request's object only.
LEMMA WaitSafe == ASSUME IInv, MPI_Wait PROVE IInv'
<1>1. PICK r \in Usable("Request") :
        /\ holds[r] = "object"
        /\ objects' = [id \in Ids |->
             IF id = var[r] THEN NoObject
             ELSE IF objects[id].request = r THEN [objects[id] EXCEPT !.request = "none"]
             ELSE objects[id]]
        /\ Store(r, Null["Request"], "null")
  BY DEF MPI_Wait
<1>2. r \in Vars /\ "Request" \in Classes
  BY UsableAreArgs DEF Classes
<1>3. var' = [var EXCEPT ![r] = Null["Request"]] /\ holds' = [holds EXCEPT ![r] = "null"]
  BY <1>1 DEF Store
<1>4. Null["Request"] \in Int /\ Null["Request"] \notin Ids
  BY <1>2, NullIsNoId
<1>5. var[r] \in Ids /\ objects[var[r]].owner = r
  BY <1>1, <1>2 DEF IInv, StateOK, HandlesOwnObject
<1>6. \A id \in Ids \ {var[r]} :
        /\ objects'[id] \in Known
        /\ objects'[id].class = objects[id].class /\ objects'[id].owner = objects[id].owner
        /\ objects'[id].errors = objects[id].errors
        /\ objects[id] = NoObject => objects'[id] = NoObject
  <2> TAKE id \in Ids \ {var[r]}
  <2>1. CASE objects[id].request = r
    <3>1. objects'[id] = [objects[id] EXCEPT !.request = "none"]
      BY <1>1, <2>1
    <3>2. objects[id] # NoObject
      BY <1>2, <2>1, ClassNames, NothingIsNoObject
    <3> QED BY <3>1, <3>2 DEF IInv, StateOK, Known, Object
  <2>2. CASE objects[id].request # r
    BY <1>1, <2>2 DEF IInv, StateOK
  <2> QED BY <2>1, <2>2
<1>7. objects'[var[r]] = NoObject
  BY <1>1, <1>5
<1>8. /\ objects' \in [Ids -> Known] /\ var' \in [Vars -> Int]
      /\ holds' \in [Vars -> {"object", "null", "unknown"}]
  <2>1. objects' = [id \in Ids |-> objects'[id]]
    BY <1>1
  <2>2. \A id \in Ids : objects'[id] \in Known
    BY <1>6, <1>7, NothingIsNoObject
  <2>3. objects' \in [Ids -> Known]
    BY <2>1, <2>2
  <2> QED BY <1>2, <1>3, <1>4, <2>3 DEF IInv, StateOK
<1>9. HandlesOwnObject'
  <2> SUFFICES ASSUME NEW w \in Vars
               PROVE  /\ holds'[w] = "object" =>
                           var'[w] \in Ids /\ objects'[var'[w]].class = ClassOf[w] /\ objects'[var'[w]].owner = w
                      /\ holds'[w] = "null" => var'[w] \notin Ids
    BY DEF HandlesOwnObject
  <2>1. CASE w = r
    BY <1>3, <1>4, <2>1 DEF IInv, StateOK
  <2>2. CASE w # r
    BY <1>3, <1>5, <1>6, <2>2 DEF IInv, StateOK, HandlesOwnObject
  <2> QED BY <2>1, <2>2
<1>10. NoObjectLost'
  <2> SUFFICES ASSUME NEW id \in Ids, objects'[id] # NoObject
               PROVE  /\ objects'[id].owner \in Vars
                      /\ holds'[objects'[id].owner] = "object" /\ var'[objects'[id].owner] = id
    BY DEF NoObjectLost
  <2>1. id # var[r] /\ objects[id] # NoObject /\ objects'[id].owner = objects[id].owner
    BY <1>6, <1>7
  <2>2. objects[id].owner \in Vars /\ holds[objects[id].owner] = "object" /\ var[objects[id].owner] = id
    BY <2>1 DEF IInv, StateOK, NoObjectLost
  <2>3. objects[id].owner # r
    BY <2>1, <2>2
  <2> QED BY <1>3, <2>1, <2>2, <2>3 DEF IInv, StateOK
<1>11. ReportOK' /\ starter' = starter /\ UNCHANGED <<handler, level>>
  <2>1. Running /\ Accepted(TRUE) /\ UNCHANGED <<handler, level>>
    BY DEF MPI_Wait
  <2> QED BY <2>1, AcceptanceReports DEF IInv
<1>12. ErrorsHandled'
  <2>1. \A id \in Ids : Inherits(objects[id]) => Inherits(objects[id])'
    BY <1>6, <1>7, <1>11 DEF Inherits, NoObject
  <2>2. starter # "none"
    BY DEF MPI_Wait, Running, IInv, ReportOK
  <2> QED BY <1>11, <2>1, <2>2 DEF IInv, StateOK, ErrorsHandled
<1> QED BY <1>8, <1>9, <1>10, <1>11, <1>12 DEF IInv, StateOK

LEMMA MaybeCommSafe ==
  ASSUME IInv, NEW comm, NEW newcomm \in Targets("Comm"), NEW uses \in SUBSET UseSet,
         NEW right \in BOOLEAN, right => AllValid(uses), AllValid(uses) => Valid("Comm", Comm(comm)),
         CreateMaybe(newcomm, uses, right, NewComm(newcomm, comm))
  PROVE  IInv'
BY TargetsAreFree, NewCommObject, CreateMaybeSafe

LEMMA SplitSafe ==
  ASSUME IInv, NEW comm \in Args("Comm"), NEW color, NEW newcomm \in Targets("Comm"),
         C_MPI_Comm_split(comm, color, newcomm)
  PROVE  IInv'
<1>1. CASE CommOf(comm, newcomm)
  BY <1>1, CommOfSafe
<1>2. CASE Running /\ Refusal(Right({comm}), {Use("Comm", Comm(comm))}) /\ GivesNothing(newcomm)
  BY <1>2, CommUse, RefusalReports, GivesNothingSafe, TargetsAreFree DEF IInv
<1>3. CASE Running /\ Refused("ARG", Right({comm}), {Use("Comm", Comm(comm))}) /\ GivesNothing(newcomm)
  <2>1. "ARG" \in DOMAIN VAPAA_MPI_ERR /\ "ARG" \notin HandleErrors
    BY DEF VAPAA_MPI_ERR, HandleErrors, NameOfClass, Classes
  <2>2. ReportOK' /\ starter' = starter
    BY <1>3, <2>1, CommUse, RefusedReports DEF IInv
  <2> QED BY <1>3, <2>2, GivesNothingSafe, TargetsAreFree DEF IInv
<1> QED BY <1>1, <1>2, <1>3 DEF C_MPI_Comm_split

LEMMA CommFreeSafe == ASSUME IInv, MPI_Comm_free_f08 PROVE IInv'
<1>1. PICK comm \in Usable("Comm") : Free(comm, Comm(comm))
  BY DEF MPI_Comm_free_f08, C_MPI_Comm_free
<1>2. "Comm" \in Classes
  BY DEF Classes
<1>3. comm \in Args("Comm") /\ HandleOf(comm) = var[comm] /\ var[comm] \in Int
  BY <1>2, UsableAreArgs, ArgsAreKnown
<1> QED BY <1>1, <1>2, <1>3, Conversions, FreeSafe DEF Comm

LEMMA CommsSafe == ASSUME IInv, CommsNext PROVE IInv'
<1>1. CASE MPI_Comm_rank_f08 \/ MPI_Comm_size_f08 \/ MPI_Cart_coords_f08
  BY <1>1, OnCommSafe DEF MPI_Comm_rank_f08, C_MPI_Comm_rank, MPI_Comm_size_f08, C_MPI_Comm_size,
                          MPI_Cart_coords_f08, C_MPI_Cart_coords
<1>2. CASE MPI_Dims_create_f08
  BY <1>2, QuerySafe DEF MPI_Dims_create_f08, C_MPI_Dims_create, AllValid
<1>3. CASE MPI_Comm_compare_f08
  BY <1>3, CompareSafe
<1>4. CASE MPI_Comm_dup_f08
  BY <1>4, CommOfSafe DEF MPI_Comm_dup_f08, C_MPI_Comm_dup
<1>5. CASE MPI_Comm_dup_with_info_f08
  <2>1. PICK comm \in Args("Comm"), info \in Args("Info"), newcomm \in Targets("Comm") :
          C_MPI_Comm_dup_with_info(comm, info, newcomm)
    BY <1>5 DEF MPI_Comm_dup_with_info_f08
  <2> QED BY <2>1, CommInfoUse, TargetsAreFree, NewCommObject, CreateSafe DEF C_MPI_Comm_dup_with_info
<1>6. CASE MPI_Comm_idup_f08
  <2>1. PICK comm \in Args("Comm"), newcomm \in Targets("Comm"), request \in Targets("Request") :
          C_MPI_Comm_idup(comm, newcomm, request)
    BY <1>6 DEF MPI_Comm_idup_f08
  <2> QED BY <2>1, CommUse, IdupSafe DEF C_MPI_Comm_idup
<1>7. CASE MPI_Comm_idup_with_info_f08
  <2>1. PICK comm \in Args("Comm"), info \in Args("Info"), newcomm \in Targets("Comm"),
             request \in Targets("Request") : C_MPI_Comm_idup_with_info(comm, info, newcomm, request)
    BY <1>7 DEF MPI_Comm_idup_with_info_f08
  <2> QED BY <2>1, CommInfoUse, IdupSafe DEF C_MPI_Comm_idup_with_info
<1>8. CASE MPI_Wait
  BY <1>8, WaitSafe
<1>9. CASE MPI_Comm_create_f08
  <2>1. PICK comm \in Args("Comm"), group \in Args("Group"), newcomm \in Targets("Comm") :
          C_MPI_Comm_create(comm, group, newcomm)
    BY <1>9 DEF MPI_Comm_create_f08
  <2> QED BY <2>1, CommGroupUse, MaybeCommSafe DEF C_MPI_Comm_create
<1>10. CASE MPI_Comm_create_group_f08
  <2>1. PICK comm \in Args("Comm"), group \in Args("Group"), newcomm \in Targets("Comm") :
          C_MPI_Comm_create_group(comm, group, newcomm)
    BY <1>10 DEF MPI_Comm_create_group_f08
  <2> QED BY <2>1, CommGroupUse, MaybeCommSafe DEF C_MPI_Comm_create_group
<1>11. CASE MPI_Comm_split_f08
  BY <1>11, SplitSafe DEF MPI_Comm_split_f08
<1>12. CASE MPI_Comm_split_type_f08
  <2>1. PICK comm \in Args("Comm"), info \in Args("Info"), newcomm \in Targets("Comm"),
             type \in {SplitTypes[t] : t \in DOMAIN SplitTypes} \cup {VAPAA_MPI_UNDEFINED} :
          C_MPI_Comm_split_type(comm, type, info, newcomm)
    BY <1>12 DEF MPI_Comm_split_type_f08
  <2>2. CASE CreateMaybe(newcomm, CommWithInfo(comm, info), Right({comm} \cup Optional(info)),
                         NewComm(newcomm, comm))
    BY <2>2, CommInfoUse, MaybeCommSafe
  <2>3. CASE Running /\ Stopped("argument", Right({comm})) /\ UNCHANGED <<library, var, holds>>
    BY <2>3, CommUse, StopSafe DEF Reasons
  <2> QED BY <2>1, <2>2, <2>3 DEF C_MPI_Comm_split_type
<1>13. CASE MPI_Cart_create_f08
  <2>1. PICK comm \in Args("Comm"), newcomm \in Targets("Comm") : C_MPI_Cart_create(comm, newcomm)
    BY <1>13 DEF MPI_Cart_create_f08
  <2> QED BY <2>1, CommUse, MaybeCommSafe DEF C_MPI_Cart_create
<1>14. CASE MPI_Comm_free_f08
  BY <1>14, CommFreeSafe
<1> QED BY <1>1, <1>2, <1>3, <1>4, <1>5, <1>6, <1>7, <1>8, <1>9, <1>10, <1>11, <1>12, <1>13, <1>14
        DEF CommsNext
-----------------------------------------------------------------------------
(* Groups and info objects. *)

LEMMA TwoGroupsUse ==
  ASSUME IInv, NEW a \in Args("Group"), NEW b \in Args("Group")
  PROVE  /\ TwoGroups(a, b) \in SUBSET UseSet /\ Right({a, b}) \in BOOLEAN
         /\ Right({a, b}) => AllValid(TwoGroups(a, b))
<1>1. {a, b} = {a} \cup {b} /\ TwoGroups(a, b) = {Use("Group", Group(a))} \cup {Use("Group", Group(b))}
  BY DEF TwoGroups
<1>2. Right({a, b}) <=> Right({a}) /\ Right({b})
  BY <1>1, RightOfUnion
<1>3. AllValid(TwoGroups(a, b)) <=> AllValid({Use("Group", Group(a))}) /\ AllValid({Use("Group", Group(b))})
  BY <1>1, ValidUnion
<1> QED BY <1>1, <1>2, <1>3, GroupArgument, ValidUse, RightIsBoolean

LEMMA GroupOfSafe ==
  ASSUME IInv, NEW group \in Args("Group"), NEW newgroup \in Targets("Group"), GroupOf(group, newgroup)
  PROVE  IInv'
<1>1. /\ {Use("Group", Group(group))} \in SUBSET UseSet /\ Right({group}) \in BOOLEAN
      /\ Right({group}) => AllValid({Use("Group", Group(group))})
  BY GroupArgument, ValidUse, RightIsBoolean
<1> QED BY <1>1, NewSafe DEF GroupOf

LEMMA GroupOfTwoSafe ==
  ASSUME IInv, NEW group1 \in Args("Group"), NEW group2 \in Args("Group"),
         NEW newgroup \in Targets("Group"), GroupOfTwo(group1, group2, newgroup)
  PROVE  IInv'
BY TwoGroupsUse, NewSafe DEF GroupOfTwo

LEMMA GroupCompareSafe == ASSUME IInv, MPI_Group_compare_f08 PROVE IInv'
<1>1. PICK group1, group2 \in Args("Group") : C_MPI_Group_compare(group1, group2)
  BY DEF MPI_Group_compare_f08
<1> DEFINE uses == {Use("Group", Group(group1)), Use("Group", Group(group2))}
           right == Right({group1, group2})
           result(n) == C_MPI_COMPARE_RESULT_F2C(MPI_COMPARE[n])
<1>2. uses \in SUBSET UseSet /\ (right => AllValid(uses)) /\ right \in BOOLEAN
  BY TwoGroupsUse DEF TwoGroups
<1>3. \A n \in DOMAIN MPI_COMPARE : result(n) \in Int
  BY ResultsAreNumbers, NumbersAssumption
<1>6. NumbersAlike => \A n \in DOMAIN MPI_COMPARE : result(n) = VAPAA_MPI_COMPARE[n]
  BY ResultsAlike
<1>4. Running /\ UNCHANGED <<library, var, holds>>
  BY <1>1 DEF C_MPI_Group_compare, Comparison
<1>5. \E n \in DOMAIN MPI_COMPARE :
        \/ Refusal(right, uses)
        \/ Stopped("result", right)
        \/ ReturnsCode("SUCCESS", MPI_SUCCESS, right, result(n), VAPAA_MPI_COMPARE[n])
  <2>1. DOMAIN MPI_COMPARE # {}
    BY NumbersAssumption DEF VAPAA_MPI_COMPARE
  <2> QED BY <1>1, <2>1 DEF C_MPI_Group_compare, Comparison
<1> HIDE DEF uses, right, result
<1> QED BY <1>2, <1>3, <1>4, <1>5, <1>6, ComparedSafe

LEMMA GroupFreeSafe == ASSUME IInv, MPI_Group_free_f08 PROVE IInv'
<1>1. PICK group \in Usable("Group") : Free(group, Group(group))
  BY DEF MPI_Group_free_f08, C_MPI_Group_free
<1>2. "Group" \in Classes
  BY DEF Classes
<1>3. group \in Args("Group") /\ HandleOf(group) = var[group] /\ var[group] \in Int
  BY <1>2, UsableAreArgs, ArgsAreKnown
<1> QED BY <1>1, <1>2, <1>3, Conversions, FreeSafe DEF Group

LEMMA GroupsSafe == ASSUME IInv, GroupsNext PROVE IInv'
<1>1. CASE MPI_Group_rank_f08 \/ MPI_Group_size_f08
  BY <1>1, OnGroupSafe DEF MPI_Group_rank_f08, C_MPI_Group_rank, MPI_Group_size_f08, C_MPI_Group_size
<1>2. CASE MPI_Group_translate_ranks_f08
  BY <1>2, TwoGroupsUse, QuerySafe DEF MPI_Group_translate_ranks_f08, C_MPI_Group_translate_ranks
<1>3. CASE MPI_Group_compare_f08
  BY <1>3, GroupCompareSafe
<1>4. CASE Comm_group
  BY <1>4, CommUse, NewSafe DEF Comm_group, C_MPI_Comm_group
<1>5. CASE MPI_Group_union_f08 \/ MPI_Group_intersection_f08 \/ MPI_Group_difference_f08
  BY <1>5, GroupOfTwoSafe DEF MPI_Group_union_f08, C_MPI_Group_union, MPI_Group_intersection_f08,
     C_MPI_Group_intersection, MPI_Group_difference_f08, C_MPI_Group_difference
<1>6. CASE MPI_Group_incl_f08 \/ MPI_Group_excl_f08
  BY <1>6, GroupOfSafe DEF MPI_Group_incl_f08, C_MPI_Group_incl, MPI_Group_excl_f08, C_MPI_Group_excl
<1>7. CASE MPI_Group_free_f08
  BY <1>7, GroupFreeSafe
<1> QED BY <1>1, <1>2, <1>3, <1>4, <1>5, <1>6, <1>7 DEF GroupsNext

LEMMA InfosSafe == ASSUME IInv, InfosNext PROVE IInv'
<1>1. CASE MPI_Info_create_f08
  BY <1>1, NewSafe DEF MPI_Info_create_f08, C_MPI_Info_create, AllValid
<1>2. CASE MPI_Info_dup_f08
  <2>1. PICK info \in Usable("Info"), newinfo \in Targets("Info") : C_MPI_Info_dup(info, newinfo)
    BY <1>2 DEF MPI_Info_dup_f08
  <2>2. /\ {Use("Info", Info(info))} \in SUBSET UseSet /\ Right({info}) \in BOOLEAN
        /\ Right({info}) => AllValid({Use("Info", Info(info))})
    BY InfoArgument, UsableAreArgs, ValidUse, RightIsBoolean
  <2> QED BY <2>1, <2>2, NewSafe DEF C_MPI_Info_dup
<1>3. CASE MPI_Info_free_f08
  <2>1. PICK info \in Usable("Info") : Free(info, Info(info))
    BY <1>3 DEF MPI_Info_free_f08, C_MPI_Info_free
  <2>2. "Info" \in Classes
    BY DEF Classes
  <2>3. info \in Args("Info") /\ HandleOf(info) = var[info] /\ var[info] \in Int
    BY <2>2, UsableAreArgs, ArgsAreKnown
  <2> QED BY <2>1, <2>2, <2>3, Conversions, FreeSafe DEF Info
<1>4. CASE MPI_Info_get_nkeys_f08 \/ MPI_Info_delete_f08 \/ MPI_Info_delete_f08ts
  BY <1>4, OnInfoSafe DEF MPI_Info_get_nkeys_f08, C_MPI_Info_get_nkeys, MPI_Info_delete_f08,
     C_MPI_Info_delete, MPI_Info_delete_f08ts, CFI_MPI_Info_delete
<1>5. CASE MPI_Info_get_nthkey_f08 \/ MPI_Info_get_nthkey_f08ts
  BY <1>5, OnInfoSafe DEF MPI_Info_get_nthkey_f08, C_MPI_Info_get_nthkey, MPI_Info_get_nthkey_f08ts,
     CFI_MPI_Info_get_nthkey
<1>6. CASE MPI_Info_get_string_f08 \/ MPI_Info_get_string_f08ts
  BY <1>6, OnInfoSafe DEF MPI_Info_get_string_f08, C_MPI_Info_get_string, MPI_Info_get_string_f08ts,
     CFI_MPI_Info_get_string
<1>7. CASE MPI_Info_set_f08 \/ MPI_Info_set_f08ts
  BY <1>7, OnInfoSafe DEF MPI_Info_set_f08, C_MPI_Info_set, MPI_Info_set_f08ts, CFI_MPI_Info_set
<1> QED BY <1>1, <1>2, <1>3, <1>4, <1>5, <1>6, <1>7 DEF InfosNext
-----------------------------------------------------------------------------
(* Datatypes and operations. *)

LEMMA TypeUse ==
  ASSUME IInv, NEW a \in Args("Type")
  PROVE  /\ {Use("Type", Type(a))} \in SUBSET UseSet /\ Right({a}) \in BOOLEAN
         /\ Right({a}) => AllValid({Use("Type", Type(a))})
BY TypeArgument, ValidUse, RightIsBoolean

LEMMA IntegerUse ==
  ASSUME IInv, NEW a \in Args("Type"), NEW routine, routine # "none", TakesInteger(routine, a)
  PROVE  /\ {Use("Type", HandleOf(a))} \in SUBSET UseSet /\ Right({a}) \in BOOLEAN
         /\ Right({a}) /\ predefined' = "none" => AllValid({Use("Type", HandleOf(a))})
BY IntegerArgument, ValidUse, RightIsBoolean

LEMMA TypeOfSafe ==
  ASSUME IInv, NEW oldtype \in Args("Type"), NEW newtype \in Targets("Type"), TypeOf(oldtype, newtype)
  PROVE  IInv'
BY TypeUse, NewSafe DEF TypeOf

LEMMA TypeDupSafe == ASSUME IInv, MPI_Type_dup_f08 PROVE IInv'
<1>1. PICK oldtype \in Args("Type"), newtype \in Targets("Type") : C_MPI_Type_dup(oldtype, newtype)
  BY DEF MPI_Type_dup_f08
<1> DEFINE uses == {Use("Type", HandleOf(oldtype))}
<1>2. newtype \in Vars /\ holds[newtype] # "object" /\ ClassOf[newtype] = "Type" /\ "Type" \in Classes
  BY TargetsAreFree DEF Classes
<1>0. Running /\ starter # "none"
  BY <1>1 DEF C_MPI_Type_dup, Running, IInv, ReportOK
<1>5. /\ uses \in SUBSET UseSet /\ Right({oldtype}) \in BOOLEAN
      /\ Right({oldtype}) /\ predefined' = "none" => AllValid(uses)
  BY <1>1, IntegerUse DEF C_MPI_Type_dup
<1>3. CASE /\ Refusal(Right({oldtype}), uses) /\ UNCHANGED library
           /\ \E handle \in Ids \cup {Null["Type"]} : Store(newtype, handle, "unknown")
  <2>1. PICK handle \in Ids \cup {Null["Type"]} : Store(newtype, handle, "unknown")
    BY <1>3
  <2>2. handle \in Int
    BY <1>2, NullIsNoId, HandlesAssumption
  <2>3. ReportOK' /\ starter' = starter
    BY <1>0, <1>3, <1>5, RefusalReports DEF IInv
  <2>4. StateOK'
    BY <1>2, <1>3, <2>1, <2>2, <2>3, StoreSafe DEF IInv
  <2> QED BY <2>3, <2>4 DEF IInv
<1>4. CASE Accepted(Right({oldtype})) /\ GivesObject(newtype, New(newtype))
  <2>1. New(newtype) \in Known /\ New(newtype).class = "Type" /\ New(newtype).owner = newtype
    BY <1>2, NewObject
  <2> QED BY <1>0, <1>2, <1>4, <1>5, <2>1, AcceptanceReports, GivesObjectSafe DEF IInv, Inherits
<1> QED BY <1>1, <1>3, <1>4 DEF C_MPI_Type_dup

\* What frees an object whose integer the code takes for the library's.
LEMMA PlainFreeSafe ==
  ASSUME IInv, NEW k \in Classes, NEW v \in Usable(k), Free(v, HandleOf(v)) PROVE IInv'
<1>1. v \in Args(k) /\ HandleOf(v) = var[v] /\ var[v] \in Int
  BY UsableAreArgs, ArgsAreKnown
<1> QED BY <1>1, FreeSafe

LEMMA TypesSafe == ASSUME IInv, TypesNext PROVE IInv'
<1>0. "Type" \in Classes /\ "Op" \in Classes
  BY DEF Classes
<1>1. CASE MPI_Type_get_name_f08 \/ MPI_Type_get_name_f08ts
  BY <1>1, TypeUse, QuerySafe
     DEF MPI_Type_get_name_f08, C_MPI_Type_get_name, MPI_Type_get_name_f08ts, CFI_MPI_Type_get_name
<1>2. CASE MPI_Type_set_name_f08 \/ MPI_Type_set_name_f08ts
  BY <1>2, TypeUse, QuerySafe
     DEF MPI_Type_set_name_f08, C_MPI_Type_set_name, MPI_Type_set_name_f08ts, CFI_MPI_Type_set_name
<1>3. CASE MPI_Type_free_f08
  BY <1>0, <1>3, PlainFreeSafe DEF MPI_Type_free_f08, C_MPI_Type_free
<1>4. CASE MPI_Type_contiguous_f08 \/ MPI_Type_vector_f08
  BY <1>4, TypeOfSafe
     DEF MPI_Type_contiguous_f08, C_MPI_Type_contiguous, MPI_Type_vector_f08, C_MPI_Type_vector
<1>5. CASE MPI_Type_create_subarray_f08
  <2>1. PICK order \in {VAPAA_MPI_ORDER_C, VAPAA_MPI_ORDER_FORTRAN, 0}, oldtype \in Args("Type"),
             newtype \in Targets("Type") : C_MPI_Type_create_subarray(order, oldtype, newtype)
    BY <1>5 DEF MPI_Type_create_subarray_f08
  <2>2. CASE TypeOf(oldtype, newtype)
    BY <2>2, TypeOfSafe
  <2>3. CASE Running /\ Stopped("argument", Right({oldtype})) /\ UNCHANGED <<library, var, holds>>
    BY <2>3, TypeUse, StopSafe DEF Reasons
  <2> QED BY <2>1, <2>2, <2>3 DEF C_MPI_Type_create_subarray
<1>6. CASE MPI_Op_create_f08
  BY <1>6, NewSafe DEF MPI_Op_create_f08, C_MPI_Op_create, AllValid
<1>7. CASE MPI_Op_free_f08
  BY <1>0, <1>7, PlainFreeSafe DEF MPI_Op_free_f08, C_MPI_Op_free
<1> QED BY <1>1, <1>2, <1>3, <1>4, <1>5, <1>6, <1>7 DEF TypesNext

LEMMA IntegersSafe == ASSUME IInv, IntegersNext PROVE IInv'
<1>1. ASSUME NEW type \in Args("Type"), C_MPI_Type_commit(type) PROVE IInv'
  BY <1>1, IntegerUse, QuerySafe DEF C_MPI_Type_commit
<1>2. ASSUME NEW type \in Args("Type"), C_MPI_Type_size(type) PROVE IInv'
  BY <1>2, IntegerUse, QuerySafe DEF C_MPI_Type_size
<1> QED BY <1>1, <1>2, TypeDupSafe DEF IntegersNext, MPI_Type_commit_f08, MPI_Type_size_f08
-----------------------------------------------------------------------------
(* Files. *)

LEMMA FileNameUse ==
  {FileName} \in SUBSET UseSet /\ AllValid({FileName})
<1>1. Valid("FileName", 0)
  BY DEF Valid, Predefined
<1> QED BY <1>1, ValidUse DEF FileName, UseSet

LEMMA OpenUse ==
  ASSUME IInv, NEW a \in Args("Comm"), NEW info \in Args("Info")
  PROVE  /\ CommWithInfo(a, info) \cup {FileName} \in SUBSET UseSet
         /\ Right({a} \cup Optional(info)) => AllValid(CommWithInfo(a, info) \cup {FileName})
BY CommInfoUse, FileNameUse, ValidUnion

LEMMA FileUse ==
  ASSUME IInv, NEW file \in Usable("File")
  PROVE  /\ {Use("File", File(file))} \in SUBSET UseSet /\ Right({file}) \in BOOLEAN
         /\ Right({file}) => AllValid({Use("File", File(file))})
BY FileArgument, ValidUse, RightIsBoolean

\* The constants of modes are different powers of two.
LEMMA ModeArrives ==
  ASSUME NEW asked \in Modes PROVE C_MPI_TRANSLATE_AMODE(ModesAdded(asked)) = asked
<1> DEFINE b(n) == IF n \in asked THEN 1 ELSE 0
           names == {"APPEND", "CREATE", "DELETE_ON_CLOSE", "EXCL", "RDONLY", "RDWR", "SEQUENTIAL",
                     "UNIQUE_OPEN", "WRONLY"}
           sum == ModesAdded(asked)
<1>1. \A n : b(n) \in {0, 1} /\ (b(n) = 1 <=> n \in asked)
  OBVIOUS
<1>2. /\ Bit("APPEND", asked) = b("APPEND") /\ Bit("CREATE", asked) = 2 * b("CREATE")
      /\ Bit("DELETE_ON_CLOSE", asked) = 4 * b("DELETE_ON_CLOSE") /\ Bit("EXCL", asked) = 8 * b("EXCL")
      /\ Bit("RDONLY", asked) = 16 * b("RDONLY") /\ Bit("RDWR", asked) = 32 * b("RDWR")
      /\ Bit("SEQUENTIAL", asked) = 64 * b("SEQUENTIAL")
      /\ Bit("UNIQUE_OPEN", asked) = 128 * b("UNIQUE_OPEN") /\ Bit("WRONLY", asked) = 256 * b("WRONLY")
  BY DEF Bit, VAPAA_MPI_MODE
<1> HIDE DEF b
<1>3. sum = b("APPEND") + 2 * b("CREATE") + 4 * b("DELETE_ON_CLOSE") + 8 * b("EXCL") + 16 * b("RDONLY")
            + 32 * b("RDWR") + 64 * b("SEQUENTIAL") + 128 * b("UNIQUE_OPEN") + 256 * b("WRONLY")
  BY <1>2 DEF ModesAdded
<1>4. sum \in Int
  BY <1>1, <1>3
<1> HIDE DEF sum
<1>5. /\ (sum \div 1) % 2 = b("APPEND") /\ (sum \div 2) % 2 = b("CREATE")
      /\ (sum \div 4) % 2 = b("DELETE_ON_CLOSE") /\ (sum \div 8) % 2 = b("EXCL")
      /\ (sum \div 16) % 2 = b("RDONLY") /\ (sum \div 32) % 2 = b("RDWR")
      /\ (sum \div 64) % 2 = b("SEQUENTIAL") /\ (sum \div 128) % 2 = b("UNIQUE_OPEN")
      /\ (sum \div 256) % 2 = b("WRONLY")
  <2> DEFINE a1 == b("APPEND")
             b1 == b("CREATE")
             c1 == b("DELETE_ON_CLOSE")
             d1 == b("EXCL")
             e1 == b("RDONLY")
             f1 == b("RDWR")
             g1 == b("SEQUENTIAL")
             h1 == b("UNIQUE_OPEN")
             i1 == b("WRONLY")
  <2>0. /\ a1 \in {0, 1} /\ b1 \in {0, 1} /\ c1 \in {0, 1} /\ d1 \in {0, 1} /\ e1 \in {0, 1}
        /\ f1 \in {0, 1} /\ g1 \in {0, 1} /\ h1 \in {0, 1} /\ i1 \in {0, 1}
        /\ sum \in Int
        /\ sum = a1 + 2 * b1 + 4 * c1 + 8 * d1 + 16 * e1 + 32 * f1 + 64 * g1 + 128 * h1 + 256 * i1
    BY <1>1, <1>3, <1>4
  <2> HIDE DEF a1, b1, c1, d1, e1, f1, g1, h1, i1
  <2>1. sum \div 1 = sum
    BY <2>0
  <2>2. sum \div 2 = b1 + 2 * c1 + 4 * d1 + 8 * e1 + 16 * f1 + 32 * g1 + 64 * h1 + 128 * i1
    BY <2>0
  <2>3. sum \div 4 = c1 + 2 * d1 + 4 * e1 + 8 * f1 + 16 * g1 + 32 * h1 + 64 * i1
    BY <2>0
  <2>4. sum \div 8 = d1 + 2 * e1 + 4 * f1 + 8 * g1 + 16 * h1 + 32 * i1
    BY <2>0
  <2>5. sum \div 16 = e1 + 2 * f1 + 4 * g1 + 8 * h1 + 16 * i1
    BY <2>0
  <2>6. sum \div 32 = f1 + 2 * g1 + 4 * h1 + 8 * i1
    BY <2>0
  <2>7. sum \div 64 = g1 + 2 * h1 + 4 * i1
    BY <2>0
  <2>8. sum \div 128 = h1 + 2 * i1
    BY <2>0
  <2>9. sum \div 256 = i1
    BY <2>0
  <2>10. (sum \div 1) % 2 = a1 /\ (sum \div 2) % 2 = b1 /\ (sum \div 4) % 2 = c1
    BY <2>1, <2>2, <2>3, <2>0
  <2>11. (sum \div 8) % 2 = d1 /\ (sum \div 16) % 2 = e1 /\ (sum \div 32) % 2 = f1
    BY <2>4, <2>5, <2>6, <2>0
  <2>12. (sum \div 64) % 2 = g1 /\ (sum \div 128) % 2 = h1 /\ (sum \div 256) % 2 = i1
    BY <2>7, <2>8, <2>9, <2>0
  <2> QED BY <2>10, <2>11, <2>12 DEF a1, b1, c1, d1, e1, f1, g1, h1, i1
<1>6. DOMAIN VAPAA_MPI_MODE = names
  BY DEF VAPAA_MPI_MODE
<1>7. \A n \in names : (sum \div VAPAA_MPI_MODE[n]) % 2 = 1 <=> n \in asked
  BY <1>1, <1>5 DEF VAPAA_MPI_MODE
<1>8. asked \subseteq names
  BY <1>6, ModesAssumption
<1>9. C_MPI_TRANSLATE_AMODE(sum) = {n \in names : (sum \div VAPAA_MPI_MODE[n]) % 2 = 1}
  BY <1>6 DEF C_MPI_TRANSLATE_AMODE
<1> HIDE DEF names
<1>10. C_MPI_TRANSLATE_AMODE(sum) = asked
  BY <1>7, <1>8, <1>9
<1> QED BY <1>10 DEF sum

LEMMA OpenSafe ==
  ASSUME IInv, NEW comm \in Args("Comm"), NEW asked \in Modes, NEW info \in Args("Info"),
         NEW file \in Targets("File"), C_MPI_File_open(comm, ModesAdded(asked), asked, info, file)
  PROVE  IInv'
<1> DEFINE uses == CommWithInfo(comm, info) \cup {FileName}
           right == Right({comm} \cup Optional(info))
           object == [New(file) EXCEPT !.mode = asked, !.asked = asked]
<1>1. C_MPI_TRANSLATE_AMODE(ModesAdded(asked)) = asked /\ asked \subseteq DOMAIN VAPAA_MPI_MODE
  BY ModeArrives, ModesAssumption
<1>2. uses \in SUBSET UseSet /\ right \in BOOLEAN /\ (right => AllValid(uses))
  BY OpenUse, RightIsBoolean
<1>3. file \in Vars /\ holds[file] # "object" /\ ClassOf[file] = "File"
  BY TargetsAreFree
<1>4. object \in Known /\ object.class = ClassOf[file] /\ object.owner = file /\ Inherits(object)
  <2> DEFINE opened == [New(file) EXCEPT !.mode = asked]
  <2>1. New(file) \in Object /\ New(file).class = ClassOf[file] /\ New(file).owner = file
    BY <1>3, NewObject DEF Known
  <2>2. /\ opened \in Object /\ opened.class = ClassOf[file] /\ opened.owner = file
        /\ opened.mode = asked
    BY <1>1, <2>1 DEF Object
  <2>3. object = [opened EXCEPT !.asked = asked]
    OBVIOUS
  <2> HIDE DEF opened, object
  <2> QED BY <1>1, <1>3, <2>2, <2>3 DEF Known, Object, Inherits
<1>5. \/ Create(file, uses, right, object)
      \/ Running /\ GivesNothing(file) /\ Refusal(right, uses)
      \/ Running /\ GivesNothing(file) /\ ~LegalMode(asked) /\ Refused("AMODE", right /\ LegalMode(asked), uses)
  BY <1>1 DEF C_MPI_File_open
<1> HIDE DEF uses, right, object
<1>6. CASE Create(file, uses, right, object)
  BY <1>2, <1>3, <1>4, <1>6, CreateSafe
<1>7. CASE Running /\ GivesNothing(file) /\ Refusal(right, uses)
  BY <1>2, <1>3, <1>7, RefusalReports, GivesNothingSafe DEF IInv
<1>8. CASE /\ Running /\ GivesNothing(file) /\ ~LegalMode(asked)
           /\ Refused("AMODE", right /\ LegalMode(asked), uses)
  <2>1. Refused("AMODE", FALSE, uses)
    <3>1. (right /\ LegalMode(asked)) = FALSE
      BY <1>8
    <3> QED BY <1>8, <3>1
  <2>2. "AMODE" \in DOMAIN VAPAA_MPI_ERR
    BY DEF VAPAA_MPI_ERR
  <2>3. ReportOK' /\ starter' = starter
    BY <1>8, <2>1, <2>2, RefusedReports DEF IInv
  <2> QED BY <1>3, <1>8, <2>3, GivesNothingSafe DEF IInv
<1> QED BY <1>5, <1>6, <1>7, <1>8

LEMMA SetViewSafe ==
  ASSUME IInv, NEW file \in Usable("File"), NEW etype \in Args("Type"), NEW filetype \in Args("Type"),
         NEW info \in Args("Info"), C_MPI_File_set_view(file, etype, filetype, info)
  PROVE  IInv'
<1> DEFINE types == {Use("Type", Type(etype))} \cup {Use("Type", Type(filetype))}
           uses  == {Use("File", File(file)), Use("Type", Type(etype)), Use("Type", Type(filetype))}
                      \cup OptionalInfo(info)
           args  == {file, etype, filetype} \cup Optional(info)
<1>1. uses = {Use("File", File(file))} \cup (types \cup OptionalInfo(info))
  OBVIOUS
<1>2. args = {file} \cup (({etype} \cup {filetype}) \cup Optional(info))
  OBVIOUS
<1>3. Right(args) <=> Right({file}) /\ Right({etype}) /\ Right({filetype}) /\ Right(Optional(info))
  <2>1. Right({etype} \cup {filetype}) <=> Right({etype}) /\ Right({filetype})
    BY RightOfUnion
  <2>2. Right(({etype} \cup {filetype}) \cup Optional(info))
          <=> Right({etype} \cup {filetype}) /\ Right(Optional(info))
    BY RightOfUnion
  <2>3. Right(args) <=> Right({file}) /\ Right(({etype} \cup {filetype}) \cup Optional(info))
    BY <1>2, RightOfUnion
  <2> QED BY <2>1, <2>2, <2>3
<1>4. AllValid(uses) <=> /\ AllValid({Use("File", File(file))}) /\ AllValid({Use("Type", Type(etype))})
                         /\ AllValid({Use("Type", Type(filetype))}) /\ AllValid(OptionalInfo(info))
  <2>1. AllValid(types) <=> AllValid({Use("Type", Type(etype))}) /\ AllValid({Use("Type", Type(filetype))})
    BY ValidUnion
  <2>2. AllValid(types \cup OptionalInfo(info)) <=> AllValid(types) /\ AllValid(OptionalInfo(info))
    BY ValidUnion
  <2>3. AllValid(uses) <=> AllValid({Use("File", File(file))}) /\ AllValid(types \cup OptionalInfo(info))
    BY <1>1, ValidUnion
  <2> QED BY <2>1, <2>2, <2>3
<1>5. uses \in SUBSET UseSet
  BY <1>1, FileUse, TypeUse, OptionalArgument
<1>6. Query(uses, Right(args))
  BY DEF C_MPI_File_set_view
<1> HIDE DEF uses, args, types
<1>7. Right(args) \in BOOLEAN
  BY RightIsBoolean
<1>8. Right(args) => AllValid(uses)
  BY <1>3, <1>4, FileUse, TypeUse, OptionalArgument
<1> QED BY <1>5, <1>6, <1>7, <1>8, QuerySafe

LEMMA DeleteSafe ==
  ASSUME IInv, NEW info \in Args("Info"), C_MPI_File_delete(info) PROVE IInv'
<1>1. {FileName} \cup OptionalInfo(info) \in SUBSET UseSet
  BY FileNameUse, OptionalArgument
<1>2. Right(Optional(info)) => AllValid({FileName} \cup OptionalInfo(info))
  BY FileNameUse, OptionalArgument, ValidUnion
<1> QED BY <1>1, <1>2, RightIsBoolean, QuerySafe DEF C_MPI_File_delete

LEMMA FilesSafe == ASSUME IInv, FilesNext PROVE IInv'
<1>1. CASE MPI_File_open_f08
  BY <1>1, OpenSafe DEF MPI_File_open_f08, Opens
<1>2. CASE MPI_File_open_f08ts
  BY <1>2, OpenSafe DEF MPI_File_open_f08ts, Opens, CFI_MPI_File_open
<1>3. CASE MPI_File_close_f08
  <2>1. PICK file \in Usable("File") : Free(file, File(file))
    BY <1>3 DEF MPI_File_close_f08, C_MPI_File_close
  <2>2. "File" \in Classes
    BY DEF Classes
  <2>3. file \in Args("File") /\ HandleOf(file) = var[file] /\ var[file] \in Int
    BY <2>2, UsableAreArgs, ArgsAreKnown
  <2> QED BY <2>1, <2>2, <2>3, Conversions, FreeSafe DEF File
<1>4. CASE MPI_File_delete_f08 \/ MPI_File_delete_f08ts
  BY <1>4, DeleteSafe DEF MPI_File_delete_f08, MPI_File_delete_f08ts, CFI_MPI_File_delete
<1>5. CASE MPI_File_set_size_f08 \/ MPI_File_preallocate_f08 \/ MPI_File_get_size_f08
  BY <1>5, OnFileSafe DEF MPI_File_set_size_f08, C_MPI_File_set_size, MPI_File_preallocate_f08,
     C_MPI_File_preallocate, MPI_File_get_size_f08, C_MPI_File_get_size
<1>6. CASE MPI_File_set_view_f08
  BY <1>6, SetViewSafe DEF MPI_File_set_view_f08
<1>7. CASE MPI_File_set_view_f08ts
  BY <1>7, SetViewSafe DEF MPI_File_set_view_f08ts, CFI_MPI_File_set_view
<1> QED BY <1>1, <1>2, <1>3, <1>4, <1>5, <1>6, <1>7 DEF FilesNext

LEMMA TransferSafe ==
  ASSUME IInv, NEW file \in Usable("File"), NEW type \in Args("Type"), NEW access,
         Transfer(file, type, access)
  PROVE  IInv'
<1> DEFINE uses == {Use("File", File(file)), Use("Type", Type(type))}
           right == Right({file, type})
           object == objects[File(file)]
<1>1. uses = {Use("File", File(file))} \cup {Use("Type", Type(type))} /\ {file, type} = {file} \cup {type}
  OBVIOUS
<1>2. AllValid(uses) <=> AllValid({Use("File", File(file))}) /\ AllValid({Use("Type", Type(type))})
  BY <1>1, ValidUnion
<1>3. right <=> Right({file}) /\ Right({type})
  BY <1>1, RightOfUnion
<1>4. uses \in SUBSET UseSet /\ right \in BOOLEAN
  BY <1>1, FileUse, TypeUse, RightIsBoolean
<1>5. right => AllValid(uses)
  BY <1>2, <1>3, FileUse, TypeUse
<1>6. AllValid(uses) => object \in Known
  <2>1. AllValid(uses) => Valid("File", File(file))
    BY <1>2, ValidUse
  <2>2. Predefined("File") = {}
    BY DEF Predefined
  <2>3. Valid("File", File(file)) => File(file) \in Ids
    BY <2>2 DEF Valid, Live
  <2> QED BY <2>1, <2>3 DEF IInv, StateOK
<1>7. Running /\ UNCHANGED <<library, var, holds>>
  BY DEF Transfer
<1>8. \/ Refusal(right, uses)
      \/ Accepted(right)
      \/ AllValid(uses) /\ ~Allows(object.mode, access) /\ Refused("ACCESS", right /\ Allows(object.asked, access), uses)
  BY DEF Transfer
<1> HIDE DEF uses, right, object
<1>9. ReportOK' /\ starter' = starter
  <2>1. CASE Refusal(right, uses)
    BY <1>4, <1>5, <1>7, <2>1, RefusalReports DEF IInv
  <2>2. CASE Accepted(right)
    BY <1>4, <1>7, <2>2, AcceptanceReports DEF IInv
  <2>3. CASE /\ AllValid(uses) /\ ~Allows(object.mode, access)
             /\ Refused("ACCESS", right /\ Allows(object.asked, access), uses)
    <3>1. object.asked = object.mode
      BY <1>6, <2>3 DEF Known
    <3>2. (right /\ Allows(object.asked, access)) = FALSE
      BY <2>3, <3>1
    <3>3. Refused("ACCESS", FALSE, uses)
      BY <2>3, <3>2
    <3>4. "ACCESS" \in DOMAIN VAPAA_MPI_ERR
      BY DEF VAPAA_MPI_ERR
    <3> QED BY <1>7, <3>3, <3>4, RefusedReports DEF IInv
  <2> QED BY <1>8, <2>1, <2>2, <2>3
<1> QED BY <1>7, <1>9, StateUnchanged DEF IInv

LEMMA ArrayTransferSafe ==
  ASSUME IInv, NEW file \in Usable("File"), NEW type \in Args("Type"), NEW contiguous, NEW access,
         ArrayTransfer(file, type, contiguous, access)
  PROVE  IInv'
<1>1. CASE Transfer(file, type, access)
  BY <1>1, TransferSafe
<1>2. CASE Running /\ Stopped("contiguity", Right({file, type})) /\ UNCHANGED <<library, var, holds>>
  BY <1>2, RightIsBoolean, StopSafe DEF Reasons
<1> QED BY <1>1, <1>2 DEF ArrayTransfer

LEMMA TransfersSafe == ASSUME IInv, TransfersNext PROVE IInv'
<1>1. CASE MPI_File_read_at_f08 \/ MPI_File_read_at_f08ts
  BY <1>1, TransferSafe, ArrayTransferSafe DEF MPI_File_read_at_f08, Plain, C_MPI_File_read_at,
     MPI_File_read_at_f08ts, WithDescriptor, CFI_MPI_File_read_at
<1>2. CASE MPI_File_read_at_all_f08 \/ MPI_File_read_at_all_f08ts
  BY <1>2, TransferSafe, ArrayTransferSafe DEF MPI_File_read_at_all_f08, Plain, C_MPI_File_read_at_all,
     MPI_File_read_at_all_f08ts, WithDescriptor, CFI_MPI_File_read_at_all
<1>3. CASE MPI_File_read_f08 \/ MPI_File_read_f08ts
  BY <1>3, TransferSafe, ArrayTransferSafe DEF MPI_File_read_f08, Plain, C_MPI_File_read,
     MPI_File_read_f08ts, WithDescriptor, CFI_MPI_File_read
<1>4. CASE MPI_File_read_all_f08 \/ MPI_File_read_all_f08ts
  BY <1>4, TransferSafe, ArrayTransferSafe DEF MPI_File_read_all_f08, Plain, C_MPI_File_read_all,
     MPI_File_read_all_f08ts, WithDescriptor, CFI_MPI_File_read_all
<1>5. CASE MPI_File_write_at_f08 \/ MPI_File_write_at_f08ts
  BY <1>5, TransferSafe, ArrayTransferSafe DEF MPI_File_write_at_f08, Plain, C_MPI_File_write_at,
     MPI_File_write_at_f08ts, WithDescriptor, CFI_MPI_File_write_at
<1>6. CASE MPI_File_write_at_all_f08 \/ MPI_File_write_at_all_f08ts
  BY <1>6, TransferSafe, ArrayTransferSafe DEF MPI_File_write_at_all_f08, Plain, C_MPI_File_write_at_all,
     MPI_File_write_at_all_f08ts, WithDescriptor, CFI_MPI_File_write_at_all
<1>7. CASE MPI_File_write_f08 \/ MPI_File_write_f08ts
  BY <1>7, TransferSafe, ArrayTransferSafe DEF MPI_File_write_f08, Plain, C_MPI_File_write,
     MPI_File_write_f08ts, WithDescriptor, CFI_MPI_File_write
<1>8. CASE MPI_File_write_all_f08 \/ MPI_File_write_all_f08ts
  BY <1>8, TransferSafe, ArrayTransferSafe DEF MPI_File_write_all_f08, Plain, C_MPI_File_write_all,
     MPI_File_write_all_f08ts, WithDescriptor, CFI_MPI_File_write_all
<1> QED BY <1>1, <1>2, <1>3, <1>4, <1>5, <1>6, <1>7, <1>8 DEF TransfersNext
-----------------------------------------------------------------------------
LEMMA ErrorsSafe == ASSUME IInv, ErrorsNext PROVE IInv'
<1>1. \A n \in DOMAIN VAPAA_MPI_ERR : MPI_ERR[n] \in Int
  BY NumbersAssumption
<1>2. \A f \in Int : C_MPI_ERROR_CODE_F2C(f) \in Int
  <2>1. "UNKNOWN" \in DOMAIN VAPAA_MPI_ERR
    BY DEF VAPAA_MPI_ERR
  <2> QED BY <1>1, <2>1 DEF C_MPI_ERROR_CODE_F2C, MPI_SUCCESS
<1>3. Asked \in Int
  <2>1. "UNKNOWN" \in DOMAIN VAPAA_MPI_ERR
    BY DEF VAPAA_MPI_ERR
  <2> QED BY <1>1, <2>1 DEF Asked, MPI_SUCCESS
<1>4. rc \in Int
  <2>1. \A n \in DOMAIN VAPAA_MPI_ERR : VAPAA_MPI_ERR[n] \in Int
    BY DEF VAPAA_MPI_ERR
  <2> QED BY <2>1 DEF IInv, ReportOK, Codes, VAPAA_MPI_SUCCESS
<1>5. "SUCCESS" \in Causes /\ "SUCCESS" \notin HandleErrors
  BY DEF Causes, HandleErrors, NameOfClass, Classes
<1>6. CASE Running /\ C_MPI_Error_string(rc) /\ UNCHANGED <<library, var, holds>>
  <2>1. ReturnsCode("SUCCESS", MPI_SUCCESS, TRUE, C_MPI_ERROR_CODE_F2C(rc), Asked)
    BY <1>6, Zenon DEF C_MPI_Error_string
  <2>2. C_MPI_ERROR_CODE_F2C(rc) \in Int
    BY <1>2, <1>4
  <2>4. C_MPI_ERROR_CODE_F2C(rc) = Asked
    <3>1. rc = CodeOf(last.cause)
      BY <1>6 DEF IInv, ReportOK, AnswerOK, Running
    <3> QED BY <3>1, CodesAsked
  <2>3. ReportOK' /\ starter' = starter
    BY <1>3, <1>5, <1>6, <2>1, <2>2, <2>4, CodesNamed, ReturnReports, Zenon DEF IInv
  <2> QED BY <1>6, <2>3, StateUnchanged DEF IInv
<1>7. CASE MPI_Error_class_f08
  BY <1>7, AcceptanceReports, StateUnchanged DEF MPI_Error_class_f08, C_MPI_Error_class, IInv
<1> QED BY <1>6, <1>7
        DEF ErrorsNext, MPI_Error_string_f08, MPI_Error_string_f08ts, CFI_MPI_Error_string
-----------------------------------------------------------------------------
LEMMA InitSafe == CallInit => IInv
<1> SUFFICES ASSUME Init, predefined = "none" PROVE IInv
  BY DEF CallInit
<1>1. \A v \in Vars : VapaaNull[ClassOf[v]] \in VapaaHandles /\ VapaaNull[ClassOf[v]] \in Int
  <2>1. \A k \in Classes : VapaaNull[k] \in Int /\ VapaaNull[k] \in VapaaHandles
    BY DEF Classes, VapaaNull, VapaaHandles, VAPAA_MPI_COMM_NULL, VAPAA_MPI_GROUP_NULL,
       VAPAA_MPI_DATATYPE_NULL, VAPAA_MPI_OP_NULL, VAPAA_MPI_INFO_NULL, VAPAA_MPI_FILE_NULL,
       VAPAA_MPI_REQUEST_NULL
  <2> QED BY <2>1, HandlesAssumption
<1>2. ReportOK
  <2>1. last \in [cause : Causes, right : BOOLEAN, told : Int, truth : Int]
        /\ last.cause = "SUCCESS"
    BY DEF Init, NoCall, Causes
  <2>2. "SUCCESS" \notin HandleErrors
    BY DEF HandleErrors, NameOfClass, Classes
  <2>3. AnswerOK
    BY DEF Init, NoCall, AnswerOK, AnswersTrue, CodeOf
  <2> QED
    BY <2>1, <2>2, <2>3
       DEF Init, ReportOK, RefusedOnlyInvalid, HandleErrors, Codes, ErrorsReachProgram
<1>3. StateOK
  <2>1. objects \in [Ids -> Known] /\ \A id \in Ids : objects[id] = NoObject
    BY NothingIsNoObject DEF Init
  <2>2. level \in DOMAIN MPI_THREAD /\ handler \in [{MPI_COMM_WORLD, MPI_COMM_SELF} -> {"fatal", "return"}]
    BY NumbersAssumption DEF Init, VAPAA_MPI_THREAD
  <2>3. /\ var \in [Vars -> Int] /\ holds \in [Vars -> {"object", "null", "unknown"}]
        /\ \A v \in Vars : holds[v] = "null" /\ var[v] \notin Ids
    BY <1>1, HandlesAssumption DEF Init
  <2>4. ErrorsHandled
    BY <2>1 DEF Init, ErrorsHandled, Inherits
  <2> QED BY <2>1, <2>2, <2>3, <2>4 DEF StateOK, HandlesOwnObject, NoObjectLost
<1> QED BY <1>2, <1>3 DEF IInv

LEMMA StutterSafe == ASSUME IInv, UNCHANGED call_vars PROVE IInv'
<1>1. /\ UNCHANGED <<library, var, holds>>
      /\ UNCHANGED <<HaveCFI, program, phase, starter, rc, last, predefined>>
  BY DEF call_vars, vars, library
<1>2. ReportOK'
  BY <1>1 DEF IInv, ReportOK, RefusedOnlyInvalid, ErrorsReachProgram, AnswerOK, AnswersTrue, CodeOf, NumbersAlike
<1> QED BY <1>1, <1>2, StateUnchanged DEF IInv

\* What module Objects' wrappers keep: types and codes, who names which object,
\* and which handles the library refuses.
THEOREM Invariance == Spec => []IInv
<1>1. IInv /\ [Next]_call_vars => IInv'
  BY CoreSafe, CommsSafe, GroupsSafe, InfosSafe, TypesSafe, IntegersSafe, FilesSafe, TransfersSafe,
     ErrorsSafe, StutterSafe DEF Next
<1> QED BY <1>1, InitSafe, PTL DEF Spec

\* Every return code is one of the program's own constants, and every variable
\* of the model has its type (C_MPI_RC_FIX of every routine).
THEOREM ObjectsTypeCorrect == Spec => []ObjectsTypeOK
<1> DEFINE Routine == predefined \in {"none", "Type_commit", "Type_size", "Type_dup"}
<1>1. IInv /\ Routine => ObjectsTypeOK
  BY DEF IInv, ReportOK, StateOK, ObjectsTypeOK, Known
<1>2. Routine /\ [Next]_call_vars => Routine'
  <2>1. IntegersNext => Routine'
    BY DEF IntegersNext, MPI_Type_commit_f08, C_MPI_Type_commit, MPI_Type_size_f08, C_MPI_Type_size,
       MPI_Type_dup_f08, C_MPI_Type_dup, TakesInteger
  <2> QED BY <2>1 DEF Next, call_vars
<1>3. CallInit => Routine
  BY DEF CallInit
<1> QED BY <1>1, <1>2, <1>3, Invariance, PTL DEF Spec

\* A variable given an object names it as long as it lives, and never another
\* one, whichever integers the library gives its objects (creating and freeing
\* routines of mpi_comm.c, mpi_group.c, mpi_info.c, mpi_datatype.c, mpi_op.c and
\* mpi_file.c).
THEOREM OwnObjects == Spec => []HandlesOwnObject
<1>1. IInv => HandlesOwnObject
  BY DEF IInv, StateOK
<1> QED BY <1>1, Invariance, PTL

\* No call of these routines loses an object that the library created.
THEOREM ObjectsAreKept == Spec => []NoObjectLost
<1>1. IInv => NoObjectLost
  BY DEF IInv, StateOK
<1> QED BY <1>1, Invariance, PTL

\* The library refuses a handle or a file's mode only if the program had no right
\* to pass it, predefined types given to Type_commit, Type_size and Type_dup
\* excepted (the conversions of convert_handles.h and C_MPI_TRANSLATE_AMODE; the
\* three do not convert: mpi_datatype.c:26,35,44).
THEOREM RightHandlesAccepted == Spec => []RefusedOnlyInvalid
<1>1. IInv => RefusedOnlyInvalid
  BY DEF IInv, ReportOK
<1> QED BY <1>1, Invariance, PTL

\* A program that MPI_Init started is not stopped by an error of the library:
\* every communicator, predefined or made by mpi_comm.c, returns its errors
\* (MPI_Init sets the error handlers of MPI_COMM_WORLD and MPI_COMM_SELF).
THEOREM ErrorsReturned == Spec => []ErrorsReachProgram
<1>1. IInv => ErrorsReachProgram
  BY DEF IInv, ReportOK
<1> QED BY <1>1, Invariance, PTL

\* With a library that numbers levels and results as the program does, what the
\* program is told is true, also the text of Error_string about its last code,
\* whatever the library's error codes are and also for errors without a name of
\* the program's (C_MPI_RC_FIX at each call and C_MPI_ERROR_CODE_F2C undo each
\* other).
THEOREM AnswersAreTrue == NumbersAlike => (Spec => []AnswersTrue)
<1>1. IInv /\ NumbersAlike => AnswersTrue
  BY DEF IInv, ReportOK, AnswerOK
<1> SUFFICES ASSUME NumbersAlike PROVE Spec => []AnswersTrue
  OBVIOUS
<1>2. IInv => AnswersTrue
  BY <1>1
<1> QED BY <1>2, Invariance, PTL
=============================================================================
