------------------------------- MODULE Objects -------------------------------
(***************************************************************************)
(* Handles of MPI objects in one process, and what every wrapper around    *)
(* them does: it converts the program's handles (integers) to those of C,  *)
(* calls the library, and converts the new handle and the error code back. *)
(* ObjectCalls has the routines.                                           *)
(*                                                                         *)
(* A handle of C is named by the integer that MPI_Comm_c2f and its likes   *)
(* give for it, so these functions do not appear; Vapaa's own constants    *)
(* for predefined and null handles are other integers.  The library gives  *)
(* the integer of an object that was freed to another one.                 *)
(***************************************************************************)
EXTENDS Integers, FiniteSets

CONSTANTS
  ClassOf,        \* the program's variables and the class of their handles
  Programs,       \* sets of variables: those that a program uses
  Ids,            \* integers of the library's objects
  Modes,          \* the sets of modes with which files are opened
  Null,           \* its null handles, by class
  MPI_COMM_WORLD, MPI_COMM_SELF, MPI_INTEGER,   \* its predefined handles
  MPI_THREAD, MPI_COMPARE,  \* its thread levels and comparison results, by name
  MPI_ERR         \* its error classes, by name

Classes == {"Comm", "Group", "Type", "Op", "Info", "File", "Request"}
Vars    == DOMAIN ClassOf

\* The program's constants.
VAPAA_MPI_COMM_WORLD == -1000
VAPAA_MPI_COMM_SELF  == -100
VAPAA_MPI_COMM_NULL  == -10
VAPAA_MPI_INTEGER    == -10002
VAPAA_MPI_DATATYPE_NULL == -11
VAPAA_MPI_FILE_NULL  == -12
VAPAA_MPI_GROUP_NULL == -13
VAPAA_MPI_INFO_NULL  == -14
VAPAA_MPI_OP_NULL    == -16
VAPAA_MPI_REQUEST_NULL == -17
VAPAA_MPI_THREAD  == [SINGLE |-> 0, FUNNELED |-> 1, SERIALIZED |-> 2, MULTIPLE |-> 3]
VAPAA_MPI_COMPARE == [IDENT |-> 0, CONGRUENT |-> 1, SIMILAR |-> 2, UNEQUAL |-> 3]
VAPAA_MPI_ERR == [COMM |-> 5, GROUP |-> 9, REQUEST |-> 7, TYPE |-> 3, OP |-> 10, INFO |-> 34, FILE |-> 30,
                  ARG |-> 13, UNKNOWN |-> 14, NO_MEM |-> 39, AMODE |-> 21, ACCESS |-> 20]
VAPAA_MPI_UNDEFINED == -99999
SplitTypes == [MPI_COMM_TYPE_SHARED |-> 5300, MPI_COMM_TYPE_HW_UNGUIDED |-> 5400,
               MPI_COMM_TYPE_HW_GUIDED |-> 5500]
VAPAA_MPI_ORDER_C == 321
VAPAA_MPI_ORDER_FORTRAN == 123
VAPAA_MPI_MODE == [APPEND |-> 1, CREATE |-> 2, DELETE_ON_CLOSE |-> 4, EXCL |-> 8, RDONLY |-> 16,
                   RDWR |-> 32, SEQUENTIAL |-> 64, UNIQUE_OPEN |-> 128, WRONLY |-> 256]
VAPAA_MPI_SUCCESS == 0
MPI_SUCCESS == 0

VapaaNull == [Comm |-> VAPAA_MPI_COMM_NULL, Group |-> VAPAA_MPI_GROUP_NULL,
              Type |-> VAPAA_MPI_DATATYPE_NULL, Op |-> VAPAA_MPI_OP_NULL,
              Info |-> VAPAA_MPI_INFO_NULL, File |-> VAPAA_MPI_FILE_NULL,
              Request |-> VAPAA_MPI_REQUEST_NULL]
\* The constants that stand as arguments.
Constants == [MPI_COMM_WORLD |-> VAPAA_MPI_COMM_WORLD, MPI_COMM_SELF |-> VAPAA_MPI_COMM_SELF,
              MPI_INTEGER |-> VAPAA_MPI_INTEGER, MPI_INFO_NULL |-> VAPAA_MPI_INFO_NULL]
VapaaHandles == {VapaaNull[k] : k \in Classes}
                \cup {VAPAA_MPI_COMM_WORLD, VAPAA_MPI_COMM_SELF, VAPAA_MPI_INTEGER}

LibraryNull       == {Null[k] : k \in Classes}
LibraryPredefined == {MPI_COMM_WORLD, MPI_COMM_SELF, MPI_INTEGER}

\* The library's integers differ, and none is a constant of Vapaa's.
ASSUME HandlesAssumption ==
  /\ \A v \in Vars : ClassOf[v] \in Classes
  /\ \A p \in Programs : p \subseteq Vars
  /\ Vars \cap ({"none"} \cup DOMAIN Constants) = {}
  /\ Ids \subseteq Int /\ LibraryPredefined \subseteq Int
  /\ Null \in [Classes -> Int]
  /\ MPI_COMM_WORLD # MPI_COMM_SELF
  /\ Ids \cap (LibraryNull \cup LibraryPredefined) = {} /\ LibraryNull \cap LibraryPredefined = {}
  /\ VapaaHandles \cap (Ids \cup LibraryNull \cup LibraryPredefined) = {}

\* Errors have names in the library also where the program has none.
ASSUME NumbersAssumption ==
  /\ MPI_THREAD \in [DOMAIN VAPAA_MPI_THREAD -> Int]
  /\ MPI_COMPARE \in [DOMAIN VAPAA_MPI_COMPARE -> Int]
  /\ DOMAIN VAPAA_MPI_ERR \cup {"PROC_FAILED"} \subseteq DOMAIN MPI_ERR
  /\ \A n \in DOMAIN MPI_ERR : MPI_ERR[n] \in Int \ {MPI_SUCCESS}
  /\ \A m, n \in DOMAIN MPI_ERR : MPI_ERR[m] = MPI_ERR[n] => m = n

ASSUME ModesAssumption == \A asked \in Modes : asked \subseteq DOMAIN VAPAA_MPI_MODE

VARIABLES
  HaveCFI,  \* whether the library was built with array descriptors
  program,  \* the variables in use
  phase,    \* of the process: before, running, after, aborted
  starter,  \* history: the routine that initialised MPI
  level,    \* the library's thread level
  handler,  \* the error handlers of the predefined communicators
  objects,  \* the library's objects
  var,      \* the program's variables
  holds,    \* history: what each of them was last given: object, null, unknown
  rc,       \* the program's return code
  last      \* history: what the last call was about

library == <<handler, objects, level>>
vars == <<HaveCFI, program, phase, starter, level, handler, objects, var, holds, rc, last>>

\* owner: the variable given the object.  errors: a communicator's error handler.
\* request: the variable of a request that completes it.  mode: a file's access,
\* and as the program asked for it.
NoObject == [class |-> "none", owner |-> "none", errors |-> "none", request |-> "none",
             mode |-> {}, asked |-> {}]

\* cause: SUCCESS, the error's class, or what stopped the program.
\* right: the program may pass these handles: of objects it has, or predefined.
\* told, truth: a value that the program was told, and the one it should be.
NoCall == [cause |-> "SUCCESS", right |-> TRUE, told |-> 0, truth |-> 0]

Init ==
  /\ HaveCFI \in BOOLEAN
  /\ program \in Programs
  /\ phase = "before" /\ starter = "none" /\ level = "SINGLE"
  /\ handler = [c \in {MPI_COMM_WORLD, MPI_COMM_SELF} |-> "fatal"]
  /\ objects = [id \in Ids |-> NoObject]
  /\ var = [v \in Vars |-> VapaaNull[ClassOf[v]]]
  /\ holds = [v \in Vars |-> "null"]
  /\ rc = VAPAA_MPI_SUCCESS /\ last = NoCall
-----------------------------------------------------------------------------
(* convert_handles.h, convert_constants.h, mpi_error.c. *)

C_MPI_COMM_F2C_NoSelf(comm_f) ==  \* mutant: a case is missing
  CASE comm_f = VAPAA_MPI_COMM_WORLD -> MPI_COMM_WORLD
    [] comm_f = VAPAA_MPI_COMM_NULL  -> Null["Comm"]
    [] OTHER -> comm_f
C_MPI_COMM_F2C(comm_f) ==
  CASE comm_f = VAPAA_MPI_COMM_WORLD -> MPI_COMM_WORLD
    [] comm_f = VAPAA_MPI_COMM_SELF  -> MPI_COMM_SELF
    [] comm_f = VAPAA_MPI_COMM_NULL  -> Null["Comm"]
    [] OTHER -> comm_f

C_MPI_TYPE_F2C(type_f) ==
  CASE type_f = VAPAA_MPI_INTEGER       -> MPI_INTEGER
    [] type_f = VAPAA_MPI_DATATYPE_NULL -> Null["Type"]
    [] OTHER -> type_f

C_MPI_GROUP_F2C(group_f) == IF group_f = VAPAA_MPI_GROUP_NULL THEN Null["Group"] ELSE group_f
C_MPI_INFO_F2C(info_f)   == IF info_f = VAPAA_MPI_INFO_NULL THEN Null["Info"] ELSE info_f
C_MPI_FILE_F2C(file_f)   == IF file_f = VAPAA_MPI_FILE_NULL THEN Null["File"] ELSE file_f

NoValue == -1

\* What is not a value of the program's is taken for the lowest level.
C_MPI_THREAD_LEVEL_F2C(level_f) ==
  IF \E n \in DOMAIN MPI_THREAD : level_f = VAPAA_MPI_THREAD[n]
  THEN MPI_THREAD[CHOOSE n \in DOMAIN MPI_THREAD : level_f = VAPAA_MPI_THREAD[n]]
  ELSE MPI_THREAD.SINGLE
C_MPI_THREAD_LEVEL_C2F(level_c) ==
  IF \E n \in DOMAIN MPI_THREAD : level_c = MPI_THREAD[n]
  THEN VAPAA_MPI_THREAD[CHOOSE n \in DOMAIN MPI_THREAD : level_c = MPI_THREAD[n]]
  ELSE VAPAA_MPI_THREAD.SINGLE

\* What is not a comparison result aborts the program.
C_MPI_COMPARE_RESULT_F2C(result_f) ==
  IF \E n \in DOMAIN MPI_COMPARE : result_f = VAPAA_MPI_COMPARE[n]
  THEN MPI_COMPARE[CHOOSE n \in DOMAIN MPI_COMPARE : result_f = VAPAA_MPI_COMPARE[n]]
  ELSE NoValue
C_MPI_COMPARE_RESULT_C2F_TwoCases(result_c) ==  \* mutant: equal or not
  IF result_c = MPI_COMPARE.IDENT THEN VAPAA_MPI_COMPARE.IDENT ELSE VAPAA_MPI_COMPARE.UNEQUAL
C_MPI_COMPARE_RESULT_C2F(result_c) ==
  IF \E n \in DOMAIN MPI_COMPARE : result_c = MPI_COMPARE[n]
  THEN VAPAA_MPI_COMPARE[CHOOSE n \in DOMAIN MPI_COMPARE : result_c = MPI_COMPARE[n]]
  ELSE NoValue

\* A code of the library has a class; classes without a name of Vapaa's are
\* unknown to the program.
C_MPI_ERROR_CODE_C2F(error_c) ==
  IF \E n \in DOMAIN VAPAA_MPI_ERR : error_c = MPI_ERR[n]
  THEN VAPAA_MPI_ERR[CHOOSE n \in DOMAIN VAPAA_MPI_ERR : error_c = MPI_ERR[n]]
  ELSE VAPAA_MPI_ERR.UNKNOWN
C_MPI_ERROR_CODE_F2C(error_f) ==
  CASE error_f = VAPAA_MPI_SUCCESS -> MPI_SUCCESS
    [] \E n \in DOMAIN VAPAA_MPI_ERR : error_f = VAPAA_MPI_ERR[n]
         -> MPI_ERR[CHOOSE n \in DOMAIN VAPAA_MPI_ERR : error_f = VAPAA_MPI_ERR[n]]
    [] OTHER -> MPI_ERR.UNKNOWN

C_MPI_RC_FIX_Missing(code) == code  \* mutant: the library's integer is returned
C_MPI_RC_FIX(code) == IF code # MPI_SUCCESS THEN C_MPI_ERROR_CODE_C2F(code) ELSE code
-----------------------------------------------------------------------------
(* The library. *)

Predefined(k) == CASE k = "Comm" -> {MPI_COMM_WORLD, MPI_COMM_SELF}
                   [] k = "Type" -> {MPI_INTEGER}
                   [] k = "FileName" -> {0}
                   [] OTHER -> {}

Live(k, handle)  == handle \in Ids /\ objects[handle].class = k
Valid(k, handle) == handle \in Predefined(k) \/ Live(k, handle)

\* A handle that a call passes to the library.
Use(k, handle) == [class |-> k, handle |-> handle]
FileName       == Use("FileName", 0)
Invalid(use)   == ~Valid(use.class, use.handle)

NameOfClass == [Comm |-> "COMM", Group |-> "GROUP", Type |-> "TYPE", Op |-> "OP", Info |-> "INFO",
                File |-> "FILE", Request |-> "REQUEST"]

\* The error handler of a communicator, and the ones that may decide for a call.
\* Without a communicator that is MPI_COMM_WORLD's or MPI_COMM_SELF's,
\* depending on the version of MPI; errors on files are returned.
ErrorsOf(comm) == IF comm \in Ids THEN objects[comm].errors ELSE handler[comm]
Handlers(uses) ==
  LET comms == {u.handle : u \in {w \in uses : w.class = "Comm" /\ ~Invalid(w)}}
      onFile == \E u \in uses : u.class \in {"File", "FileName"}
  IN  CASE onFile -> {"return"}
        [] ~onFile /\ comms # {} -> {ErrorsOf(c) : c \in comms}
        [] OTHER -> {handler[c] : c \in DOMAIN handler}
-----------------------------------------------------------------------------
(* What the wrappers share. *)

Running == phase = "running"

ReturnsCode(cause, code, right, told, truth) ==
  /\ rc' = C_MPI_RC_FIX(code)
  /\ last' = [cause |-> cause, right |-> right, told |-> told, truth |-> truth]
  /\ UNCHANGED <<HaveCFI, program, phase, starter>>

Accepted(right) == ReturnsCode("SUCCESS", MPI_SUCCESS, right, 0, 0)

\* The program is stopped: by the library, or by the wrapper.
Stopped(cause, right) ==
  /\ phase' = "aborted"
  /\ last' = [NoCall EXCEPT !.cause = cause, !.right = right]
  /\ UNCHANGED <<HaveCFI, program, starter, rc>>

Refused(cause, right, uses) ==
  \E h \in Handlers(uses) :
    IF h = "fatal" THEN Stopped(cause, right) ELSE ReturnsCode(cause, MPI_ERR[cause], right, 0, 0)

RefusedAsInvalid(right, uses) ==
  \E u \in uses : Invalid(u) /\ Refused(NameOfClass[u.class], right, uses)

AllValid(uses) == ~\E u \in uses : Invalid(u)

\* Errors that no handle explains: one with a name of Vapaa's and one without.
Failures == {"NO_MEM", "PROC_FAILED"}

Refusal(right, uses) ==
  \/ RefusedAsInvalid(right, uses)
  \/ AllValid(uses) /\ \E f \in Failures : Refused(f, right, uses)

\* The arguments of a call: variables, or constants.
ConstantsOf(k) == CASE k = "Comm" -> {"MPI_COMM_WORLD", "MPI_COMM_SELF"}
                    [] k = "Type" -> {"MPI_INTEGER"}
                    [] k = "Info" -> {"MPI_INFO_NULL"}
                    [] OTHER -> {}

\* The program does not look at a handle that a failed call left undefined, nor
\* use a communicator before its idup is complete.  It may use a handle again
\* that it freed.
Pending(v)  == \E id \in Ids : objects[id].owner = v /\ objects[id].request # "none"
Usable(k)   == {v \in program : ClassOf[v] = k /\ holds[v] # "unknown" /\ ~Pending(v)}
Args(k)     == Usable(k) \cup ConstantsOf(k)
Targets(k)  == {v \in program : ClassOf[v] = k /\ holds[v] # "object"}
HandleOf(a) == IF a \in Vars THEN var[a] ELSE Constants[a]
Right(args) == \A a \in args : a \in Vars => holds[a] = "object"

Store(v, handle, kind) ==
  /\ var' = [var EXCEPT ![v] = handle]
  /\ holds' = [holds EXCEPT ![v] = kind]

\* What a creating call gives the program: the C variable is null before it.
NewHandle_Early(handle, k) == Null[k]  \* mutant: converted before the call
NewHandle(handle, k) == handle

New(v) == [NoObject EXCEPT !.class = ClassOf[v], !.owner = v]
GivesObject(v, object) ==
  \E id \in Ids : /\ objects[id] = NoObject
                  /\ objects' = [objects EXCEPT ![id] = object]
                  /\ Store(v, NewHandle(id, ClassOf[v]), "object")
                  /\ UNCHANGED <<handler, level>>
GivesNothing(v) == Store(v, Null[ClassOf[v]], "null") /\ UNCHANGED library

\* A call with a new object.
Create(v, uses, right, object) ==
  /\ Running
  /\ \/ Refusal(right, uses) /\ GivesNothing(v)
     \/ AllValid(uses) /\ Accepted(right) /\ GivesObject(v, object)

\* One that may succeed without: this process is not to be in the communicator.
CreateMaybe(v, uses, right, object) ==
  \/ Create(v, uses, right, object)
  \/ Running /\ AllValid(uses) /\ Accepted(right) /\ GivesNothing(v)

\* A call that frees the object of a variable.  The library makes the C
\* variable null, or leaves it when the call fails.
FreedHandle_Kept(handle, k) == handle  \* mutant: the program's handle stays
FreedHandle(handle, k) == Null[k]

Free(v, handle) ==
  LET uses == {Use(ClassOf[v], handle)}
  IN  /\ Running
      /\ \/ /\ Refusal(Right({v}), uses)
            /\ var' = [var EXCEPT ![v] = handle] /\ UNCHANGED <<library, holds>>
         \/ /\ Live(ClassOf[v], handle) /\ Accepted(Right({v}))
            /\ objects' = [objects EXCEPT ![handle] = NoObject]
            /\ Store(v, FreedHandle(handle, ClassOf[v]), "null")
            /\ UNCHANGED <<handler, level>>

\* A call that looks at objects or works on them.
Query(uses, right) ==
  /\ Running
  /\ Refusal(right, uses) \/ (AllValid(uses) /\ Accepted(right))
  /\ UNCHANGED <<library, var, holds>>

\* A comparison; results: the converted results.  When the library refuses it,
\* the C variable of the result was never written, and is converted all the
\* same: that may stop the program.
Comparison(x, y, k, right, results) ==
  LET uses == {Use(k, x), Use(k, y)}
  IN  /\ Running
      /\ \/ Refusal(right, uses)
         \/ "return" \in Handlers(uses) /\ Stopped("result", right)
         \/ /\ AllValid(uses)
            /\ \E n \in DOMAIN MPI_COMPARE :
                 /\ x = y => n = "IDENT"
                 /\ IF results[n] = NoValue THEN Stopped("result", right)
                    ELSE ReturnsCode("SUCCESS", MPI_SUCCESS, right, results[n], VAPAA_MPI_COMPARE[n])
      /\ UNCHANGED <<library, var, holds>>
=============================================================================
