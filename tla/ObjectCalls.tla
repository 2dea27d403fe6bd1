----------------------------- MODULE ObjectCalls -----------------------------
(***************************************************************************)
(* The routines on communicators, groups, info objects, datatypes,         *)
(* operations and files, and those that start and end MPI.  C_MPI_X and    *)
(* CFI_MPI_X are the C routines, MPI_X_f08 the call of a program.          *)
(*                                                                         *)
(* Of a routine's arguments the handles are modelled, and the integers     *)
(* that the C routine converts or fails to convert.                        *)
(***************************************************************************)
EXTENDS Objects

VARIABLE predefined  \* history: the routine, of those that convert no datatypes,
                     \* that the last call gave a predefined type to, or none
call_vars == <<vars, predefined>>

Comm(a)  == C_MPI_COMM_F2C(HandleOf(a))
Group(a) == C_MPI_GROUP_F2C(HandleOf(a))
Type(a)  == C_MPI_TYPE_F2C(HandleOf(a))
Info(a)  == C_MPI_INFO_F2C(HandleOf(a))
File(a)  == C_MPI_FILE_F2C(HandleOf(a))

\* An info argument may be null.
OptionalInfo(a) == IF Info(a) = Null["Info"] THEN {} ELSE {Use("Info", Info(a))}
Optional(a) == IF Info(a) = Null["Info"] THEN {} ELSE {a}

OnComm(comm)   == Query({Use("Comm", Comm(comm))}, Right({comm}))
OnGroup(group) == Query({Use("Group", Group(group))}, Right({group}))
OnInfo(info)   == Query({Use("Info", Info(info))}, Right({info}))
OnFile(file)   == Query({Use("File", File(file))}, Right({file}))
-----------------------------------------------------------------------------
(* mpi_core.c, mpi_core_f.F90.  Library calls before and after MPI that the *)
(* standard allows are modelled; MPI_Init that fails stops the program.     *)

Unchanged == UNCHANGED <<HaveCFI, program, objects, var, holds>>
Told(told, truth) == [cause |-> "SUCCESS", right |-> TRUE, told |-> told, truth |-> truth]
Flag(b) == IF b THEN 1 ELSE 0

C_MPI_Init_WorldOnly ==  \* mutant: MPI_COMM_SELF keeps its handler
  handler' = [c \in DOMAIN handler |-> IF c = MPI_COMM_WORLD THEN "return" ELSE handler[c]]
ErrorsReturn == handler' = [c \in DOMAIN handler |-> "return"]
C_MPI_Init ==
  /\ level' = "SINGLE" /\ ErrorsReturn
  /\ rc' = VAPAA_MPI_SUCCESS /\ last' = NoCall
MPI_Init_f08 ==
  /\ phase = "before" /\ phase' = "running" /\ starter' = "Init"
  /\ C_MPI_Init /\ Unchanged

\* The library may provide any level, whichever is required.
C_MPI_Init_thread ==
  /\ \E l \in DOMAIN MPI_THREAD :
       /\ level' = l
       /\ last' = Told(C_MPI_THREAD_LEVEL_F2C(MPI_THREAD[l]), VAPAA_MPI_THREAD[l])
  /\ rc' = VAPAA_MPI_SUCCESS
MPI_Init_thread_f08 ==
  /\ phase = "before" /\ phase' = "running" /\ starter' = "Init_thread"
  /\ C_MPI_Init_thread /\ Unchanged /\ UNCHANGED handler

C_MPI_Query_thread == last' = Told(C_MPI_THREAD_LEVEL_F2C(MPI_THREAD[level]), VAPAA_MPI_THREAD[level])
MPI_Query_thread_f08 ==
  /\ Running /\ C_MPI_Query_thread /\ rc' = VAPAA_MPI_SUCCESS
  /\ Unchanged /\ UNCHANGED <<phase, starter, handler, level>>

C_MPI_Initialized == last' = Told(Flag(phase # "before"), Flag(starter # "none"))
MPI_Initialized_f08 ==
  /\ phase # "aborted" /\ C_MPI_Initialized /\ rc' = VAPAA_MPI_SUCCESS
  /\ Unchanged /\ UNCHANGED <<phase, starter, handler, level>>
C_MPI_Finalized == last' = Told(Flag(phase = "after"), Flag(starter # "none" /\ ~Running))
MPI_Finalized_f08 ==
  /\ phase # "aborted" /\ C_MPI_Finalized /\ rc' = VAPAA_MPI_SUCCESS
  /\ Unchanged /\ UNCHANGED <<phase, starter, handler, level>>

C_MPI_Finalize == rc' = VAPAA_MPI_SUCCESS /\ last' = NoCall
MPI_Finalize_f08 ==
  /\ Running /\ phase' = "after" /\ C_MPI_Finalize
  /\ Unchanged /\ UNCHANGED <<starter, handler, level>>

\* The library aborts whatever the communicator.
C_MPI_Abort(comm) == Stopped("abort", Right({comm})) /\ UNCHANGED <<library, var, holds>>
MPI_Abort_f08 == Running /\ \E comm \in Args("Comm") : C_MPI_Abort(comm)
-----------------------------------------------------------------------------
(* mpi_comm.c, mpi_comm_f.F90. *)

C_MPI_Comm_rank(comm) == OnComm(comm)
MPI_Comm_rank_f08 == \E comm \in Args("Comm") : C_MPI_Comm_rank(comm)
C_MPI_Comm_size(comm) == OnComm(comm)
MPI_Comm_size_f08 == \E comm \in Args("Comm") : C_MPI_Comm_size(comm)
C_MPI_Cart_coords(comm) == OnComm(comm)
MPI_Cart_coords_f08 == \E comm \in Args("Comm") : C_MPI_Cart_coords(comm)
C_MPI_Dims_create == Query({}, TRUE)
MPI_Dims_create_f08 == C_MPI_Dims_create

C_MPI_Comm_compare(comm1, comm2) ==
  Comparison(Comm(comm1), Comm(comm2), "Comm", Right({comm1, comm2}),
             [n \in DOMAIN MPI_COMPARE |-> C_MPI_COMPARE_RESULT_C2F(MPI_COMPARE[n])])
MPI_Comm_compare_f08 == \E comm1, comm2 \in Args("Comm") : C_MPI_Comm_compare(comm1, comm2)

\* A communicator inherits the error handler of the one it is made from.
NewComm(v, comm) == [New(v) EXCEPT !.errors = ErrorsOf(Comm(comm))]
CommOf(comm, newcomm) ==
  Create(newcomm, {Use("Comm", Comm(comm))}, Right({comm}), NewComm(newcomm, comm))
CommWithInfo(comm, info) == {Use("Comm", Comm(comm))} \cup OptionalInfo(info)
CommWithGroup(comm, group) == {Use("Comm", Comm(comm)), Use("Group", Group(group))}

C_MPI_Comm_dup(comm, newcomm) == CommOf(comm, newcomm)
MPI_Comm_dup_f08 == \E comm \in Args("Comm"), newcomm \in Targets("Comm") : C_MPI_Comm_dup(comm, newcomm)
C_MPI_Comm_dup_with_info(comm, info, newcomm) ==
  Create(newcomm, CommWithInfo(comm, info), Right({comm} \cup Optional(info)), NewComm(newcomm, comm))
MPI_Comm_dup_with_info_f08 ==
  \E comm \in Args("Comm"), info \in Args("Info"), newcomm \in Targets("Comm") :
    C_MPI_Comm_dup_with_info(comm, info, newcomm)

\* The new communicator and the request; both C variables are null before.  The
\* library gives the handle at once, and completes the communicator later.
Idup(comm, uses, right, newcomm, request) ==
  /\ Running
  /\ \/ /\ Refusal(right, uses)
        /\ var' = [var EXCEPT ![newcomm] = Null["Comm"], ![request] = Null["Request"]]
        /\ holds' = [holds EXCEPT ![newcomm] = "null", ![request] = "null"]
        /\ UNCHANGED library
     \/ /\ AllValid(uses) /\ Accepted(right)
        /\ \E c, r \in {id \in Ids : objects[id] = NoObject} :
             /\ c # r
             /\ objects' = [objects EXCEPT ![c] = [NewComm(newcomm, comm) EXCEPT !.request = request],
                                           ![r] = New(request)]
             /\ var' = [var EXCEPT ![newcomm] = NewHandle(c, "Comm"), ![request] = NewHandle(r, "Request")]
        /\ holds' = [holds EXCEPT ![newcomm] = "object", ![request] = "object"]
        /\ UNCHANGED <<handler, level>>
C_MPI_Comm_idup(comm, newcomm, request) ==
  Idup(comm, {Use("Comm", Comm(comm))}, Right({comm}), newcomm, request)
MPI_Comm_idup_f08 ==
  \E comm \in Args("Comm"), newcomm \in Targets("Comm"), request \in Targets("Request") :
    C_MPI_Comm_idup(comm, newcomm, request)
C_MPI_Comm_idup_with_info(comm, info, newcomm, request) ==
  Idup(comm, CommWithInfo(comm, info), Right({comm} \cup Optional(info)), newcomm, request)
MPI_Comm_idup_with_info_f08 ==
  \E comm \in Args("Comm"), info \in Args("Info"), newcomm \in Targets("Comm"),
     request \in Targets("Request") : C_MPI_Comm_idup_with_info(comm, info, newcomm, request)

\* The program waits for its idup (module Requests has this call's steps).
MPI_Wait ==
  /\ Running
  /\ \E request \in Usable("Request") :
       /\ holds[request] = "object"
       /\ objects' = [id \in Ids |->
            IF id = var[request] THEN NoObject
            ELSE IF objects[id].request = request THEN [objects[id] EXCEPT !.request = "none"]
            ELSE objects[id]]
       /\ Store(request, Null["Request"], "null")
  /\ Accepted(TRUE) /\ UNCHANGED <<handler, level>>

C_MPI_Comm_create(comm, group, newcomm) ==
  CreateMaybe(newcomm, CommWithGroup(comm, group), Right({comm, group}), NewComm(newcomm, comm))
MPI_Comm_create_f08 ==
  \E comm \in Args("Comm"), group \in Args("Group"), newcomm \in Targets("Comm") :
    C_MPI_Comm_create(comm, group, newcomm)
C_MPI_Comm_create_group(comm, group, newcomm) ==
  CreateMaybe(newcomm, CommWithGroup(comm, group), Right({comm, group}), NewComm(newcomm, comm))
MPI_Comm_create_group_f08 ==
  \E comm \in Args("Comm"), group \in Args("Group"), newcomm \in Targets("Comm") :
    C_MPI_Comm_create_group(comm, group, newcomm)

\* The colour is not converted: the library does not know Vapaa's MPI_UNDEFINED
\* and refuses negative colours.
C_MPI_Comm_split(comm, color, newcomm) ==
  \/ color >= 0 /\ CommOf(comm, newcomm)
  \/ /\ Running /\ color < 0 /\ GivesNothing(newcomm)
     /\ LET uses == {Use("Comm", Comm(comm))}
        IN  \/ Refusal(Right({comm}), uses)
            \/ AllValid(uses) /\ Refused("ARG", Right({comm}), uses)
MPI_Comm_split_f08 ==
  \E comm \in Args("Comm"), color \in {0, VAPAA_MPI_UNDEFINED}, newcomm \in Targets("Comm") :
    C_MPI_Comm_split(comm, color, newcomm)

\* Integers that are no split type, MPI_UNDEFINED too, stop the program.
C_MPI_TRANSLATE_SPLIT_TYPE(f) ==
  IF \E t \in DOMAIN SplitTypes : f = SplitTypes[t]
  THEN CHOOSE t \in DOMAIN SplitTypes : f = SplitTypes[t] ELSE "none"
C_MPI_Comm_split_type(comm, type, info, newcomm) ==
  \/ /\ C_MPI_TRANSLATE_SPLIT_TYPE(type) # "none"
     /\ CreateMaybe(newcomm, CommWithInfo(comm, info), Right({comm} \cup Optional(info)),
                    NewComm(newcomm, comm))
  \/ /\ Running /\ C_MPI_TRANSLATE_SPLIT_TYPE(type) = "none"
     /\ Stopped("argument", Right({comm})) /\ UNCHANGED <<library, var, holds>>
MPI_Comm_split_type_f08 ==
  \E comm \in Args("Comm"), info \in Args("Info"), newcomm \in Targets("Comm"),
     type \in {SplitTypes[t] : t \in DOMAIN SplitTypes} \cup {VAPAA_MPI_UNDEFINED} :
    C_MPI_Comm_split_type(comm, type, info, newcomm)

C_MPI_Cart_create(comm, newcomm) ==
  CreateMaybe(newcomm, {Use("Comm", Comm(comm))}, Right({comm}), NewComm(newcomm, comm))
MPI_Cart_create_f08 ==
  \E comm \in Args("Comm"), newcomm \in Targets("Comm") : C_MPI_Cart_create(comm, newcomm)

C_MPI_Comm_free(comm) == Free(comm, Comm(comm))
MPI_Comm_free_f08 == \E comm \in Usable("Comm") : C_MPI_Comm_free(comm)
-----------------------------------------------------------------------------
(* mpi_group.c, mpi_group_f.F90. *)

C_MPI_Group_rank(group) == OnGroup(group)
MPI_Group_rank_f08 == \E group \in Args("Group") : C_MPI_Group_rank(group)
C_MPI_Group_size(group) == OnGroup(group)
MPI_Group_size_f08 == \E group \in Args("Group") : C_MPI_Group_size(group)

TwoGroups(group1, group2) == {Use("Group", Group(group1)), Use("Group", Group(group2))}
C_MPI_Group_translate_ranks(group1, group2) ==
  Query(TwoGroups(group1, group2), Right({group1, group2}))
MPI_Group_translate_ranks_f08 ==
  \E group1, group2 \in Args("Group") : C_MPI_Group_translate_ranks(group1, group2)

\* The result is converted in the direction of arguments.
C_MPI_Group_compare(group1, group2) ==
  Comparison(Group(group1), Group(group2), "Group", Right({group1, group2}),
             [n \in DOMAIN MPI_COMPARE |-> C_MPI_COMPARE_RESULT_F2C(MPI_COMPARE[n])])
MPI_Group_compare_f08 == \E group1, group2 \in Args("Group") : C_MPI_Group_compare(group1, group2)

C_MPI_Comm_group(comm, group) == Create(group, {Use("Comm", Comm(comm))}, Right({comm}), New(group))
\* It has no Fortran interface: a part of the program in C calls it.
Comm_group == \E comm \in Args("Comm"), group \in Targets("Group") : C_MPI_Comm_group(comm, group)

GroupOf(group, newgroup) ==
  Create(newgroup, {Use("Group", Group(group))}, Right({group}), New(newgroup))
GroupOfTwo(group1, group2, newgroup) ==
  Create(newgroup, TwoGroups(group1, group2), Right({group1, group2}), New(newgroup))

C_MPI_Group_union(group1, group2, newgroup) == GroupOfTwo(group1, group2, newgroup)
MPI_Group_union_f08 ==
  \E group1, group2 \in Args("Group"), newgroup \in Targets("Group") :
    C_MPI_Group_union(group1, group2, newgroup)
C_MPI_Group_intersection(group1, group2, newgroup) == GroupOfTwo(group1, group2, newgroup)
MPI_Group_intersection_f08 ==
  \E group1, group2 \in Args("Group"), newgroup \in Targets("Group") :
    C_MPI_Group_intersection(group1, group2, newgroup)
C_MPI_Group_difference(group1, group2, newgroup) == GroupOfTwo(group1, group2, newgroup)
MPI_Group_difference_f08 ==
  \E group1, group2 \in Args("Group"), newgroup \in Targets("Group") :
    C_MPI_Group_difference(group1, group2, newgroup)
C_MPI_Group_incl(group, newgroup) == GroupOf(group, newgroup)
MPI_Group_incl_f08 ==
  \E group \in Args("Group"), newgroup \in Targets("Group") : C_MPI_Group_incl(group, newgroup)
C_MPI_Group_excl(group, newgroup) == GroupOf(group, newgroup)
MPI_Group_excl_f08 ==
  \E group \in Args("Group"), newgroup \in Targets("Group") : C_MPI_Group_excl(group, newgroup)
C_MPI_Group_free(group) == Free(group, Group(group))
MPI_Group_free_f08 == \E group \in Usable("Group") : C_MPI_Group_free(group)
-----------------------------------------------------------------------------
(* mpi_info.c, mpi_info_f.F90; the variants with descriptors differ in how   *)
(* they reach the characters of keys and values.                            *)

C_MPI_Info_create(info) == Create(info, {}, TRUE, New(info))
MPI_Info_create_f08 == \E info \in Targets("Info") : C_MPI_Info_create(info)
C_MPI_Info_dup(info, newinfo) ==
  Create(newinfo, {Use("Info", Info(info))}, Right({info}), New(newinfo))
MPI_Info_dup_f08 == \E info \in Usable("Info"), newinfo \in Targets("Info") : C_MPI_Info_dup(info, newinfo)
C_MPI_Info_free(info) == Free(info, Info(info))
MPI_Info_free_f08 == \E info \in Usable("Info") : C_MPI_Info_free(info)
C_MPI_Info_get_nkeys(info) == OnInfo(info)
MPI_Info_get_nkeys_f08 == \E info \in Usable("Info") : C_MPI_Info_get_nkeys(info)

C_MPI_Info_delete(info) == OnInfo(info)
CFI_MPI_Info_delete(info) == OnInfo(info)
MPI_Info_delete_f08 == ~HaveCFI /\ \E info \in Usable("Info") : C_MPI_Info_delete(info)
MPI_Info_delete_f08ts == HaveCFI /\ \E info \in Usable("Info") : CFI_MPI_Info_delete(info)
C_MPI_Info_get_nthkey(info) == OnInfo(info)
CFI_MPI_Info_get_nthkey(info) == OnInfo(info)
MPI_Info_get_nthkey_f08 == ~HaveCFI /\ \E info \in Usable("Info") : C_MPI_Info_get_nthkey(info)
MPI_Info_get_nthkey_f08ts == HaveCFI /\ \E info \in Usable("Info") : CFI_MPI_Info_get_nthkey(info)
C_MPI_Info_get_string(info) == OnInfo(info)
CFI_MPI_Info_get_string(info) == OnInfo(info)
MPI_Info_get_string_f08 == ~HaveCFI /\ \E info \in Usable("Info") : C_MPI_Info_get_string(info)
MPI_Info_get_string_f08ts == HaveCFI /\ \E info \in Usable("Info") : CFI_MPI_Info_get_string(info)
C_MPI_Info_set(info) == OnInfo(info)
CFI_MPI_Info_set(info) == OnInfo(info)
MPI_Info_set_f08 == ~HaveCFI /\ \E info \in Usable("Info") : C_MPI_Info_set(info)
MPI_Info_set_f08ts == HaveCFI /\ \E info \in Usable("Info") : CFI_MPI_Info_set(info)
-----------------------------------------------------------------------------
(* mpi_datatype.c, mpi_attr.c, mpi_op.c and their Fortran sides.             *)

\* Three routines take the program's integer for the library's.  A predefined
\* type may be their argument, too; its integer is none of the library's.
TakesInteger(routine, type) == predefined' = IF type \in Vars THEN "none" ELSE routine

\* A predefined type to be committed is a copy in a variable.
C_MPI_Type_commit(type) ==
  Query({Use("Type", HandleOf(type))}, Right({type})) /\ TakesInteger("Type_commit", type)
MPI_Type_commit_f08 == \E type \in Args("Type") : C_MPI_Type_commit(type)
C_MPI_Type_size(type) ==
  Query({Use("Type", HandleOf(type))}, Right({type})) /\ TakesInteger("Type_size", type)
MPI_Type_size_f08 == \E type \in Args("Type") : C_MPI_Type_size(type)
C_MPI_Type_get_name(type) == Query({Use("Type", Type(type))}, Right({type}))
CFI_MPI_Type_get_name(type) == Query({Use("Type", Type(type))}, Right({type}))
MPI_Type_get_name_f08 == ~HaveCFI /\ \E type \in Args("Type") : C_MPI_Type_get_name(type)
MPI_Type_get_name_f08ts == HaveCFI /\ \E type \in Args("Type") : CFI_MPI_Type_get_name(type)
C_MPI_Type_set_name(type) == Query({Use("Type", Type(type))}, Right({type}))
CFI_MPI_Type_set_name(type) == Query({Use("Type", Type(type))}, Right({type}))
MPI_Type_set_name_f08 == ~HaveCFI /\ \E type \in Args("Type") : C_MPI_Type_set_name(type)
MPI_Type_set_name_f08ts == HaveCFI /\ \E type \in Args("Type") : CFI_MPI_Type_set_name(type)

\* The C variable of the new type holds what was in its place when the call fails.
C_MPI_Type_dup(oldtype, newtype) ==
  LET uses == {Use("Type", HandleOf(oldtype))}
  IN  /\ Running /\ TakesInteger("Type_dup", oldtype)
      /\ \/ /\ Refusal(Right({oldtype}), uses) /\ UNCHANGED library
            /\ \E handle \in Ids \cup {Null["Type"]} : Store(newtype, handle, "unknown")
         \/ AllValid(uses) /\ Accepted(Right({oldtype})) /\ GivesObject(newtype, New(newtype))
MPI_Type_dup_f08 ==
  \E oldtype \in Args("Type"), newtype \in Targets("Type") : C_MPI_Type_dup(oldtype, newtype)

C_MPI_Type_free(type) == Free(type, HandleOf(type))
MPI_Type_free_f08 == \E type \in Usable("Type") : C_MPI_Type_free(type)

TypeOf(oldtype, newtype) ==
  Create(newtype, {Use("Type", Type(oldtype))}, Right({oldtype}), New(newtype))
C_MPI_Type_contiguous(oldtype, newtype) == TypeOf(oldtype, newtype)
MPI_Type_contiguous_f08 ==
  \E oldtype \in Args("Type"), newtype \in Targets("Type") : C_MPI_Type_contiguous(oldtype, newtype)
C_MPI_Type_vector(oldtype, newtype) == TypeOf(oldtype, newtype)
MPI_Type_vector_f08 ==
  \E oldtype \in Args("Type"), newtype \in Targets("Type") : C_MPI_Type_vector(oldtype, newtype)

\* Other orders stop the program.
C_MPI_TRANSLATE_MAJOR(f) ==
  CASE f = VAPAA_MPI_ORDER_C -> "C" [] f = VAPAA_MPI_ORDER_FORTRAN -> "Fortran" [] OTHER -> "none"
C_MPI_Type_create_subarray(order, oldtype, newtype) ==
  \/ C_MPI_TRANSLATE_MAJOR(order) # "none" /\ TypeOf(oldtype, newtype)
  \/ /\ Running /\ C_MPI_TRANSLATE_MAJOR(order) = "none"
     /\ Stopped("argument", Right({oldtype})) /\ UNCHANGED <<library, var, holds>>
MPI_Type_create_subarray_f08 ==
  \E order \in {VAPAA_MPI_ORDER_C, VAPAA_MPI_ORDER_FORTRAN, 0}, oldtype \in Args("Type"),
     newtype \in Targets("Type") : C_MPI_Type_create_subarray(order, oldtype, newtype)

C_MPI_Op_create(op) == Create(op, {}, TRUE, New(op))
MPI_Op_create_f08 == \E op \in Targets("Op") : C_MPI_Op_create(op)
C_MPI_Op_free(op) == Free(op, HandleOf(op))
MPI_Op_free_f08 == \E op \in Usable("Op") : C_MPI_Op_free(op)
-----------------------------------------------------------------------------
(* mpi_file.c, mpi_file_f.F90. *)

C_MPI_TRANSLATE_AMODE(f) == {n \in DOMAIN VAPAA_MPI_MODE : (f \div VAPAA_MPI_MODE[n]) % 2 = 1}

\* The modes that the library accepts, and what they allow.
Access(mode) == mode \cap {"RDONLY", "RDWR", "WRONLY"}
LegalMode(mode) ==
  /\ Cardinality(Access(mode)) = 1
  /\ "RDONLY" \in mode => mode \cap {"CREATE", "EXCL"} = {}
  /\ "RDWR" \in mode => "SEQUENTIAL" \notin mode
Allows(mode, access) ==
  \/ "RDWR" \in mode
  \/ access = "read" /\ "RDONLY" \in mode
  \/ access = "write" /\ "WRONLY" \in mode

C_MPI_File_open(comm, amode, asked, info, file) ==
  LET uses  == CommWithInfo(comm, info) \cup {FileName}
      right == Right({comm} \cup Optional(info))
      mode  == C_MPI_TRANSLATE_AMODE(amode)
  IN  \/ /\ LegalMode(mode)
         /\ Create(file, uses, right, [New(file) EXCEPT !.mode = mode, !.asked = asked])
      \/ /\ Running /\ ~LegalMode(mode) /\ GivesNothing(file)
         /\ \/ Refusal(right, uses)
            \/ AllValid(uses) /\ Refused("AMODE", right /\ LegalMode(asked), uses)
CFI_MPI_File_open(comm, amode, asked, info, file) == C_MPI_File_open(comm, amode, asked, info, file)

\* The program adds the constants of the modes that it asks for.
Bit(n, asked) == IF n \in asked THEN VAPAA_MPI_MODE[n] ELSE 0
ModesAdded(asked) ==
  Bit("APPEND", asked) + Bit("CREATE", asked) + Bit("DELETE_ON_CLOSE", asked) + Bit("EXCL", asked)
  + Bit("RDONLY", asked) + Bit("RDWR", asked) + Bit("SEQUENTIAL", asked) + Bit("UNIQUE_OPEN", asked)
  + Bit("WRONLY", asked)
Opens(Open(_, _, _, _, _)) ==
  \E comm \in Args("Comm"), asked \in Modes, info \in Args("Info"), file \in Targets("File") :
    Open(comm, ModesAdded(asked), asked, info, file)
MPI_File_open_f08 == ~HaveCFI /\ Opens(C_MPI_File_open)
MPI_File_open_f08ts == HaveCFI /\ Opens(CFI_MPI_File_open)

C_MPI_File_close(file) == Free(file, File(file))
MPI_File_close_f08 == \E file \in Usable("File") : C_MPI_File_close(file)
C_MPI_File_delete(info) == Query({FileName} \cup OptionalInfo(info), Right(Optional(info)))
CFI_MPI_File_delete(info) == C_MPI_File_delete(info)
MPI_File_delete_f08 == ~HaveCFI /\ \E info \in Args("Info") : C_MPI_File_delete(info)
MPI_File_delete_f08ts == HaveCFI /\ \E info \in Args("Info") : CFI_MPI_File_delete(info)
C_MPI_File_set_size(file) == OnFile(file)
MPI_File_set_size_f08 == \E file \in Usable("File") : C_MPI_File_set_size(file)
C_MPI_File_preallocate(file) == OnFile(file)
MPI_File_preallocate_f08 == \E file \in Usable("File") : C_MPI_File_preallocate(file)
C_MPI_File_get_size(file) == OnFile(file)
MPI_File_get_size_f08 == \E file \in Usable("File") : C_MPI_File_get_size(file)

C_MPI_File_set_view(file, etype, filetype, info) ==
  Query({Use("File", File(file)), Use("Type", Type(etype)), Use("Type", Type(filetype))}
          \cup OptionalInfo(info),
        Right({file, etype, filetype} \cup Optional(info)))
CFI_MPI_File_set_view(file, etype, filetype, info) == C_MPI_File_set_view(file, etype, filetype, info)
MPI_File_set_view_f08 ==
  /\ ~HaveCFI
  /\ \E file \in Usable("File"), etype, filetype \in Args("Type"), info \in Args("Info") :
       C_MPI_File_set_view(file, etype, filetype, info)
MPI_File_set_view_f08ts ==
  /\ HaveCFI
  /\ \E file \in Usable("File"), etype, filetype \in Args("Type"), info \in Args("Info") :
       CFI_MPI_File_set_view(file, etype, filetype, info)

\* A transfer: the library refuses one that the file's mode does not allow.
Transfer(file, type, access) ==
  LET uses  == {Use("File", File(file)), Use("Type", Type(type))}
      right == Right({file, type})
  IN  /\ Running
      /\ \/ Refusal(right, uses)
         \/ /\ AllValid(uses)
            /\ LET object == objects[File(file)]
               IN  \/ Allows(object.mode, access) /\ Accepted(right)
                   \/ /\ ~Allows(object.mode, access)
                      /\ Refused("ACCESS", right /\ Allows(object.asked, access), uses)
      /\ UNCHANGED <<library, var, holds>>

\* The variant with descriptors: an array that is not contiguous stops the program.
ArrayTransfer(file, type, contiguous, access) ==
  \/ contiguous /\ Transfer(file, type, access)
  \/ /\ Running /\ ~contiguous
     /\ Stopped("contiguity", Right({file, type})) /\ UNCHANGED <<library, var, holds>>

C_MPI_File_read_at(file, type)      == Transfer(file, type, "read")
C_MPI_File_read_at_all(file, type)  == Transfer(file, type, "read")
C_MPI_File_read(file, type)         == Transfer(file, type, "read")
C_MPI_File_read_all(file, type)     == Transfer(file, type, "read")
C_MPI_File_write_at(file, type)     == Transfer(file, type, "write")
C_MPI_File_write_at_all(file, type) == Transfer(file, type, "write")
C_MPI_File_write(file, type)        == Transfer(file, type, "write")
C_MPI_File_write_all(file, type)    == Transfer(file, type, "write")
CFI_MPI_File_read_at(file, type, contiguous)      == ArrayTransfer(file, type, contiguous, "read")
CFI_MPI_File_read_at_all(file, type, contiguous)  == ArrayTransfer(file, type, contiguous, "read")
CFI_MPI_File_read(file, type, contiguous)         == ArrayTransfer(file, type, contiguous, "read")
CFI_MPI_File_read_all(file, type, contiguous)     == ArrayTransfer(file, type, contiguous, "read")
CFI_MPI_File_write_at(file, type, contiguous)     == ArrayTransfer(file, type, contiguous, "write")
CFI_MPI_File_write_at_all(file, type, contiguous) == ArrayTransfer(file, type, contiguous, "write")
CFI_MPI_File_write(file, type, contiguous)        == ArrayTransfer(file, type, contiguous, "write")
CFI_MPI_File_write_all(file, type, contiguous)    == ArrayTransfer(file, type, contiguous, "write")

Plain(Routine(_, _)) ==
  ~HaveCFI /\ \E file \in Usable("File"), type \in Args("Type") : Routine(file, type)
WithDescriptor(Routine(_, _, _)) ==
  HaveCFI /\ \E file \in Usable("File"), type \in Args("Type"), contiguous \in BOOLEAN :
               Routine(file, type, contiguous)
MPI_File_read_at_f08        == Plain(C_MPI_File_read_at)
MPI_File_read_at_f08ts      == WithDescriptor(CFI_MPI_File_read_at)
MPI_File_read_at_all_f08    == Plain(C_MPI_File_read_at_all)
MPI_File_read_at_all_f08ts  == WithDescriptor(CFI_MPI_File_read_at_all)
MPI_File_read_f08           == Plain(C_MPI_File_read)
MPI_File_read_f08ts         == WithDescriptor(CFI_MPI_File_read)
MPI_File_read_all_f08       == Plain(C_MPI_File_read_all)
MPI_File_read_all_f08ts     == WithDescriptor(CFI_MPI_File_read_all)
MPI_File_write_at_f08       == Plain(C_MPI_File_write_at)
MPI_File_write_at_f08ts     == WithDescriptor(CFI_MPI_File_write_at)
MPI_File_write_at_all_f08   == Plain(C_MPI_File_write_at_all)
MPI_File_write_at_all_f08ts == WithDescriptor(CFI_MPI_File_write_at_all)
MPI_File_write_f08          == Plain(C_MPI_File_write)
MPI_File_write_f08ts        == WithDescriptor(CFI_MPI_File_write)
MPI_File_write_all_f08      == Plain(C_MPI_File_write_all)
MPI_File_write_all_f08ts    == WithDescriptor(CFI_MPI_File_write_all)
-----------------------------------------------------------------------------
(* mpi_error.c, mpi_error_f.F90: the program asks about its last code. *)

Asked == IF last.cause = "SUCCESS" THEN MPI_SUCCESS
         ELSE IF last.cause \in DOMAIN VAPAA_MPI_ERR THEN MPI_ERR[last.cause] ELSE MPI_ERR.UNKNOWN
C_MPI_Error_string(errorcode_f) ==
  ReturnsCode("SUCCESS", MPI_SUCCESS, TRUE, C_MPI_ERROR_CODE_F2C(errorcode_f), Asked)
CFI_MPI_Error_string(errorcode_f) == C_MPI_Error_string(errorcode_f)
MPI_Error_string_f08 ==
  ~HaveCFI /\ Running /\ C_MPI_Error_string(rc) /\ UNCHANGED <<library, var, holds>>
MPI_Error_string_f08ts ==
  HaveCFI /\ Running /\ CFI_MPI_Error_string(rc) /\ UNCHANGED <<library, var, holds>>

\* The class is the library's, not converted: no answer in the program's numbers.
C_MPI_Error_class == Accepted(TRUE)
MPI_Error_class_f08 == Running /\ C_MPI_Error_class /\ UNCHANGED <<library, var, holds>>
-----------------------------------------------------------------------------
CoreNext ==
  \/ MPI_Init_f08 \/ MPI_Init_thread_f08 \/ MPI_Query_thread_f08 \/ MPI_Initialized_f08
  \/ MPI_Finalized_f08 \/ MPI_Finalize_f08 \/ MPI_Abort_f08
CommsNext ==
  \/ MPI_Comm_rank_f08 \/ MPI_Comm_size_f08 \/ MPI_Cart_coords_f08 \/ MPI_Dims_create_f08
  \/ MPI_Comm_compare_f08 \/ MPI_Comm_dup_f08 \/ MPI_Comm_dup_with_info_f08 \/ MPI_Comm_idup_f08
  \/ MPI_Comm_idup_with_info_f08 \/ MPI_Wait \/ MPI_Comm_create_f08 \/ MPI_Comm_create_group_f08
  \/ MPI_Comm_split_f08 \/ MPI_Comm_split_type_f08 \/ MPI_Cart_create_f08 \/ MPI_Comm_free_f08
GroupsNext ==
  \/ MPI_Group_rank_f08 \/ MPI_Group_size_f08 \/ MPI_Group_translate_ranks_f08
  \/ MPI_Group_compare_f08 \/ Comm_group \/ MPI_Group_union_f08 \/ MPI_Group_intersection_f08
  \/ MPI_Group_difference_f08 \/ MPI_Group_incl_f08 \/ MPI_Group_excl_f08 \/ MPI_Group_free_f08
InfosNext ==
  \/ MPI_Info_create_f08 \/ MPI_Info_dup_f08 \/ MPI_Info_free_f08 \/ MPI_Info_get_nkeys_f08
  \/ MPI_Info_delete_f08 \/ MPI_Info_delete_f08ts \/ MPI_Info_get_nthkey_f08
  \/ MPI_Info_get_nthkey_f08ts \/ MPI_Info_get_string_f08 \/ MPI_Info_get_string_f08ts
  \/ MPI_Info_set_f08 \/ MPI_Info_set_f08ts
TypesNext ==
  \/ MPI_Type_get_name_f08 \/ MPI_Type_get_name_f08ts
  \/ MPI_Type_set_name_f08 \/ MPI_Type_set_name_f08ts \/ MPI_Type_free_f08
  \/ MPI_Type_contiguous_f08 \/ MPI_Type_vector_f08 \/ MPI_Type_create_subarray_f08
  \/ MPI_Op_create_f08 \/ MPI_Op_free_f08
IntegersNext ==
  MPI_Type_commit_f08 \/ MPI_Type_size_f08 \/ MPI_Type_dup_f08
FilesNext ==
  \/ MPI_File_open_f08 \/ MPI_File_open_f08ts \/ MPI_File_close_f08 \/ MPI_File_delete_f08
  \/ MPI_File_delete_f08ts \/ MPI_File_set_size_f08 \/ MPI_File_preallocate_f08
  \/ MPI_File_get_size_f08 \/ MPI_File_set_view_f08 \/ MPI_File_set_view_f08ts
TransfersNext ==
  \/ MPI_File_read_at_f08 \/ MPI_File_read_at_f08ts
  \/ MPI_File_read_at_all_f08 \/ MPI_File_read_at_all_f08ts
  \/ MPI_File_read_f08 \/ MPI_File_read_f08ts
  \/ MPI_File_read_all_f08 \/ MPI_File_read_all_f08ts
  \/ MPI_File_write_at_f08 \/ MPI_File_write_at_f08ts
  \/ MPI_File_write_at_all_f08 \/ MPI_File_write_at_all_f08ts
  \/ MPI_File_write_f08 \/ MPI_File_write_f08ts
  \/ MPI_File_write_all_f08 \/ MPI_File_write_all_f08ts
ErrorsNext ==
  \/ MPI_Error_string_f08 \/ MPI_Error_string_f08ts \/ MPI_Error_class_f08

Next ==
  \/ /\ \/ CoreNext \/ CommsNext \/ GroupsNext \/ InfosNext \/ TypesNext \/ FilesNext
        \/ TransfersNext \/ ErrorsNext
     /\ predefined' = "none"
  \/ IntegersNext
CallInit == Init /\ predefined = "none"
Spec == CallInit /\ [][Next]_call_vars
-----------------------------------------------------------------------------
(* Properties. *)

Codes == {VAPAA_MPI_SUCCESS} \cup {VAPAA_MPI_ERR[n] : n \in DOMAIN VAPAA_MPI_ERR}
Object == [class : Classes \cup {"none"}, owner : Vars \cup {"none"},
           errors : {"fatal", "return", "none"}, request : Vars \cup {"none"},
           mode : SUBSET DOMAIN VAPAA_MPI_MODE, asked : SUBSET DOMAIN VAPAA_MPI_MODE]

Causes == {"SUCCESS"} \cup DOMAIN VAPAA_MPI_ERR \cup Failures
          \cup {"abort", "argument", "contiguity", "result"}

\* Types; in particular a return code is one of the program's constants,
\* whatever integer the library's error code is (C_MPI_RC_FIX of every routine).
ObjectsTypeOK ==
  /\ HaveCFI \in BOOLEAN /\ predefined \in {"none", "Type_commit", "Type_size", "Type_dup"}
  /\ program \in Programs
  /\ phase \in {"before", "running", "after", "aborted"}
  /\ starter \in {"none", "Init", "Init_thread"} /\ level \in DOMAIN MPI_THREAD
  /\ handler \in [{MPI_COMM_WORLD, MPI_COMM_SELF} -> {"fatal", "return"}]
  /\ objects \in [Ids -> Object]
  /\ var \in [Vars -> Int] /\ holds \in [Vars -> {"object", "null", "unknown"}]
  /\ rc \in Codes
  /\ last \in [cause : Causes, right : BOOLEAN, told : Int, truth : Int]

\* A variable that was given an object names it as long as the object lives, and
\* one that was given none, or whose object was freed, names no object: a handle
\* that a call freed or did not create is never an object of another variable,
\* also when the library gives its integer to a new object.
HandlesOwnObject ==
  \A v \in Vars :
    /\ holds[v] = "object" =>
         var[v] \in Ids /\ objects[var[v]].class = ClassOf[v] /\ objects[var[v]].owner = v
    /\ holds[v] = "null" => var[v] \notin Ids

\* Every object of the library is named by the variable it was created for: no
\* call loses an object, on whichever path it returns.
NoObjectLost ==
  \A id \in Ids :
    objects[id] # NoObject =>
      /\ objects[id].owner \in Vars
      /\ holds[objects[id].owner] = "object" /\ var[objects[id].owner] = id

\* The library refuses a handle only if the program has no right to pass it: the
\* handles of its objects and the predefined ones arrive at the library as what
\* they are, and a file's mode as what the program asked for.  Left out are the
\* predefined types given to Type_commit, Type_size and Type_dup, which do not
\* arrive as what they are (mpi_datatype.c:26,35,44): see PredefinedTypesAnswered.
RefusedOnlyInvalid ==
  last.cause \in {NameOfClass[k] : k \in Classes} \cup {"ACCESS", "AMODE"} /\ predefined = "none"
    => ~last.right

\* A program that starts MPI by MPI_Init is told of the errors of its calls, and
\* stopped only for one of the known reasons: its own abort, an integer that a
\* routine does not translate, an array a file routine does not support, or the
\* result of a comparison that failed.
ErrorsReachProgram ==
  phase = "aborted" /\ starter = "Init"
    => last.cause \in {"abort", "argument", "contiguity", "result"}

\* What the program is told in its own numbers is what the library said: thread
\* levels, results of comparisons, flags, and the text about an error code.
AnswersTrue == last.told = last.truth

(* A claim of the repository's tests that the code does not meet (a run that *)
(* expects a violation).                                                     *)

\* tests/mpich/datatype/sizeof.f90:29 asks Type_size about MPI_REAL and compares
\* the answer: a predefined type given to Type_size is not refused as invalid.
PredefinedTypesAnswered == predefined = "Type_size" => last.cause # "TYPE"
=============================================================================
