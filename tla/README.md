# Verification of Vapaa

Vapaa implements the Fortran 2008 bindings of MPI (`mpi_f08`) on top of the C
interface of an MPI library. This directory holds TLA+ models of its core
logic, the TLC runs that check them on small instances, and TLAPS proofs.

## 1. The system

A call goes through three layers:

    program  ->  MPI_X_f08 / MPI_X_f08ts   (mpi_*_f.F90)   Fortran integers, LOGICAL, optional ierror
             ->  C_MPI_X / CFI_MPI_X       (mpi_*.c)       handle, constant and status conversion
             ->  MPI_X                     (MPI library)   external

`mpi_*_c.F90` declares the C routines to Fortran. `_f08ts` and `CFI_` carry
buffers as array descriptors (`CFI_cdesc_t`), which may be strided.

| component | files (src/source) | state | operations | hard behaviour | correct means |
|---|---|---|---|---|---|
| Requests | mpi_p2p.c, mpi_p2p_f.F90, convert_handles.h, mpi_request.c | the program's request variables, C copies during a call | Isend, Irecv, Wait*, Test* | threads and library progress between conversion, library call and write-back; malloc failures; recycled request objects; zero- and one-based indices; status layouts | a slot names its own live operation or none; no request is lost; outputs agree with what was completed; calls return |
| Descriptors | cfi_util.c | a temporary datatype | CREATE_DATATYPE and its variants by rank and type | counts that end inside a row, rank limits, byte and element units, errors after creation | the type selects the first count elements in array element order |
| Point-to-point | mpi_p2p.c (C_* and CFI_* of Send ... Unpack) | temporary datatypes of a call; the position in a pack buffer | Send, Isend, Recv, Irecv, Mrecv, Imrecv, Sendrecv, Pack, Unpack | the library matches while the program goes on; two buffers decided by one test; types freed while a receive is pending; copies of the position | the elements sent arrive in the elements of the receiving section, in order, and nowhere else |
| Matching | mpi_p2p.c | message handles | Probe, Mprobe, Mrecv, Imrecv | message between probe and receive, integers of handles used again, null handles, untranslated constants | the message received is the one probed for, once; statuses say so |
| Collectives | mpi_coll.c, detect_builtins.h | none between calls; temporary datatypes of a call | Barrier ... Alltoallv | a process that returns an error before it takes part leaves the others waiting; each process decides by its own arguments how it passes its buffers; release on error paths | all processes take part or none, in the same call; sections behave like arrays of their elements; no datatype stays behind |
| Initialisation | mpi_core.c, detect_sentinels.c | sentinel addresses, error handlers, thread level | Init, Init_thread, Finalize, Abort, queries | Init and Init_thread differ; calls before Init | errors reach the program; levels are told in its own numbers |
| Communicators, groups | mpi_comm.c, mpi_group.c | handles | dup, idup, split, create, free, compare; union ... excl | address of a local variable given to a nonblocking call; calls that succeed without an object; failed calls; freed integers used again; error handlers inherited | a variable names its own object or none; no object is lost |
| Datatypes, operations | mpi_datatype.c, mpi_op.c, mpi_attr.c, convert_handles.h | handles | create, dup, commit, free, names | builtin and user handles share integers | as above |
| Files, info | mpi_file.c, mpi_info.c | handles, open modes | open, close, delete, views, transfers; create, dup, set, get, free | modes that have other bits in the library; optional info; sections | a file is opened with the modes asked for |
| Errors | mpi_error.c | none | class translation | classes the library does not have; two numberings | a code means the same on both sides |
| Windows, RMA, messages | mpi_win.c, mpi_rma.c, mpi_message.c | none | none | empty files | not modelled |

The components share no memory but the sentinel addresses; they interact
through the handles the program passes from one to the other: requests of
nonblocking calls go to the completion routines, datatypes of the descriptor
routines to the calls that send with them, communicators and error handlers to
everything.

The modules, with what extends what:

    RequestSet   (abstract)  <- implemented by -  Requests        - RequestsProofs
    CfiDatatype                                                   - CfiDatatypeProofs
    Collectives                                                   - CollectivesProofs (with SumProofs)
      PointToPoint (extends Collectives: one program, one memory) - PointToPointProofs - DeliveryProofs, EnvelopeProofs
    Objects      (handles, library, what all wrappers share)
      ObjectCalls (extends Objects: the routines)                 - ObjectCallsProofs
    MC_Requests, MC_CfiDatatype, MC_Collectives, MC_PointToPoint, MC_ObjectCalls   (instances for TLC)

## 2. What is modelled

### RequestSet.tla (abstract)
What a program may rely on: an operation is started into an empty slot of its
request array, finishes by itself, and leaves the slot once, after it finished.
One step per effect; no wrappers.

### Requests.tla
The same, as the code does it. One action per C wrapper (`C_MPI_Wait`,
`C_MPI_Waitall`, ...), each a disjunction of the steps of a call:

| step | code | pc of the thread |
|---|---|---|
| `Convert` / `NewRequest` / `NoMemory` | malloc, the F2C loop | idle -> called, or returned |
| `MPI_X` | the library call (external) | called -> finished |
| `WriteBack` with `MPI_X_f08` | the c2f loop, free, `C_MPI_RC_FIX`, output fix-ups of the Fortran wrapper | finished -> returned |
| `Resume` | the program reads the outputs | returned -> idle |

Waitall has one more: the second malloc fails, and the call returns with
neither the library called nor the handles written back. The library keeps
`request_op` (which operation a request object stands for), frees and reuses
objects, completes operations in any order (`Complete`) and may fail those in
`MayFail`.

State and code: `requests[s]` is `requests(s) % MPI_VAL`; `creq[s]` is the
element of the malloc'ed array (or the local variable) that belongs to the
slot; `holder[s]` is the thread whose call was given the slot, and a program
does not pass one request to two calls at once, as MPI requires; `io[t]` holds
the output arguments; `origin` is a history variable.

Modelled data: a status is the operation it is about. Where the code has no
status conversion, `Overlay` computes which library status Fortran reads from
the word where its own layout has `MPI_SOURCE`. An uninitialised output is a
choice (`Uninit`) or the value `Unset`. Error codes carry a tag that says
whose numbering they use.

### CfiDatatype.tla
`VAPAA_CFI_CREATE_DATATYPE` and the functions it calls, for one call. The
descriptor (rank, extents, byte strides), the count and the MPI type are the
call; a datatype is its type map `[n, disp]`: n elements at byte displacements.

| action | code (cfi_util.c) |
|---|---|
| `TooManyElements` | extents or their product above INT_MAX, count above the number of elements (566-598) |
| `Vector` | one hvector, rank 1 or count within a row (607-617) |
| `VectorOfRows`, `VectorOfVectors` | whole rows of a plane, first dimension contiguous or not (625-649) |
| `EnterLoops`, `Element` | the nested loops, one statement of the innermost body per step: two loops (665-673), three (699-711), fifteen (278-339), or those over all elements for a user-defined type (361-455) |
| `HIndexed` | the hindexed type of what the loops enumerated |
| `VerifySize` | the size check before the return (730-738) |
| `Pick`, `HIndexedPicked` | one segment of the user-defined type's I/O vector; the type of all that was picked (461-551) |
| `Unsupported`, `NoMemory`, and `Return("abort")` in `Create` | rank 15; a malloc that fails; a library error that an assertion turns into an abort |

`visited` is a history variable: the subscripts each displacement was computed
from. With it "the first count elements in array element order" is a statement
about subscripts, independent of strides (which may be negative or zero).
`InElementOrder` defines it without arithmetic: the list begins with the zero
subscript and each next one is the immediate successor of the one before, the
first dimension varying fastest. Extents that a dimension does not have count
as 1, as in the code's 15 loops; the two and three loop variants are the same
loops with fewer dimensions. C integers have their width (`IntMax`) in two
places. In `VerifySize`, `count * elem_len` may overflow, and the outcome of the
comparison is a choice. In the loops, the extents are narrowed from `ssize_t`
to `int` (`AsInt`, `LoopExtent`; lines 251-265 and 371-385). A predefined type
is refused before if that changes an extent; on the way of a user-defined type
nothing looks, so the loops go to the narrowed ends, and addresses behind them
stay unwritten. `Fits` says that no extent changes. The properties that say
what a call returns are about such arrays; TypeOK and the refusals are about all.

### Collectives.tla
`mpi_coll.c` between the processes of a communicator. Each process runs the
same program, a sequence of collectives with arguments of its own, and has
its own two arrays in memory. One action per routine (`C_MPI_Gather`,
`CFI_MPI_Gather`, ...), each a disjunction of the steps of a call:

| step | code | pc of the process |
|---|---|---|
| `Start` | the Fortran wrapper calls the C routine | idle -> called |
| `CreateType` | creation and commit of the datatype of a section; its assertions | stays called, or abort |
| `Reject` | a user's operation with a predefined type | called -> finished |
| `Abort` | sections in reductions and V-collectives, failed assertions | program ends |
| `Enter` | the library call begins (external) | called -> inside; finished for a bad root |
| `Leave` | the library call ends (external) | inside -> finished |
| `Return` | `C_MPI_RC_FIX`, release of the datatypes the routine names | finished -> idle |

What is released is an argument of `Return`, given by each routine as its own
`PMPI_Type_free` calls and their conditions have it: `Noncontiguous(p, sides)` in those
with sections, nothing in the others. `temp` keeps a type that is not released.
Routines with the same body share it: `WithTypes` for Gather, Allgather,
Scatter and Alltoall on descriptors, `Reduction` and `CFI_Reduction`,
`CFI_Vector`. `HaveCFI` is the build option of that name; without it the
compiler passes contiguous copies.

State and code: `temp[p]` is `in_type`, `out_type` of the call, `args[p]` what
it passes to the library, `mem[p]` the arrays of the program, cell by cell.
The library (`coll`, `entered`) knows collectives only by their number, as MPI
does: the n-th of one process meets the n-th of the others, whatever it is.
It exchanges data by type maps and extents. It checks the root before it
communicates; other errors of its own are not modelled. `given` is a history
variable: the arrays when a call was made, from which `Expected` computes what
the call should leave, in terms of elements of sections and without datatypes.

Sections are of rank one with a positive stride, of a predefined type. Other
ranks and strides are CfiDatatype's subject; here only the extent of the
datatype and the number of elements matter, and `SectionType` states them.

### PointToPoint.tla
The rest of `mpi_p2p.c` (from `C_MPI_Probe` on), in the same programs: it
extends Collectives by rounds "PointToPoint", in which each process makes a
call of its own (`arg[p].op`), and by rounds "Wait", in which a process waits
for all its operations. Calls on descriptors, collectives and pending receives
so meet in one memory. Module Requests has what the wrappers do to the handles
of these requests; here only their data matters.

| step | code | pc of the process |
|---|---|---|
| `Start` | the Fortran wrapper calls the C routine | idle -> called |
| `WithType`, `CreateType`, `MakeType` | contiguous or not; creation and commit of the datatype; its assertions | stays called, or abort |
| `Post`, `Receive` | the library call that sends or receives begins (external) | called -> inside, or finished for a nonblocking call and a refusal |
| `Match` | the library gives a message to a receive (external) | any |
| `Finish` | a waiting library call ends (external) | inside -> finished |
| `Answer`, `Copy` | calls that the library answers at once: probes, packing, errors | called -> finished |
| `P2PReturn` | `C_MPI_RC_FIX`, release of the datatypes the routine names | finished -> idle |

The library: a message is in `msgs` from the call that sends it until a receive
or an Mprobe takes it, a receive in `recvs` until its call, or the wait for it,
returns. `Match` takes them in MPI's order (of each sender the first message
that fits, of a receiver the first receive that fits) and at any time, so a
datatype the wrapper has freed, an array the program goes on to use and a
handle used again may all come before it. A send may be buffered or not: both
`Finish(p, FALSE)` and, with fairness, `Finish(p, TRUE)` are steps. Messages
taken by Mprobe (`held`) have small integers that are used again once received.

State and code: `message[p]` are the program's MPI_Message variables in
Vapaa's integers; `C_MPI_MESSAGE_F2C` converts them, and Mrecv and Imrecv,
which take the handle by value, do not write the null message back, so a
variable keeps a stale integer. (tests/mpich/pt2pt/mprobef08.f90:99 and 171 expect
MPI_MESSAGE_NULL; that test cannot be built, as the two have no Fortran interface.) `status`
is the program's status, written only where the call gives the library its
address (`StatusArgument`; Probe has the test the wrong way round). `position`
is the Fortran variable of Pack and Unpack with its copies in C
(`CopiedBack`). `C_MPI_PROC_NULL_DETECTOR` is applied by the probes only;
`MPI_ANY_SOURCE` and `MPI_ANY_TAG` arrive at the library as Vapaa's integers
and are refused (`ReceiveCode`). `TreatedAsContiguous` is Sendrecv's
condition, which tests the send descriptor twice. `got` is a history variable:
the message each call received, with the elements of the section it was sent
from.

### Objects.tla, ObjectCalls.tla
Handles in one process. A handle of C is named by the integer that
`MPI_Comm_c2f` and its likes give for it, so `var` (the program's variables)
and `objects` (the library's) speak of the same integers, and only Vapaa's
constants for predefined and null handles need a translation. The library uses
the integer of a freed object for a new one of any class. Objects.tla has the
conversions and what the wrappers share:

| shape | routines | what happens |
|---|---|---|
| `Create` | Comm_dup, Group_incl, Info_create, Type_vector, File_open, ... | refused, and the C variable set to null before the call is converted; or a new object |
| `CreateMaybe` | Comm_create, Comm_split_type, Cart_create | also success without an object |
| `Idup` | Comm_idup, Comm_idup_with_info | two handles; the communicator is complete after `MPI_Wait` |
| `Free` | Comm_free, ..., File_close | refused, and the converted handle is written back; or freed |
| `Query` | ranks, sizes, names, info entries, transfers, ... | refused or done |
| `Comparison` | Comm_compare, Group_compare | the result is converted even if the library refused, which may stop the program |

`Refusal` is any reason for which the library may refuse a call: a handle that
is none, lack of memory, or a class that Vapaa has no name for. What follows
depends on the error handler: `fatal` stops the program, `return` gives a code
that goes through `C_MPI_RC_FIX`. A communicator inherits the handler of its
parent; `MPI_Init` sets both predefined ones to `return`, `MPI_Init_thread`
does not. ObjectCalls.tla has one action per Fortran routine, `MPI_X_f08` or
`MPI_X_f08ts`, for the C routine `C_MPI_X` or `CFI_MPI_X` (`HaveCFI` decides
which exists). Programs give any variable of the right class in any order:
of a live object, null, or of one that was freed. They do not look at a
handle a failed call left undefined, nor use a communicator before its idup is
complete. `Comm_group` has a C routine and no Fortran interface; it is there
because without it no program has a group. Type_commit, Type_size and Type_dup
hand the program's integer to `MPI_Type_f2c` as it is; programs give them predefined types,
too, as tests/mpich/datatype/sizeof.f90 does, and the library knows none of
those integers (`TakesInteger`).

History variables: `holds` is what a variable was last given (an object, null,
nothing defined), `starter` the routine that initialised MPI, and `last` what the last
call was about: whether the program had a right to the handles it passed, and
what it was told against what the library said. `predefined` tells that the last call
was one of those three with a predefined type. A file has the mode it was
opened with in the library's terms, and as the program asked for it.

## 3. Runs (instances in the MC modules)

| run | instance | shows |
|---|---|---|
| threads | 2 threads, 2 slots, 2 request objects, 2 operations, Isend Wait Waitall Testany | TypeOK, HandlesOwnOperation, NoOrphanRequest, WaitallCompletesAll, ImplementsRequestSet |
| array | 1 thread, 3 slots, Irecv and all completion routines, with fairness | AnyIndexNamesCompleted, TestallAllOrNothing, CallsReturn, PollingCompletes |
| null, indices, statuses | 1 thread, 2 slots | violations: see below |
| descriptors | all calls of `MCCalls` | TypeOK, SelectsInElementOrder, EachDisplacementWrittenOnce, IndexedSelectsTypeElements, LegalCallSucceeds |
| repeat | user-defined types, count 2 | violation: see below |
| collectives | 2 processes, arrays of 8 cells, programs of collectives, of point-to-point calls and of both | TypeOK, P2PTypeOK, TypesReleased, CollectivesMatch, AbortsOnlyUnsupported, ResultAsIfPacked, EnvelopesAgree, PositionCounts, DeliversElements, CallsReturn |
| sections | 2 processes, one collective with a block per process in a section | violation: see below |
| sendrecv | 2 processes, one exchange | violation: see below |
| objects | 8 programs of 2 or 3 variables, 3 integers, 5 sets of modes, MPICH's numbers | ObjectsTypeOK, HandlesOwnObject, NoObjectLost, RefusedOnlyInvalid, ErrorsReachProgram, AnswersTrue |
| sizeof | the same programs | violation: see below |

Bounds. Two slots per section and two threads give every interleaving of two
calls with the library; three slots give sections that are a proper part of
the array, start inside it and leave holes (null slots between live ones), so
that an off-by-one in an index, a section start or a status is visible. Two
request objects for two operations let an object be recycled while the other
slot's call is between its conversions. One operation may fail. `MaxLost`
bounds the arrays lost when Waitall's second malloc fails (the leak repeats for
ever; 0 in `array`, where only a failure of the first malloc is possible, 1 in
`threads`, where WaitallCompletesAll looks at what is left then), `Routines` the routines a run uses: `array` has all but Isend,
which `threads` has. Handle integers are those of
MPICH (`MCReqInt`), as are `LibUndefined` and the status layout.

The calls of `descriptors` are ranks 1 to 4 with extents 0 to 5, the last one
also -1 (assumed size), strides that are contiguous, spaced and reversed,
counts from -1 to above the number of elements, elements whose MPI type is
unknown or too short, and two vector types with a hole. Every way to build a
datatype has counts that end inside a row, at its end and inside a plane, so
that each of the code's case distinctions is taken on both sides. `IntMax` is
44, small enough for the size check to overflow and for the products of the
extents to be near it; extents of 45, 90, 91 and 92 are beyond it and become
-45, 0, 1 and 2 in the loops. Rank 15 appears with a few counts, for the branch that
rejects it. User-defined types of four-byte elements have
count 0 and 1 here, whether or not they fit into the array, and types of bytes up to
3; count 2 with larger elements is `repeat`.
The function returns, so deadlock is not an error in these two runs.

The collectives of run `collectives` have every routine, both roots, both operations
with predefined and other types, MPI_IN_PLACE where MPI allows it, sections on
all, some or no processes, counts at, below and above the section's size, bad
roots, and blocks of different sizes in the V-collectives. Two processes are
enough for one to be ahead of the other and for a mismatch; in programs of two
calls the first is a collective a process can leave early (Reduce, Bcast) or
one that is refused, so the processes are in different calls at once. In
`collectives`, a section is passed where it holds one block; where it holds a
block for each process is `sections`.

Its point-to-point programs: each kind of send into each kind of receive, with
elements, a section of stride 2 and a type of two elements on either side, and
one that does not fit; several messages taken by tag out of their order, by
probe, by two matched probes at once (`MessageIds` has two integers, and two
variables hold them) and with an integer used again while a receive of the
message before is pending; receives pending over a barrier, another receive into the same
array and a gather; messages to oneself; exchanges; calls that are refused,
followed by calls that must still work; packing that goes on, fails at the end
of its buffer and goes on again. The exchange with gaps on the receiving side
only is `sendrecv`.

The programs of `objects` have two variables of a class, or of those classes
that are arguments of one call. With three integers an object's integer is
used again while a stale copy of it exists and another object lives. The modes
are one of each kind of access, one that is none and one that is two.

A program ends, so deadlock is not an error in these runs; that no process is
stuck is CallsReturn.

Thread symmetry is used where no liveness is checked.

Fairness (`FairSpec`). The library completes every started operation
(`WF(Complete)`): MPI's progress rule, with peers that do their part. A thread
inside a call takes its next step when it can: the wrappers have no lock and
no wait of their own, only the library's. Nothing forces the program to make
another call.

Fairness of Collectives and PointToPoint (`Spec`, `MPISpec`). A process goes on
with its program (`WF(Start)`) and with a call it is in (`WF(Wrapper)`,
`WF(P2PWrapper)`: no wrapper waits). The library lets a process leave a
collective at the latest when all processes have entered it
(`WF(AllEntered /\ Leave)`), matches a receive when there is a message for it
(`WF(Matches)`), and ends a waiting call when its receives are finished and its
messages taken (`WF(Finish(p, TRUE))`): it may keep a sender until then, which
is all that MPI promises. The programs are ones that end under these rules.

Violations. Each checks a promise the repository makes elsewhere:
- `null`: after a successful Wait the variable differs from MPI_REQUEST_NULL,
  which tests/mpich/pt2pt/utilsf08.f90:68 compares with.
- `indices`: Waitsome stores zero-based indices; prsendf08.f90:87 expects them
  in 1..count.
- `sizeof`: Type_size refuses MPI_REAL and its likes as no datatype
  (mpi_datatype.c:35); tests/mpich/datatype/sizeof.f90:29 asks for its size and
  compares. RefusedOnlyInvalid leaves out these arguments of the three routines that
  take integers as they are, and no others.
- `repeat`: the second repetition of a user-defined type is looked for `extent`
  elements on, where `extent` is in bytes (cfi_util.c:498, 506); the comment
  cfi_util.c:457-460 promises the elements contained in the datatype. With
  count 1 the property holds (run `descriptors`).
- `sections`: the datatype made for a section is used for a block per process
  without giving it the extent of the block (mpi_coll.c:216), so all blocks but
  the first are misplaced; README.md:84-87 lists these functions as supported
  and README.md:33-37 excepts only user-defined types, reductions and
  V-collectives.
- `sendrecv`: with a contiguous send buffer and a receiving section with gaps,
  the elements are stored next to each other, in cells outside the section
  (mpi_p2p.c:451 tests the send descriptor twice); README.md:33 excepts
  noncontiguous subarrays only with user-defined datatypes.
- `statuses`: Testall's second status is read from the wrong words; the design
  note of mpi_p2p.c:291 says no conversion is needed.

A divergence without a run: with no active request, Waitany leaves index as it
was (mpi_p2p_f.F90:311), where mpi_global_constants.F90:61 names MPI_UNDEFINED
as its sentinel. The model has it (`Unset` in `MPI_Waitany_f08`).

What these properties cannot tell. With MPICH's and Open MPI's numbers a thread level
or comparison result converted in the wrong direction is the same integer, so
AnswersTrue notices missing cases, not directions. The abort on the result of a comparison
that failed is the code's behaviour and one of the causes ErrorsReachProgram
admits, and it does not speak of programs started by Init_thread, which leaves errors
fatal. The model of idup writes the handle at once, as MPICH does; with a
library that writes it on completion the wrapper's local variable would be gone.

## 4. Proofs

### RequestsProofs.tla

For all constants that satisfy `RequestsAssumption` (library integers are
distinct and none is -17; slots, threads and objects in any number):

- `TypeCorrect`, `HandleSafety`, `NoRequestLost`: `Spec => []...` of the three
  invariants of run `threads`.
- `Refinement`: `Spec => ImplementsRequestSet`.
- `WaitallCompletes`, `AnyNamesCompleted`: `Spec => []...` of WaitallCompletesAll and
  AnyIndexNamesCompleted; `TestallTakesAllOrNothing`: `Spec =>` the action property
  TestallAllOrNothing.

The invariants are not inductive alone. A free or a start is harmless only
because the C copy still agrees with the Fortran slot when the library is
called (`CopiesAgree`, which also justifies that Waitall may return without
writing back), because only a thread in a call holds slots
(`HoldersAreCalling`), and because Isend and Irecv begin with a null request
(`StartsFromNull`). `IInv` adds these. The proof classifies each step by its
effect on `Names(s)`, the request a slot stands for: `Silent`, `Frees(S)`,
`Starts(s, o, r)`, `Completes(o)`. Lemmas put every step of every wrapper into
a class (`ConvertStep`, `WriteBackStep`, `FreeStep`, ...), and the invariants
and the refinement follow from the classes alone: silent steps stutter, the
others are `Collect`, `StartOp` and `FinishOp`. `RoundTrip` (c2f then F2C is
the identity) is where the assumption on integers is used.

The outputs need what a call has done so far. `ReportsInvariance` adds it to
`IInv`, by pc: between the library call and the write-back, which requests the
library took and which of them the C copies still have to report; after the
write-back, that what the program is about to read agrees with that. For Waitall this
covers the returns with an error, too: a code of the library's means that an
operation of the section has failed, one of the wrapper's that nothing was touched, and
`DoneOrNamed` that no started operation is ever neither done nor in its slot. Testall
is about one step, the return, of which there are two kinds (`TestallSteps`): without
memory, where every slot is kept, and the write-back, which by `TestallInv` stores
either null handles everywhere or what the slots held (`RoundTrip`). All three
rest on the slots of a call being its own (`HoldersAreCalling`), so other
threads that start or complete operations meanwhile change none of this.

### CfiDatatypeProofs.tla

For all constants that satisfy `CfiAssumption` (any rank up to 15, extents and
strides, element sizes and counts that are C integers; only a last extent may be -1; the
bases, lengths and extent of a user-defined type are natural numbers):

- `DatatypeTypeCorrect`, `LoopsFillArray`, `SelectionCorrect`: `Spec => []...` of
  TypeOK, EachDisplacementWrittenOnce and SelectsInElementOrder.

The inductive invariant `DatatypeInv` says that types are kept, that a predefined type
is refused when an extent is no C integer (`RefusedInv`), and `IInv` when all are (`Fits`): the
loops then run to the array's own extents (`LoopExtentFits`). What a user-defined type
gets of an array with larger extents is not stated, and TLC alone looks at it.
`IInv` has a part per place of the function. In the
loops (`LoopInv`) the current loop indices are the digits, the extents the
radices of the number `offset` (`Numbers`). From this follow both that the
loops end exactly when the array of displacements is full (indices at their
ends in every dimension have the number `total_elems - 1`) and that the program
never writes behind it. The next indices are the immediate successor of these
(`GoesOn`), so `visited`, with what is known of it so far (`EnumerationInv`),
stays in element order. `CreatedInv` says that a type was built from a list of
subscripts in element order, one displacement for each; for the vectors this
is arithmetic on quotient and remainder (`DivMod`, `DivModNext`). `type_size =
elem_len` of a successful call follows from the size check alone. Recursive functions
over the dimensions are handled by `UpTo15`, an induction on sets of numbers
up to 15 in explicit steps, because the library's induction theorems take an
operator as a parameter and are out of the prover's reach. (Where a least
element is enough, its `WFMin` is a statement about sets and is cited.)

- `IndexedCorrect`, `LegalSucceeds`: `Spec => []...` of IndexedSelectsTypeElements and
  LegalCallSucceeds, under `SupportedTypes(Calls)`.

`SupportedTypes` (module CfiDatatype) says when the code treats user-defined types as
MPI does: the segments of the I/O vector follow one another, also from one
repetition to the next, and there is one repetition, or the elements are single bytes, so
that the extent in bytes is a number of elements (run `repeat` shows the other
cases). Calls of predefined types are not restricted. TLC evaluates it for the calls of run
`descriptors` (`SupportedTypesAssumption`), which include repeated types of bytes.

The count of distinct elements needs no induction over the I/O vector: the loops over it are
steps, and `SegmentInv` says that what was picked so far is a rising list
of the elements of the segments passed (`PickedBy`), all of them below the start of the
segment that comes next (`SupportedSegments`). At the end the list is a bijection onto the elements of
the type (`RisingCount`), which gives both how many there are and which is the k-th.
LegalCallSucceeds uses the same count for the limit of INT_MAX displacements, and
`CreatedInv` for the size check.

### CollectivesProofs.tla

For any finite number of processes and all programs that satisfy
`ProgramsAssumption` (counts are not negative; in a reduction the processes
give the same count and datatype, as MPI requires):

- `MeetInSameCall`, `NoTypeLeft`, `AbortHasCause`: `Spec => []...` of
  CollectivesMatch, TypesReleased and AbortsOnlyUnsupported.
- `TypeCorrect`: `Spec => []TypeOK`.
- `ResultsPacked`: `Spec => []ResultAsIfPacked`, under `LegalCollectives`.

`WrapperStep` puts each step of each routine into one of five classes
(enter, reject, abort, create, return). CollectivesMatch is not inductive: that
two processes agree on their n-th collective follows from their agreement on the
one before, because all calls in between were refused in one process, and a
call is refused in all processes or in none (`Refused` depends on the call
alone, which is where the assumption on datatypes is used). `RoundsInv` and
`ProgressInv` say that only refused calls were skipped. That the arguments agree
on the datatype is needed: without it the code refuses a reduction in one process only.

`NoTypeLeft` needs that what a routine frees is what it made: `Made(p)` is the sections that the
routine of a call makes types for, read off the conditions under which it creates them, and the
invariant says that a process has types of these sections only (`TempInv`). Each
routine is a case, in which the sections it frees are shown to be `Made(p)`; one that freed
less on some path would fail there.

`TypeCorrect` rests on `TypeInv`. The arrays keep integers because what a process takes
is what others gave, which is recorded in `coll` (`DataInv`), and a reduction has the same
elements of every process (here the equal counts are used); `InsideInv` says that a
process inside the library is in the collective it entered last, `BuildInv` that without
descriptors there are no sections with gaps.

`LegalCollectives` (module Collectives) says what MPI asks of buffers: what is sent
to a process lies in the sender's array and is as much as the process receives
(`LegalTransfer`), datatypes whose elements have gaps are not used, and a section that is not
contiguous is one block of elements of one cell. Calls that the wrappers refuse or abort
are not restricted. TLC evaluates it for the programs of runs `collectives` and
`sendrecv` (`LegalProgramsAssumption`); the programs of run `sections`, which shows what a section
with a block for each process becomes, do not satisfy it.

ResultAsIfPacked compares the arrays after a call with those before it, which no
variable of the code holds; `given` has what each process's arrays were at the call.
The invariant of `ResultsPacked` is `ResultInv`, which follows the data: `TempInv` (a
temporary datatype is that of its section), `GivenInv` (`given` has the arrays as they were,
until the process leaves), `SentInv` (what a process gave to a collective are the elements
of its section, in order: `SentElement`), `TakenInv` (what a process inside a
collective will get from each sender goes to the elements of its section, in order) and
`DoneInv` (the arrays of a process that has left). Leaving is the step that does the
work: the library places element k where element k of the section is, through a temporary
datatype or directly, and writes no other cell; that the elements come from the senders of
the same call uses CollectivesMatch; that a reduction's sum over the processes is
that of the property uses `SumMoved`.

Both are theorems of `Spec`, programs of collectives. With point-to-point calls
(`MPISpec`) these two properties are only model-checked: a receive that is
pending may fill an array while a collective uses it, so a program would also have to keep
the sections of its pending receives apart from those of its collectives.

### PointToPointProofs.tla

- `MPIMeetInSameCall`, `MPINoTypeLeft`, `MPIAbortHasCause`: the same three
  properties for `MPISpec`, that is in programs that also send, receive, probe and
  pack between their collectives.

For the collectives a point-to-point round is like a call refused in all
processes: no process takes part in the library's collective (`Refused`). So
the invariants of CollectivesProofs hold with the same classes; what is new is
that every step of mpi_p2p.c is in one of two more, which leave collectives
alone: `MoveStep` (a process goes on in its call) and `MatchStep` (only memory,
messages and receives change). The module also has what the next two use: the
control state of a process (`Called`, `StepControl`: what each step does to pc,
round and op), and the datatypes of sections (`TempInv`: a temporary type is that of
its section; `PassedSize`: what is passed has as many elements as the section).

### DeliveryProofs.tla

- `ElementsDelivered`: `MPISpec => DeliversElements`, for any processes,
  counts, strides and datatypes of `TypesAssumption`, under `SendrecvAlike`: the
  programs have no exchange from a contiguous buffer into a section with gaps (what
  happens in those is run `sendrecv`).

`TypesAssumption` says that datatypes are dense and that sections with gaps
have elements of one cell (others are CfiDatatype's subject). The heart is
`PassedCells`: a buffer, however it is passed to the library (as elements, or
as one element of the section's type), covers exactly the cells of its section's
elements, in order. `GoodReceive` and `GoodMessage` carry this from the call that
posted a receive or sent a message to the moment the library matches them,
whatever is done in between; the other parts of `DeliveryInv` say that temporary
types are those of their sections (`TempInv`), that library state is about calls
already made (`LibraryInv`), that calls not yet made received nothing
(`GotInv`), and that memory is defined (`MemoryInv`). Steps fall into
`QuietStep` (neither memory nor `got` changes), Mprobe, `Copy`, `Match` and
leaving a collective; the property holds for each class.

### EnvelopeProofs.tla

For any processes, with integers as arguments and wildcards that are no ranks or
tags (`ConstantsAssumption`, `ArgumentsAssumption` of PointToPoint):

- `MPITypeCorrect`: `MPISpec => []P2PTypeOK`.
- `PositionsCount`: `MPISpec => []PositionCounts`.
- `ReceivesAgree`: `MPISpec => []EnvelopesAgree`, under `LegalReceives`.

`LegalReceives` says what the programs may do: no call passes the library's own
wildcards (the program's are other integers, which the library refuses), and
a receive by handle follows a matched probe with its variable, with no other use of
that variable in between. A variable keeps a stale integer after its receive, because
Mrecv does not write the null message back; a program that uses it again
gets whatever message has that integer by then. All programs of run
`collectives` are legal in this sense.

The steps of a process are sorted by what they do to messages and receives
(`OwnPlain`, `OwnTakes`, `OwnReceives`, ...; `OthersKeep` for the other processes).
EnvelopesAgree is about the past of a call, so the invariant follows a
message through it: `KeptInv` says that the variables of live probes have
different integers and each names the message its probe reported, although
the library uses integers again; `AsksFor` carries what a receive was posted
for to the moment the library matches it; `SeenInv` and `AgreeInv` say what the
status of a call that waits tells, when it ends.

PositionCounts compares the program's position with the sum of what its calls
copied since the last that went back to the start. The sum is an invariant of every
state, not only of those after a pack (`CountOf`): a call adds its own term
(`CountCopy`), which is 0 when it is refused, or is the only term when it
restarts; all other steps leave the terms alone (`CountKeep`). That a term is
what the position moved by is `PassedSize`: the library counts elements of the
datatype it is given, the property those of the section.

### SumProofs.tla

The models count and reduce with `SumFunction` of the community modules, which
adds the values of a function by recursion over subsets, in an order CHOOSE picks.
The module proves that the sum exists, is an integer, has any term
taken out (`SumOut`) and is the same for functions with the same values
(`SumEqual`, `SumMoved`: under a bijection). Induction theorems take an operator as
a parameter and cannot be used, so induction on the size of a set is by a
smallest counterexample (`SubsetInduction`, from the library's WFMin).

### ObjectCallsProofs.tla

For all variables, programs, integers and numberings that satisfy
`HandlesAssumption` (the library's integers differ and none is a constant of
Vapaa's), `NumbersAssumption` (its error classes differ and are not success) and
`ModesAssumption` (a set of modes is one of names):

- `ObjectsTypeCorrect`, `OwnObjects`, `ObjectsAreKept`, `RightHandlesAccepted`,
  `ErrorsReturned`: `Spec => []...` of ObjectsTypeOK, HandlesOwnObject,
  NoObjectLost, RefusedOnlyInvalid and ErrorsReachProgram.
- `AnswersAreTrue`: `Spec => []AnswersTrue`, if the library numbers thread levels and
  comparison results as Vapaa does (`NumbersAlike`).

`IInv` has what a call reports (`ReportOK`) and what objects and variables are
(`StateOK`), which are treated apart: a routine is one of the shapes of the
table above with its conversions, so there are lemmas about the shapes
(`CreateSafe`, `FreeStateSafe`, `QuerySafe`, ...), lemmas that the converted
arguments are handles the library knows whenever the program had a right to them
(`CommArgument`, ...), and a short case for each routine. That a new object takes an
integer no variable holds as its object's follows from NoObjectLost together
with HandlesOwnObject; neither is inductive alone. RefusedOnlyInvalid for files needs that
modes survive the translation by bits: `Known` (an object's mode is the mode
asked for) and `ModeArrives`, which holds because the program's constants are
different powers of two. ErrorsReachProgram rests on `ErrorsHandled`: before
initialisation there are no objects, MPI_Init makes both predefined communicators
return errors, and a communicator made later inherits that from its parent.

`NumbersAlike` is true of MPICH and Open MPI, which number these as Vapaa's
constants do. It is needed: mpi_core.c and mpi_group.c convert levels and results
that come from the library with the macro for the other direction, which is right only if
both sides agree.

### Only model-checked

TypeOK and ResultAsIfPacked of Collectives when the programs also have point-to-point calls. TLAPS cannot prove liveness under
fairness: `CallsReturn` and `PollingCompletes` rest on the runs.

## 5. Plan

1. Requests (done): RequestSet, Requests, RequestsProofs.
2. Descriptor datatypes (done): CfiDatatype, CfiDatatypeProofs.
3. Collectives (done): Collectives, SumProofs, CollectivesProofs.
4. Point-to-point calls and matching, composed with the collectives (done):
   PointToPoint, PointToPointProofs, DeliveryProofs, EnvelopeProofs.
5. Initialisation, communicators, groups, info objects, datatypes, operations,
   files, error classes (done): Objects, ObjectCalls, ObjectCallsProofs.
6. To prove: TypeOK and ResultAsIfPacked for `MPISpec`.
7. To model: sections of higher rank in PointToPoint and Collectives with the
   types of CfiDatatype; library errors of collectives other than a bad root.

## 6. Not modelled

See the component list of PROJECT.json. In Requests: MPI_Request_get_status
(argument passed by value against an address: calling convention), the
contents of messages and the buffers of Isend and Irecv (PointToPoint has
them), and statuses beyond the operation they are about. Request_free has no
Fortran interface.

In Collectives: data types and operations by name (a predefined type the list of
detect_builtins.h does not have, such as MPI_2INTEGER, counts as a user's),
overlapping buffers, MPI_BOTTOM, library errors other than a bad root. The C routines
of Gatherv, Allgatherv and Scatterv are modelled although mpi_coll_f.F90 has no
Fortran interface for them.

In PointToPoint: sections of other ranks than one; a Probe that is told to
ignore the status, which writes over the constant MPI_STATUS_IGNORE; the words
of a status other than source and tag. Mrecv and Imrecv are modelled although
they have no Fortran interface.

In ObjectCalls: the characters of names, info keys and values and file names;
a library that writes the handle of an idup only when the operation completes
(MPICH writes it at once); whether a datatype was committed; ranks, sizes and
coordinates; the data of file transfers. Status_set_elements, the names of
communicators and windows, Get_version, Get_library_version, Wtime, Wtick and the
checks of design assumptions keep no state;
C_MPI_OP_F2C (a table of constants) and C_MPI_TYPE_C2F (used by nothing modelled) are left out.

In CfiDatatype: lower bounds (the code only warns), the debug printers, builds
with NO_SEATBELTS that compile the assertions out, libraries without MPICH's
I/O vectors (the function then returns an error at once), I/O vectors whose
segments are not in increasing order, and integer overflow in the arguments of
a call on a user-defined type.
