----------------------------- MODULE RequestSet -----------------------------
(***************************************************************************)
(* What the request variables of a Fortran program promise, whatever the   *)
(* bindings do behind them.  A slot of the program's request array names   *)
(* at most one operation; the operation is started into the slot once,     *)
(* finishes on its own, and leaves the slot only after it has finished.    *)
(* Requests.tla implements this specification.                             *)
(***************************************************************************)
EXTENDS Naturals

CONSTANTS Slots,   \* the elements of the program's array of requests
          Ops,     \* the communication operations of the program
          NoOp     \* what a slot with a null request names

VARIABLES held,      \* the operation each slot names
          started,   \* the operations started so far
          finished   \* the started operations that have completed

absVars == <<held, started, finished>>

AbsTypeOK ==
  /\ held \in [Slots -> Ops \cup {NoOp}]
  /\ started \in SUBSET Ops
  /\ finished \in SUBSET started

AbsInit ==
  /\ held = [s \in Slots |-> NoOp]
  /\ started = {}
  /\ finished = {}

\* A nonblocking operation is started into a slot that names nothing.
StartOp(s, o) ==
  /\ held[s] = NoOp
  /\ o \in Ops \ started
  /\ held' = [held EXCEPT ![s] = o]
  /\ started' = started \cup {o}
  /\ UNCHANGED finished

\* The peer's matching operation completes it.
FinishOp(o) ==
  /\ o \in started \ finished
  /\ finished' = finished \cup {o}
  /\ UNCHANGED <<held, started>>

\* A wait or a test takes the finished operations of the slots S away.
Collect(S) ==
  /\ \A s \in S : held[s] \in finished
  /\ held' = [s \in Slots |-> IF s \in S THEN NoOp ELSE held[s]]
  /\ UNCHANGED <<started, finished>>

AbsNext ==
  \/ \E s \in Slots, o \in Ops : StartOp(s, o)
  \/ \E o \in Ops : FinishOp(o)
  \/ \E S \in SUBSET Slots : Collect(S)

AbsSpec == AbsInit /\ [][AbsNext]_absVars
=============================================================================
