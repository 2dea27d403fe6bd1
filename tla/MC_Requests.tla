---------------------------- MODULE MC_Requests ----------------------------
(* Instances of Requests for TLC, with the numbers of MPICH. *)
EXTENDS Requests, TLC

\* MPICH: MPI_REQUEST_NULL is 0x2c000000, request handles are small offsets of
\* negative bases; MPI_UNDEFINED is -32766; MPI_Status is five ints.
MCReqInt == [r \in CReq |-> IF r = 0 THEN 738197504 ELSE -1677721600 + r]
MCLibUndefined == -32766

\* Threads are interchangeable.
ThreadSymmetry == Permutations(Threads)
=============================================================================
