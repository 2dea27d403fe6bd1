SPECIFICATION MPISpec
CONSTANTS
  Procs = {0, 1}
  NumCells = 8
  Programs <- MCPointToPointPrograms
  TypeMap <- MCTypeMap
  BuiltinTypes = {"MPI_INTEGER"}
  BuiltinOps = {"MPI_SUM"}
  MPI_PROC_NULL <- MPICH_PROC_NULL
  MPI_ANY_SOURCE <- MPICH_ANY_SOURCE
  MPI_ANY_TAG <- MPICH_ANY_TAG
  MessageIds = {2, 3}
  HandleVars = {"a", "b"}
INVARIANTS TypeOK P2PTypeOK TypesReleased CollectivesMatch AbortsOnlyUnsupported ResultAsIfPacked
  EnvelopesAgree PositionCounts
PROPERTIES CallsReturn DeliversElements
CHECK_DEADLOCK FALSE
