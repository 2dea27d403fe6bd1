SPECIFICATION Spec
CONSTANTS
  Procs = {0, 1}
  NumCells = 8
  Programs <- MCSectionPrograms
  TypeMap <- MCTypeMap
  BuiltinTypes = {"MPI_INTEGER"}
  BuiltinOps = {"MPI_SUM"}
INVARIANTS ResultAsIfPacked
CHECK_DEADLOCK FALSE
