CONSTANTS
  ClassOf <- MCClassOf
  Programs <- MCPrograms
  Ids <- MCIds
  Modes <- MCModes
  Null <- MCNull
  MPI_COMM_WORLD <- MCWorld
  MPI_COMM_SELF <- MCSelf
  MPI_INTEGER <- MCInteger
  MPI_THREAD <- MCThread
  MPI_COMPARE <- MCCompare
  MPI_ERR <- MCErr
SPECIFICATION Spec
INVARIANTS ObjectsTypeOK HandlesOwnObject NoObjectLost RefusedOnlyInvalid ErrorsReachProgram AnswersTrue
CHECK_DEADLOCK FALSE
