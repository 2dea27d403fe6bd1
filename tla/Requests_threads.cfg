SPECIFICATION Spec
CONSTANTS
  Routines = {"Isend", "Wait", "Waitall", "Testany"}
  Threads = {t1, t2}
  NoThread = NoThread
  NumSlots = 2
  Lib = {1, 2}
  MPI_REQUEST_NULL = 0
  ReqInt <- MCReqInt
  Ops = {a, b}
  NoOp = NoOp
  MayFail = {a}
  EmptyStatus = EmptyStatus
  Unset = Unset
  LibUndefined <- MCLibUndefined
  LibStatusWords = 5
  LibSourceWord = 2
  MaxLost = 1
SYMMETRY ThreadSymmetry
INVARIANTS TypeOK HandlesOwnOperation NoOrphanRequest WaitallCompletesAll
PROPERTY ImplementsRequestSet
