SPECIFICATION FairSpec
CONSTANTS
  Routines = {"Irecv", "Wait", "Waitall", "Waitany", "Waitsome",
              "Test", "Testall", "Testany", "Testsome"}
  Threads = {t1}
  NoThread = NoThread
  NumSlots = 3
  Lib = {1, 2}
  MPI_REQUEST_NULL = 0
  ReqInt <- MCReqInt
  Ops = {a, b}
  NoOp = NoOp
  MayFail = {a}
  EmptyStatus = EmptyStatus
  Unset = Unset
  LibUndefined <- MCLibUndefined
  LibStatusWords = 5
  LibSourceWord = 2
  MaxLost = 0
INVARIANTS AnyIndexNamesCompleted
PROPERTIES TestallAllOrNothing CallsReturn PollingCompletes
