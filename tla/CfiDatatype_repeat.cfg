SPECIFICATION Spec
CONSTANTS
  Calls <- MCSecondCalls
  IntMax = 44
  LibUndefined <- MCLibUndefined
CHECK_DEADLOCK FALSE
INVARIANTS IndexedSelectsTypeElements
