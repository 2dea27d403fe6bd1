SPECIFICATION Spec
CONSTANTS
  Calls <- MCCalls
  IntMax = 44
  LibUndefined <- MCLibUndefined
CHECK_DEADLOCK FALSE
INVARIANTS TypeOK SelectsInElementOrder EachDisplacementWrittenOnce IndexedSelectsTypeElements LegalCallSucceeds
