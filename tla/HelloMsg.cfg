SPECIFICATION Spec
CONSTANT
  Faults = {"cuda"}
INVARIANT MsgIsAllocated
CHECK_DEADLOCK FALSE
