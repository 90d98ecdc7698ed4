CONSTANTS
  Program = {"controller", "monitor", "sensor"}
  MaxObject = 2
  MaxStart = 4
SPECIFICATION Spec
INVARIANT Exclusive
CHECK_DEADLOCK FALSE
