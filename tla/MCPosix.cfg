CONSTANTS
  MAX_MSQ = 2
  MaxMsg = 2
  Program = {"controller", "monitor", "sensor"}
  Actor = {a1, a2, a3}
  Value = {v1, v2}
  capacity = 2
  MaxDrop = 1
  NULL = NULL
SPECIFICATION MCSpec
PROPERTIES RingIsFifo DrainedUnlessRaced ShutdownEnds
\* A program may block for ever in mq_send on a full queue.
CHECK_DEADLOCK FALSE
