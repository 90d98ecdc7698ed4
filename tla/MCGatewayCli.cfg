CONSTANT
  CLIENT_QUEUE = 2
SPECIFICATION Spec
CHECK_DEADLOCK FALSE
INVARIANT OneAckPerCommand
PROPERTIES ImplementsFifo StopEnds
