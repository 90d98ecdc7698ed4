CONSTANTS
  Worker = {w1, w2}
  QUEUE_SIZE = 2
  MsqCap = 1
  NCommand = 2
SPECIFICATION Spec
INVARIANT JobsDrained
PROPERTIES WriterEnds HubEnds
\* When all processes have ended nothing is left to run.
CHECK_DEADLOCK FALSE
