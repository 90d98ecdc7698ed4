CONSTANTS
  MAX_CLIENTS = 1
  Worker = {w1, w2}
  TASK_QUEUE_MAX = 2
  MaxConn = 2
  MaxRequest = 2
  NULL = NULL
  MaxRestart = 2
  Captures = {TRUE, FALSE}
  WorkerMay = {"stop", "close"}
  PIPE_SIZE = 2
SPECIFICATION MCSpec
INVARIANTS RightRecipient AtMostOneAnswer NoStrandedResponse KillFindsItsTarget
PROPERTIES ShutdownCompletes TimeoutEnforced TermEnds
