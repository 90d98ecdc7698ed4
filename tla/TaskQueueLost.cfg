CONSTANTS
  Cell = {c1, c2, c3}
  Worker = {w1}
  max_size = 3
  NULL = NULL
SPECIFICATION Spec
INVARIANT AcceptedTasksReachable
