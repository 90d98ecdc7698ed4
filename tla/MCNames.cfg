CONSTANTS
  w1 = w1
  w2 = w2
  Writer = {w1, w2}
  Reader = {r1}
  BUFFER_LINES = 2
  Inode = {1, 2, 3, 4, 5, 6}
  MaxCrash = 2
  MaxFail = 1
  NULL = NULL
  Proc = {h, w, m}
  Hub = {h}
  Monitor = {m}
  Resetter = {w}
  MaxId = 3
  Program = {"controller", "sensor"}
  MaxObject = 2
  MaxStart = 5
SPECIFICATION MCSpec
INVARIANTS  WritesApplied MutualExclusion ExclusiveUnlessSpoilt Together
PROPERTY StartSucceeds
\* When all processes have ended nothing is left to run.
CHECK_DEADLOCK FALSE
