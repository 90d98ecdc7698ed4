CONSTANTS
  RESEND_NUM = 3
  FIFO_CAP = 2
  MaxPkt = 3
  Leftover = {{}, {"cmd"}, {"cmd", "log"}, {"cmd", "log", "ack"}, {"log", "ack"}, {"ack"}}
  MkfifoFails = {"cmd"}
  UninitFlag = {FALSE, TRUE}
  UninitNum = {0, 1, 2}
  WorkerMayDie = TRUE
SPECIFICATION FairSpec
INVARIANTS AckBeforeNext ExecutedAsSent
PROPERTIES WaitEnds StoredTaken
\* After main's exit nothing is left to run.
CHECK_DEADLOCK FALSE
