CONSTANTS
  h = h
  l = l
  Fd = {4}
  Worker <- TwoWorkers
  Class <- TwoClasses
  CAPACITY = 1
  NULL = NULL
  NUM_PACKET_TO_SEND = 1
  SndBuf = 1
  MaxConn = 2
  MaxFrame = 2
SPECIFICATION FairSpec
INVARIANTS PendingTaskExact TasksKeepTheirSlot SomeoneAwake
PROPERTY ShutdownCompletes
