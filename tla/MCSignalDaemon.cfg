CONSTANTS
  Worker = {w1, w2}
  QUEUE_CAP = 1
  Param = {sample_rate, delay}
  MaxSignal = 2
  MaxReplace = 1
  MaxLocked = 1
  NULL = NULL
SPECIFICATION FairSpec
PROPERTIES SigtermEnds ChangeIsLoaded
