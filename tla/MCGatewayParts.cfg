CONSTANTS
  Cell = {c1, c2, c3, c4}
  Worker = {w1, w2}
  max_size = 3
  NULL = NULL
  HEADER_SIZE = 2
  BodySize = {1}
  NFrame = 3
  MaxRecord = 4
  MaxWire = 2
  RATE_LIMIT_CAP = 1
SPECIFICATION MCSpec
INVARIANT TasksAreFrames
PROPERTIES ImplementsLossyQueue ResponsesAreFifo FrameTaken
