CONSTANTS
  b1 = b1
  b2 = b2
  c1 = c1
  f1 = f1
  Buffers = {b1, b2}
  CaptureThreads = {c1}
  Callbacks = {f1}
  Surfaces = {}
  NULL = NULL
  Mjpeg = FALSE
  Convert = FALSE
  Spurious = FALSE
  MAX_FRAME = 1
  MaxImages = 2
  MaxSessions = 1
  MaxRefs = 1
SPECIFICATION FairSpec
PROPERTIES
  StopReturnsUnlessLate
  HeadIsTaken
CHECK_DEADLOCK FALSE
