CONSTANTS
  b1 = b1
  b2 = b2
  b3 = b3
  b4 = b4
  c1 = c1
  f1 = f1
  Buffers = {b1, b2, b3, b4}
  CaptureThreads = {c1}
  Callbacks = {f1}
  Surfaces = {}
  NULL = NULL
  Mjpeg = FALSE
  Convert = TRUE
  Spurious = FALSE
  MAX_FRAME = 2
  MaxImages = 3
  MaxSessions = 1
  MaxRefs = 1
SPECIFICATION Spec
SYMMETRY Symmetry
INVARIANTS
  FramesHaveOneOwner
  WithinCapacity
  LeaksPerSession
  StopQuiesces
PROPERTIES
  LeakOnlyWhenStopped
  ImplementsChannel
CHECK_DEADLOCK FALSE
