CONSTANTS
  b1 = b1
  b2 = b2
  b3 = b3
  c1 = c1
  f1 = f1
  w1 = w1
  Buffers = {b1, b2, b3}
  CaptureThreads = {c1}
  Callbacks = {f1}
  Surfaces = {w1}
  NULL = NULL
  Mjpeg = TRUE
  Convert = FALSE
  Spurious = TRUE
  MAX_FRAME = 1
  MaxImages = 2
  MaxSessions = 1
  MaxRefs = 2
SPECIFICATION Spec
SYMMETRY Symmetry
PROPERTIES
  LeakOnlyWhenStopped
CHECK_DEADLOCK FALSE
