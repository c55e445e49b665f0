CONSTANTS
  MaxPlugs = 2
  MaxOthers = 1
  MaxQueued = 2
  MaxBlocks = 2
  MaxPosted = 1
  MaxResumes = 2
SPECIFICATION FairSpec
INVARIANTS
  CaptureIsPreview
  ConnectedIsOpen
  PausedIsIdle
  RecordingEndsWithCamera
  
PROPERTIES
  UnpluggedIsReleased
CHECK_DEADLOCK FALSE
