SPECIFICATION Spec
CONSTANTS
  MaxCameras = 1
  MaxReports = 0
  MaxControls = 0
  MaxOpens = 0
  MaxFd = 3
INVARIANT
  ClosedHandlerReturns
CHECK_DEADLOCK FALSE
