SPECIFICATION Spec
CONSTANTS
  MaxCameras = 2
  MaxReports = 2
  MaxControls = 2
  MaxOpens = 1
  MaxFd = 3
INVARIANTS
  HandleOutlivesEvents
  DeletedStatusUnused
  OwnDescriptorOnly
  DeviceReferences
PROPERTIES
  ControlReturns
  ReportsReaped
  ReleaseReturns
CHECK_DEADLOCK FALSE
