CONSTANTS
  t1 = t1
  t2 = t2
  Transfers = {t1, t2}
  Bulk = FALSE
  PacketFaults = {"bad", "short", "empty", "error"}
  DeviceFaults = {"unplug", "open", "start", "submit", "resubmit"}
  Parts = 2
  PerTransfer = 2
  SizeBuf = 9
  MaxPackets = 7
  MaxFaults = 3
  MaxSessions = 2
SPECIFICATION Spec
SYMMETRY Symmetry
INVARIANTS
  DeliveredWhole
  DeliveredOneImage
  CloseIsQuiet
PROPERTIES
  ImplementsChannel
CHECK_DEADLOCK FALSE
