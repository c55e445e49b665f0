CONSTANTS
  t1 = t1
  t2 = t2
  Transfers = {t1, t2}
  Bulk = FALSE
  PacketFaults = {}
  DeviceFaults = {"unplug"}
  Parts = 2
  PerTransfer = 2
  SizeBuf = 9
  MaxPackets = 2
  MaxFaults = 0
  MaxSessions = 1
SPECIFICATION Spec
SYMMETRY Symmetry
INVARIANTS
  StreamsEnd
CHECK_DEADLOCK FALSE
