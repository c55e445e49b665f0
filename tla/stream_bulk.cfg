CONSTANTS
  t1 = t1
  t2 = t2
  Transfers = {t1, t2}
  Bulk = TRUE
  PacketFaults = {"short"}
  DeviceFaults = {}
  Parts = 2
  PerTransfer = 1
  SizeBuf = 3
  MaxPackets = 6
  MaxFaults = 3
  MaxSessions = 1
SPECIFICATION FairSpec
INVARIANTS
  WithinBuffers
PROPERTIES
  StopReturns
  PublishedIsTaken
CHECK_DEADLOCK FALSE
