SPECIFICATION FairSpec
CONSTANTS
  cMaxBufferSize = 1
  maxRetries = 1
  MaxPackets = 2
  MaxReports = 2
  MaxLosses = 1
CHECK_DEADLOCK FALSE
INVARIANTS LinkInv
PROPERTIES InOrder EveryPacketEnds MoteIsHeard
