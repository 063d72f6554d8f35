SPECIFICATION FairSpec
CONSTANTS
  MaxConnections = 2
  MaxPackets = 3
  cMaxBufferSize = 1
CHECK_DEADLOCK FALSE
INVARIANTS ServerInv
PROPERTIES NoGaps GoneClientRemoved
