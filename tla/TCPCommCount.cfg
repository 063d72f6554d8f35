SPECIFICATION Spec
CONSTANTS
  MaxConnections = 3
  MaxPackets = 1
  cMaxBufferSize = 1
CHECK_DEADLOCK FALSE
INVARIANTS CountIsClients
