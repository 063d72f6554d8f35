SPECIFICATION QueuesSpec
CONSTANTS
  Clients = {0, 1, 2, 3}
  size = 4
  NO_ENTRY = 255
INVARIANTS QueuesInv
PROPERTIES RefinesFifo OvertakenOnce
