SPECIFICATION MoteFairSpec
CONSTANTS
  ACK_QUEUE_SIZE = 1
  SERIAL_MTU = 3
INVARIANTS BuffersApart TransmitterAwake
PROPERTIES StopDoneIsAsked EverySendCompletes EveryStopEnds
