CONSTANTS
  MaxSends = 1
  BufferSize = 1
  MaxPackets = 1
  SocketRoom = 1
SPECIFICATION Spec
INVARIANT WaitLoopWaits
CHECK_DEADLOCK FALSE
