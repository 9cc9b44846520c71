CONSTANTS
  MaxSends = 2
  BufferSize = 2
  MaxPackets = 2
  SocketRoom = 2
SPECIFICATION FairSpec
INVARIANTS TypeOK InboundOrder
PROPERTIES StartedInTimeIsJoined ImplementsChannel SendReturns DisconnectCompletes
CHECK_DEADLOCK FALSE
