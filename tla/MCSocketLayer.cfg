CONSTANTS
  Clients = {1, 2}
  MaxSock = 2
  Mtu = 2
  TcpSize = 2
  MaxPacket = 2
  MaxSessions = 2
  MaxUnits = 2
  MaxWrites = 0
  MaxFaults = 1
SPECIFICATION FairSpec
INVARIANTS
  TypeOK
  StreamInOrder
  NeverFull
  HandlesOwn
  SocketsHeld
  LiveBuffer
  Listening

  
