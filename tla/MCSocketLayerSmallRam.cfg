CONSTANTS
  Clients = {1, 2}
  MaxSock = 1
  Mtu = 1
  TcpSize = 2
  MaxPacket = 3
  MaxSessions = 2
  MaxUnits = 3
  MaxWrites = 1
  MaxFaults = 1
SPECIFICATION Spec
INVARIANTS
  OneRecvOutstanding
  LiveBuffer
