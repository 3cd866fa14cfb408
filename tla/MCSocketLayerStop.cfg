CONSTANTS
  Clients = {1}
  MaxSock = 1
  Mtu = 1
  TcpSize = 2
  MaxPacket = 3
  MaxSessions = 1
  MaxUnits = 4
  MaxWrites = 0
  MaxFaults = 0
SPECIFICATION Spec
INVARIANT NotBlocked
