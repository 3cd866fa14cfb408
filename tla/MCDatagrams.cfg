CONSTANTS
  Hdr = 2
  Mtu = 2
  UdpSize = 8
  MaxSize = 4
  MaxDatagrams = 3
  MaxSessions = 3
  MaxFaults = 1
SPECIFICATION FairSpec
INVARIANTS
  UdpTypes
  DatagramsWhole
  Receiving
PROPERTIES
  MethodsReturn
