CONSTANTS
  Hosts = {11, 12}
  MaxRequests = 2
  MaxBegins = 2
  MaxDrops = 1
  MaxAir = 2
  MaxFaults = 1
SPECIFICATION Spec
INVARIANTS
  WiFiTypes
  StatusTrue
PROPERTIES
  OwnAnswer
