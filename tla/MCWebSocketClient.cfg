CONSTANTS
  MaxUnits = 3
  MaxFrames = 2
  MaxConnections = 2
  MaxRx = 2
SPECIFICATION FairSpec
INVARIANTS
  TypeOK
  MessagesWhole
  
PROPERTIES
  LossNoticed
CHECK_DEADLOCK FALSE
