CONSTANTS
  Kinds = {"whole", "split", "discard", "ignored", "big", "empty", "badGroup"}
  Chunks = 3
  MaxPosts = 3
  MaxFaults = 2
  MaxSends = 1
SPECIFICATION FairSpec
INVARIANTS
  TypeOK
  NoInterruptLost
  DecrementNotRaced
  ReadsOwnPacket
  AwakeOnAccess
  WakeBalanced
PROPERTIES
  TakenOnceInOrder
  ReleasedUnlessDropped
