CONSTANTS
  Kinds = {"whole"}
  Chunks = 2
  MaxPosts = 2
  MaxFaults = 1
  MaxSends = 0
SPECIFICATION FairSpec
PROPERTY AlwaysReleased
