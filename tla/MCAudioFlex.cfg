CONSTANTS
  MaxHalves = 2
  MaxRecordings = 2
  Blocks = 2
  MaxPlays = 2
SPECIFICATION FairSpec
INVARIANTS
  TypeOK
  RecordedInOrder
  PlayedInOrder
  PlayedAll
PROPERTIES
  StopCloses
  PlaybackEnds
