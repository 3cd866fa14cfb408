CONSTANTS
  MACROLINES = 3
  Definitions = {1, 3}
  Modes = {"single_capture", "single_2sdcard"}
  MaxRequests = 3
SPECIFICATION FairSpec
INVARIANTS
  TypeOK
  DmaInBuffer
  RowsInOrder
  PictureOfOneFrame
PROPERTIES
  SnapshotCompletes
