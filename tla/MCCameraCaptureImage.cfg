CONSTANTS
  MACROLINES = 3
  Definitions = {3}
  Modes = {"single_capture"}
  MaxRequests = 3
SPECIFICATION Spec
INVARIANT ImageAlone
