SPECIFICATION Spec
CONSTANTS
  Versions = {1}
  MaxFrames = 1
CHECK_DEADLOCK FALSE
PROPERTIES
  CloseEnds
  ComesBack
