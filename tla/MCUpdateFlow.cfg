SPECIFICATION Spec
CONSTANTS
  Versions = {1, 2}
  MaxFrames = 1
CHECK_DEADLOCK FALSE
INVARIANTS
  CompletionsAreServed
  DownloadIsChosen
PROPERTY OneHandoff
