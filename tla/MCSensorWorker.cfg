SPECIFICATION Spec
CONSTANTS
  Readings = {1, 2}
  QueueLimit = 1
INVARIANTS
  PauseIsObserved
  NoSnapshotLost
  ExtremaMatchSession
  OsdHiddenUntilServed
PROPERTIES
  ResumeIsServed
  ResetIsHonoured
  CloseTerminates
CHECK_DEADLOCK FALSE
