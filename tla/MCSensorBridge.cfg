\* Copies against publications and restarts: two publications of different
\* lengths, two incarnations of the service, and a clock on which a snapshot may
\* be taken at once, after one tick, or not any more.
CONSTANTS
  s1 = s1
  Slots <- MCSlots
  Lives <- MixedLives
  MaxAge = 1
  ConnectInterval = 0
  Attempts = 1
  MaxTime = 3
  MaxSnapshots = 2
  MaxEpochs = 2
SPECIFICATION Spec
INVARIANTS
  TypeOK
  TakenIsWhole
  NeverShowsDeadService
PROPERTIES
  ImplementsBoard
  StampsMoveForward
CHECK_DEADLOCK FALSE
