SPECIFICATION Spec
CONSTANTS
  Readings = {1, 2}
  QueueLimit = 1
PROPERTY RestoredWithFreshTelemetry
CHECK_DEADLOCK FALSE
