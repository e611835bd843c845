SPECIFICATION Spec
CONSTANTS
  DeviceAddr = 1
  DummyCount = 8
INVARIANTS
  OneLostAnswerTolerated
  FailedOnlyIfUnsent
PROPERTY
  BringUpEnds
CHECK_DEADLOCK FALSE
