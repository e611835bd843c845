SPECIFICATION Spec
CONSTANTS
  Requests <- AllRequests
  Polls <- FaultPolls
  FailureThreshold = 3
  GlitchKinds <- AnyGlitch
  OverrunReported = TRUE
  MaxGlitches = 3
INVARIANTS
  TypeOK
  NoForeignAnswer
  CleanReadSucceeds
  OwnAnswer
CHECK_DEADLOCK FALSE
