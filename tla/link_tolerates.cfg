SPECIFICATION Spec
CONSTANTS
  Requests <- AllRequests
  Polls <- FaultPolls
  FailureThreshold = 3
  GlitchKinds <- DamagedInit
  OverrunReported = TRUE
  MaxGlitches = 1
INVARIANTS
  OneGlitchTolerated
CHECK_DEADLOCK FALSE
