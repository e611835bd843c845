SPECIFICATION Spec
CONSTANTS
  Period <- RealPeriod
  EventCountMax = 3
  Segments = 4
  ThermCount = 3
  TxFifoDepth = 3
  LoopKeepsPace = TRUE
  BusKeepsPace = TRUE
INVARIANTS
  AtMostOneClaimDeferral
