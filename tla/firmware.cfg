SPECIFICATION FairSpec
CONSTANTS
  Period <- ShortPeriod
  EventCountMax = 1
  Segments = 1
  ThermCount = 1
  TxFifoDepth = 3
  BusKeepsPace = TRUE
  Interval <- ShortInterval
  FailureThreshold = 2
  PhaseCount = 1
  BootTime = 1
  MaxTurn = 1
  TicksPerInterrupt = 1
INVARIANTS
  FewSummariesMiss
PROPERTIES
  ImplementsService
  ImplementsSchedule
  FrozenVoltagesFlagged
  DeathIsSeen
