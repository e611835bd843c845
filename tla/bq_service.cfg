SPECIFICATION FairSpec
CONSTANTS
  Interval <- ShortInterval
  FailureThreshold = 3
  PhaseCount = 2
  BootTime = 4
  MaxTurn = 2
INVARIANTS
  TypeOK
  StatusAgrees
  JobsOnTime
  DeathDetectedInTime
PROPERTIES
  DisabledForCause
  FailureIsFinal
