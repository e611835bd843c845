SPECIFICATION FairSpec
CONSTANTS
  Period <- RealPeriod
  EventCountMax = 3
  Segments = 4
  ThermCount = 3
  TxFifoDepth = 3
  LoopKeepsPace = TRUE
  BusKeepsPace = TRUE
INVARIANTS
  TypeOK
  OnlyLateClaimRefused
  AtMostTwoClaimDeferrals
PROPERTIES
  ThermistorsInOrder
  BmsEverySlot
  EverySegmentBroadcast
  BacklogDrains
