SPECIFICATION FairSpec
CONSTANTS
  Period <- ShortPeriod
  EventCountMax = 2
  Segments = 3
  ThermCount = 1
  TxFifoDepth = 2
  LoopKeepsPace = FALSE
  BusKeepsPace = FALSE
PROPERTIES
  SegmentsInOrder
  ImplementsMailbox
  ClaimAndBmsKeepComing
