SPECIFICATION DualSpec
CONSTANTS
  Channels = 3
  Samples <- BoundarySamples
  Overrides <- ColdOverride
  NoOverride = NoOverride
  Modules = 2
  ModuleChannels = 2
INVARIANTS
  DualTypeOK
  SummaryIsTrue
  HotNeverHidden
  FramesAgree
  ModulesTellTheTruth
  SummariesAgree
  NoneGoesStale
